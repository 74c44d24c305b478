---------------------------- MODULE MuxManager ----------------------------
(***************************************************************************)
(* The memory-mode manager in front of the shards, mux_local/              *)
(* mux_manager.go, with the HTTP handlers that call it: announces of       *)
(* biz/handler/announce.go and the block lists of biz/handler/admin.go.    *)
(*                                                                         *)
(* An announce asks the three block lists one after the other and then the *)
(* shard; a ban is first added to its list and then, for a torrent, takes  *)
(* the torrent out of its shard.  No lock spans two of these steps.  The   *)
(* lists are sets, as BanItem and IPFilter promise, and the shards the set *)
(* of what they list.                                                      *)
(***************************************************************************)
EXTENDS Integers, Sequences

CONSTANTS
  Calls,                \* announces, each made at most once
  Admins,               \* administrator's requests under way
  InfoHash, PeerID, IP,
  Requests,             \* announces clients may make
  Orders,               \* requests the administrator may make
  AddFails,             \* a change of a block list may fail
  MaxPeersPerTorrent,   \* config Tracker.Memory.MaxPeersPerTorrent
  None

Target == ({"hash"} \X InfoHash) \cup ({"peer"} \X PeerID) \cup ({"ip"} \X IP)
Request == [hash : InfoHash, peer : PeerID, ip : IP \cup {None}, valid : BOOLEAN,
            stopped : BOOLEAN, numWant : Int]
Order == [op : {"ban", "unban", "clear", "delete"}, kind : {"hash", "peer", "ip"}, targets : Seq(Target)]

ASSUME MuxAssumption ==
  /\ Requests \subseteq Request
  /\ Orders \subseteq Order
  /\ AddFails \in BOOLEAN
  /\ MaxPeersPerTorrent \in Nat \ {0}
  /\ None \notin Request /\ None \notin Order /\ None \notin IP

VARIABLES
  banned,       \* what the three block lists hold
  listed,       \* the peers in the shards: <<hash, peer>>
  req,          \* per call: its request
  stage,        \* per call: where HandleAnnouncePeer is
  want,         \* per call: the NumWant that is passed on
  order,        \* per administrator: the request under way
  todo,         \* its targets, the current one first
  added,        \* the current target is on its list, its torrent still there
  acked,        \* history: targets whose ban has returned and was not cleared
  doomed        \* history: per call, the targets acknowledged since before it

calls == <<req, stage, want>>
admins == <<order, todo, added>>
vars == <<banned, listed, calls, admins, acked, doomed>>

(* A request whose client address is unknown has ip = None. *)
TargetsOf(r) ==
  {<<"hash", r.hash>>, <<"peer", r.peer>>} \cup {<<"ip", i>> : i \in {r.ip} \ {None}}

Init ==
  /\ banned = {}
  /\ listed = {}
  /\ req = [c \in Calls |-> None]
  /\ stage = [c \in Calls |-> "idle"]
  /\ want = [c \in Calls |-> 0]
  /\ order = [a \in Admins |-> None]
  /\ todo = [a \in Admins |-> <<>>]
  /\ added = [a \in Admins |-> FALSE]
  /\ acked = {}
  /\ doomed = [c \in Calls |-> {}]

-----------------------------------------------------------------------------
(* Announce.                                                               *)

(* The number of peers a client may ask for. *)
NumWant(n) ==
  LET m == IF n > MaxPeersPerTorrent THEN MaxPeersPerTorrent ELSE n
  IN  IF m <= 0 \/ m > 500 THEN 50 ELSE m

(* The handler: a bad request is answered at once. *)
BadRequest(c, r) ==
  /\ stage[c] = "idle" /\ ~r.valid
  /\ req' = [req EXCEPT ![c] = r]
  /\ stage' = [stage EXCEPT ![c] = "done"]
  /\ UNCHANGED <<banned, listed, want, admins, acked, doomed>>
Begin(c, r) ==
  /\ stage[c] = "idle" /\ r.valid
  /\ req' = [req EXCEPT ![c] = r]
  /\ want' = [want EXCEPT ![c] = NumWant(r.numWant)]
  /\ stage' = [stage EXCEPT ![c] = "hash"]
  /\ doomed' = [doomed EXCEPT ![c] = acked \cap TargetsOf(r)]
  /\ UNCHANGED <<banned, listed, admins, acked>>

(* The checks, in the order of the code. *)
After(s) == CASE s = "hash" -> "peer" [] s = "peer" -> "ip" [] OTHER -> "worker"
Asked(c) ==
  CASE stage[c] = "hash" -> <<"hash", req[c].hash>>
    [] stage[c] = "peer" -> <<"peer", req[c].peer>>
    [] OTHER -> <<"ip", req[c].ip>>
PassesMutant(c) ==                 \* mutant: the peer id is looked up in the wrong list
  stage[c] = "peer" \/ (stage[c] = "ip" /\ req[c].ip = None) \/ Asked(c) \notin banned
Passes(c) == (stage[c] = "ip" /\ req[c].ip = None) \/ Asked(c) \notin banned

Check(c) ==
  /\ stage[c] \in {"hash", "peer", "ip"}
  /\ stage' = [stage EXCEPT ![c] = IF Passes(c) THEN After(stage[c]) ELSE "done"]
  /\ UNCHANGED <<banned, listed, req, want, admins, acked, doomed>>

(* HandleAnnouncePeer of the shard, which refuses some addresses. *)
Entry(c) == <<req[c].hash, req[c].peer>>
Worker(c) ==
  /\ stage[c] = "worker"
  /\ \/ req[c].stopped /\ listed' \in {listed, listed \ {Entry(c)}}
     \/ ~req[c].stopped /\ listed' \in {listed, listed \cup {Entry(c)}}
  /\ stage' = [stage EXCEPT ![c] = "done"]
  /\ UNCHANGED <<banned, req, want, admins, acked, doomed>>

-----------------------------------------------------------------------------
(* The administrator.  A request is a loop over its targets.               *)

OrderBegin(a, o) ==
  /\ order[a] = None
  /\ o.op = "clear" \/ o.targets # <<>>
  /\ order' = [order EXCEPT ![a] = o]
  /\ todo' = [todo EXCEPT ![a] = o.targets]
  /\ UNCHANGED <<banned, listed, calls, added, acked, doomed>>

(* Add to the list; for a torrent the shard is still to come. *)
AddBan(a) ==
  /\ order[a] # None /\ order[a].op = "ban" /\ todo[a] # <<>> /\ ~added[a]
  /\ banned' = banned \cup {Head(todo[a])}
  /\ added' = [added EXCEPT ![a] = TRUE]
  /\ UNCHANGED <<listed, calls, order, todo, acked, doomed>>

(* The list cannot be written: the rest of the request is not done.  The   *)
(* target may be in the filter all the same.                               *)
AddBanFails(a) ==
  /\ AddFails
  /\ order[a] # None /\ order[a].op = "ban" /\ todo[a] # <<>> /\ ~added[a]
  /\ banned' \in {banned, banned \cup {Head(todo[a])}}
  /\ order' = [order EXCEPT ![a] = None]
  /\ todo' = [todo EXCEPT ![a] = <<>>]
  /\ UNCHANGED <<listed, calls, added, acked, doomed>>

(* The shard forgets a banned torrent; peers of a banned id or address are *)
(* left to their TTL.                                                      *)
TorrentOf(t) == IF t[1] = "hash" THEN {e \in listed : e[1] = t[2]} ELSE {}
BanReturnsMutant(a) ==             \* mutant: the flag is not reset for the next target
  /\ order[a] # None /\ added[a]
  /\ listed' = listed \ TorrentOf(Head(todo[a]))
  /\ acked' = acked \cup ({Head(todo[a])} \cap banned)
  /\ todo' = [todo EXCEPT ![a] = Tail(@)]
  /\ UNCHANGED <<banned, calls, order, added, doomed>>
BanReturns(a) ==
  /\ order[a] # None /\ added[a]
  /\ listed' = listed \ TorrentOf(Head(todo[a]))
  /\ acked' = acked \cup ({Head(todo[a])} \cap banned)
  /\ todo' = [todo EXCEPT ![a] = Tail(@)]
  /\ added' = [added EXCEPT ![a] = FALSE]
  /\ UNCHANGED <<banned, calls, order, doomed>>

(* DeleteInfoHash, without a ban. *)
Delete(a) ==
  /\ order[a] # None /\ order[a].op = "delete" /\ todo[a] # <<>>
  /\ listed' = listed \ TorrentOf(Head(todo[a]))
  /\ todo' = [todo EXCEPT ![a] = Tail(@)]
  /\ UNCHANGED <<banned, calls, order, added, acked, doomed>>

OfKind(S, k) == {t \in S : t[1] = k}
Clear(a) ==
  /\ order[a] # None /\ order[a].op = "clear"
  /\ banned' = banned \ OfKind(banned, order[a].kind)
  /\ acked' = acked \ OfKind(acked, order[a].kind)
  /\ doomed' = [c \in Calls |-> doomed[c] \ OfKind(doomed[c], order[a].kind)]
  /\ order' = [order EXCEPT ![a] = None]
  /\ UNCHANGED <<listed, calls, todo, added>>

(* RemoveIPBan, for each address until one fails. *)
Unban(a) ==
  /\ order[a] # None /\ order[a].op = "unban" /\ todo[a] # <<>>
  /\ banned' = banned \ {Head(todo[a])}
  /\ acked' = acked \ {Head(todo[a])}
  /\ doomed' = [c \in Calls |-> doomed[c] \ {Head(todo[a])}]
  /\ todo' = [todo EXCEPT ![a] = Tail(@)]
  /\ UNCHANGED <<listed, calls, order, added>>
UnbanFails(a) ==
  /\ AddFails
  /\ order[a] # None /\ order[a].op = "unban" /\ todo[a] # <<>>
  /\ order' = [order EXCEPT ![a] = None]
  /\ todo' = [todo EXCEPT ![a] = <<>>]
  /\ UNCHANGED <<banned, listed, calls, added, acked, doomed>>

OrderEnd(a) ==
  /\ order[a] # None /\ order[a].op # "clear" /\ todo[a] = <<>>
  /\ order' = [order EXCEPT ![a] = None]
  /\ UNCHANGED <<banned, listed, calls, todo, added, acked, doomed>>

Next ==
  \/ \E c \in Calls : \/ \E r \in Requests : BadRequest(c, r) \/ Begin(c, r)
                      \/ Check(c) \/ Worker(c)
  \/ \E a \in Admins : \/ \E o \in Orders : OrderBegin(a, o)
                       \/ AddBan(a) \/ AddBanFails(a) \/ BanReturns(a)
                       \/ Delete(a) \/ Clear(a) \/ Unban(a) \/ UnbanFails(a) \/ OrderEnd(a)

Spec == Init /\ [][Next]_vars

-----------------------------------------------------------------------------
(* Properties.                                                             *)

(* The lists and the shards hold what their names say, a call has a        *)
(* request exactly once it has begun, and an administrator's loop stands   *)
(* at a target while it is between its two steps.                          *)
TypeOK ==
  /\ banned \subseteq Target /\ acked \subseteq Target
  /\ listed \subseteq InfoHash \X PeerID
  /\ req \in [Calls -> Request \cup {None}]
  /\ stage \in [Calls -> {"idle", "hash", "peer", "ip", "worker", "done"}]
  /\ \A c \in Calls : req[c] = None <=> stage[c] = "idle"
  /\ want \in [Calls -> Int]
  /\ order \in [Admins -> Order \cup {None}]
  /\ todo \in [Admins -> Seq(Target)]
  /\ added \in [Admins -> BOOLEAN]
  /\ \A a \in Admins : added[a] => order[a] # None /\ order[a].op = "ban" /\ todo[a] # <<>>
  /\ doomed \in [Calls -> SUBSET Target]

(* An announce that begins after the ban of its torrent, its peer id or    *)
(* its address has returned never reaches a shard, whatever other bans,    *)
(* failed bans and clears go on meanwhile.                                 *)
BansHold == \A c \in Calls : stage[c] = "worker" => doomed[c] = {}
=============================================================================
