----------------------------- MODULE DbManager -----------------------------
(***************************************************************************)
(* Database mode: the peer manager of biz/services/peer/database, which    *)
(* keeps peers and block lists in two MySQL tables and the block lists in  *)
(* two Bloom filters besides.                                              *)
(*                                                                         *)
(* An announce asks the two filters, hands the row to be saved to a task   *)
(* of the goroutine pool and picks peers with a query of its own; saves of *)
(* two announces of a peer come in any order.  A ban goes to the filter    *)
(* and then to the table.  No lock and no transaction spans two steps.     *)
(* Queries fail, a write that fails may have been executed, and a process  *)
(* that dies loses its filters, tasks and requests, not the tables.        *)
(***************************************************************************)
EXTENDS PeerCommon, FiniteSets

CONSTANTS
  MaxCalls,         \* bound: announces
  Admin,            \* administrator's requests under way
  InfoHash, PeerID,
  Requests,         \* announces that clients may make
  Orders,           \* requests that the administrator may make
  MayFail,          \* which of "write", "read" and "restore" may fail
  TTL,              \* config Tracker.TTL
  MaxTime, MaxFaults, MaxOrders,   \* bounds
  None

Call == 1..MaxCalls
HashTarget == {"hash"} \X InfoHash
PeerTarget == {"peer"} \X PeerID
Request == [hash : InfoHash, peer : PeerID, ep : Endpoint, event : PeerEvent, left : Nat, want : Nat]
Row == [ep : Endpoint, event : PeerEvent, left : Nat, lastSeen : Nat]
Order == [op : {"ban"}, target : HashTarget \cup PeerTarget]
         \cup [op : {"clear"}, kind : {"hash", "peer"}] \cup [op : {"delete"}, hash : InfoHash]

ASSUME DbAssumption ==
  /\ MaxCalls \in Nat /\ TTL \in Nat /\ MaxTime \in Nat /\ MaxFaults \in Nat /\ MaxOrders \in Nat
  /\ Requests \subseteq Request /\ Orders \subseteq Order
  /\ MayFail \subseteq {"write", "read", "restore"}
  /\ None \notin Call /\ None \notin Request /\ None \notin Row
  /\ None \notin HashTarget \cup PeerTarget

VARIABLES
  now, faults,
  peers,        \* table peers: its rows, by info hash and peer id
  blockList,    \* table block_list
  filter,       \* banInfoHash and banPeerId: what was added to them
  req,          \* per announce: its request
  stage,        \* where HandleAnnouncePeer is
  seen,         \* its peer.LastSeen
  task,         \* its save is still to come
  answer,       \* the rows it was given, as <<peer id, row>>
  pickedAt,     \* history: when it was given some
  orders,       \* requests of administrators so far
  banning,      \* per administrator: the target in the filter, not yet in the table
  acked,        \* history: bans that were acknowledged, and that no request lifted
  void,         \* history: those of them that the program has put out of force
  lifted,       \* history: administrators whose ban under way a clear has met
  doomed,       \* history: per announce under way, the bans of it acknowledged before it
  last,         \* history: per peer, its last announce that is to be saved
  spoiled       \* history: peers of which a save overlapped another, failed or was lost

clock == <<now, faults>>
calls == <<req, stage, seen, task, answer, pickedAt>>
admin == <<orders, banning>>
promises == <<acked, void, lifted, doomed>>
writes == <<last, spoiled>>
vars == <<clock, peers, blockList, filter, calls, admin, promises, writes>>

Outcome(f) == IF f \in MayFail /\ faults < MaxFaults THEN BOOLEAN ELSE {TRUE}
Fault(ok) == faults' = IF ok THEN faults ELSE faults + 1
Key == InfoHash \X PeerID
KeyOf(c) == <<req[c].hash, req[c].peer>>
TargetsOf(r) == {<<"hash", r.hash>>, <<"peer", r.peer>>}
Pending(k) == {c \in Call : task[c] /\ KeyOf(c) = k}

Init ==
  /\ now = 0 /\ faults = 0
  /\ peers = [k \in Key |-> None]
  /\ blockList = {} /\ filter = {}
  /\ req = [c \in Call |-> None]
  /\ stage = [c \in Call |-> "idle"]
  /\ seen = [c \in Call |-> 0]
  /\ task = [c \in Call |-> FALSE]
  /\ answer = [c \in Call |-> {}]
  /\ pickedAt = [c \in Call |-> 0]
  /\ orders = 0
  /\ banning = [a \in Admin |-> None]
  /\ acked = {} /\ void = {} /\ lifted = {}
  /\ doomed = [c \in Call |-> {}]
  /\ last = [k \in Key |-> None]
  /\ spoiled = {}

Tick ==
  /\ now < MaxTime
  /\ now' = now + 1
  /\ UNCHANGED <<faults, peers, blockList, filter, calls, admin, promises, writes>>

-----------------------------------------------------------------------------
(* Announces.                                                              *)

(* What Test may say: a Bloom filter that holds something may be wrong     *)
(* about what it does not hold.                                            *)
Test(kind, x) ==
  IF <<kind, x>> \in filter THEN {TRUE}
  ELSE IF \E t \in filter : t[1] = kind THEN BOOLEAN
  ELSE {FALSE}

Min(a, b) == IF a < b THEN a ELSE b
Goto(c, l) == stage' = [stage EXCEPT ![c] = l]

Refuse(c) ==
  /\ Goto(c, "refused")
  /\ req' = [req EXCEPT ![c] = None]
  /\ doomed' = [doomed EXCEPT ![c] = {}]

(* HandleAnnouncePeer up to the test of the info hash. *)
Announce(c, r) ==
  /\ stage[c] = "idle" /\ \A d \in Call : d < c => stage[d] # "idle"
  /\ \E banned \in Test("hash", r.hash) :
       IF banned THEN Refuse(c)
       ELSE /\ Goto(c, "peer")
            /\ req' = [req EXCEPT ![c] = r]
            /\ doomed' = [doomed EXCEPT ![c] = TargetsOf(r) \cap (acked \ void)]
  /\ UNCHANGED <<clock, peers, blockList, filter, seen, task, answer, pickedAt, admin, acked, void, lifted, writes>>

(* The test of the peer id, the record, its addresses, and the task. *)
TestPeer(c) ==
  /\ stage[c] = "peer"
  /\ \E banned \in Test("peer", req[c].peer) :
       IF banned \/ ~ValidAddress(req[c].ep)
       THEN Refuse(c) /\ UNCHANGED <<seen, task, writes>>
       ELSE /\ Goto(c, "pick")
            /\ seen' = [seen EXCEPT ![c] = now]
            /\ task' = [task EXCEPT ![c] = IsPeerConnectable(req[c].ep)]
            /\ IF IsPeerConnectable(req[c].ep)
               THEN /\ last' = [last EXCEPT ![KeyOf(c)] = c]
                    /\ spoiled' = IF Pending(KeyOf(c)) = {} THEN spoiled ELSE spoiled \cup {KeyOf(c)}
               ELSE UNCHANGED writes
            /\ UNCHANGED <<req, doomed>>
  /\ UNCHANGED <<clock, peers, blockList, filter, answer, pickedAt, admin, acked, void, lifted>>

(* CommonToDB: the row of an announce.  On a conflict SavePeer assigns     *)
(* every column of it but the type (and the source).                       *)
CommonToDBMutant(c) ==      \* mutant: the time of expiry for the time it was seen
  [ep |-> req[c].ep, event |-> req[c].event, left |-> req[c].left, lastSeen |-> seen[c] + TTL]
CommonToDB(c) == [ep |-> req[c].ep, event |-> req[c].event, left |-> req[c].left, lastSeen |-> seen[c]]
UpsertMutant(old, row) ==   \* mutant: the column of the event is left out
  IF old = None THEN row ELSE [row EXCEPT !.ep.type = old.ep.type, !.event = old.event]
Upsert(old, row) == IF old = None THEN row ELSE [row EXCEPT !.ep.type = old.ep.type]

(* The task.  A failure is logged, and the row may be there all the same. *)
SavePeer(c) ==
  /\ task[c]
  /\ task' = [task EXCEPT ![c] = FALSE]
  /\ \E ok \in Outcome("write") :
       /\ Fault(ok)
       /\ \/ peers' = [peers EXCEPT ![KeyOf(c)] = Upsert(@, CommonToDB(c))]
          \/ ~ok /\ UNCHANGED peers
       /\ spoiled' = IF ok THEN spoiled ELSE spoiled \cup {KeyOf(c)}
  /\ UNCHANGED <<now, blockList, filter, req, stage, seen, answer, pickedAt, admin, promises, last>>

(* Who PickPeers may give out. *)
EligibleMutant(r) ==        \* mutant: the condition on last_seen is left out
  {k \in {r.hash} \X (PeerID \ {r.peer}) :
     peers[k] # None /\ peers[k].event # "stopped" /\ peers[k].ep.type = r.ep.type}
Eligible(r) ==
  {k \in {r.hash} \X (PeerID \ {r.peer}) :
     /\ peers[k] # None
     /\ peers[k].lastSeen > now - TTL
     /\ peers[k].event # "stopped" /\ peers[k].ep.type = r.ep.type}

(* The query, in a random order and up to its limit. *)
PickPeers(c) ==
  /\ stage[c] = "pick"
  /\ \E ok \in Outcome("read") :
       /\ Fault(ok)
       /\ Goto(c, IF ok THEN "done" ELSE "failed")
       /\ \E S \in IF ok THEN SUBSET Eligible(req[c]) ELSE {{}} :
            /\ ok => Cardinality(S) = Min(req[c].want, Cardinality(Eligible(req[c])))
            /\ answer' = [answer EXCEPT ![c] = {<<k[2], peers[k]>> : k \in S}]
            /\ pickedAt' = [pickedAt EXCEPT ![c] = IF S = {} THEN 0 ELSE now]
  /\ doomed' = [doomed EXCEPT ![c] = {}]
  /\ UNCHANGED <<now, peers, blockList, filter, req, seen, task, admin, acked, void, lifted, writes>>

-----------------------------------------------------------------------------
(* Administration.                                                         *)

Ordered == orders < MaxOrders /\ orders' = orders + 1

(* BanInfoHash and BanPeer: the filter first. *)
AddToFilter(a, o) ==
  /\ banning[a] = None /\ o.op = "ban" /\ Ordered
  /\ filter' = filter \cup {o.target}
  /\ banning' = [banning EXCEPT ![a] = o.target]
  /\ void' = void \ {o.target}
  /\ UNCHANGED <<clock, peers, blockList, calls, acked, lifted, doomed, writes>>

(* Then the table; a duplicate is no error.  A ban is acknowledged when    *)
(* the insert is, and in force unless a clear has come between the two; a  *)
(* clear that names it counts as the later request.                        *)
AddToBlockList(a) ==
  /\ banning[a] # None
  /\ banning' = [banning EXCEPT ![a] = None]
  /\ \E ok \in Outcome("write") :
       /\ Fault(ok)
       /\ \/ blockList' = blockList \cup {banning[a]}
          \/ ~ok /\ UNCHANGED blockList
       /\ acked' = IF ok /\ a \notin lifted THEN acked \cup {banning[a]} ELSE acked
  /\ lifted' = lifted \ {a}
  /\ UNCHANGED <<now, peers, filter, calls, orders, void, doomed, writes>>

(* ClearBanInfoHash and ClearBanPeer both empty the filter of peer ids,    *)
(* and leave the table as it is.  What the request names is lifted; peer   *)
(* ids that it does not name are bans put out of force.                    *)
Named(o) == IF o.kind = "hash" THEN HashTarget ELSE PeerTarget
ClearBan(o) ==
  /\ o.op = "clear" /\ Ordered
  /\ filter' = filter \ PeerTarget
  /\ acked' = acked \ Named(o)
  /\ void' = (void \cup (acked \cap PeerTarget)) \ Named(o)
  /\ lifted' = lifted \cup {a \in Admin : banning[a] \in Named(o) \cup PeerTarget}
  /\ doomed' = [c \in Call |-> doomed[c] \ (Named(o) \cup PeerTarget)]
  /\ UNCHANGED <<clock, peers, blockList, calls, banning, writes>>

(* The rows may be gone though the query failed. *)
DeleteInfoHash(o) ==
  /\ o.op = "delete" /\ Ordered
  /\ \E ok \in Outcome("write") :
       /\ Fault(ok)
       /\ \/ peers' = [k \in Key |-> IF k[1] = o.hash THEN None ELSE peers[k]]
          \/ ~ok /\ UNCHANGED peers
  /\ spoiled' = spoiled \cup {k \in Key : k[1] = o.hash}
  /\ UNCHANGED <<now, blockList, filter, calls, banning, promises, last>>

-----------------------------------------------------------------------------
(* The process dies and starts again: NewDBManager and restoreBlockList.   *)
(* A list that cannot be read is logged, and its bans are out of force.    *)

RestoredMutant(hashes, ids) ==   \* mutant: the peer ids are read with the type of the info hashes
  {t \in blockList : t[1] = "hash" /\ hashes}
Restored(hashes, ids) ==
  {t \in blockList : (t[1] = "hash" /\ hashes) \/ (t[1] = "peer" /\ ids)}
Restart ==
  /\ faults < MaxFaults
  /\ faults' = faults + 1
  /\ \E hashes, ids \in Outcome("restore") :
       /\ filter' = Restored(hashes, ids)
       /\ void' = (IF hashes THEN {} ELSE acked \cap HashTarget)
                    \cup (IF ids THEN {} ELSE acked \cap PeerTarget)
  /\ stage' = [c \in Call |-> IF stage[c] \in {"peer", "pick"} THEN "failed" ELSE stage[c]]
  /\ doomed' = [c \in Call |-> {}]
  /\ task' = [c \in Call |-> FALSE]
  /\ spoiled' = spoiled \cup {KeyOf(c) : c \in {d \in Call : task[d]}}
  /\ banning' = [a \in Admin |-> None]
  /\ lifted' = {}
  /\ UNCHANGED <<now, peers, blockList, req, seen, answer, pickedAt, orders, acked, last>>

-----------------------------------------------------------------------------
Handle(c) == TestPeer(c) \/ SavePeer(c) \/ PickPeers(c)

(* Nothing is under way and the bounds leave no announce. *)
Quiet ==
  /\ \A c \in Call : stage[c] \notin {"idle", "peer", "pick"} /\ ~task[c]
  /\ \A a \in Admin : banning[a] = None
  /\ UNCHANGED vars

Next ==
  \/ Tick
  \/ \E c \in Call : Handle(c) \/ \E r \in Requests : Announce(c, r)
  \/ \E o \in Orders : ClearBan(o) \/ DeleteInfoHash(o) \/ \E a \in Admin : AddToFilter(a, o)
  \/ \E a \in Admin : AddToBlockList(a)
  \/ Restart
  \/ Quiet

Spec == Init /\ [][Next]_vars

-----------------------------------------------------------------------------
(* Types; a save is pending only of an announce that passed the tests, and *)
(* nothing of the tables is newer than the clock.                          *)
TypeOK ==
  /\ now \in 0..MaxTime /\ orders \in 0..MaxOrders /\ faults \in 0..MaxFaults
  /\ peers \in [Key -> Row \cup {None}]
  /\ blockList \subseteq HashTarget \cup PeerTarget
  /\ filter \subseteq HashTarget \cup PeerTarget
  /\ req \in [Call -> Requests \cup {None}]
  /\ stage \in [Call -> {"idle", "peer", "pick", "done", "refused", "failed"}]
  /\ seen \in [Call -> 0..MaxTime] /\ pickedAt \in [Call -> 0..MaxTime]
  /\ task \in [Call -> BOOLEAN]
  /\ answer \in [Call -> SUBSET (PeerID \X Row)]
  /\ banning \in [Admin -> HashTarget \cup PeerTarget \cup {None}]
  /\ acked \subseteq HashTarget \cup PeerTarget /\ void \subseteq acked /\ lifted \subseteq Admin
  /\ doomed \in [Call -> SUBSET (HashTarget \cup PeerTarget)]
  /\ last \in [Key -> Call \cup {None}] /\ spoiled \subseteq Key
  /\ \A c \in Call : task[c] => stage[c] \in {"pick", "done", "failed"}
  /\ \A k \in Key : peers[k] # None => peers[k].lastSeen <= now

(* Bans hold (BanInfoHash, BanPeer, restoreBlockList): an announce that    *)
(* begins after the ban of its torrent or its peer was acknowledged is     *)
(* refused: it is not saved and is given no peers, though the process may  *)
(* have died and been started again since, until a request lifts the ban.  *)
(* The exceptions are the peer bans that a clear of the info hashes met    *)
(* and the list that a launch could not read, up to the next launch or the *)
(* next ban of the same target.                                            *)
BansHold ==
  \A c \in Call : stage[c] = "pick" => doomed[c] = {}

(* Answers are fresh (PickPeers, SavePeer): every peer that is given out   *)
(* is another one than the one that asks, and announced itself in this     *)
(* torrent, within the TTL before the query, connectable and not stopping, *)
(* with all of the endpoint that is given in the one announce.             *)
AnswerFresh ==
  \A c \in Call : \A g \in answer[c] :
    /\ g[1] # req[c].peer /\ g[2].ep.type = req[c].ep.type
    /\ \E d \in Call :
         /\ req[d] # None /\ KeyOf(d) = <<req[c].hash, g[1]>>
         /\ seen[d] > pickedAt[c] - TTL
         /\ IsPeerConnectable(req[d].ep) /\ req[d].event # "stopped"
         /\ g[2].ep = [req[d].ep EXCEPT !.type = g[2].ep.type]

(* The last announce wins (SavePeer): the row of a peer whose saves came   *)
(* one after the other and succeeded says what its last announce said,     *)
(* a stop included.                                                        *)
LatestWins ==
  \A k \in Key \ spoiled :
    last[k] # None /\ Pending(k) = {} =>
      peers[k] = [CommonToDB(last[k]) EXCEPT !.ep.type = peers[k].ep.type]
=============================================================================
