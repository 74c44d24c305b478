----------------------------- MODULE UdpServer -----------------------------
(***************************************************************************)
(* The UDP tracker, biz/services/udp_server.  A client first asks for a    *)
(* connection id and must then present it from the address it was sent to. *)
(*                                                                         *)
(* gnet runs OnTraffic in several event loops at once, and OnTick starts a *)
(* goroutine that forgets old ids.  Any datagram may arrive at any moment: *)
(* this covers datagrams that are lost, repeated, delayed, or that carry   *)
(* an id their sender has seen elsewhere.                                  *)
(*                                                                         *)
(* The peer manager behind it is kept abstract: the set of peers it lists. *)
(***************************************************************************)
EXTENDS PeerCommon, Sequences

CONSTANTS
  Loop,             \* event loops
  Cleaner,          \* bound: cleanConnection goroutines alive at once
  Cid,              \* bound: the connection ids the generator may hand out
  ProtocolID,       \* the magic number of a connect request
  Source,           \* [ip, port] of the clients
  Peer,             \* an info hash and a peer id
  Banned,           \* the peers the ban lists refuse
  Datagrams,        \* what clients send, but for the sender and the id
  ConnectionTimeout,\* connectionTimeout
  TickDelay,        \* the delay OnTick asks for
  MaxTime,          \* bound: the clock stops here
  None

(* wire: the event field; field: the address field, NoIP when it is zero. *)
Datagram == [len : Nat, action : Nat, peer : Peer, wire : Nat,
             field : Addr \cup {NoIP}, port : Nat]

ASSUME UdpAssumption ==
  /\ Cid \subseteq Nat
  /\ ProtocolID \notin Cid
  /\ Source \subseteq [ip : Addr, port : Nat]
  /\ Datagrams \subseteq Datagram
  /\ Banned \subseteq Peer
  /\ ConnectionTimeout \in Nat
  /\ TickDelay \in Nat
  /\ MaxTime \in Nat
  /\ None \notin Nat
  /\ None \notin [addr : Source, time : Nat]
  /\ None \notin [peer : Peer, ep : Endpoint, event : PeerEvent, wire : Nat]
  /\ None \notin [ep : Endpoint, event : PeerEvent]

VARIABLES
  now,              \* the clock, in minutes
  nextTick,         \* when the ticker calls OnTick again
  connectionList,   \* UDPServer.connectionList
  issued,           \* history: every id ever handed out, to whom and when
  listed,           \* the peers the manager lists
  job,              \* per loop: the announce it is handling
  stage,            \* per loop: where handleAnnounce is
  answer,           \* per loop: what it sent in answer to its last datagram
  cleaner,          \* per cleaner: where cleanConnection is
  sweep             \* per cleaner: the time it compares with

vars == <<now, nextTick, connectionList, issued, listed, job, stage, answer, cleaner, sweep>>
conns == <<connectionList, issued>>
sweepers == <<cleaner, sweep>>

Init ==
  /\ now = 0
  /\ nextTick = 0
  /\ connectionList = [c \in Cid |-> None]
  /\ issued = [c \in Cid |-> None]
  /\ listed = [p \in Peer |-> None]
  /\ job = [l \in Loop |-> None]
  /\ stage = [l \in Loop |-> "idle"]
  /\ answer = [l \in Loop |-> <<"none">>]
  /\ cleaner = [k \in Cleaner |-> "idle"]
  /\ sweep = [k \in Cleaner |-> 0]

-----------------------------------------------------------------------------
(* Parsing.                                                                *)

HeaderLen == 16
V4Len == 82
V6Len == 94
ActionConnect == 0
ActionAnnounce == 1
ActionScrape == 2

(* common.PeerEvent(uint32): an int8, whose String the manager parses.     *)
(* Zero counts as started.                                                 *)
EventMutant(wire) ==             \* mutant: zero gets a name of its own
  IF wire % 256 = 0 THEN "none" ELSE "completed"
Event(wire) ==
  LET e == wire % 256
  IN  ParsePeerEvent(CASE e \in {0, 1} -> "started"
                       [] e = 2 -> "stopped"
                       [] e = 3 -> "completed"
                       [] OTHER -> "unknown")

(* Over IPv6 a packet of the IPv4 layout is accepted too. *)
LongEnough(d) == d.len - HeaderLen >= V4Len

(* parseAnnounceRequestV4 and V6.  The address field is used when it is    *)
(* not zero, except that a short packet over IPv6 has none.                *)
Parse(from, d) ==
  LET v4 == from.ip \in IPv4Addr
      given == IF d.field = NoIP \/ (~v4 /\ d.len - HeaderLen < V6Len)
               THEN from.ip ELSE d.field
  IN  [peer |-> d.peer, wire |-> d.wire, event |-> Event(d.wire),
       ep |-> [type |-> "bittorrent", ip |-> NoIP,
               ipv4 |-> IF v4 THEN given ELSE NoIP,
               ipv6 |-> IF v4 THEN NoIP ELSE given,
               clientIP |-> from.ip, port |-> d.port, offers |-> 0]]

-----------------------------------------------------------------------------
(* handleRequest, by an idle loop.                                         *)

Idle(l) == stage[l] = "idle"

(* A datagram too short to have a header gets no answer, nor does a        *)
(* connect for which the generator fails.                                  *)
Dropped(l, cid, d) ==
  /\ Idle(l)
  /\ d.len < HeaderLen \/ (cid = ProtocolID /\ d.action = ActionConnect)
  /\ answer' = [answer EXCEPT ![l] = <<"none">>]
  /\ UNCHANGED <<now, nextTick, conns, listed, job, stage, sweepers>>

(* The generator's ids grow with time. *)
Fresh(c) == issued[c] = None /\ \A b \in Cid : b < c => issued[b] # None

(* handleConnection.  A generated id is fresh, so LoadOrStore stores. *)
Connect(l, from, cid, d) ==
  /\ Idle(l)
  /\ d.len >= HeaderLen
  /\ cid = ProtocolID /\ d.action = ActionConnect
  /\ \E c \in Cid :
       /\ Fresh(c)
       /\ connectionList' = [connectionList EXCEPT ![c] = [addr |-> from, time |-> now]]
       /\ issued' = [issued EXCEPT ![c] = [addr |-> from, time |-> now]]
  /\ answer' = [answer EXCEPT ![l] = <<"connect">>]
  /\ UNCHANGED <<now, nextTick, listed, job, stage, sweepers>>

(* The id is known and was issued to this address and port. *)
KnownMutant(from, cid) == cid \in Cid /\ connectionList[cid] # None  \* mutant: no address check
Known(from, cid) ==
  cid \in Cid /\ connectionList[cid] # None /\ connectionList[cid].addr = from

(* "connection expired", "connection mismatch", "invalid action" and       *)
(* "invalid announce request" are answers of their own.                    *)
Rejected(l, from, cid, d) ==
  /\ Idle(l)
  /\ d.len >= HeaderLen
  /\ ~(cid = ProtocolID /\ d.action = ActionConnect)
  /\ \/ ~Known(from, cid)
     \/ d.action \notin {ActionAnnounce, ActionScrape}
     \/ d.action = ActionAnnounce /\ ~LongEnough(d)
  /\ answer' = [answer EXCEPT ![l] = <<"error">>]
  /\ UNCHANGED <<now, nextTick, conns, listed, job, stage, sweepers>>

(* handleAnnounce up to the call of the manager. *)
BeginAnnounce(l, from, cid, d) ==
  /\ Idle(l)
  /\ d.len >= HeaderLen
  /\ d.action = ActionAnnounce
  /\ Known(from, cid)
  /\ LongEnough(d)
  /\ job' = [job EXCEPT ![l] = Parse(from, d)]
  /\ stage' = [stage EXCEPT ![l] = "announce"]
  /\ answer' = [answer EXCEPT ![l] = <<>>]
  /\ UNCHANGED <<now, nextTick, conns, listed, sweepers>>

(* handleScrape only reads, one torrent for every 20 bytes. *)
Scrape(l, from, cid, d) ==
  /\ Idle(l)
  /\ d.len >= HeaderLen
  /\ d.action = ActionScrape
  /\ Known(from, cid)
  /\ answer' = [answer EXCEPT ![l] = <<"scrape">>]
  /\ UNCHANGED <<now, nextTick, conns, listed, job, stage, sweepers>>

-----------------------------------------------------------------------------
(* handleAnnounce from the call of the manager on.                         *)

(* HandleAnnouncePeer of the manager: a peer it knows keeps the address it *)
(* has, a new one is listed when it can be reached.                        *)
Listed(q) ==
  CASE q.event = "stopped" -> None
    [] q.event # "stopped" /\ listed[q.peer] # None ->
         [ep |-> listed[q.peer].ep, event |-> q.event]
    [] q.event # "stopped" /\ listed[q.peer] = None /\ IsPeerConnectable(q.ep) ->
         [ep |-> q.ep, event |-> q.event]
    [] OTHER -> None

Accepts(q) == q.peer \notin Banned /\ ValidAddress(q.ep)

Announce(l) ==
  /\ stage[l] = "announce"
  /\ Accepts(job[l])
  /\ listed' = [listed EXCEPT ![job[l].peer] = Listed(job[l])]
  /\ stage' = [stage EXCEPT ![l] = "reply"]
  /\ UNCHANGED <<now, nextTick, conns, job, answer, sweepers>>

(* The manager's error is the answer. *)
AnnounceFailsMutant(l) ==       \* mutant: the error is sent but not returned
  /\ stage[l] = "announce"
  /\ ~Accepts(job[l])
  /\ stage' = [stage EXCEPT ![l] = "reply"]
  /\ answer' = [answer EXCEPT ![l] = Append(@, "error")]
  /\ UNCHANGED <<now, nextTick, conns, listed, job, sweepers>>
AnnounceFails(l) ==
  /\ stage[l] = "announce"
  /\ ~Accepts(job[l])
  /\ stage' = [stage EXCEPT ![l] = "idle"]
  /\ job' = [job EXCEPT ![l] = None]
  /\ answer' = [answer EXCEPT ![l] = Append(@, "error")]
  /\ UNCHANGED <<now, nextTick, conns, listed, sweepers>>

(* The scrape counts are read after the announce, perhaps after others'. *)
Reply(l) ==
  /\ stage[l] = "reply"
  /\ stage' = [stage EXCEPT ![l] = "idle"]
  /\ job' = [job EXCEPT ![l] = None]
  /\ answer' = [answer EXCEPT ![l] = Append(@, "announce")]
  /\ UNCHANGED <<now, nextTick, conns, listed, sweepers>>

-----------------------------------------------------------------------------
(* OnTick and cleanConnection.                                             *)

OnTick(k) ==
  /\ now >= nextTick
  /\ cleaner[k] = "idle"
  /\ cleaner' = [cleaner EXCEPT ![k] = "starting"]
  /\ nextTick' = now + TickDelay
  /\ UNCHANGED <<now, conns, listed, job, stage, answer, sweep>>

(* The goroutine reads the time once, before it ranges over the list. *)
CleanBegin(k) ==
  /\ cleaner[k] = "starting"
  /\ cleaner' = [cleaner EXCEPT ![k] = "ranging"]
  /\ sweep' = [sweep EXCEPT ![k] = now]
  /\ UNCHANGED <<now, nextTick, conns, listed, job, stage, answer>>

ExpiredMutant(c, t) ==          \* mutant: the timeout is not added
  connectionList[c] # None /\ connectionList[c].time < t
ExpiredLate(c, t) ==            \* mutant: ids live for three timeouts
  connectionList[c] # None /\ connectionList[c].time + 3 * ConnectionTimeout < t
Expired(c, t) ==
  connectionList[c] # None /\ connectionList[c].time + ConnectionTimeout < t

(* An id is never issued twice, so testing and deleting it is one step. *)
CleanOne(k) ==
  /\ cleaner[k] = "ranging"
  /\ \E c \in Cid :
       /\ Expired(c, sweep[k])
       /\ connectionList' = [connectionList EXCEPT ![c] = None]
  /\ UNCHANGED <<now, nextTick, issued, listed, job, stage, answer, sweepers>>
CleanEnd(k) ==
  /\ cleaner[k] = "ranging"
  /\ \A c \in Cid : ~Expired(c, sweep[k])
  /\ cleaner' = [cleaner EXCEPT ![k] = "idle"]
  /\ sweep' = [sweep EXCEPT ![k] = 0]
  /\ UNCHANGED <<now, nextTick, conns, listed, job, stage, answer>>

Advance ==
  /\ now < MaxTime
  /\ now' = now + 1
  /\ UNCHANGED <<nextTick, conns, listed, job, stage, answer, sweepers>>

-----------------------------------------------------------------------------
Receive(l) ==
  \E d \in Datagrams, from \in Source, cid \in Cid \cup {ProtocolID} :
    \/ Dropped(l, cid, d)
    \/ Connect(l, from, cid, d)
    \/ Rejected(l, from, cid, d)
    \/ BeginAnnounce(l, from, cid, d)
    \/ Scrape(l, from, cid, d)

Handle(l) == Announce(l) \/ AnnounceFails(l) \/ Reply(l)
Clean(k) == CleanBegin(k) \/ CleanOne(k) \/ CleanEnd(k)

Next ==
  \/ \E l \in Loop : Receive(l) \/ Handle(l)
  \/ \E k \in Cleaner : OnTick(k) \/ Clean(k)
  \/ Advance

Spec == Init /\ [][Next]_vars

(* The clock runs, the ticker keeps ticking, goroutines are scheduled. *)
FairSpec ==
  /\ Spec
  /\ WF_vars(Advance)
  /\ WF_vars(\E k \in Cleaner : OnTick(k))
  /\ \A k \in Cleaner : WF_vars(Clean(k))
  /\ \A l \in Loop : WF_vars(Handle(l))

-----------------------------------------------------------------------------
(* Properties.                                                             *)

(* The fields of UDPServer and the locals of its goroutines have their     *)
(* types; a loop has an announce exactly while it handles one.             *)
TypeOK ==
  /\ now \in Nat /\ nextTick \in Nat
  /\ connectionList \in [Cid -> [addr : Source, time : Nat] \cup {None}]
  /\ issued \in [Cid -> [addr : Source, time : Nat] \cup {None}]
  /\ listed \in [Peer -> [ep : Endpoint, event : PeerEvent] \cup {None}]
  /\ job \in [Loop -> [peer : Peer, ep : Endpoint, event : PeerEvent, wire : Nat] \cup {None}]
  /\ stage \in [Loop -> {"idle", "announce", "reply"}]
  /\ \A l \in Loop : stage[l] = "idle" <=> job[l] = None
  /\ answer \in [Loop -> Seq({"none", "connect", "error", "announce", "scrape"})]
  /\ cleaner \in [Cleaner -> {"idle", "starting", "ranging"}]
  /\ sweep \in [Cleaner -> Nat]

(* No peer is listed for a client that has not first received a connection *)
(* id at its own address, and unless the configuration lets clients name   *)
(* another, that address is the one other peers are given: handleRequest's *)
(* address check, with ids expiring and loops racing meanwhile.            *)
RoundTrip ==
  \A p \in Peer : listed[p] # None =>
    /\ \E c \in Cid : issued[c] # None /\ issued[c].addr.ip = listed[p].ep.clientIP
    /\ ~UseAnnounceIP => GetIP(listed[p].ep) = listed[p].ep.clientIP

(* An id handed out no more than connectionTimeout ago is still known,     *)
(* however the sweeps of cleanConnection overlap and however late they     *)
(* run.                                                                    *)
FreshIsHonoured ==
  \A c \in Cid : issued[c] # None /\ now <= issued[c].time + ConnectionTimeout
                   => connectionList[c] = issued[c]

(* Every datagram is disposed of exactly once, on every error path too,    *)
(* when its loop turns to the next one: by one answer or, when it has no   *)
(* header or no id can be generated for it, by deliberately none.          *)
OneReply == \A l \in Loop : Len(answer[l]) = IF Idle(l) THEN 1 ELSE 0

(* Every id is eventually forgotten, as far as the bound on the clock      *)
(* lets one see it.                                                        *)
EventuallyForgotten ==
  \A c \in Cid :
    (/\ connectionList[c] # None
     /\ connectionList[c].time + ConnectionTimeout + TickDelay < MaxTime)
      ~> connectionList[c] = None

(* "event 0 // 0: none; 1: completed; 2: started; 3: stopped": a client    *)
(* that says it stops is no longer listed once its announce is handled.    *)
StoppedLeaves ==
  [][\A l \in Loop : Announce(l) /\ job[l].wire = 3 => listed'[job[l].peer] = None]_vars
=============================================================================
