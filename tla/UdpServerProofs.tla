-------------------------- MODULE UdpServerProofs --------------------------
(***************************************************************************)
(* For any number of event loops, sweeps and clients: a connection id is   *)
(* honoured as long as it must be, and only peers that completed the       *)
(* round trip of a connect are listed.                                     *)
(***************************************************************************)
EXTENDS UdpServer, TLAPS

Session == [addr : Source, time : Nat]
Record == [ep : Endpoint, event : PeerEvent]
Job == [peer : Peer, ep : Endpoint, event : PeerEvent, wire : Nat]

LEMMA EventType == ASSUME NEW w PROVE Event(w) \in PeerEvent
BY DEF Event, ParsePeerEvent, PeerEvent

LEMMA ParseType ==
  ASSUME NEW from \in Source, NEW d \in Datagram
  PROVE  /\ Parse(from, d) \in Job
         /\ Parse(from, d).ep.clientIP = from.ip
         /\ Parse(from, d).ep.ip = NoIP
<1>1. from.ip \in Addr
  BY UdpAssumption
<1>2. d.peer \in Peer /\ d.wire \in Nat /\ d.field \in Addr \cup {NoIP} /\ d.port \in Nat
  BY DEF Datagram
<1>3. Event(d.wire) \in PeerEvent
  BY EventType
<1> QED
  BY <1>1, <1>2, <1>3 DEF Parse, Job, Endpoint, PeerType

LEMMA ListedType ==
  ASSUME TypeOK, NEW q \in Job
  PROVE  Listed(q) \in Record \cup {None}
<1>1. listed[q.peer] \in Record \cup {None} /\ q.ep \in Endpoint /\ q.event \in PeerEvent
  BY DEF TypeOK, Job, Record
<1>2. CASE q.event = "stopped"
  BY <1>2 DEF Listed
<1>3. CASE q.event # "stopped" /\ listed[q.peer] # None
  <2>1. Listed(q) = [ep |-> listed[q.peer].ep, event |-> q.event]
    BY <1>3 DEF Listed
  <2> QED
    BY <1>1, <1>3, <2>1 DEF Record
<1>4. CASE q.event # "stopped" /\ listed[q.peer] = None /\ IsPeerConnectable(q.ep)
  <2>1. Listed(q) = [ep |-> q.ep, event |-> q.event]
    BY <1>4 DEF Listed
  <2> QED
    BY <1>1, <2>1 DEF Record
<1>5. CASE q.event # "stopped" /\ listed[q.peer] = None /\ ~IsPeerConnectable(q.ep)
  BY <1>5 DEF Listed
<1> QED
  BY <1>2, <1>3, <1>4, <1>5

-----------------------------------------------------------------------------
LEMMA TypeInit == Init => TypeOK
BY UdpAssumption DEF Init, TypeOK

LEMMA TypeReceive ==
  ASSUME TypeOK, NEW l \in Loop, NEW d \in Datagrams, NEW from \in Source,
         NEW cid \in Cid \cup {ProtocolID},
         \/ Dropped(l, cid, d) \/ Connect(l, from, cid, d) \/ Rejected(l, from, cid, d)
         \/ BeginAnnounce(l, from, cid, d) \/ Scrape(l, from, cid, d)
  PROVE  TypeOK'
<1> DEFINE Kinds == {"none", "connect", "error", "announce", "scrape"}
<1>0. d \in Datagram
  BY UdpAssumption
<1>1. ASSUME NEW a \in Seq(Kinds), answer' = [answer EXCEPT ![l] = a]
      PROVE  answer' \in [Loop -> Seq(Kinds)]
  BY <1>1 DEF TypeOK
<1>2. \A k \in Kinds : <<k>> \in Seq(Kinds)
  OBVIOUS
<1>3. CASE Dropped(l, cid, d)
  <2>1. answer' \in [Loop -> Seq(Kinds)]
    BY <1>3, <1>1, <1>2 DEF Dropped
  <2> QED
    BY <1>3, <2>1 DEF Dropped, TypeOK, conns, sweepers
<1>4. CASE Connect(l, from, cid, d)
  <2>1. answer' \in [Loop -> Seq(Kinds)]
    BY <1>4, <1>1, <1>2 DEF Connect
  <2>2. [addr |-> from, time |-> now] \in Session
    BY DEF TypeOK, Session
  <2>3. /\ connectionList' \in [Cid -> Session \cup {None}]
        /\ issued' \in [Cid -> Session \cup {None}]
    BY <1>4, <2>2 DEF Connect, TypeOK, Session
  <2> QED
    BY <1>4, <2>1, <2>3 DEF Connect, TypeOK, Session, sweepers
<1>5. CASE Rejected(l, from, cid, d)
  <2>1. answer' \in [Loop -> Seq(Kinds)]
    BY <1>5, <1>1, <1>2 DEF Rejected
  <2> QED
    BY <1>5, <2>1 DEF Rejected, TypeOK, conns, sweepers
<1>6. CASE BeginAnnounce(l, from, cid, d)
  <2>0. <<>> \in Seq(Kinds) /\ answer' = [answer EXCEPT ![l] = <<>>]
    BY <1>6 DEF BeginAnnounce
  <2>1. answer' \in [Loop -> Seq(Kinds)]
    BY <2>0, <1>1
  <2>2. Parse(from, d) \in Job /\ Parse(from, d) # None
    BY <1>0, ParseType, UdpAssumption DEF Job
  <2>3. /\ job' \in [Loop -> Job \cup {None}]
        /\ stage' \in [Loop -> {"idle", "announce", "reply"}]
        /\ \A i \in Loop : stage'[i] = "idle" <=> job'[i] = None
    BY <1>6, <2>2 DEF BeginAnnounce, TypeOK, Job
  <2> QED
    BY <1>6, <2>1, <2>3 DEF BeginAnnounce, TypeOK, Job, conns, sweepers
<1>7. CASE Scrape(l, from, cid, d)
  <2>1. answer' \in [Loop -> Seq(Kinds)]
    BY <1>7, <1>1, <1>2 DEF Scrape
  <2> QED
    BY <1>7, <2>1 DEF Scrape, TypeOK, conns, sweepers
<1> QED
  BY <1>3, <1>4, <1>5, <1>6, <1>7

LEMMA TypeHandle == ASSUME TypeOK, NEW l \in Loop, Handle(l) PROVE TypeOK'
<1> DEFINE Kinds == {"none", "connect", "error", "announce", "scrape"}
<1>1. \A k \in Kinds : Append(answer[l], k) \in Seq(Kinds)
  BY DEF TypeOK
<1>2. CASE Announce(l)
  <2>1. job[l] \in Job
    BY <1>2 DEF Announce, TypeOK, Job
  <2>2. listed' \in [Peer -> Record \cup {None}]
    BY <1>2, <2>1, ListedType DEF Announce, TypeOK, Job, Record
  <2>3. stage' \in [Loop -> {"idle", "announce", "reply"}]
    BY <1>2 DEF Announce, TypeOK
  <2>4. job' = job /\ \A i \in Loop : stage'[i] = "idle" <=> job'[i] = None
    BY <1>2 DEF Announce, TypeOK
  <2> QED
    BY <1>2, <2>2, <2>3, <2>4 DEF Announce, TypeOK, Record, conns, sweepers
<1>3. CASE AnnounceFails(l)
  <2>1. answer' \in [Loop -> Seq(Kinds)]
    BY <1>1, <1>3 DEF AnnounceFails, TypeOK
  <2>2. /\ job' \in [Loop -> Job \cup {None}]
        /\ stage' \in [Loop -> {"idle", "announce", "reply"}]
        /\ \A i \in Loop : stage'[i] = "idle" <=> job'[i] = None
    BY <1>3 DEF AnnounceFails, TypeOK, Job
  <2> QED
    BY <1>3, <2>1, <2>2 DEF AnnounceFails, TypeOK, Job, conns, sweepers
<1>4. CASE Reply(l)
  <2>1. answer' \in [Loop -> Seq(Kinds)]
    BY <1>1, <1>4 DEF Reply, TypeOK
  <2>2. /\ job' \in [Loop -> Job \cup {None}]
        /\ stage' \in [Loop -> {"idle", "announce", "reply"}]
        /\ \A i \in Loop : stage'[i] = "idle" <=> job'[i] = None
    BY <1>4 DEF Reply, TypeOK, Job
  <2> QED
    BY <1>4, <2>1, <2>2 DEF Reply, TypeOK, Job, conns, sweepers
<1> QED
  BY <1>2, <1>3, <1>4 DEF Handle

LEMMA TypeClean ==
  ASSUME TypeOK, NEW k \in Cleaner, OnTick(k) \/ Clean(k) PROVE TypeOK'
<1>1. CASE OnTick(k)
  BY <1>1, UdpAssumption DEF OnTick, TypeOK, conns
<1>2. CASE CleanBegin(k)
  BY <1>2 DEF CleanBegin, TypeOK, conns
<1>3. CASE CleanOne(k)
  BY <1>3 DEF CleanOne, TypeOK, sweepers
<1>4. CASE CleanEnd(k)
  BY <1>4 DEF CleanEnd, TypeOK, conns
<1> QED
  BY <1>1, <1>2, <1>3, <1>4 DEF Clean

LEMMA TypeNext == TypeOK /\ [Next]_vars => TypeOK'
<1> SUFFICES ASSUME TypeOK, [Next]_vars PROVE TypeOK'
  OBVIOUS
<1>1. CASE Advance
  BY <1>1 DEF Advance, TypeOK, conns, sweepers
<1>2. CASE UNCHANGED vars
  BY <1>2 DEF vars, TypeOK
<1> QED
  BY <1>1, <1>2, TypeReceive, TypeHandle, TypeClean DEF Next, Receive

(* Every variable of the UDP tracker keeps its type. *)
THEOREM UdpTypeCorrect == Spec => []TypeOK
BY TypeInit, TypeNext, PTL DEF Spec

-----------------------------------------------------------------------------
(* A sweep never compares with a time to come, and an entry of the list is *)
(* as it was when its id was issued.                                       *)
SweepsArePast == \A k \in Cleaner : sweep[k] <= now
IssuedIsPast == \A c \in Cid : issued[c] # None => issued[c].time <= now
ListIsIssued == \A c \in Cid : connectionList[c] # None => connectionList[c] = issued[c]
FreshInv == SweepsArePast /\ IssuedIsPast /\ ListIsIssued /\ FreshIsHonoured

LEMMA FreshInit == Init => FreshInv
BY DEF Init, FreshInv, SweepsArePast, IssuedIsPast, ListIsIssued, FreshIsHonoured

LEMMA FreshConnect ==
  ASSUME TypeOK, FreshInv, NEW l \in Loop, NEW from \in Source, NEW cid, NEW d,
         Connect(l, from, cid, d)
  PROVE  FreshInv'
<1> DEFINE s == [addr |-> from, time |-> now]
<1>1. PICK c \in Cid : /\ connectionList' = [connectionList EXCEPT ![c] = s]
                       /\ issued' = [issued EXCEPT ![c] = s]
  BY DEF Connect
<1>2. now' = now /\ sweep' = sweep /\ now \in Nat
  BY DEF Connect, sweepers, TypeOK
<1>3. s # None /\ s.time = now
  BY <1>2, UdpAssumption
<1> HIDE DEF s
<1>4. /\ connectionList'[c] = s /\ issued'[c] = s
      /\ \A b \in Cid \ {c} : connectionList'[b] = connectionList[b] /\ issued'[b] = issued[b]
  BY <1>1 DEF TypeOK
<1>5. SweepsArePast'
  BY <1>2 DEF FreshInv, SweepsArePast
<1>6. IssuedIsPast'
  BY <1>2, <1>3, <1>4 DEF FreshInv, IssuedIsPast
<1>7. ListIsIssued'
  BY <1>4 DEF FreshInv, ListIsIssued
<1>8. FreshIsHonoured'
  BY <1>2, <1>4 DEF FreshInv, FreshIsHonoured
<1> QED
  BY <1>5, <1>6, <1>7, <1>8 DEF FreshInv

(* What a sweep removes is older than the timeout: it was read from the    *)
(* list, where it is as it was issued, and the sweep's time is past.       *)
LEMMA FreshClean ==
  ASSUME TypeOK, FreshInv, NEW k \in Cleaner, CleanOne(k)
  PROVE  FreshInv'
<1>1. PICK c \in Cid : /\ Expired(c, sweep[k])
                       /\ connectionList' = [connectionList EXCEPT ![c] = None]
  BY DEF CleanOne
<1>2. now' = now /\ sweep' = sweep /\ issued' = issued /\ now \in Nat /\ sweep[k] \in Nat
  BY DEF CleanOne, sweepers, TypeOK
<1>3. /\ connectionList'[c] = None
      /\ \A b \in Cid \ {c} : connectionList'[b] = connectionList[b]
  BY <1>1 DEF TypeOK
<1>4. connectionList[c] # None /\ connectionList[c] = issued[c] /\ issued[c].time \in Nat
  BY <1>1 DEF Expired, FreshInv, ListIsIssued, TypeOK
<1>5. issued[c].time + ConnectionTimeout < sweep[k] /\ sweep[k] <= now
  BY <1>1, <1>4 DEF Expired, FreshInv, SweepsArePast
<1>6. ~(now <= issued[c].time + ConnectionTimeout)
  BY <1>2, <1>4, <1>5, UdpAssumption
<1>7. SweepsArePast' /\ IssuedIsPast' /\ ListIsIssued'
  BY <1>2, <1>3 DEF FreshInv, SweepsArePast, IssuedIsPast, ListIsIssued
<1>8. FreshIsHonoured'
  BY <1>2, <1>3, <1>6 DEF FreshInv, FreshIsHonoured
<1> QED
  BY <1>7, <1>8 DEF FreshInv

LEMMA FreshAdvance ==
  ASSUME TypeOK, FreshInv, Advance PROVE FreshInv'
<1>1. now' = now + 1 /\ now \in Nat /\ UNCHANGED <<connectionList, issued, sweep>>
  BY DEF Advance, TypeOK, conns, sweepers
<1>2. \A c \in Cid : issued[c] # None => issued[c].time \in Nat
  BY DEF TypeOK
<1>3. \A k \in Cleaner : sweep[k] \in Nat
  BY DEF TypeOK
<1>4. SweepsArePast' /\ IssuedIsPast' /\ ListIsIssued'
  BY <1>1, <1>2, <1>3 DEF FreshInv, SweepsArePast, IssuedIsPast, ListIsIssued
<1>5. FreshIsHonoured'
  <2> SUFFICES ASSUME NEW c \in Cid, issued[c] # None, now + 1 <= issued[c].time + ConnectionTimeout
               PROVE  connectionList[c] = issued[c]
    BY <1>1 DEF FreshIsHonoured
  <2>1. ConnectionTimeout \in Nat /\ issued[c].time \in Nat
    BY <1>2, UdpAssumption
  <2>2. now <= issued[c].time + ConnectionTimeout
    BY <1>1, <2>1
  <2> QED
    BY <2>2 DEF FreshInv, FreshIsHonoured
<1> QED
  BY <1>4, <1>5 DEF FreshInv

LEMMA FreshNext == TypeOK /\ FreshInv /\ [Next]_vars => FreshInv'
<1> SUFFICES ASSUME TypeOK, FreshInv, [Next]_vars PROVE FreshInv'
  OBVIOUS
<1>1. CASE UNCHANGED <<now, connectionList, issued, sweep>>
  BY <1>1 DEF FreshInv, SweepsArePast, IssuedIsPast, ListIsIssued, FreshIsHonoured
<1>2. ASSUME NEW l \in Loop, Receive(l) PROVE FreshInv'
  BY <1>1, <1>2, FreshConnect
     DEF Receive, Dropped, Rejected, BeginAnnounce, Scrape, conns, sweepers
<1>3. ASSUME NEW l \in Loop, Handle(l) PROVE FreshInv'
  BY <1>1, <1>3 DEF Handle, Announce, AnnounceFails, Reply, conns, sweepers
<1>4. ASSUME NEW k \in Cleaner, OnTick(k) PROVE FreshInv'
  BY <1>1, <1>4 DEF OnTick, conns
<1>5. ASSUME NEW k \in Cleaner, CleanBegin(k) \/ CleanEnd(k) PROVE FreshInv'
  <2>1. UNCHANGED <<now, connectionList, issued>> /\ now \in Nat
    BY <1>5 DEF CleanBegin, CleanEnd, conns, TypeOK
  <2>2. sweep' = [sweep EXCEPT ![k] = now] \/ sweep' = [sweep EXCEPT ![k] = 0]
    BY <1>5 DEF CleanBegin, CleanEnd
  <2>3. SweepsArePast'
    <3> SUFFICES ASSUME NEW j \in Cleaner PROVE sweep'[j] <= now
      BY <2>1 DEF SweepsArePast
    <3>1. sweep'[j] \in {sweep[j], now, 0}
      BY <2>2 DEF TypeOK
    <3> QED
      BY <2>1, <3>1 DEF FreshInv, SweepsArePast
  <2> QED
    BY <2>1, <2>3 DEF FreshInv, IssuedIsPast, ListIsIssued, FreshIsHonoured
<1>6. ASSUME NEW k \in Cleaner, CleanOne(k) PROVE FreshInv'
  BY <1>6, FreshClean
<1>7. CASE Advance
  BY <1>7, FreshAdvance
<1> QED
  BY <1>1, <1>2, <1>3, <1>4, <1>5, <1>6, <1>7 DEF Next, Clean, vars

(* A client that received its id no more than connectionTimeout ago is     *)
(* never told that it has expired (connect.go:50-62).                      *)
THEOREM FreshIdsAreHonoured == Spec => []FreshIsHonoured
<1>1. Spec => []TypeOK
  BY UdpTypeCorrect
<1>2. FreshInv => FreshIsHonoured
  BY DEF FreshInv
<1> QED
  BY <1>1, <1>2, FreshInit, FreshNext, PTL DEF Spec

-----------------------------------------------------------------------------
(* Some id was issued to the client's own address. *)
Verified(ep) == \E c \in Cid : issued[c] # None /\ issued[c].addr.ip = ep.clientIP

JobsVerified == \A l \in Loop : job[l] # None => Verified(job[l].ep)
ListVerified == \A p \in Peer : listed[p] # None => Verified(listed[p].ep)
TripInv == ListIsIssued /\ JobsVerified /\ ListVerified

LEMMA TripInit == Init => TripInv
BY DEF Init, TripInv, ListIsIssued, JobsVerified, ListVerified

LEMMA TripNext == TypeOK /\ TripInv /\ [Next]_vars => TripInv'
<1> SUFFICES ASSUME TypeOK, TripInv, [Next]_vars PROVE TripInv'
  OBVIOUS
<1>1. CASE UNCHANGED <<connectionList, issued, job, listed>>
  BY <1>1 DEF TripInv, ListIsIssued, JobsVerified, ListVerified, Verified
<1>2. ASSUME NEW l \in Loop, NEW from \in Source, NEW cid, NEW d, Connect(l, from, cid, d)
      PROVE  TripInv'
  <2>1. PICK c \in Cid : /\ Fresh(c)
                         /\ connectionList' = [connectionList EXCEPT ![c] = [addr |-> from, time |-> now]]
                         /\ issued' = [issued EXCEPT ![c] = [addr |-> from, time |-> now]]
    BY <1>2 DEF Connect
  <2>2. /\ issued[c] = None /\ connectionList'[c] = issued'[c]
        /\ \A b \in Cid \ {c} : connectionList'[b] = connectionList[b] /\ issued'[b] = issued[b]
    BY <2>1 DEF Fresh, TypeOK
  <2>3. \A ep : Verified(ep) => Verified(ep)'
    BY <2>2 DEF Verified
  <2>4. job' = job /\ listed' = listed
    BY <1>2 DEF Connect
  <2> QED
    BY <2>2, <2>3, <2>4 DEF TripInv, ListIsIssued, JobsVerified, ListVerified
<1>3. ASSUME NEW l \in Loop, NEW from \in Source, NEW cid, NEW d \in Datagrams,
             BeginAnnounce(l, from, cid, d)
      PROVE  TripInv'
  <2>1. UNCHANGED <<connectionList, issued, listed>> /\ job' = [job EXCEPT ![l] = Parse(from, d)]
    BY <1>3 DEF BeginAnnounce, conns
  <2>2. Parse(from, d).ep.clientIP = from.ip
    BY ParseType, UdpAssumption
  <2>3. cid \in Cid /\ connectionList[cid] # None /\ connectionList[cid].addr = from
    BY <1>3 DEF BeginAnnounce, Known
  <2>4. issued[cid] # None /\ issued[cid].addr = from
    BY <2>3 DEF TripInv, ListIsIssued
  <2>5. Verified(Parse(from, d).ep)
    BY <2>2, <2>3, <2>4 DEF Verified
  <2>6. \A ep : Verified(ep) => Verified(ep)'
    BY <2>1 DEF Verified
  <2> QED
    BY <2>1, <2>5, <2>6 DEF TripInv, ListIsIssued, JobsVerified, ListVerified, TypeOK
<1>4. ASSUME NEW l \in Loop, Announce(l) PROVE TripInv'
  <2>1. UNCHANGED <<connectionList, issued, job>>
    BY <1>4 DEF Announce, conns
  <2>2. job[l] \in Job
    BY <1>4 DEF Announce, TypeOK, Job
  <2>3. job[l].peer \in Peer /\ listed' = [listed EXCEPT ![job[l].peer] = Listed(job[l])]
    BY <1>4, <2>2 DEF Announce, Job
  <2>4. Listed(job[l]) # None =>
          \/ Listed(job[l]).ep = job[l].ep
          \/ listed[job[l].peer] # None /\ Listed(job[l]).ep = listed[job[l].peer].ep
    BY DEF Listed
  <2>5. job[l] # None
    BY <1>4 DEF Announce, TypeOK
  <2>6. Listed(job[l]) # None => Verified(Listed(job[l]).ep)
    BY <2>3, <2>4, <2>5 DEF TripInv, JobsVerified, ListVerified
  <2>7. \A ep : Verified(ep) => Verified(ep)'
    BY <2>1 DEF Verified
  <2> QED
    BY <2>1, <2>3, <2>6, <2>7 DEF TripInv, ListIsIssued, JobsVerified, ListVerified, TypeOK
<1>5. ASSUME NEW l \in Loop, AnnounceFails(l) \/ Reply(l) PROVE TripInv'
  <2>1. UNCHANGED <<connectionList, issued, listed>> /\ job' = [job EXCEPT ![l] = None]
    BY <1>5 DEF AnnounceFails, Reply, conns
  <2>2. \A ep : Verified(ep) => Verified(ep)'
    BY <2>1 DEF Verified
  <2> QED
    BY <2>1, <2>2 DEF TripInv, ListIsIssued, JobsVerified, ListVerified, TypeOK
<1>6. ASSUME NEW k \in Cleaner, CleanOne(k) PROVE TripInv'
  <2>1. PICK c \in Cid : connectionList' = [connectionList EXCEPT ![c] = None]
    BY <1>6 DEF CleanOne
  <2>2. UNCHANGED <<issued, job, listed>>
    BY <1>6 DEF CleanOne
  <2>3. \A ep : Verified(ep) => Verified(ep)'
    BY <2>2 DEF Verified
  <2> QED
    BY <2>1, <2>2, <2>3 DEF TripInv, ListIsIssued, JobsVerified, ListVerified, TypeOK
<1>7. ASSUME NEW l \in Loop, Receive(l) PROVE TripInv'
  BY <1>1, <1>2, <1>3, <1>7 DEF Receive, Dropped, Rejected, Scrape, conns
<1>8. ASSUME NEW k \in Cleaner, OnTick(k) \/ CleanBegin(k) \/ CleanEnd(k) PROVE TripInv'
  BY <1>1, <1>8 DEF OnTick, CleanBegin, CleanEnd, conns
<1>9. CASE Advance
  BY <1>1, <1>9 DEF Advance, conns
<1> QED
  BY <1>1, <1>4, <1>5, <1>6, <1>7, <1>8, <1>9 DEF Next, Handle, Clean, vars

(* Only peers whose client completed a connect at its own address are      *)
(* listed (server.go:99-103).                                              *)
THEOREM ListedCompletedRoundTrip == Spec => []RoundTrip
<1>1. Spec => []TypeOK
  BY UdpTypeCorrect
<1>2. TripInv => RoundTrip
  BY DEF TripInv, ListVerified, Verified, RoundTrip, GetIP
<1> QED
  BY <1>1, <1>2, TripInit, TripNext, PTL DEF Spec

-----------------------------------------------------------------------------
(* The answers of a loop that changes to sequence a. *)
LEMMA ReplyStep ==
  ASSUME TypeOK, OneReply, NEW l \in Loop, NEW a, NEW t \in {"idle", "announce"},
         answer' = [answer EXCEPT ![l] = a], stage' = [stage EXCEPT ![l] = t],
         Len(a) = IF t = "idle" THEN 1 ELSE 0
  PROVE  OneReply'
BY DEF TypeOK, OneReply, Idle

LEMMA ReplyNext == TypeOK /\ OneReply /\ [Next]_vars => OneReply'
<1> SUFFICES ASSUME TypeOK, OneReply, [Next]_vars PROVE OneReply'
  OBVIOUS
<1>1. CASE UNCHANGED <<stage, answer>>
  BY <1>1 DEF OneReply, Idle
<1>2. ASSUME NEW l \in Loop, NEW a, Len(a) = 1, Idle(l), stage' = stage,
             answer' = [answer EXCEPT ![l] = a]
      PROVE  OneReply'
  BY <1>2, ReplyStep DEF TypeOK, Idle
<1>3. \A x : Len(<<x>>) = 1
  OBVIOUS
<1>4. ASSUME NEW l \in Loop, Receive(l) PROVE OneReply'
  <2>1. PICK d \in Datagrams, from \in Source, cid \in Cid \cup {ProtocolID} :
          \/ Dropped(l, cid, d) \/ Connect(l, from, cid, d) \/ Rejected(l, from, cid, d)
          \/ BeginAnnounce(l, from, cid, d) \/ Scrape(l, from, cid, d)
    BY <1>4 DEF Receive
  <2>2. CASE BeginAnnounce(l, from, cid, d)
    <3>1. answer' = [answer EXCEPT ![l] = <<>>] /\ stage' = [stage EXCEPT ![l] = "announce"]
      BY <2>2 DEF BeginAnnounce
    <3>2. PICK a : a = <<>>
      OBVIOUS
    <3>3. answer' = [answer EXCEPT ![l] = a] /\ Len(a) = 0
      BY <3>1, <3>2
    <3> QED
      BY <3>1, <3>3, ReplyStep
  <2>3. CASE ~BeginAnnounce(l, from, cid, d)
    BY <1>2, <1>3, <2>1, <2>3 DEF Dropped, Connect, Rejected, Scrape
  <2> QED
    BY <2>2, <2>3
<1>5. ASSUME NEW l \in Loop, Announce(l) PROVE OneReply'
  BY <1>5 DEF Announce, TypeOK, OneReply, Idle
<1>6. ASSUME NEW l \in Loop, AnnounceFails(l) \/ Reply(l) PROVE OneReply'
  <2>1. PICK x \in {"error", "announce"} :
          answer' = [answer EXCEPT ![l] = Append(@, x)] /\ stage' = [stage EXCEPT ![l] = "idle"]
    BY <1>6 DEF AnnounceFails, Reply
  <2>2. Len(answer[l]) = 0 /\ answer[l] \in Seq({"none", "connect", "error", "announce", "scrape"})
    BY <1>6 DEF AnnounceFails, Reply, OneReply, Idle, TypeOK
  <2>3. Len(Append(answer[l], x)) = 1
    BY <2>2
  <2> QED
    BY <2>1, <2>3, ReplyStep
<1>7. ASSUME NEW k \in Cleaner, OnTick(k) \/ Clean(k) PROVE OneReply'
  BY <1>1, <1>7 DEF OnTick, Clean, CleanBegin, CleanOne, CleanEnd
<1>8. CASE Advance
  BY <1>1, <1>8 DEF Advance
<1> QED
  BY <1>1, <1>4, <1>5, <1>6, <1>7, <1>8 DEF Next, Handle, vars

(* Every datagram is answered once, or deliberately not at all, before its *)
(* loop turns to the next one: no error path of handleRequest and          *)
(* handleAnnounce falls through to a second answer (server.go:83-126).     *)
THEOREM EveryDatagramAnsweredOnce == Spec => []OneReply
<1>1. Init => OneReply
  BY DEF Init, OneReply, Idle
<1> QED
  BY <1>1, ReplyNext, UdpTypeCorrect, PTL DEF Spec
=============================================================================
