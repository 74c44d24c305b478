------------------------- MODULE MuxManagerProofs -------------------------
(***************************************************************************)
(* A ban that has returned holds for every announce that begins after it,  *)
(* for any number of announces and administrators.                         *)
(***************************************************************************)
EXTENDS MuxManager, TLAPS

Stages == {"idle", "hash", "peer", "ip", "worker", "done"}

LEMMA TypeInit == Init => TypeOK
BY DEF Init, TypeOK, Target

LEMMA TypeCalls ==
  ASSUME TypeOK, NEW c \in Calls,
         \/ \E r \in Requests : BadRequest(c, r) \/ Begin(c, r)
         \/ Check(c) \/ Worker(c)
  PROVE  TypeOK'
<1>1. ASSUME NEW r \in Requests, BadRequest(c, r) PROVE TypeOK'
  <2>1. r \in Request /\ r # None
    BY MuxAssumption
  <2>2. req' \in [Calls -> Request \cup {None}] /\ stage' \in [Calls -> Stages]
    BY <1>1, <2>1 DEF BadRequest, TypeOK, Stages
  <2>3. \A d \in Calls : req'[d] = None <=> stage'[d] = "idle"
    BY <1>1, <2>1 DEF BadRequest, TypeOK
  <2> QED
    BY <1>1, <2>2, <2>3 DEF BadRequest, TypeOK, Stages, admins
<1>2. ASSUME NEW r \in Requests, Begin(c, r) PROVE TypeOK'
  <2>1. r \in Request /\ r # None /\ r.numWant \in Int
    BY MuxAssumption DEF Request
  <2>2. NumWant(r.numWant) \in Int
    BY <2>1, MuxAssumption DEF NumWant
  <2>3. want' \in [Calls -> Int]
    BY <1>2, <2>2 DEF Begin, TypeOK
  <2>4. req' \in [Calls -> Request \cup {None}] /\ stage' \in [Calls -> Stages]
    BY <1>2, <2>1 DEF Begin, TypeOK, Stages
  <2>5. \A d \in Calls : req'[d] = None <=> stage'[d] = "idle"
    BY <1>2, <2>1 DEF Begin, TypeOK
  <2>6. doomed' \in [Calls -> SUBSET Target]
    BY <1>2 DEF Begin, TypeOK
  <2> QED
    BY <1>2, <2>3, <2>4, <2>5, <2>6 DEF Begin, TypeOK, Stages, admins
<1>3. CASE Check(c)
  <2>1. stage'[c] \in Stages \ {"idle"}
    BY <1>3 DEF Check, TypeOK, After, Stages
  <2>2. stage' \in [Calls -> Stages]
    BY <1>3, <2>1 DEF Check, TypeOK, Stages
  <2>3. \A d \in Calls : req'[d] = None <=> stage'[d] = "idle"
    BY <1>3, <2>1 DEF Check, TypeOK
  <2> QED
    BY <1>3, <2>2, <2>3 DEF Check, TypeOK, Stages, admins
<1>4. CASE Worker(c)
  <2>1. req[c] \in Request
    BY <1>4 DEF Worker, TypeOK
  <2>2. listed' \subseteq InfoHash \X PeerID
    BY <1>4, <2>1 DEF Worker, TypeOK, Entry, Request
  <2>3. stage' \in [Calls -> Stages] /\ req' = req
    BY <1>4 DEF Worker, TypeOK, Stages
  <2>4. \A d \in Calls : req'[d] = None <=> stage'[d] = "idle"
    BY <1>4 DEF Worker, TypeOK
  <2> QED
    BY <1>4, <2>2, <2>3, <2>4 DEF Worker, TypeOK, Stages, admins
<1> QED
  BY <1>1, <1>2, <1>3, <1>4

LEMMA TypeAdmins ==
  ASSUME TypeOK, NEW a \in Admins,
         \/ \E o \in Orders : OrderBegin(a, o)
         \/ AddBan(a) \/ AddBanFails(a) \/ BanReturns(a)
         \/ Delete(a) \/ Clear(a) \/ Unban(a) \/ UnbanFails(a) \/ OrderEnd(a)
  PROVE  TypeOK'
<1>1. ASSUME NEW o \in Orders, OrderBegin(a, o) PROVE TypeOK'
  <2>1. o \in Order /\ o # None /\ o.targets \in Seq(Target)
    BY MuxAssumption DEF Order
  <2>2. order' \in [Admins -> Order \cup {None}] /\ todo' \in [Admins -> Seq(Target)]
    BY <1>1, <2>1 DEF OrderBegin, TypeOK
  <2>3. added' = added /\ ~added[a]
    BY <1>1 DEF OrderBegin, TypeOK
  <2>4. \A b \in Admins : added'[b] => order'[b] # None /\ order'[b].op = "ban" /\ todo'[b] # <<>>
    BY <1>1, <2>3 DEF OrderBegin, TypeOK
  <2> QED
    BY <1>1, <2>2, <2>3, <2>4 DEF OrderBegin, TypeOK, calls
<1>2. ASSUME todo[a] # <<>> PROVE Head(todo[a]) \in Target /\ Tail(todo[a]) \in Seq(Target)
  BY <1>2 DEF TypeOK
<1>3. CASE AddBan(a)
  <2>1. banned' \subseteq Target
    BY <1>2, <1>3 DEF AddBan, TypeOK
  <2>2. added' \in [Admins -> BOOLEAN] /\ order' = order /\ todo' = todo
    BY <1>3 DEF AddBan, TypeOK
  <2>3. \A b \in Admins : added'[b] => order'[b] # None /\ order'[b].op = "ban" /\ todo'[b] # <<>>
    BY <1>3 DEF AddBan, TypeOK
  <2> QED
    BY <1>3, <2>1, <2>2, <2>3 DEF AddBan, TypeOK, calls
<1>4. CASE AddBanFails(a)
  <2>1. banned' \subseteq Target
    BY <1>2, <1>4 DEF AddBanFails, TypeOK
  <2>2. /\ order' \in [Admins -> Order \cup {None}] /\ todo' \in [Admins -> Seq(Target)]
        /\ added' = added
    BY <1>4 DEF AddBanFails, TypeOK
  <2>3. \A b \in Admins : added'[b] => order'[b] # None /\ order'[b].op = "ban" /\ todo'[b] # <<>>
    BY <1>4 DEF AddBanFails, TypeOK
  <2> QED
    BY <1>4, <2>1, <2>2, <2>3 DEF AddBanFails, TypeOK, calls
<1>5. CASE BanReturns(a)
  <2>0. todo[a] # <<>>
    BY <1>5 DEF BanReturns, TypeOK
  <2>1. acked' \subseteq Target /\ listed' \subseteq InfoHash \X PeerID
    BY <1>2, <1>5, <2>0 DEF BanReturns, TypeOK
  <2>2. /\ added' \in [Admins -> BOOLEAN] /\ order' = order
        /\ todo' \in [Admins -> Seq(Target)]
    BY <1>2, <1>5, <2>0 DEF BanReturns, TypeOK
  <2>3. \A b \in Admins : added'[b] => order'[b] # None /\ order'[b].op = "ban" /\ todo'[b] # <<>>
    BY <1>5 DEF BanReturns, TypeOK
  <2> QED
    BY <1>5, <2>1, <2>2, <2>3 DEF BanReturns, TypeOK, calls
<1>6. CASE Delete(a)
  <2>1. listed' \subseteq InfoHash \X PeerID
    BY <1>6 DEF Delete, TypeOK
  <2>2. todo' \in [Admins -> Seq(Target)] /\ order' = order /\ added' = added /\ ~added[a]
    BY <1>2, <1>6 DEF Delete, TypeOK
  <2>3. \A b \in Admins : added'[b] => order'[b] # None /\ order'[b].op = "ban" /\ todo'[b] # <<>>
    BY <1>6, <2>2 DEF Delete, TypeOK
  <2> QED
    BY <1>6, <2>1, <2>2, <2>3 DEF Delete, TypeOK, calls
<1>7. CASE Clear(a)
  <2>1. /\ banned' \subseteq Target /\ acked' \subseteq Target
        /\ doomed' \in [Calls -> SUBSET Target]
    BY <1>7 DEF Clear, TypeOK
  <2>2. order' \in [Admins -> Order \cup {None}] /\ todo' = todo /\ added' = added /\ ~added[a]
    BY <1>7 DEF Clear, TypeOK
  <2>3. \A b \in Admins : added'[b] => order'[b] # None /\ order'[b].op = "ban" /\ todo'[b] # <<>>
    BY <1>7, <2>2 DEF Clear, TypeOK
  <2> QED
    BY <1>7, <2>1, <2>2, <2>3 DEF Clear, TypeOK, calls
<1>8. CASE OrderEnd(a)
  <2>1. order' \in [Admins -> Order \cup {None}] /\ todo' = todo /\ added' = added /\ ~added[a]
    BY <1>8 DEF OrderEnd, TypeOK
  <2>2. \A b \in Admins : added'[b] => order'[b] # None /\ order'[b].op = "ban" /\ todo'[b] # <<>>
    BY <1>8, <2>1 DEF OrderEnd, TypeOK
  <2> QED
    BY <1>8, <2>1, <2>2 DEF OrderEnd, TypeOK, calls
<1>9. CASE Unban(a)
  <2>1. /\ banned' \subseteq Target /\ acked' \subseteq Target
        /\ doomed' \in [Calls -> SUBSET Target]
    BY <1>9 DEF Unban, TypeOK
  <2>2. todo' \in [Admins -> Seq(Target)] /\ order' = order /\ added' = added /\ ~added[a]
    BY <1>2, <1>9 DEF Unban, TypeOK
  <2>3. \A b \in Admins : added'[b] => order'[b] # None /\ order'[b].op = "ban" /\ todo'[b] # <<>>
    BY <1>9, <2>2 DEF Unban, TypeOK
  <2> QED
    BY <1>9, <2>1, <2>2, <2>3 DEF Unban, TypeOK, calls
<1>10. CASE UnbanFails(a)
  <2>1. /\ order' \in [Admins -> Order \cup {None}] /\ todo' \in [Admins -> Seq(Target)]
        /\ added' = added /\ ~added[a]
    BY <1>10 DEF UnbanFails, TypeOK
  <2>2. \A b \in Admins : added'[b] => order'[b] # None /\ order'[b].op = "ban" /\ todo'[b] # <<>>
    BY <1>10, <2>1 DEF UnbanFails, TypeOK
  <2> QED
    BY <1>10, <2>1, <2>2 DEF UnbanFails, TypeOK, calls
<1> QED
  BY <1>1, <1>3, <1>4, <1>5, <1>6, <1>7, <1>8, <1>9, <1>10

LEMMA TypeNext == TypeOK /\ [Next]_vars => TypeOK'
<1> SUFFICES ASSUME TypeOK, [Next]_vars PROVE TypeOK'
  OBVIOUS
<1>1. CASE UNCHANGED vars
  BY <1>1 DEF vars, calls, admins, TypeOK
<1> QED
  BY <1>1, TypeCalls, TypeAdmins DEF Next

(* Every variable of the manager keeps its type, and an administrator's    *)
(* loop never runs past the end of its targets.                            *)
THEOREM MuxTypeCorrect == Spec => []TypeOK
BY TypeInit, TypeNext, PTL DEF Spec

-----------------------------------------------------------------------------
(* What was acknowledged is still on the lists, and a call that got past   *)
(* a check was not doomed by it when it began.                             *)
AckedIsBanned == acked \subseteq banned
DoomedIsAcked == \A c \in Calls : doomed[c] \subseteq acked
PastHash == \A c \in Calls : stage[c] \in {"peer", "ip", "worker"} => <<"hash", req[c].hash>> \notin doomed[c]
PastPeer == \A c \in Calls : stage[c] \in {"ip", "worker"} => <<"peer", req[c].peer>> \notin doomed[c]
PastIP == \A c \in Calls : stage[c] = "worker" => <<"ip", req[c].ip>> \notin doomed[c]
DoomedIsOwn == \A c \in Calls : stage[c] # "idle" => doomed[c] \subseteq TargetsOf(req[c])
IdleIsFree == \A c \in Calls : stage[c] = "idle" => doomed[c] = {}
HoldInv ==
  /\ AckedIsBanned /\ DoomedIsAcked /\ PastHash /\ PastPeer /\ PastIP
  /\ DoomedIsOwn /\ IdleIsFree

LEMMA HoldInit == Init => HoldInv
BY DEF Init, HoldInv, AckedIsBanned, DoomedIsAcked, PastHash, PastPeer, PastIP, DoomedIsOwn, IdleIsFree

LEMMA HoldCalls ==
  ASSUME TypeOK, HoldInv, NEW c \in Calls,
         \/ \E r \in Requests : BadRequest(c, r) \/ Begin(c, r)
         \/ Check(c) \/ Worker(c)
  PROVE  HoldInv'
<1>1. AckedIsBanned'
  BY DEF BadRequest, Begin, Check, Worker, HoldInv, AckedIsBanned
<1>2. ASSUME NEW r \in Requests, BadRequest(c, r) PROVE HoldInv'
  <2>2. doomed' = doomed /\ acked' = acked /\ stage'[c] = "done" /\ req'[c] = r
    BY <1>2 DEF BadRequest, TypeOK
  <2>3. \A d \in Calls \ {c} : stage'[d] = stage[d] /\ req'[d] = req[d]
    BY <1>2 DEF BadRequest, TypeOK
  <2>4. doomed[c] = {}
    BY <1>2 DEF BadRequest, HoldInv, IdleIsFree
  <2> QED
    BY <1>1, <2>2, <2>3, <2>4
       DEF HoldInv, DoomedIsAcked, PastHash, PastPeer, PastIP, DoomedIsOwn, IdleIsFree
<1>3. ASSUME NEW r \in Requests, Begin(c, r) PROVE HoldInv'
  <2>1. /\ doomed'[c] = acked \cap TargetsOf(r) /\ acked' = acked
        /\ stage'[c] = "hash" /\ req'[c] = r
    BY <1>3 DEF Begin, TypeOK
  <2>2. \A d \in Calls \ {c} : stage'[d] = stage[d] /\ req'[d] = req[d] /\ doomed'[d] = doomed[d]
    BY <1>3 DEF Begin, TypeOK
  <2> QED
    BY <1>1, <2>1, <2>2 DEF HoldInv, DoomedIsAcked, PastHash, PastPeer, PastIP, DoomedIsOwn, IdleIsFree
<1>4. CASE Check(c)
  <2>1. /\ doomed' = doomed /\ acked' = acked /\ req' = req
        /\ \A d \in Calls \ {c} : stage'[d] = stage[d]
    BY <1>4 DEF Check, TypeOK
  <2>2. doomed[c] \subseteq banned
    BY DEF HoldInv, AckedIsBanned, DoomedIsAcked
  <2>3. stage'[c] = IF Passes(c) THEN After(stage[c]) ELSE "done"
    BY <1>4 DEF Check, TypeOK
  <2>4. stage'[c] # "done" => Asked(c) \notin doomed[c]
    <3>1. CASE Asked(c) \notin banned
      BY <2>2, <3>1
    <3>2. CASE stage[c] = "ip" /\ req[c].ip = None
      <4>1. doomed[c] \subseteq TargetsOf(req[c])
        BY <3>2 DEF HoldInv, DoomedIsOwn
      <4> QED
        BY <3>2, <4>1 DEF Asked, TargetsOf
    <3> QED
      BY <2>3, <3>1, <3>2 DEF Passes
  <2>5. stage[c] \in {"hash", "peer", "ip"}
    BY <1>4 DEF Check
  <2>6. /\ stage'[c] \in {"peer", "ip", "worker"} => <<"hash", req[c].hash>> \notin doomed[c]
        /\ stage'[c] \in {"ip", "worker"} => <<"peer", req[c].peer>> \notin doomed[c]
        /\ stage'[c] = "worker" => <<"ip", req[c].ip>> \notin doomed[c]
    BY <2>3, <2>4, <2>5 DEF After, Asked, HoldInv, PastHash, PastPeer
  <2>7. stage'[c] # "idle"
    BY <2>3, <2>5 DEF After
  <2> QED
    BY <1>1, <2>1, <2>5, <2>6, <2>7
       DEF HoldInv, DoomedIsAcked, PastHash, PastPeer, PastIP, DoomedIsOwn, IdleIsFree
<1>5. CASE Worker(c)
  <2>1. /\ doomed' = doomed /\ acked' = acked /\ req' = req /\ stage'[c] = "done"
        /\ \A d \in Calls \ {c} : stage'[d] = stage[d]
    BY <1>5 DEF Worker, TypeOK
  <2>2. stage[c] = "worker"
    BY <1>5 DEF Worker
  <2> QED
    BY <1>1, <2>1, <2>2
       DEF HoldInv, DoomedIsAcked, PastHash, PastPeer, PastIP, DoomedIsOwn, IdleIsFree
<1> QED
  BY <1>2, <1>3, <1>4, <1>5

LEMMA HoldAdmins ==
  ASSUME TypeOK, HoldInv, NEW a \in Admins,
         \/ \E o \in Orders : OrderBegin(a, o)
         \/ AddBan(a) \/ AddBanFails(a) \/ BanReturns(a)
         \/ Delete(a) \/ Clear(a) \/ Unban(a) \/ UnbanFails(a) \/ OrderEnd(a)
  PROVE  HoldInv'
<1>1. UNCHANGED <<req, stage>>
  BY DEF OrderBegin, AddBan, AddBanFails, BanReturns, Delete, Clear, Unban, UnbanFails,
         OrderEnd, calls
<1>2. CASE Clear(a)
  <2>1. \A c \in Calls : doomed'[c] \subseteq doomed[c]
    BY <1>2 DEF Clear
  <2>2. AckedIsBanned'
    BY <1>2 DEF Clear, OfKind, HoldInv, AckedIsBanned
  <2>3. DoomedIsAcked'
    BY <1>2 DEF Clear, OfKind, HoldInv, DoomedIsAcked
  <2> QED
    BY <1>1, <2>1, <2>2, <2>3 DEF HoldInv, PastHash, PastPeer, PastIP, DoomedIsOwn, IdleIsFree
<1>3. CASE Unban(a)
  <2>1. \A c \in Calls : doomed'[c] \subseteq doomed[c]
    BY <1>3 DEF Unban
  <2>2. AckedIsBanned'
    BY <1>3 DEF Unban, HoldInv, AckedIsBanned
  <2>3. DoomedIsAcked'
    BY <1>3 DEF Unban, HoldInv, DoomedIsAcked
  <2> QED
    BY <1>1, <2>1, <2>2, <2>3 DEF HoldInv, PastHash, PastPeer, PastIP, DoomedIsOwn, IdleIsFree
<1>4. CASE ~Clear(a) /\ ~Unban(a)
  <2>1. doomed' = doomed /\ acked \subseteq acked'
    BY <1>4 DEF OrderBegin, AddBan, AddBanFails, BanReturns, Delete, UnbanFails, OrderEnd
  <2>2. AckedIsBanned'
    BY <1>4 DEF OrderBegin, AddBan, AddBanFails, BanReturns, Delete, UnbanFails, OrderEnd,
                HoldInv, AckedIsBanned
  <2> QED
    BY <1>1, <2>1, <2>2
       DEF HoldInv, DoomedIsAcked, PastHash, PastPeer, PastIP, DoomedIsOwn, IdleIsFree
<1> QED
  BY <1>2, <1>3, <1>4

LEMMA HoldNext == TypeOK /\ HoldInv /\ [Next]_vars => HoldInv'
<1> SUFFICES ASSUME TypeOK, HoldInv, [Next]_vars PROVE HoldInv'
  OBVIOUS
<1>1. CASE UNCHANGED vars
  BY <1>1 DEF vars, calls, admins, HoldInv, AckedIsBanned, DoomedIsAcked,
              PastHash, PastPeer, PastIP, DoomedIsOwn, IdleIsFree
<1> QED
  BY <1>1, HoldCalls, HoldAdmins DEF Next

LEMMA HoldImplies == HoldInv => BansHold
BY DEF HoldInv, PastHash, PastPeer, PastIP, DoomedIsOwn, BansHold, TargetsOf

(* An announce that begins after a ban has returned is refused, however    *)
(* bans, failures and clears of other requests are interleaved with it     *)
(* (mux_manager.go:78-98).                                                 *)
THEOREM BansHoldAlways == Spec => []BansHold
<1>1. Spec => []TypeOK
  BY MuxTypeCorrect
<1> QED
  BY <1>1, HoldInit, HoldNext, HoldImplies, PTL DEF Spec
=============================================================================
