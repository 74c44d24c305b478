-------------------------- MODULE DbManagerProofs --------------------------
(***************************************************************************)
(* Database mode for any number of announces, administrators and crashes:  *)
(* an acknowledged ban holds but for what the program puts out of force.   *)
(***************************************************************************)
EXTENDS DbManager, TLAPS

Target == HashTarget \cup PeerTarget
Stages == {"idle", "peer", "pick", "done", "refused", "failed"}

(* The fields that the bans depend on have their types. *)
BanTypes ==
  /\ filter \subseteq Target /\ blockList \subseteq Target /\ acked \subseteq Target
  /\ req \in [Call -> Requests \cup {None}]
  /\ stage \in [Call -> Stages]
  /\ banning \in [Admin -> Target \cup {None}]
  /\ void \subseteq acked /\ lifted \subseteq Admin
  /\ doomed \in [Call -> SUBSET Target]

(* What was acknowledged is in the table, and in the filter unless it was  *)
(* put out of force; so is, in the filter, a ban under way that no clear   *)
(* has met.                                                                *)
InBoth ==
  /\ acked \ void \subseteq filter /\ acked \subseteq blockList
  /\ \A a \in Admin : banning[a] # None /\ a \notin lifted => banning[a] \in filter

(* An announce between its tests has passed the first, and the bans that   *)
(* it has to respect are still in force.                                   *)
Between ==
  \A c \in Call : stage[c] = "peer" =>
    /\ doomed[c] \subseteq acked \ void /\ doomed[c] \subseteq TargetsOf(req[c])
    /\ <<"hash", req[c].hash>> \notin doomed[c]

BanInv == BanTypes /\ InBoth /\ Between /\ BansHold

LEMMA BanInit == Init => BanInv
BY DEF Init, BanInv, BanTypes, InBoth, Between, BansHold, Stages

LEMMA BanAnnounce ==
  ASSUME BanInv, NEW c \in Call, NEW r \in Requests, Announce(c, r)
  PROVE  BanInv'
<1> USE DEF BanInv, BanTypes
<1>1. /\ UNCHANGED <<filter, blockList, acked, void, banning, lifted>>
      /\ \A d \in Call \ {c} : stage'[d] = stage[d] /\ req'[d] = req[d] /\ doomed'[d] = doomed[d]
  BY DEF Announce, Refuse, Goto, admin
<1>2. BanTypes'
  BY <1>1 DEF Announce, Refuse, Goto, Stages
<1>3. InBoth'
  BY <1>1 DEF InBoth
<1>4. stage'[c] = "peer" =>
        /\ doomed'[c] = TargetsOf(r) \cap (acked \ void)
        /\ <<"hash", r.hash>> \notin filter /\ req'[c] = r
  BY DEF Announce, Refuse, Goto, Test, Stages
<1>5. stage'[c] # "pick"
  BY DEF Announce, Refuse, Goto, Stages
<1>6. Between'
  BY <1>1, <1>4 DEF Between, InBoth
<1>7. BansHold'
  BY <1>1, <1>5 DEF BansHold
<1> QED
  BY <1>2, <1>3, <1>6, <1>7

LEMMA BanTestPeer ==
  ASSUME BanInv, NEW c \in Call, TestPeer(c)
  PROVE  BanInv'
<1> USE DEF BanInv, BanTypes
<1>1. /\ UNCHANGED <<filter, blockList, acked, void, banning, lifted>>
      /\ \A d \in Call \ {c} : stage'[d] = stage[d] /\ req'[d] = req[d] /\ doomed'[d] = doomed[d]
  BY DEF TestPeer, Refuse, Goto, admin
<1>2. BanTypes'
  BY <1>1 DEF TestPeer, Refuse, Goto, Stages
<1>3. InBoth'
  BY <1>1 DEF InBoth
<1>4. stage'[c] \in {"refused", "pick"}
  BY DEF TestPeer, Refuse, Goto
<1>5. stage'[c] = "pick" =>
        req'[c] = req[c] /\ doomed'[c] = doomed[c] /\ <<"peer", req[c].peer>> \notin filter
  BY DEF TestPeer, Refuse, Goto, Test
<1>6. /\ doomed[c] \subseteq acked \ void /\ doomed[c] \subseteq TargetsOf(req[c])
      /\ <<"hash", req[c].hash>> \notin doomed[c]
  BY DEF TestPeer, Between
<1>7. BansHold'
  BY <1>1, <1>5, <1>6 DEF BansHold, TargetsOf, InBoth
<1>8. Between'
  BY <1>1, <1>4 DEF Between
<1> QED
  BY <1>2, <1>3, <1>7, <1>8

LEMMA BanPick ==
  ASSUME BanInv, NEW c \in Call, PickPeers(c)
  PROVE  BanInv'
<1> USE DEF BanInv, BanTypes
<1>1. /\ UNCHANGED <<filter, blockList, acked, void, banning, lifted, req>>
      /\ stage'[c] \in {"done", "failed"}
      /\ \A d \in Call \ {c} : stage'[d] = stage[d] /\ doomed'[d] = doomed[d]
  BY DEF PickPeers, Goto, admin
<1>2. BanTypes'
  BY <1>1 DEF PickPeers, Goto, Stages
<1> QED
  BY <1>1, <1>2 DEF InBoth, Between, BansHold

LEMMA BanAdmin ==
  ASSUME BanInv,
         \/ \E a \in Admin : AddToBlockList(a)
         \/ \E a \in Admin, o \in Orders : AddToFilter(a, o)
         \/ \E o \in Orders : ClearBan(o)
  PROVE  BanInv'
<1> USE DEF BanInv, BanTypes
<1>1. ASSUME NEW a \in Admin, AddToBlockList(a) PROVE BanInv'
  <2>1. banning[a] \in Target /\ UNCHANGED <<filter, void, stage, req, doomed>>
    BY <1>1 DEF AddToBlockList, calls
  <2>2. /\ acked' \in {acked, acked \cup {banning[a]}} /\ (acked' # acked => a \notin lifted)
        /\ (acked' # acked => blockList' = blockList \cup {banning[a]})
        /\ blockList' \in {blockList, blockList \cup {banning[a]}}
        /\ lifted' = lifted \ {a} /\ banning' = [banning EXCEPT ![a] = None]
    BY <1>1 DEF AddToBlockList
  <2>3. BanTypes'
    BY <2>1, <2>2
  <2>4. InBoth'
    BY <1>1, <2>1, <2>2 DEF InBoth, AddToBlockList
  <2>5. Between' /\ BansHold'
    BY <2>1, <2>2 DEF Between, BansHold
  <2> QED
    BY <2>3, <2>4, <2>5
<1>2. ASSUME NEW a \in Admin, NEW o \in Orders, AddToFilter(a, o) PROVE BanInv'
  <2>1. o.target \in Target /\ o.target # None
    BY <1>2, DbAssumption DEF AddToFilter, Order, Target
  <2>2. /\ filter' = filter \cup {o.target} /\ banning' = [banning EXCEPT ![a] = o.target]
        /\ void' = void \ {o.target}
        /\ UNCHANGED <<blockList, acked, lifted, doomed, stage, req>>
    BY <1>2 DEF AddToFilter, calls
  <2>3. BanTypes'
    BY <2>1, <2>2
  <2> QED
    BY <2>2, <2>3 DEF InBoth, Between, BansHold
<1>3. ASSUME NEW o \in Orders, ClearBan(o) PROVE BanInv'
  <2> DEFINE named == Named(o)
             gone == named \cup PeerTarget
  <2>1. /\ PeerTarget \subseteq gone /\ named \subseteq gone
        /\ filter' = filter \ PeerTarget /\ acked' = acked \ named
        /\ void' = (void \cup (acked \cap PeerTarget)) \ named
        /\ lifted' = lifted \cup {a \in Admin : banning[a] \in gone}
        /\ doomed' = [c \in Call |-> doomed[c] \ gone]
        /\ UNCHANGED <<blockList, banning, stage, req>>
    BY <1>3 DEF ClearBan, calls
  <2>0. gone = named \cup PeerTarget
    OBVIOUS
  <2> HIDE DEF gone, named
  <2>2. BanTypes'
    BY <2>1
  <2>3. InBoth'
    BY <2>0, <2>1 DEF InBoth
  <2>4. Between' /\ BansHold'
    BY <2>0, <2>1 DEF Between, BansHold, TargetsOf
  <2> QED
    BY <2>2, <2>3, <2>4
<1> QED
  BY <1>1, <1>2, <1>3

LEMMA BanRestart ==
  ASSUME BanInv, Restart
  PROVE  BanInv'
<1> USE DEF BanInv, BanTypes
<1>1. PICK hashes \in BOOLEAN, ids \in BOOLEAN :
        /\ filter' = Restored(hashes, ids)
        /\ void' = (IF hashes THEN {} ELSE acked \cap HashTarget)
                     \cup (IF ids THEN {} ELSE acked \cap PeerTarget)
  BY DEF Restart, Outcome
<1>2. \A t \in blockList : (t[1] = "hash" /\ t \in HashTarget) \/ (t[1] = "peer" /\ t \in PeerTarget)
  BY DEF Target, HashTarget, PeerTarget
<1>3. /\ void' \subseteq acked /\ filter' \subseteq Target
      /\ acked \ void' \subseteq filter'
  BY <1>1, <1>2 DEF Restored, InBoth
<1>4. /\ UNCHANGED <<blockList, acked, req>> /\ lifted' = {}
      /\ banning' = [a \in Admin |-> None] /\ doomed' = [c \in Call |-> {}]
      /\ \A c \in Call : stage'[c] \notin {"peer", "pick"}
      /\ stage' \in [Call -> Stages]
  BY DEF Restart, Stages
<1> QED
  BY <1>3, <1>4 DEF InBoth, Between, BansHold

LEMMA BanNext ==
  ASSUME BanInv, [Next]_vars
  PROVE  BanInv'
<1> DEFINE others == <<filter, blockList, acked, void, req, stage, banning, lifted, doomed>>
<1>1. ASSUME UNCHANGED others PROVE BanInv'
  BY <1>1 DEF BanInv, BanTypes, InBoth, Between, BansHold
<1> HIDE DEF others
<1>2. CASE Tick
  BY <1>1, <1>2 DEF Tick, others, calls, admin, promises
<1>3. ASSUME NEW c \in Call, Handle(c) \/ \E r \in Requests : Announce(c, r) PROVE BanInv'
  <2>1. CASE SavePeer(c)
    BY <1>1, <2>1 DEF SavePeer, others, admin, promises
  <2> QED
    BY <1>3, <2>1, BanAnnounce, BanTestPeer, BanPick DEF Handle
<1>4. ASSUME NEW o \in Orders, DeleteInfoHash(o) PROVE BanInv'
  BY <1>1, <1>4 DEF DeleteInfoHash, others, calls, promises
<1>5. CASE Restart
  BY <1>5, BanRestart
<1>6. CASE Quiet \/ UNCHANGED vars
  BY <1>1, <1>6 DEF Quiet, vars, others, calls, admin, promises
<1> QED
  BY <1>2, <1>3, <1>4, <1>5, <1>6, BanAdmin DEF Next

(* A ban of database mode that was acknowledged refuses every announce     *)
(* that begins after it, across restarts and failed queries, until it is   *)
(* lifted.  What ClearBanInfoHash puts out of force by emptying the filter *)
(* of peer ids, and what restoreBlockList could not read, is in force      *)
(* again from the next launch, or the next ban of it, on; admin.go:15-97.  *)
THEOREM BansHoldAlways == Spec => []BansHold
<1>1. Init => BanInv
  BY BanInit
<1>2. BanInv /\ [Next]_vars => BanInv'
  BY BanNext
<1>3. BanInv => BansHold
  BY DEF BanInv
<1> QED
  BY <1>1, <1>2, <1>3, PTL DEF Spec

-----------------------------------------------------------------------------
(* Where the rows come from.                                               *)

Passed == {"pick", "done", "failed"}

(* The row is what announce d said, but for the type. *)
From(d, k, row) ==
  /\ stage[d] \in Passed /\ req[d] \in Requests /\ KeyOf(d) = k
  /\ seen[d] = row.lastSeen
  /\ IsPeerConnectable(req[d].ep) /\ req[d].event = row.event
  /\ row.ep = [req[d].ep EXCEPT !.type = row.ep.type]

RowTypes ==
  /\ now \in Nat
  /\ req \in [Call -> Requests \cup {None}]
  /\ stage \in [Call -> Stages]
  /\ seen \in [Call -> Nat] /\ pickedAt \in [Call -> Nat]
  /\ task \in [Call -> BOOLEAN]
  /\ peers \in [Key -> Row \cup {None}]
  /\ answer \in [Call -> SUBSET (PeerID \X Row)]
  /\ \A c \in Call : stage[c] \in Passed \cup {"peer"} => req[c] \in Requests

TasksPassed == \A c \in Call : task[c] => stage[c] \in Passed /\ IsPeerConnectable(req[c].ep)

RowsFrom == \A k \in Key, row \in Row : peers[k] = row => \E d \in Call : From(d, k, row)

AnswersFrom ==
  \A c \in Call, g \in PeerID \X Row : g \in answer[c] =>
    /\ stage[c] = "done"
    /\ g[1] # req[c].peer /\ g[2].ep.type = req[c].ep.type
    /\ g[2].lastSeen > pickedAt[c] - TTL /\ g[2].event # "stopped"
    /\ \E d \in Call : From(d, <<req[c].hash, g[1]>>, g[2])

RowInv == RowTypes /\ TasksPassed /\ RowsFrom /\ AnswersFrom

(* What an announce said is never changed once it has passed the tests. *)
Frozen ==
  \A d \in Call : stage[d] \in Passed =>
    stage'[d] \in Passed /\ req'[d] = req[d] /\ seen'[d] = seen[d]

LEMMA FromStays ==
  ASSUME Frozen, NEW d \in Call, NEW k, NEW row, From(d, k, row)
  PROVE  From(d, k, row)'
BY DEF Frozen, From, KeyOf

LEMMA RequestFields ==
  ASSUME NEW r \in Requests
  PROVE  r \in Request /\ r # None /\ <<r.hash, r.peer>> \in Key
BY DbAssumption DEF Request, Key

LEMMA AnswersStay ==
  ASSUME RowInv, Frozen, UNCHANGED <<answer, pickedAt>>,
         \A c \in Call : stage[c] = "done" => stage'[c] = "done"
  PROVE  AnswersFrom'
<1> SUFFICES ASSUME NEW c \in Call, NEW g \in PeerID \X Row, g \in answer'[c]
             PROVE  /\ stage'[c] = "done"
                    /\ g[1] # req'[c].peer /\ g[2].ep.type = req'[c].ep.type
                    /\ g[2].lastSeen > pickedAt'[c] - TTL /\ g[2].event # "stopped"
                    /\ \E d \in Call : From(d, <<req[c].hash, g[1]>>, g[2])'
  BY DEF AnswersFrom
<1>1. /\ stage[c] = "done"
      /\ g[1] # req[c].peer /\ g[2].ep.type = req[c].ep.type
      /\ g[2].lastSeen > pickedAt[c] - TTL /\ g[2].event # "stopped"
      /\ \E d \in Call : From(d, <<req[c].hash, g[1]>>, g[2])
  BY DEF RowInv, AnswersFrom
<1>2. req'[c] = req[c] /\ stage'[c] = "done"
  BY <1>1 DEF Frozen, Passed
<1>3. PICK d \in Call : From(d, <<req[c].hash, g[1]>>, g[2])
  BY <1>1
<1>4. From(d, <<req[c].hash, g[1]>>, g[2])'
  BY <1>2, <1>3 DEF Frozen, From, KeyOf
<1> QED
  BY <1>1, <1>2, <1>4

LEMMA RowsStay ==
  ASSUME RowInv, Frozen, UNCHANGED peers
  PROVE  RowsFrom'
BY FromStays DEF RowInv, RowsFrom

LEMMA RowInit == Init => RowInv
BY DbAssumption DEF Init, RowInv, RowTypes, TasksPassed, RowsFrom, AnswersFrom, Stages, Passed

LEMMA RowAnnounce ==
  ASSUME RowInv, NEW c \in Call, NEW r \in Requests, Announce(c, r)
  PROVE  RowInv'
<1> USE DEF RowInv, RowTypes
<1>1. /\ UNCHANGED <<now, seen, pickedAt, task, peers, answer>>
      /\ stage[c] = "idle" /\ stage'[c] \in {"refused", "peer"}
      /\ (stage'[c] = "peer" => req'[c] = r)
      /\ \A d \in Call \ {c} : stage'[d] = stage[d] /\ req'[d] = req[d]
  BY DEF Announce, Refuse, Goto, clock
<1>2. req' \in [Call -> Requests \cup {None}] /\ stage' \in [Call -> Stages]
  BY DEF Announce, Refuse, Goto, Stages
<1>3. RowTypes'
  BY <1>1, <1>2 DEF Passed, Stages
<1>4. Frozen
  BY <1>1 DEF Frozen, Passed
<1>5. TasksPassed'
  BY <1>1 DEF TasksPassed, Passed
<1>6. AnswersFrom' /\ RowsFrom'
  BY <1>1, <1>4, AnswersStay, RowsStay
<1> QED
  BY <1>3, <1>5, <1>6

LEMMA RowTestPeer ==
  ASSUME RowInv, NEW c \in Call, TestPeer(c)
  PROVE  RowInv'
<1> USE DEF RowInv, RowTypes
<1>1. /\ UNCHANGED <<now, pickedAt, peers, answer>>
      /\ stage[c] = "peer" /\ req[c] \in Requests
      /\ \/ stage'[c] = "refused" /\ UNCHANGED <<task, seen>>
         \/ /\ stage'[c] = "pick" /\ req'[c] = req[c]
            /\ seen' = [seen EXCEPT ![c] = now]
            /\ task' = [task EXCEPT ![c] = IsPeerConnectable(req[c].ep)]
      /\ \A d \in Call \ {c} : stage'[d] = stage[d] /\ req'[d] = req[d]
  BY DEF TestPeer, Refuse, Goto, clock
<1>2. req' \in [Call -> Requests \cup {None}] /\ stage' \in [Call -> Stages]
  BY DEF TestPeer, Refuse, Goto, Stages
<1>3. seen' \in [Call -> Nat] /\ task' \in [Call -> BOOLEAN]
  BY <1>1 DEF IsPeerConnectable
<1>4. RowTypes'
  BY <1>1, <1>2, <1>3 DEF Passed, Stages
<1>5. Frozen
  BY <1>1 DEF Frozen, Passed
<1>6. TasksPassed'
  BY <1>1 DEF TasksPassed, Passed
<1>7. AnswersFrom' /\ RowsFrom'
  BY <1>1, <1>5, AnswersStay, RowsStay
<1> QED
  BY <1>4, <1>6, <1>7

LEMMA RowSave ==
  ASSUME RowInv, NEW c \in Call, SavePeer(c)
  PROVE  RowInv'
<1> USE DEF RowInv, RowTypes
<1> DEFINE k == KeyOf(c)
           row == Upsert(peers[k], CommonToDB(c))
<1>1. /\ UNCHANGED <<now, req, stage, seen, answer, pickedAt>>
      /\ task[c] /\ task' = [task EXCEPT ![c] = FALSE]
      /\ peers' = peers \/ peers' = [peers EXCEPT ![k] = row]
  BY DEF SavePeer
<1>2. /\ stage[c] \in Passed /\ IsPeerConnectable(req[c].ep)
      /\ req[c] \in Requests /\ req[c] \in Request /\ k \in Key
  BY <1>1, RequestFields DEF TasksPassed, KeyOf
<1>3. /\ row \in Row
      /\ row.lastSeen = seen[c] /\ row.event = req[c].event
      /\ row.ep = [req[c].ep EXCEPT !.type = row.ep.type]
  <2>1. /\ CommonToDB(c) \in Row /\ CommonToDB(c).ep = req[c].ep
        /\ CommonToDB(c).lastSeen = seen[c] /\ CommonToDB(c).event = req[c].event
        /\ req[c].ep \in Endpoint
    BY <1>2 DEF CommonToDB, Row, Request
  <2>2. CASE peers[k] = None
    BY <2>1, <2>2 DEF Upsert, Endpoint
  <2>3. CASE peers[k] # None
    <3>1. peers[k] \in Row /\ peers[k].ep.type \in PeerType
      BY <1>2, <2>3 DEF Row, Endpoint
    <3>2. row = [CommonToDB(c) EXCEPT !.ep = [CommonToDB(c).ep EXCEPT !.type = peers[k].ep.type]]
      BY <2>1, <2>3 DEF Upsert, Row
    <3>3. [req[c].ep EXCEPT !.type = peers[k].ep.type] \in Endpoint
      BY <2>1, <3>1 DEF Endpoint
    <3>4. row \in Row /\ row.ep = [req[c].ep EXCEPT !.type = peers[k].ep.type]
          /\ row.lastSeen = seen[c] /\ row.event = req[c].event
      BY <2>1, <3>2, <3>3 DEF Row
    <3> QED
      BY <2>1, <3>1, <3>4 DEF Endpoint
  <2> QED
    BY <2>2, <2>3
<1> HIDE DEF row, k
<1>4. From(c, k, row)
  BY <1>2, <1>3 DEF From, k
<1>5. Frozen
  BY <1>1 DEF Frozen
<1>6. RowTypes'
  BY <1>1, <1>2, <1>3
<1>7. TasksPassed'
  BY <1>1 DEF TasksPassed
<1>8. AnswersFrom'
  BY <1>1, <1>5, AnswersStay
<1>9. RowsFrom'
  <2> SUFFICES ASSUME NEW k2 \in Key, NEW row2 \in Row, peers'[k2] = row2
               PROVE  \E d \in Call : From(d, k2, row2)'
    BY DEF RowsFrom
  <2>1. CASE peers[k2] = row2
    BY <2>1, <1>5, FromStays DEF RowsFrom
  <2>2. CASE peers[k2] # row2
    <3>1. k2 = k /\ row2 = row
      BY <1>1, <1>2, <2>2
    <3>2. From(c, k2, row2)
      BY <1>4, <3>1
    <3> QED
      BY <3>2, <1>5, FromStays
  <2> QED
    BY <2>1, <2>2
<1> QED
  BY <1>6, <1>7, <1>8, <1>9

LEMMA RowPick ==
  ASSUME RowInv, NEW c \in Call, PickPeers(c)
  PROVE  RowInv'
<1> USE DEF RowInv, RowTypes
<1>1. PICK ok \in BOOLEAN, S \in SUBSET Eligible(req[c]) :
        /\ Goto(c, IF ok THEN "done" ELSE "failed")
        /\ ~ok => S = {}
        /\ answer' = [answer EXCEPT ![c] = {<<k[2], peers[k]>> : k \in S}]
        /\ pickedAt' = [pickedAt EXCEPT ![c] = IF S = {} THEN 0 ELSE now]
  BY DEF PickPeers, Outcome
<1>2. /\ UNCHANGED <<now, req, seen, task, peers>>
      /\ stage[c] = "pick" /\ stage'[c] \in {"done", "failed"}
      /\ stage' = [stage EXCEPT ![c] = stage'[c]]
      /\ S # {} => stage'[c] = "done"
  <2>1. UNCHANGED <<now, req, seen, task, peers>> /\ stage[c] = "pick"
    BY DEF PickPeers
  <2> QED
    BY <1>1, <2>1 DEF Goto
<1>3. req[c] \in Requests /\ req[c] \in Request
  BY <1>2, RequestFields DEF Passed
<1>4. \A k \in S : /\ k \in Key /\ k = <<req[c].hash, k[2]>> /\ k[2] # req[c].peer /\ k[2] \in PeerID
                   /\ peers[k] \in Row /\ peers[k].lastSeen > now - TTL
                   /\ peers[k].event # "stopped" /\ peers[k].ep.type = req[c].ep.type
  BY <1>3 DEF Eligible, Key, Request
<1>5. answer' \in [Call -> SUBSET (PeerID \X Row)]
  BY <1>1, <1>4
<1>6. RowTypes'
  BY <1>1, <1>2, <1>5 DEF Passed, Stages
<1>7. Frozen
  BY <1>2 DEF Frozen, Passed
<1>8. TasksPassed'
  BY <1>2 DEF TasksPassed, Passed
<1>9. RowsFrom'
  BY <1>2, <1>7, RowsStay
<1>10. AnswersFrom'
  <2> SUFFICES ASSUME NEW b \in Call, NEW g \in PeerID \X Row, g \in answer'[b]
               PROVE  /\ stage'[b] = "done"
                      /\ g[1] # req'[b].peer /\ g[2].ep.type = req'[b].ep.type
                      /\ g[2].lastSeen > pickedAt'[b] - TTL /\ g[2].event # "stopped"
                      /\ \E d \in Call : From(d, <<req[b].hash, g[1]>>, g[2])'
    BY DEF AnswersFrom
  <2>1. CASE b = c
    <3>1. PICK k \in S : g = <<k[2], peers[k]>>
      BY <1>1, <2>1
    <3>2. PICK d \in Call : From(d, k, peers[k])
      BY <1>4 DEF RowsFrom
    <3>3. From(d, <<req[c].hash, g[1]>>, g[2])
      BY <1>4, <3>1, <3>2
    <3>4. From(d, <<req[b].hash, g[1]>>, g[2])'
      BY <2>1, <3>3, <1>2, <1>7 DEF Frozen, From, KeyOf
    <3> QED
      BY <1>1, <1>2, <1>4, <2>1, <3>1, <3>4
  <2>2. CASE b # c
    <3>1. g \in answer[b] /\ pickedAt'[b] = pickedAt[b] /\ stage'[b] = stage[b] /\ req'[b] = req[b]
      BY <1>1, <1>2, <2>2
    <3>2. PICK d \in Call : From(d, <<req[b].hash, g[1]>>, g[2])
      BY <3>1 DEF AnswersFrom
    <3>3. From(d, <<req[b].hash, g[1]>>, g[2])'
      BY <3>1, <3>2, <1>7 DEF Frozen, From, KeyOf
    <3> QED
      BY <3>1, <3>3 DEF AnswersFrom
  <2> QED
    BY <2>1, <2>2
<1> QED
  BY <1>6, <1>8, <1>9, <1>10

LEMMA RowDelete ==
  ASSUME RowInv, NEW o \in Orders, DeleteInfoHash(o)
  PROVE  RowInv'
<1> USE DEF RowInv, RowTypes
<1>1. /\ UNCHANGED <<now, req, stage, seen, task, answer, pickedAt>>
      /\ \/ peers' = [k \in Key |-> IF k[1] = o.hash THEN None ELSE peers[k]]
         \/ peers' = peers
  BY DEF DeleteInfoHash, calls
<1>2. Frozen
  BY <1>1 DEF Frozen
<1>3. RowsFrom'
  <2> SUFFICES ASSUME NEW k \in Key, NEW row \in Row, peers'[k] = row
               PROVE  \E d \in Call : From(d, k, row)'
    BY DEF RowsFrom
  <2>1. peers[k] = row
    BY <1>1, DbAssumption
  <2> QED
    BY <2>1, <1>2, FromStays DEF RowsFrom
<1> QED
  BY <1>1, <1>2, <1>3, AnswersStay DEF TasksPassed

LEMMA RowRestart ==
  ASSUME RowInv, Restart
  PROVE  RowInv'
<1> USE DEF RowInv, RowTypes
<1>1. /\ UNCHANGED <<now, peers, req, seen, answer, pickedAt>>
      /\ stage' = [c \in Call |-> IF stage[c] \in {"peer", "pick"} THEN "failed" ELSE stage[c]]
      /\ task' = [c \in Call |-> FALSE]
  BY DEF Restart
<1>2. Frozen
  BY <1>1 DEF Frozen, Passed
<1>3. RowTypes'
  BY <1>1 DEF Stages, Passed
<1> QED
  BY <1>1, <1>2, <1>3, AnswersStay, RowsStay DEF TasksPassed

LEMMA RowOther ==
  ASSUME RowInv, now' \in Nat, UNCHANGED calls, UNCHANGED peers
  PROVE  RowInv'
<1>1. Frozen
  BY DEF Frozen, calls
<1>2. AnswersFrom' /\ RowsFrom'
  BY <1>1, AnswersStay, RowsStay DEF calls
<1> QED
  BY <1>2 DEF RowInv, RowTypes, TasksPassed, calls

LEMMA RowNext ==
  ASSUME RowInv, [Next]_vars
  PROVE  RowInv'
<1>0. now \in Nat
  BY DEF RowInv, RowTypes
<1>1. CASE Tick
  BY <1>0, <1>1, RowOther DEF Tick
<1>2. ASSUME NEW c \in Call, Handle(c) \/ \E r \in Requests : Announce(c, r) PROVE RowInv'
  BY <1>2, RowAnnounce, RowTestPeer, RowSave, RowPick DEF Handle
<1>3. ASSUME NEW o \in Orders, ClearBan(o) PROVE RowInv'
  BY <1>0, <1>3, RowOther DEF ClearBan, clock
<1>4. ASSUME NEW o \in Orders, NEW a \in Admin, AddToFilter(a, o) PROVE RowInv'
  BY <1>0, <1>4, RowOther DEF AddToFilter, clock
<1>5. ASSUME NEW a \in Admin, AddToBlockList(a) PROVE RowInv'
  BY <1>0, <1>5, RowOther DEF AddToBlockList
<1>6. CASE Quiet \/ UNCHANGED vars
  BY <1>0, <1>6, RowOther DEF Quiet, vars, clock
<1> QED
  BY <1>1, <1>2, <1>3, <1>4, <1>5, <1>6, RowDelete, RowRestart DEF Next

LEMMA RowInvFresh == RowInv => AnswerFresh
<1> SUFFICES ASSUME RowInv, NEW c \in Call, NEW g \in answer[c]
             PROVE  /\ g[1] # req[c].peer /\ g[2].ep.type = req[c].ep.type
                    /\ \E d \in Call :
                         /\ req[d] # None /\ KeyOf(d) = <<req[c].hash, g[1]>>
                         /\ seen[d] > pickedAt[c] - TTL
                         /\ IsPeerConnectable(req[d].ep) /\ req[d].event # "stopped"
                         /\ g[2].ep = [req[d].ep EXCEPT !.type = g[2].ep.type]
  BY DEF AnswerFresh
<1>1. g \in PeerID \X Row
  BY DEF RowInv, RowTypes
<1>2. /\ g[1] # req[c].peer /\ g[2].ep.type = req[c].ep.type
      /\ g[2].lastSeen > pickedAt[c] - TTL /\ g[2].event # "stopped"
      /\ \E d \in Call : From(d, <<req[c].hash, g[1]>>, g[2])
  BY <1>1 DEF RowInv, AnswersFrom
<1> QED
  BY <1>2, RequestFields DEF From

(* Whatever crashes, fails and overlaps, a peer that database mode gives   *)
(* out announced itself in that torrent within the TTL before the query,   *)
(* connectable and not stopping, with the endpoint that is given.          *)
THEOREM AnswersAlwaysFresh == Spec => []AnswerFresh
<1>1. Init => RowInv
  BY RowInit
<1>2. RowInv /\ [Next]_vars => RowInv'
  BY RowNext
<1>3. RowInv => AnswerFresh
  BY RowInvFresh
<1> QED
  BY <1>1, <1>2, <1>3, PTL DEF Spec

-----------------------------------------------------------------------------
(* The last announce wins.                                                 *)

(* The row is what announce c said, under the type that it had. *)
Reflects(row, c) == row \in Row /\ row = [CommonToDB(c) EXCEPT !.ep.type = row.ep.type]

(* Of a peer that is not spoiled only the last announce can be pending,    *)
(* and once it is not, the row is its own.                                 *)
LastSaved ==
  \A k \in Key \ spoiled :
    /\ \A c \in Call : task[c] /\ KeyOf(c) = k => last[k] = c
    /\ last[k] # None => stage[last[k]] \in Passed /\ KeyOf(last[k]) = k
    /\ last[k] # None /\ ~task[last[k]] => Reflects(peers[k], last[k])

LastTypes == last \in [Key -> Call \cup {None}] /\ spoiled \subseteq Key
LastInv == RowInv /\ LastTypes /\ LastSaved

LEMMA LastInit == Init => LastInv
BY RowInit, DbAssumption DEF Init, LastInv, LastTypes, LastSaved

LEMMA FrozenSays ==
  ASSUME Frozen, NEW c \in Call, stage[c] \in Passed
  PROVE  stage'[c] \in Passed /\ KeyOf(c)' = KeyOf(c) /\ CommonToDB(c)' = CommonToDB(c)
BY DEF Frozen, KeyOf, CommonToDB

(* A step that begins no task, saves no row and spoils what it drops. *)
LEMMA LastStays ==
  ASSUME LastInv, RowInv', Frozen, last' = last, spoiled \subseteq spoiled', spoiled' \subseteq Key,
         \A c \in Call : task'[c] => task[c],
         \A c \in Call : task[c] /\ ~task'[c] => KeyOf(c) \in spoiled',
         \A k \in Key \ spoiled' : peers'[k] = peers[k]
  PROVE  LastInv'
<1>1. LastTypes'
  BY DEF LastInv, LastTypes
<1>2. ASSUME NEW k \in Key \ spoiled' PROVE
        /\ \A c \in Call : task'[c] /\ KeyOf(c)' = k => last'[k] = c
        /\ last'[k] # None => stage'[last'[k]] \in Passed /\ KeyOf(last[k])' = k
        /\ last'[k] # None /\ ~task'[last'[k]] => Reflects(peers[k], last[k])'
  <2>1. k \in Key \ spoiled
    OBVIOUS
  <2>2. ASSUME NEW c \in Call, task'[c], KeyOf(c)' = k PROVE last'[k] = c
    <3>1. task[c] /\ stage[c] \in Passed
      BY <2>2 DEF LastInv, RowInv, TasksPassed
    <3>2. KeyOf(c) = k
      BY <2>2, <3>1, FrozenSays
    <3> QED
      BY <2>1, <3>1, <3>2 DEF LastInv, LastSaved
  <2>3. ASSUME last[k] # None
        PROVE  /\ stage'[last[k]] \in Passed /\ KeyOf(last[k])' = k
               /\ ~task'[last[k]] => Reflects(peers[k], last[k])'
    <3>1. last[k] \in Call /\ stage[last[k]] \in Passed /\ KeyOf(last[k]) = k
      BY <2>1, <2>3 DEF LastInv, LastTypes, LastSaved
    <3> DEFINE d == last[k]
    <3>2. stage'[d] \in Passed /\ d' = d
          /\ KeyOf(d)' = KeyOf(d) /\ CommonToDB(d)' = CommonToDB(d)
      BY <3>1 DEF Frozen, KeyOf, CommonToDB
    <3>3. ~task'[d] => Reflects(peers[k], d)
      BY <2>1, <2>3, <3>1 DEF LastInv, LastSaved
    <3> QED
      BY <3>1, <3>2, <3>3 DEF Reflects
  <2> QED
    BY <2>2, <2>3
<1>3. LastSaved'
  BY <1>2 DEF LastSaved
<1> QED
  BY <1>1, <1>3 DEF LastInv

LEMMA LastTestPeer ==
  ASSUME LastInv, RowInv', NEW c \in Call, TestPeer(c)
  PROVE  LastInv'
<1> USE DEF LastInv, RowInv, RowTypes, LastTypes
<1>1. /\ stage[c] = "peer" /\ req[c] \in Requests /\ KeyOf(c) \in Key /\ ~task[c] /\ UNCHANGED peers
      /\ \A d \in Call \ {c} : stage'[d] = stage[d] /\ req'[d] = req[d]
  BY RequestFields DEF TestPeer, Refuse, Goto, Passed, KeyOf, TasksPassed
<1>2. CASE UNCHANGED <<seen, task, writes>>
  <2>1. Frozen
    BY <1>1, <1>2 DEF Frozen, Passed
  <2> QED
    BY <1>1, <1>2, <2>1, LastStays DEF writes
<1>3. CASE /\ stage' = [stage EXCEPT ![c] = "pick"] /\ UNCHANGED req
           /\ seen' = [seen EXCEPT ![c] = now]
           /\ task' = [task EXCEPT ![c] = IsPeerConnectable(req[c].ep)]
  <2>1. Frozen
    BY <1>1, <1>3 DEF Frozen, Passed
  <2>2. CASE ~IsPeerConnectable(req[c].ep)
    <3>1. last' = last /\ spoiled' = spoiled
      BY <1>3, <2>2 DEF TestPeer, Refuse, Goto, writes
    <3>2. \A d \in Call : task'[d] = task[d]
      BY <1>1, <1>3, <2>2
    <3> QED
      BY <1>1, <2>1, <3>1, <3>2, LastStays
  <2>3. CASE IsPeerConnectable(req[c].ep)
    <3> DEFINE k == KeyOf(c)
    <3>1. /\ last' = [last EXCEPT ![k] = c]
          /\ spoiled' = IF Pending(k) = {} THEN spoiled ELSE spoiled \cup {k}
      BY <1>3, <2>3 DEF TestPeer, Refuse, Goto, writes
    <3>2. LastTypes'
      BY <1>1, <3>1
    <3>3. \A d \in Call : KeyOf(d)' = KeyOf(d)
      BY <1>3 DEF KeyOf
    <3>4. \A d \in Call \ {c} : task'[d] = task[d] /\ stage'[d] = stage[d] /\ CommonToDB(d)' = CommonToDB(d)
      BY <1>3 DEF CommonToDB
    <3>5. task'[c] /\ stage'[c] \in Passed
      BY <1>1, <1>3, <2>3 DEF Passed
    <3>6. ASSUME NEW k2 \in Key \ spoiled' PROVE
            /\ \A d \in Call : task'[d] /\ KeyOf(d)' = k2 => last'[k2] = d
            /\ last'[k2] # None => stage'[last'[k2]] \in Passed /\ KeyOf(last[k2])' = k2
            /\ last'[k2] # None /\ ~task'[last'[k2]] => Reflects(peers[k2], last[k2])'
      <4>1. k2 \in Key \ spoiled
        BY <3>1
      <4>2. CASE k2 = k
        <5>1. last'[k2] = c /\ \A d \in Call : ~(task[d] /\ KeyOf(d) = k)
          BY <1>1, <3>1, <4>2 DEF Pending
        <5>2. \A d \in Call : task'[d] /\ KeyOf(d)' = k2 => d = c
          BY <3>3, <3>4, <4>2, <5>1
        <5>3. KeyOf(last[k2])' = k2
          BY <1>3, <4>2, <5>1 DEF KeyOf
        <5> QED
          BY <3>5, <5>1, <5>2, <5>3
      <4>3. CASE k2 # k
        <5>1. last'[k2] = last[k2]
          BY <1>1, <3>1, <4>3
        <5>2. \A d \in Call : task'[d] /\ KeyOf(d)' = k2 => last'[k2] = d
          BY <3>3, <3>4, <4>1, <4>3, <5>1 DEF LastSaved
        <5>3. ASSUME last[k2] # None
              PROVE  /\ stage'[last[k2]] \in Passed /\ KeyOf(last[k2])' = k2
                     /\ ~task'[last[k2]] => Reflects(peers[k2], last[k2])'
          <6> DEFINE d == last[k2]
          <6>1. d \in Call \ {c} /\ stage[d] \in Passed /\ KeyOf(d) = k2
            BY <4>1, <4>3, <5>3 DEF LastSaved
          <6>2. d' = d /\ task'[d] = task[d] /\ stage'[d] = stage[d] /\ peers'[k2] = peers[k2]
            BY <1>1, <3>4, <5>1, <6>1
          <6>3. KeyOf(d)' = KeyOf(d) /\ CommonToDB(d)' = CommonToDB(d)
            BY <1>3, <6>1, <6>2 DEF KeyOf, CommonToDB
          <6>4. ~task[d] => Reflects(peers[k2], d)
            BY <4>1, <5>3 DEF LastSaved
          <6> QED
            BY <6>1, <6>2, <6>3, <6>4 DEF Reflects
        <5> QED
          BY <5>1, <5>2, <5>3
      <4> QED
        BY <4>2, <4>3
    <3>7. LastSaved'
      BY <3>6 DEF LastSaved
    <3> QED
      BY <3>2, <3>7
  <2> QED
    BY <2>2, <2>3
<1> QED
  BY <1>2, <1>3 DEF TestPeer, Refuse, Goto

LEMMA LastSave ==
  ASSUME LastInv, RowInv', NEW c \in Call, SavePeer(c)
  PROVE  LastInv'
<1> USE DEF LastInv, RowInv, RowTypes, LastTypes
<1> DEFINE k == KeyOf(c)
           row == Upsert(peers[k], CommonToDB(c))
<1>1. /\ UNCHANGED <<now, req, stage, seen, last>>
      /\ task[c] /\ task' = [task EXCEPT ![c] = FALSE]
      /\ \/ peers' = [peers EXCEPT ![k] = row] /\ spoiled' = spoiled
         \/ /\ spoiled' = spoiled \cup {k}
            /\ peers' = peers \/ peers' = [peers EXCEPT ![k] = row]
  BY DEF SavePeer
<1>2. req[c] \in Request /\ k \in Key
  BY <1>1, RequestFields DEF TasksPassed, KeyOf
<1>3. \A d : KeyOf(d)' = KeyOf(d) /\ CommonToDB(d)' = CommonToDB(d)
  BY <1>1 DEF KeyOf, CommonToDB
<1>4. Frozen
  BY <1>1 DEF Frozen
<1>5. CASE spoiled' = spoiled \cup {k}
  <2>1. \A d \in Call : task'[d] => task[d]
    BY <1>1
  <2>2. \A d \in Call : task[d] /\ ~task'[d] => KeyOf(d) \in spoiled'
    BY <1>1, <1>5
  <2>3. \A k2 \in Key \ spoiled' : peers'[k2] = peers[k2]
    BY <1>1, <1>5
  <2> QED
    BY <1>1, <1>2, <1>4, <1>5, <2>1, <2>2, <2>3, LastStays
<1>6. CASE spoiled' = spoiled /\ peers' = [peers EXCEPT ![k] = row]
  <2>1. row = [CommonToDB(c) EXCEPT !.ep.type = row.ep.type]
    <3>1. CommonToDB(c) \in Row
      BY <1>2 DEF CommonToDB, Row, Request
    <3>2. CASE peers[k] = None
      BY <3>1, <3>2 DEF Upsert, Row, Endpoint
    <3>3. CASE peers[k] # None
      BY <3>1, <3>3 DEF Upsert, Row, Endpoint
    <3> QED
      BY <3>2, <3>3
  <2>2. peers'[k] = row /\ \A k2 \in Key \ {k} : peers'[k2] = peers[k2]
    BY <1>2, <1>6
  <2>3. row \in Row
    <3>1. row \in Row \cup {None}
      BY <1>2, <2>2
    <3>2. row # None
      <4>1. CommonToDB(c) \in Row
        BY <1>2 DEF CommonToDB, Row, Request
      <4>2. CASE peers[k] = None
        BY <4>1, <4>2, DbAssumption DEF Upsert
      <4>3. CASE peers[k] # None
        <5>1. peers[k] \in Row /\ peers[k].ep.type \in PeerType
          BY <1>2, <4>3 DEF Row, Endpoint
        <5>2. row \in Row
          BY <4>1, <4>3, <5>1 DEF Upsert, Row, Endpoint
        <5> QED
          BY <5>2, DbAssumption
      <4> QED
        BY <4>2, <4>3
    <3> QED
      BY <3>1, <3>2
  <2> HIDE DEF row, k
  <2>4. Reflects(row, c)
    BY <2>1, <2>3 DEF Reflects
  <2>5. ASSUME NEW k2 \in Key \ spoiled PROVE
          /\ \A d \in Call : task'[d] /\ KeyOf(d)' = k2 => last'[k2] = d
          /\ last'[k2] # None => stage'[last'[k2]] \in Passed /\ KeyOf(last[k2])' = k2
          /\ last'[k2] # None /\ ~task'[last'[k2]] => Reflects(peers[k2], last[k2])'
    <3>1. \A d \in Call : task'[d] /\ KeyOf(d)' = k2 => last'[k2] = d
      BY <1>1, <1>3 DEF LastSaved
    <3>2. last[k2] # None => stage[last[k2]] \in Passed /\ KeyOf(last[k2]) = k2 /\ last[k2] \in Call
      BY DEF LastSaved
    <3>3. last[k2]' = last[k2] /\ KeyOf(last[k2])' = KeyOf(last[k2])
          /\ CommonToDB(last[k2])' = CommonToDB(last[k2])
      BY <1>1 DEF KeyOf, CommonToDB
    <3>4. CASE k2 = k
      <4>1. last[k2] = c
        BY <1>1, <3>4 DEF LastSaved, k
      <4>2. Reflects(peers'[k2], c)
        BY <2>2, <2>4, <3>4
      <4>3. Reflects(peers[k2], last[k2])'
        BY <3>3, <4>1, <4>2 DEF Reflects
      <4> QED
        BY <1>1, <3>1, <3>2, <3>3, <4>3
    <3>5. CASE k2 # k
      <4>1. last[k2] # None => last[k2] # c
        BY <3>2, <3>5 DEF k
      <4>2. last[k2] # None /\ ~task'[last[k2]] => Reflects(peers[k2], last[k2])
        BY <1>1, <3>2, <4>1 DEF LastSaved
      <4>3. last[k2] # None /\ ~task'[last[k2]] => Reflects(peers[k2], last[k2])'
        BY <2>2, <3>3, <3>5, <4>2 DEF Reflects
      <4> QED
        BY <1>1, <3>1, <3>2, <3>3, <4>3
    <3> QED
      BY <3>4, <3>5
  <2>6. LastSaved'
    BY <1>6, <2>5 DEF LastSaved
  <2> QED
    BY <1>1, <1>6, <2>6
<1> QED
  BY <1>1, <1>5, <1>6

LEMMA LastNext ==
  ASSUME LastInv, [Next]_vars
  PROVE  LastInv'
<1>1. RowInv'
  BY RowNext DEF LastInv
<1> DEFINE quiet == /\ UNCHANGED <<last, spoiled, peers, task>> /\ Frozen
<1>2. ASSUME quiet PROVE LastInv'
  BY <1>1, <1>2, LastStays DEF LastInv, LastTypes
<1>3. CASE Tick
  BY <1>2, <1>3 DEF Tick, calls, writes, Frozen
<1>4. ASSUME NEW c \in Call, Handle(c) \/ \E r \in Requests : Announce(c, r) PROVE LastInv'
  <2>1. ASSUME NEW r \in Requests, Announce(c, r) PROVE LastInv'
    <3>1. Frozen
      BY <2>1 DEF Announce, Refuse, Goto, Frozen, Passed, LastInv, RowInv, RowTypes
    <3> QED
      BY <1>2, <2>1, <3>1 DEF Announce, writes
  <2>2. CASE PickPeers(c)
    <3>1. Frozen
      BY <2>2 DEF PickPeers, Goto, Frozen, Passed, LastInv, RowInv, RowTypes
    <3> QED
      BY <1>2, <2>2, <3>1 DEF PickPeers, writes
  <2> QED
    BY <1>1, <1>4, <2>1, <2>2, LastTestPeer, LastSave DEF Handle
<1>5. ASSUME NEW o \in Orders, ClearBan(o) PROVE LastInv'
  BY <1>2, <1>5 DEF ClearBan, calls, writes, Frozen
<1>6. ASSUME NEW o \in Orders, NEW a \in Admin, AddToFilter(a, o) PROVE LastInv'
  BY <1>2, <1>6 DEF AddToFilter, calls, writes, Frozen
<1>7. ASSUME NEW a \in Admin, AddToBlockList(a) PROVE LastInv'
  BY <1>2, <1>7 DEF AddToBlockList, calls, writes, Frozen
<1>8. ASSUME NEW o \in Orders, DeleteInfoHash(o) PROVE LastInv'
  <2>1. /\ UNCHANGED calls /\ last' = last
        /\ \/ peers' = [k \in Key |-> IF k[1] = o.hash THEN None ELSE peers[k]]
           \/ peers' = peers
        /\ spoiled' = spoiled \cup {k \in Key : k[1] = o.hash}
    BY <1>8 DEF DeleteInfoHash
  <2>2. Frozen
    BY <2>1 DEF Frozen, calls
  <2> QED
    BY <1>1, <2>1, <2>2, LastStays DEF LastInv, LastTypes, calls
<1>9. CASE Restart
  <2>1. /\ UNCHANGED <<now, peers, req, seen, last>>
        /\ stage' = [c \in Call |-> IF stage[c] \in {"peer", "pick"} THEN "failed" ELSE stage[c]]
        /\ task' = [c \in Call |-> FALSE]
        /\ spoiled' = spoiled \cup {KeyOf(c) : c \in {d \in Call : task[d]}}
    BY <1>9 DEF Restart
  <2>2. Frozen
    BY <2>1 DEF Frozen, Passed
  <2>3. \A c \in Call : task[c] => KeyOf(c) \in Key
    BY RequestFields DEF LastInv, RowInv, RowTypes, TasksPassed, KeyOf
  <2> QED
    BY <1>1, <2>1, <2>2, <2>3, LastStays DEF LastInv, LastTypes
<1>10. CASE Quiet \/ UNCHANGED vars
  BY <1>2, <1>10 DEF Quiet, vars, calls, writes, Frozen
<1> QED
  BY <1>3, <1>4, <1>5, <1>6, <1>7, <1>8, <1>9, <1>10 DEF Next

(* The row of a peer whose saves did not overlap, fail or get lost is what *)
(* the peer's last announce said, a stop included.                         *)
THEOREM LatestAlwaysWins == Spec => []LatestWins
<1>1. Init => LastInv
  BY LastInit
<1>2. LastInv /\ [Next]_vars => LastInv'
  BY LastNext
<1>3. LastInv => LatestWins
  BY DbAssumption DEF LastInv, LastTypes, LastSaved, LatestWins, Pending, Reflects
<1> QED
  BY <1>1, <1>2, <1>3, PTL DEF Spec

-----------------------------------------------------------------------------
(* Types.  That no row is newer than the clock is not inductive by itself: *)
(* a save that comes late writes the time of its announce, so the times of *)
(* the announces have to be bounded, and every row to come from one.       *)

InTime ==
  /\ now \in 0..MaxTime /\ orders \in 0..MaxOrders /\ faults \in 0..MaxFaults
  /\ \A c \in Call : seen[c] <= now /\ pickedAt[c] <= now

LEMMA FaultType ==
  ASSUME InTime, NEW f, NEW ok \in Outcome(f), Fault(ok)
  PROVE  faults' \in 0..MaxFaults
<1>1. ok \/ faults < MaxFaults
  BY DEF Outcome
<1>2. faults' = faults \/ (faults < MaxFaults /\ faults' = faults + 1)
  BY <1>1 DEF Fault
<1> QED
  BY <1>2, DbAssumption DEF InTime

LEMMA InTimeNext ==
  ASSUME RowInv, InTime, [Next]_vars
  PROVE  InTime'
<1> USE DEF InTime
<1>1. seen \in [Call -> Nat] /\ pickedAt \in [Call -> Nat] /\ now \in Nat
  BY DEF RowInv, RowTypes
<1>2. CASE Tick
  BY <1>1, <1>2, DbAssumption DEF Tick, calls, admin
<1>3. ASSUME NEW c \in Call, NEW r \in Requests, Announce(c, r) PROVE InTime'
  BY <1>3 DEF Announce, clock, admin
<1>4. ASSUME NEW c \in Call, TestPeer(c) PROVE InTime'
  BY <1>1, <1>4 DEF TestPeer, clock, admin
<1>5. ASSUME NEW c \in Call, SavePeer(c) PROVE InTime'
  <2>1. faults' \in 0..MaxFaults
    BY <1>5, FaultType DEF SavePeer
  <2> QED
    BY <1>5, <2>1 DEF SavePeer, admin
<1>6. ASSUME NEW c \in Call, PickPeers(c) PROVE InTime'
  <2>1. faults' \in 0..MaxFaults
    BY <1>6, FaultType DEF PickPeers
  <2>2. PICK t \in {0, now} : pickedAt' = [pickedAt EXCEPT ![c] = t]
    BY <1>6 DEF PickPeers
  <2> QED
    BY <1>1, <1>6, <2>1, <2>2 DEF PickPeers, admin
<1>7. ASSUME NEW o \in Orders, ClearBan(o) PROVE InTime'
  BY <1>7, DbAssumption DEF ClearBan, Ordered, clock, calls
<1>8. ASSUME NEW o \in Orders, DeleteInfoHash(o) PROVE InTime'
  <2>1. faults' \in 0..MaxFaults
    BY <1>8, FaultType DEF DeleteInfoHash
  <2> QED
    BY <1>8, <2>1, DbAssumption DEF DeleteInfoHash, Ordered, calls
<1>9. ASSUME NEW o \in Orders, NEW a \in Admin, AddToFilter(a, o) PROVE InTime'
  BY <1>9, DbAssumption DEF AddToFilter, Ordered, clock, calls
<1>10. ASSUME NEW a \in Admin, AddToBlockList(a) PROVE InTime'
  <2>1. faults' \in 0..MaxFaults
    BY <1>10, FaultType DEF AddToBlockList
  <2> QED
    BY <1>10, <2>1 DEF AddToBlockList, calls
<1>11. CASE Restart
  BY <1>11, DbAssumption DEF Restart
<1>12. CASE Quiet \/ UNCHANGED vars
  BY <1>12 DEF Quiet, vars, clock, calls, admin
<1> QED
  BY <1>2, <1>3, <1>4, <1>5, <1>6, <1>7, <1>8, <1>9, <1>10, <1>11, <1>12 DEF Next, Handle

(* The types of BanTypes hold though block lists cannot be read back. *)
LEMMA BanTypesNext ==
  ASSUME RowInv, BanTypes, [Next]_vars
  PROVE  BanTypes'
<1> USE DEF BanTypes
<1>1. req' \in [Call -> Requests \cup {None}] /\ stage' \in [Call -> Stages]
  BY RowNext DEF RowInv, RowTypes
<1>2. ASSUME UNCHANGED <<filter, blockList, acked, void, banning, lifted>>,
             doomed' \in [Call -> SUBSET Target]
      PROVE  BanTypes'
  BY <1>1, <1>2
<1>3. CASE Tick
  BY <1>2, <1>3 DEF Tick, admin, promises
<1>4. ASSUME NEW c \in Call, NEW r \in Requests, Announce(c, r) PROVE BanTypes'
  BY <1>2, <1>4 DEF Announce, Refuse, admin
<1>5. ASSUME NEW c \in Call, TestPeer(c) PROVE BanTypes'
  BY <1>2, <1>5 DEF TestPeer, Refuse, admin
<1>6. ASSUME NEW c \in Call, SavePeer(c) PROVE BanTypes'
  BY <1>2, <1>6 DEF SavePeer, admin, promises
<1>7. ASSUME NEW c \in Call, PickPeers(c) PROVE BanTypes'
  BY <1>2, <1>7 DEF PickPeers, admin
<1>8. ASSUME NEW o \in Orders, ClearBan(o) PROVE BanTypes'
  BY <1>1, <1>8 DEF ClearBan, Named
<1>9. ASSUME NEW o \in Orders, DeleteInfoHash(o) PROVE BanTypes'
  BY <1>2, <1>9 DEF DeleteInfoHash, promises
<1>10. ASSUME NEW o \in Orders, NEW a \in Admin, AddToFilter(a, o) PROVE BanTypes'
  <2>1. o.target \in Target
    BY <1>10, DbAssumption DEF AddToFilter, Order, Target
  <2> QED
    BY <1>1, <1>10, <2>1 DEF AddToFilter
<1>11. ASSUME NEW a \in Admin, AddToBlockList(a) PROVE BanTypes'
  BY <1>1, <1>11 DEF AddToBlockList
<1>12. CASE Restart
  BY <1>1, <1>12 DEF Restart, Restored
<1>13. CASE Quiet \/ UNCHANGED vars
  BY <1>2, <1>13 DEF Quiet, vars, admin, promises
<1> QED
  BY <1>3, <1>4, <1>5, <1>6, <1>7, <1>8, <1>9, <1>10, <1>11, <1>12, <1>13 DEF Next, Handle

LEMMA TypeInvOK == LastInv /\ InTime /\ BanTypes => TypeOK
<1> SUFFICES ASSUME LastInv, InTime, BanTypes PROVE TypeOK
  OBVIOUS
<1>1. ASSUME NEW k \in Key, peers[k] # None PROVE peers[k].lastSeen <= now
  <2>1. peers[k] \in Row
    BY <1>1 DEF LastInv, RowInv, RowTypes
  <2>2. PICK d \in Call : From(d, k, peers[k])
    BY <2>1 DEF LastInv, RowInv, RowsFrom
  <2> QED
    BY <2>2 DEF From, InTime
<1>2. seen \in [Call -> 0..MaxTime] /\ pickedAt \in [Call -> 0..MaxTime]
  BY DbAssumption DEF LastInv, RowInv, RowTypes, InTime
<1> QED
  BY <1>1, <1>2
  DEF TypeOK, LastInv, LastTypes, RowInv, RowTypes, TasksPassed, Passed, InTime, BanTypes, Target, Stages

(* Every variable of database mode keeps its type; a save is pending only  *)
(* of an announce that passed both tests, and no row of the table is newer *)
(* than the clock, however late SavePeer's task ran (db_manager.go:33-88). *)
THEOREM DbTypeCorrect == Spec => []TypeOK
<1>1. Init => LastInv /\ InTime /\ BanTypes
  BY LastInit, BanInit, DbAssumption DEF Init, InTime, BanInv
<1>2. LastInv /\ InTime /\ BanTypes /\ [Next]_vars => (LastInv /\ InTime /\ BanTypes)'
  BY LastNext, InTimeNext, BanTypesNext DEF LastInv
<1> QED
  BY <1>1, <1>2, TypeInvOK, PTL DEF Spec
=============================================================================
