-------------------------- MODULE XdpFilterProofs --------------------------
(***************************************************************************)
(* The eBPF filter and the fallback implement the interface IPFilter, with *)
(* packets passing while a Clear is half done and a Clear that fails or    *)
(* ends early, and the count of addresses never falls below the number     *)
(* that are blocked but for what such an early end has left.               *)
(***************************************************************************)
EXTENDS XdpFilter, FiniteSetTheorems, TLAPS

LEMMA NoAddress == BadIP \notin IPv4 /\ BadIP \notin IPv6
BY XdpAssumption DEF IP

(* What an addition does to the maps. *)
LEMMA AddType ==
  ASSUME TypeOK, NEW ip, AddIP(ip)
  PROVE  /\ map4' \subseteq IPv4 /\ map6' \subseteq IPv6 /\ plain' \subseteq IP
         /\ count4' \in Nat /\ count6' \in Nat
BY DEF TypeOK, AddIP, AddIPv4, AddIPv6, counts

LEMMA RemoveType ==
  ASSUME TypeOK, NEW ip, RemoveIP(ip)
  PROVE  /\ map4' \subseteq IPv4 /\ map6' \subseteq IPv6 /\ plain' \subseteq IP
         /\ count4' \in Nat /\ count6' \in Nat
BY DEF TypeOK, RemoveIP, RemoveIPv4, RemoveIPv6, counts

LEMMA TypeInit == Init => TypeOK
BY DEF Init, TypeOK, NoJob

LEMMA TypeNext == TypeOK /\ [Next]_vars => TypeOK'
<1> SUFFICES ASSUME TypeOK, [Next]_vars PROVE TypeOK'
  OBVIOUS
<1>1. ASSUME NEW r \in Requests, Begin(r) PROVE TypeOK'
  <2>1. r.ips \in Seq(IP \cup {BadIP})
    BY XdpAssumption
  <2> QED
    BY <1>1, <2>1 DEF Begin, TypeOK, counts, stats
<1>2. CASE BanNext
  <2>1. Tail(todo) \in Seq(IP \cup {BadIP})
    BY <1>2 DEF BanNext, TypeOK
  <2>2. AddIP(Head(todo))
    BY <1>2 DEF BanNext
  <2> QED
    BY <1>2, <2>1, <2>2, AddType DEF BanNext, TypeOK, stats
<1>3. CASE UnbanNext
  <2>1. Tail(todo) \in Seq(IP \cup {BadIP})
    BY <1>3 DEF UnbanNext, TypeOK
  <2>2. RemoveIP(Head(todo))
    BY <1>3 DEF UnbanNext
  <2> QED
    BY <1>3, <2>1, <2>2, RemoveType DEF UnbanNext, TypeOK, stats
<1>4. CASE Abort
  BY <1>4 DEF Abort, TypeOK, counts, stats
<1>5. CASE Finish
  BY <1>5 DEF Finish, TypeOK, counts, stats
<1>6. CASE ClearNext
  BY <1>6 DEF ClearNext, TypeOK, counts, stats
<1>7. CASE ClearEnd
  BY <1>7 DEF ClearEnd, Ended, TypeOK, stats
<1>10. CASE ClearTurns
  BY <1>10 DEF ClearTurns, Ended, TypeOK, counts, stats
<1>11. CASE ClearFails
  BY <1>11 DEF ClearFails, TypeOK, counts, stats
<1>8. ASSUME NEW p \in Packet, Receive(p) PROVE TypeOK'
  <2>1. verdict' \in [src : IP \cup {NoAddr}, kind : {"none", "dropped", "passed", "ignored"}]
    BY <1>8 DEF Receive, Packet
  <2>2. dropped' \in Nat /\ allowed' \in Nat
    BY <1>8 DEF Receive, TypeOK
  <2> QED
    BY <1>8, <2>1, <2>2 DEF Receive, TypeOK, counts
<1>9. CASE UNCHANGED vars
  BY <1>9 DEF vars, TypeOK, counts, stats
<1> QED
  BY <1>1, <1>2, <1>3, <1>4, <1>5, <1>6, <1>7, <1>8, <1>9, <1>10, <1>11 DEF Next

(* Every variable of the filters keeps its type. *)
THEOREM XdpTypeCorrect == Spec => []TypeOK
BY TypeInit, TypeNext, PTL DEF Spec

-----------------------------------------------------------------------------
(* The set TestIP answers from, in terms of the maps. *)
LEMMA BlockedIs == TypeOK => Blocked = IF xdp THEN map4 \cup map6 ELSE plain
<1> SUFFICES ASSUME TypeOK PROVE Blocked = IF xdp THEN map4 \cup map6 ELSE plain
  OBVIOUS
<1>1. map4 \subseteq IPv4 /\ map6 \subseteq IPv6 /\ plain \subseteq IP /\ IPv4 \cap IPv6 = {}
  BY XdpAssumption DEF TypeOK
<1>2. CASE xdp
  BY <1>1, <1>2 DEF Blocked, TestIP, IP
<1>3. CASE ~xdp
  BY <1>1, <1>3 DEF Blocked, TestIP
<1> QED
  BY <1>2, <1>3

LEMMA BlockedIsNext == TypeOK' => Blocked' = IF xdp' THEN map4' \cup map6' ELSE plain'
<1> SUFFICES ASSUME TypeOK' PROVE Blocked' = IF xdp' THEN map4' \cup map6' ELSE plain'
  OBVIOUS
<1>1. map4' \subseteq IPv4 /\ map6' \subseteq IPv6 /\ plain' \subseteq IP /\ IPv4 \cap IPv6 = {}
  BY XdpAssumption DEF TypeOK
<1>2. CASE xdp'
  BY <1>1, <1>2 DEF Blocked, TestIP, IP
<1>3. CASE ~xdp'
  BY <1>1, <1>3 DEF Blocked, TestIP
<1> QED
  BY <1>2, <1>3

(* An iteration ends early only when one may fail, the second loop of      *)
(* Clear finds the first map empty unless the first loop ended early, and  *)
(* the fallback has no eBPF maps.                                          *)
EarlyEnds == cut # {} => "iterate" \in Faults
PlainOnly == ~xdp => map4 = {} /\ map6 = {}
Loops == EarlyEnds /\ SecondLoop /\ PlainOnly

LEMMA LoopsNext == TypeOK /\ Loops /\ [Next]_vars => Loops'
<1> SUFFICES ASSUME TypeOK, Loops, [Next]_vars PROVE Loops'
  OBVIOUS
<1> USE DEF Loops, EarlyEnds, SecondLoop, PlainOnly
<1>1. CASE UNCHANGED <<xdp, map4, map6, job, loop, cut>>
  BY <1>1
<1>2. ASSUME NEW r \in Requests, Begin(r) PROVE Loops'
  BY <1>2 DEF Begin, NoJob
<1>3. CASE BanNext
  BY <1>3 DEF BanNext, AddIP
<1>4. CASE UnbanNext
  BY <1>4 DEF UnbanNext, RemoveIP
<1>5. CASE Abort
  BY <1>5 DEF Abort
<1>6. CASE Finish
  BY <1>6 DEF Finish
<1>7. CASE ClearNext
  BY <1>7 DEF ClearNext, Clearing
<1>8. CASE ClearTurns
  BY <1>8 DEF ClearTurns, Clearing, Ends, Ended
<1>9. CASE ClearFails
  BY <1>9 DEF ClearFails
<1>10. CASE ClearEnd
  BY <1>10 DEF ClearEnd, Clearing, Ends, Ended
<1>11. ASSUME NEW p \in Packet, Receive(p) PROVE Loops'
  BY <1>1, <1>11 DEF Receive
<1> QED
  BY <1>1, <1>2, <1>3, <1>4, <1>5, <1>6, <1>7, <1>8, <1>9, <1>10, <1>11 DEF Next, vars

LEMMA LoopsAlways == Spec => []Loops
<1>1. Init => Loops
  BY DEF Init, Loops, EarlyEnds, SecondLoop, PlainOnly
<1>2. Spec => []TypeOK
  BY XdpTypeCorrect
<1> QED
  BY <1>1, <1>2, LoopsNext, PTL DEF Spec

LEMMA SimulatesInit == Init => Promise!Init
<1> SUFFICES ASSUME Init PROVE Promise!Init
  OBVIOUS
<1>1. Blocked = {}
  BY DEF Init, Blocked, TestIP
<1> QED
  BY <1>1 DEF Init, Promise!Init

LEMMA SimulatesNext ==
  TypeOK /\ TypeOK' /\ Loops /\ [Next]_vars => [Promise!Next]_(Promise!vars)
<1> SUFFICES ASSUME TypeOK, TypeOK', Loops, [Next]_vars PROVE [Promise!Next]_(Promise!vars)
  OBVIOUS
<1>1. Blocked = IF xdp THEN map4 \cup map6 ELSE plain
  BY BlockedIs
<1>2. Blocked' = IF xdp' THEN map4' \cup map6' ELSE plain'
  BY BlockedIsNext
<1>3. map4 \subseteq IPv4 /\ map6 \subseteq IPv6 /\ IPv4 \cap IPv6 = {} /\ IP = IPv4 \cup IPv6
  BY XdpAssumption DEF TypeOK, IP
<1> USE DEF Promise!Next, Promise!vars
<1>4. ASSUME NEW r \in Requests, Begin(r) PROVE UNCHANGED Promise!vars
  BY <1>1, <1>2, <1>4 DEF Begin
<1>5. CASE BanNext
  <2> DEFINE ip == Head(todo)
  <2>1. AddIP(ip) /\ reply' = "ok" /\ verdict' = verdict /\ xdp' = xdp
    BY <1>5 DEF BanNext
  <2>2. ip \in IP
    BY <1>3, <2>1 DEF AddIP, AddIPv4, AddIPv6
  <2>3. Blocked' = Blocked \cup {ip}
    BY <1>1, <1>2, <2>1 DEF AddIP, AddIPv4, AddIPv6
  <2> HIDE DEF ip
  <2> QED
    BY <2>1, <2>2, <2>3 DEF Promise!AddIP
<1>6. CASE UnbanNext
  <2> DEFINE ip == Head(todo)
  <2>1. RemoveIP(ip) /\ reply' = "ok" /\ verdict' = verdict /\ xdp' = xdp
    BY <1>6 DEF UnbanNext
  <2>2. ip \in IP
    BY <1>3, <2>1 DEF RemoveIP, RemoveIPv4, RemoveIPv6
  <2>3. Blocked' = Blocked \ {ip}
    BY <1>1, <1>2, <1>3, <2>1 DEF RemoveIP, RemoveIPv4, RemoveIPv6
  <2> HIDE DEF ip
  <2> QED
    BY <2>1, <2>2, <2>3 DEF Promise!RemoveIP
<1>7. CASE Abort
  BY <1>1, <1>2, <1>7 DEF Abort, Promise!Refuse
<1>8. CASE Finish
  BY <1>1, <1>2, <1>8 DEF Finish
<1>9. CASE ClearNext
  <2>1. PICK ip \in map4 \cup map6 : map4' \cup map6' = (map4 \cup map6) \ {ip}
    <3>1. CASE \E ip \in map4 : map4' = map4 \ {ip} /\ UNCHANGED map6
      BY <1>3, <3>1
    <3>2. CASE \E ip \in map6 : map6' = map6 \ {ip} /\ UNCHANGED map4
      BY <1>3, <3>2
    <3> QED
      BY <1>9, <3>1, <3>2 DEF ClearNext
  <2>2. xdp /\ xdp' /\ reply' = "busy" /\ verdict' = verdict
    BY <1>9 DEF ClearNext, Clearing
  <2>3. ip \in IP /\ Blocked' = Blocked \ {ip}
    BY <1>1, <1>2, <1>3, <2>1, <2>2
  <2> QED
    BY <2>2, <2>3 DEF Promise!Unblock
<1>10. CASE ClearEnd
  <2>1. reply' = "ok" /\ verdict' = verdict
    BY <1>10 DEF ClearEnd
  <2>2. CASE "iterate" \in Faults /\ xdp
    BY <1>1, <1>2, <1>10, <2>1, <2>2 DEF ClearEnd, Promise!Cleared
  <2>3. CASE "iterate" \notin Faults \/ ~xdp
    <3>1. Blocked' = {}
      BY <1>2, <1>10, <2>3 DEF ClearEnd, Clearing, Ends, Loops, EarlyEnds, SecondLoop
    <3> QED
      BY <2>1, <3>1 DEF Promise!Cleared
  <2> QED
    BY <2>2, <2>3
<1>13. CASE ClearTurns
  BY <1>1, <1>2, <1>13 DEF ClearTurns
<1>14. CASE ClearFails
  BY <1>1, <1>2, <1>14 DEF ClearFails, Promise!Refuse
<1>11. ASSUME NEW p \in Packet, Receive(p) PROVE Promise!Next
  <2>1. Blocked' = Blocked /\ reply' = reply /\ xdp
    BY <1>1, <1>2, <1>11 DEF Receive
  <2>2. p.src \in IP
    BY DEF Packet
  <2>3. CASE Filtered(p)
    <3>1. Blocks(p) <=> p.src \in Blocked
      BY <1>1, <1>3, <1>11, <2>1, <2>3 DEF Blocks, Filtered, Receive, Packet
    <3>2. verdict' = [src |-> p.src, kind |-> IF p.src \in Blocked THEN "dropped" ELSE "passed"]
      BY <1>11, <2>3, <3>1 DEF Receive
    <3> QED
      BY <2>1, <2>2, <3>2 DEF Promise!Filter
  <2>4. CASE ~Filtered(p)
    <3>1. verdict' = [src |-> p.src, kind |-> "ignored"]
      BY <1>11, <2>4 DEF Receive, Blocks
    <3> QED
      BY <2>1, <2>2, <3>1 DEF Promise!Ignore
  <2> QED
    BY <2>3, <2>4
<1>12. CASE UNCHANGED vars
  BY <1>1, <1>2, <1>12 DEF vars
<1> QED
  BY <1>4, <1>5, <1>6, <1>7, <1>8, <1>9, <1>10, <1>11, <1>12, <1>13, <1>14 DEF Next

(* Every behaviour of the filters, the kernel's unlocked reads in the      *)
(* middle of a Clear and a Clear that fails half way included, is one the  *)
(* interface IPFilter allows: a packet to a tracker port is dropped        *)
(* exactly when TestIP says so.  A Clear reports success with addresses    *)
(* left only when its iteration fails; filter.go:213-237.                  *)
THEOREM FilterKeepsItsPromise == Spec => Implements
<1>1. Spec => []TypeOK
  BY XdpTypeCorrect
<1>2. Spec => []Loops
  BY LoopsAlways
<1>3. TypeOK /\ TypeOK' /\ Loops /\ [Next]_vars => [Promise!Next]_(Promise!vars)
  BY SimulatesNext
<1> QED
  BY <1>1, <1>2, <1>3, SimulatesInit, PTL DEF Spec, Implements, Promise!Spec

-----------------------------------------------------------------------------
Finite == IsFiniteSet(map4) /\ IsFiniteSet(map6)

(* Adding one address raises a cardinality by at most one, removing one    *)
(* that is there lowers it.                                                *)
LEMMA CardAdd ==
  ASSUME NEW S, IsFiniteSet(S), NEW x
  PROVE  /\ IsFiniteSet(S \cup {x}) /\ Cardinality(S) \in Nat /\ Cardinality(S \cup {x}) \in Nat
         /\ Cardinality(S \cup {x}) <= Cardinality(S) + 1
BY FS_AddElement, FS_CardinalityType

LEMMA CardRemove ==
  ASSUME NEW S, IsFiniteSet(S), NEW x \in S
  PROVE  /\ IsFiniteSet(S \ {x}) /\ Cardinality(S) \in Nat
         /\ Cardinality(S \ {x}) = Cardinality(S) - 1 /\ Cardinality(S) > 0
<1>1. IsFiniteSet(S \ {x}) /\ Cardinality(S \ {x}) = Cardinality(S) - 1
  BY FS_RemoveElement
<1>2. Cardinality(S) \in Nat /\ Cardinality(S \ {x}) \in Nat
  BY <1>1, FS_CardinalityType
<1> QED
  BY <1>1, <1>2

LEMMA CoversNext ==
  TypeOK /\ Finite /\ CountCovers /\ Loops /\ [Next]_vars => Finite' /\ CountCovers'
<1> SUFFICES ASSUME TypeOK, Finite, CountCovers, Loops, [Next]_vars
             PROVE Finite' /\ CountCovers'
  OBVIOUS
<1>1. /\ IsFiniteSet(map4) /\ IsFiniteSet(map6)
      /\ Cardinality(map4) \in Nat /\ Cardinality(map6) \in Nat
      /\ count4 \in Nat /\ count6 \in Nat
      /\ "ipv4" \notin cut => Cardinality(map4) <= count4
      /\ "ipv6" \notin cut => Cardinality(map6) <= count6
  BY FS_CardinalityType DEF Finite, CountCovers, TypeOK
<1>2. CASE UNCHANGED <<map4, map6, counts, cut>>
  BY <1>1, <1>2 DEF Finite, CountCovers, counts
<1>3. ASSUME NEW ip, AddIPv4(ip), cut' = cut PROVE Finite' /\ CountCovers'
  <2>1. /\ IsFiniteSet(map4 \cup {ip}) /\ Cardinality(map4 \cup {ip}) \in Nat
        /\ Cardinality(map4 \cup {ip}) <= Cardinality(map4) + 1
    BY <1>1, CardAdd
  <2>2. map4' = map4 \cup {ip} /\ count4' = count4 + 1 /\ UNCHANGED <<map6, count6>>
    BY <1>3 DEF AddIPv4
  <2>3. "ipv4" \notin cut => Cardinality(map4') <= count4'
    BY <1>1, <2>1, <2>2
  <2> QED
    BY <1>1, <1>3, <2>1, <2>2, <2>3 DEF Finite, CountCovers
<1>4. ASSUME NEW ip, AddIPv6(ip), cut' = cut PROVE Finite' /\ CountCovers'
  <2>1. /\ IsFiniteSet(map6 \cup {ip}) /\ Cardinality(map6 \cup {ip}) \in Nat
        /\ Cardinality(map6 \cup {ip}) <= Cardinality(map6) + 1
    BY <1>1, CardAdd
  <2>2. map6' = map6 \cup {ip} /\ count6' = count6 + 1 /\ UNCHANGED <<map4, count4>>
    BY <1>4 DEF AddIPv6
  <2>3. "ipv6" \notin cut => Cardinality(map6') <= count6'
    BY <1>1, <2>1, <2>2
  <2> QED
    BY <1>1, <1>4, <2>1, <2>2, <2>3 DEF Finite, CountCovers
<1>5. ASSUME NEW ip, RemoveIPv4(ip), cut' = cut PROVE Finite' /\ CountCovers'
  <2>1. ip \in map4 /\ map4' = map4 \ {ip} /\ UNCHANGED <<map6, count6>>
    BY <1>5 DEF RemoveIPv4
  <2>2. /\ IsFiniteSet(map4 \ {ip})
        /\ Cardinality(map4 \ {ip}) = Cardinality(map4) - 1 /\ Cardinality(map4) > 0
    BY <1>1, <2>1, CardRemove
  <2>3. "ipv4" \notin cut => count4' = count4 - 1
    BY <1>1, <1>5, <2>2 DEF RemoveIPv4
  <2>4. "ipv4" \notin cut => Cardinality(map4') <= count4'
    BY <1>1, <2>1, <2>2, <2>3
  <2> QED
    BY <1>1, <1>5, <2>1, <2>2, <2>4 DEF Finite, CountCovers
<1>6. ASSUME NEW ip, RemoveIPv6(ip), cut' = cut PROVE Finite' /\ CountCovers'
  <2>1. ip \in map6 /\ map6' = map6 \ {ip} /\ UNCHANGED <<map4, count4>>
    BY <1>6 DEF RemoveIPv6
  <2>2. /\ IsFiniteSet(map6 \ {ip})
        /\ Cardinality(map6 \ {ip}) = Cardinality(map6) - 1 /\ Cardinality(map6) > 0
    BY <1>1, <2>1, CardRemove
  <2>3. "ipv6" \notin cut => count6' = count6 - 1
    BY <1>1, <1>6, <2>2 DEF RemoveIPv6
  <2>4. "ipv6" \notin cut => Cardinality(map6') <= count6'
    BY <1>1, <2>1, <2>2, <2>3
  <2> QED
    BY <1>1, <1>6, <2>1, <2>2, <2>4 DEF Finite, CountCovers
<1>7. CASE BanNext
  BY <1>2, <1>3, <1>4, <1>7 DEF BanNext, AddIP
<1>8. CASE UnbanNext
  BY <1>2, <1>5, <1>6, <1>8 DEF UnbanNext, RemoveIP
<1>9. CASE ClearNext
  <2>1. ASSUME NEW ip \in map4, map4' = map4 \ {ip}, UNCHANGED map6
        PROVE  Finite' /\ CountCovers'
    <3>1. IsFiniteSet(map4 \ {ip}) /\ Cardinality(map4 \ {ip}) = Cardinality(map4) - 1
      BY <1>1, CardRemove
    <3>2. count4' = count4 /\ count6' = count6 /\ cut' = cut
      BY <1>9 DEF ClearNext, counts
    <3>3. "ipv4" \notin cut => Cardinality(map4') <= count4'
      BY <1>1, <2>1, <3>1, <3>2
    <3> QED
      BY <1>1, <2>1, <3>1, <3>2, <3>3 DEF Finite, CountCovers
  <2>2. ASSUME NEW ip \in map6, map6' = map6 \ {ip}, UNCHANGED map4
        PROVE  Finite' /\ CountCovers'
    <3>1. IsFiniteSet(map6 \ {ip}) /\ Cardinality(map6 \ {ip}) = Cardinality(map6) - 1
      BY <1>1, CardRemove
    <3>2. count4' = count4 /\ count6' = count6 /\ cut' = cut
      BY <1>9 DEF ClearNext, counts
    <3>3. "ipv6" \notin cut => Cardinality(map6') <= count6'
      BY <1>1, <2>2, <3>1, <3>2
    <3> QED
      BY <1>1, <2>2, <3>1, <3>2, <3>3 DEF Finite, CountCovers
  <2> QED
    BY <1>9, <2>1, <2>2 DEF ClearNext
<1>10. CASE ClearEnd
  <2>1. UNCHANGED <<map4, map6>> /\ count4' = 0 /\ count6' = 0 /\ Ended(map6, "ipv6")
    BY <1>10 DEF ClearEnd
  <2>2. "ipv4" \notin cut' => Cardinality(map4) = 0
    <3>1. CASE xdp
      BY <1>10, <2>1, <3>1, FS_EmptySet DEF ClearEnd, Clearing, Ended, Loops, SecondLoop
    <3>2. CASE ~xdp
      BY <3>2, FS_EmptySet DEF Loops, PlainOnly
    <3> QED
      BY <3>1, <3>2
  <2>3. "ipv6" \notin cut' => Cardinality(map6) = 0
    BY <2>1, FS_EmptySet DEF Ended
  <2> QED
    BY <1>1, <2>1, <2>2, <2>3 DEF Finite, CountCovers
<1>11. CASE ClearTurns
  <2>1. UNCHANGED <<map4, map6, counts>> /\ Ended(map4, "ipv4")
    BY <1>11 DEF ClearTurns
  <2>2. "ipv4" \notin cut' => Cardinality(map4) <= count4
    <3>1. CASE map4 = {}
      BY <1>1, <3>1, FS_EmptySet
    <3>2. CASE map4 # {}
      BY <2>1, <3>2 DEF Ended
    <3> QED
      BY <3>1, <3>2
  <2>3. "ipv6" \notin cut' => "ipv6" \notin cut
    BY <2>1 DEF Ended
  <2> QED
    BY <1>1, <2>1, <2>2, <2>3 DEF Finite, CountCovers, counts
<1>12. CASE ClearFails
  BY <1>2, <1>12 DEF ClearFails
<1> QED
  BY <1>2, <1>7, <1>8, <1>9, <1>10, <1>11, <1>12 DEF Next, Begin, Abort, Finish, Receive, vars

LEMMA CoversInit == Init => Finite /\ CountCovers
BY FS_EmptySet DEF Init, Finite, CountCovers

(* The reported number of addresses is never less than the true one: the   *)
(* guard in RemoveIPv4 and RemoveIPv6 (filter.go:153, 173) never matters,  *)
(* unless an iteration of Clear ended early and left an address uncounted. *)
THEOREM CountsCoverMaps == Spec => []CountCovers
<1>1. Spec => []TypeOK
  BY XdpTypeCorrect
<1>2. Spec => []Loops
  BY LoopsAlways
<1> QED
  BY <1>1, <1>2, CoversInit, CoversNext, PTL DEF Spec

-----------------------------------------------------------------------------
(* While a batch is under way, an address of the request has either been   *)
(* seen to or is still to be processed.                                    *)
Pending(ip) == \E j \in DOMAIN todo : todo[j] = ip
Progress ==
  /\ job.op = "ban" => \A i \in DOMAIN job.ips : job.ips[i] \in Blocked \/ Pending(job.ips[i])
  /\ job.op = "unban" => \A i \in DOMAIN job.ips : job.ips[i] \notin Blocked \/ Pending(job.ips[i])

(* An element of a sequence is its head or an element of its tail. *)
LEMMA HeadOrTail ==
  ASSUME NEW S, NEW s \in Seq(S), s # <<>>, NEW j \in DOMAIN s
  PROVE  s[j] = Head(s) \/ \E k \in DOMAIN Tail(s) : Tail(s)[k] = s[j]
<1>1. CASE j = 1
  BY <1>1
<1>2. CASE j # 1
  <2>1. j \in 2..Len(s) /\ Len(s) \in Nat
    BY <1>2
  <2>2. j - 1 \in 1..(Len(s) - 1)
    BY <2>1
  <2>3. DOMAIN Tail(s) = 1..(Len(s) - 1) /\ Tail(s)[j - 1] = s[(j - 1) + 1]
    BY <2>1, <2>2
  <2> QED
    BY <2>1, <2>2, <2>3
<1> QED
  BY <1>1, <1>2

(* The calls change the blocked addresses by exactly their own. *)
LEMMA BlockedAdd ==
  ASSUME TypeOK, TypeOK', xdp' = xdp, NEW ip, AddIP(ip)
  PROVE  Blocked' = Blocked \cup {ip}
<1>1. Blocked = IF xdp THEN map4 \cup map6 ELSE plain
  BY BlockedIs
<1>2. Blocked' = IF xdp' THEN map4' \cup map6' ELSE plain'
  BY BlockedIsNext
<1> QED
  BY <1>1, <1>2 DEF AddIP, AddIPv4, AddIPv6

LEMMA BlockedRemove ==
  ASSUME TypeOK, TypeOK', xdp' = xdp, NEW ip, RemoveIP(ip)
  PROVE  Blocked' = Blocked \ {ip}
<1>1. Blocked = IF xdp THEN map4 \cup map6 ELSE plain
  BY BlockedIs
<1>2. Blocked' = IF xdp' THEN map4' \cup map6' ELSE plain'
  BY BlockedIsNext
<1>3. map4 \subseteq IPv4 /\ map6 \subseteq IPv6 /\ IPv4 \cap IPv6 = {}
  BY XdpAssumption DEF TypeOK
<1> QED
  BY <1>1, <1>2, <1>3 DEF RemoveIP, RemoveIPv4, RemoveIPv6

LEMMA BlockedSame ==
  ASSUME TypeOK, TypeOK', UNCHANGED <<xdp, map4, map6, plain>>
  PROVE  Blocked' = Blocked
BY BlockedIs, BlockedIsNext

LEMMA ProgressNext == TypeOK /\ TypeOK' /\ Progress /\ [Next]_vars => Progress'
<1> SUFFICES ASSUME TypeOK, TypeOK', Progress, [Next]_vars PROVE Progress'
  OBVIOUS
<1>1. CASE job' = NoJob
  BY <1>1 DEF Progress, NoJob
<1>2. CASE UNCHANGED <<xdp, map4, map6, plain, job, todo>>
  <2>1. Blocked' = Blocked
    BY <1>2, BlockedSame
  <2> QED
    BY <1>2, <2>1 DEF Progress, Pending
<1>3. ASSUME NEW r \in Requests, Begin(r) PROVE Progress'
  <2>1. job' = r /\ todo' = r.ips
    BY <1>3 DEF Begin
  <2>2. \A i \in DOMAIN r.ips : Pending(r.ips[i])'
    BY <2>1 DEF Pending
  <2> QED
    BY <2>1, <2>2 DEF Progress
<1>4. ASSUME todo # <<>>, todo' = Tail(todo), NEW ip, ip # Head(todo), Pending(ip)
      PROVE  Pending(ip)'
  <2>1. PICK j \in DOMAIN todo : todo[j] = ip
    BY <1>4 DEF Pending
  <2>2. \E k \in DOMAIN Tail(todo) : Tail(todo)[k] = todo[j]
    BY <1>4, <2>1, HeadOrTail DEF TypeOK
  <2> QED
    BY <1>4, <2>1, <2>2 DEF Pending
<1>5. CASE BanNext
  <2>1. /\ AddIP(Head(todo)) /\ xdp' = xdp /\ job' = job /\ job.op = "ban"
        /\ todo # <<>> /\ todo' = Tail(todo)
    BY <1>5 DEF BanNext
  <2>2. Blocked' = Blocked \cup {Head(todo)}
    BY <2>1, BlockedAdd
  <2> QED
    BY <1>4, <2>1, <2>2 DEF Progress
<1>6. CASE UnbanNext
  <2>1. /\ RemoveIP(Head(todo)) /\ xdp' = xdp /\ job' = job /\ job.op = "unban"
        /\ todo # <<>> /\ todo' = Tail(todo)
    BY <1>6 DEF UnbanNext
  <2>2. Blocked' = Blocked \ {Head(todo)}
    BY <2>1, BlockedRemove
  <2> QED
    BY <1>4, <2>1, <2>2 DEF Progress
<1>7. CASE ClearNext
  BY <1>7 DEF ClearNext, Clearing, Progress
<1>8. CASE ClearTurns
  BY <1>2, <1>8 DEF ClearTurns
<1> QED
  BY <1>1, <1>2, <1>3, <1>5, <1>6, <1>7, <1>8
     DEF Next, Abort, Finish, ClearFails, ClearEnd, Receive, vars

(* When HandleBanIP or HandleUnbanIP answers with success, every address   *)
(* of the request is blocked, or is not, whatever packets and failing      *)
(* calls came in between; after HandleClearBanIP none is, unless an        *)
(* iteration ended early (the loops of handler/admin.go over BanIP and     *)
(* UnbanIP, Clear of filter.go).                                           *)
THEOREM AnswersAreTrue == Spec => AnswerTrue
<1> DEFINE Step ==
      /\ Finish /\ job.op = "ban" => \A i \in DOMAIN job.ips : job.ips[i] \in Blocked
      /\ Finish /\ job.op = "unban" => \A i \in DOMAIN job.ips : job.ips[i] \notin Blocked
      /\ ClearEnd /\ cut' = {} => Blocked' = {}
<1>1. Init => Progress
  BY DEF Init, Progress, NoJob
<1>2. TypeOK /\ TypeOK' /\ Loops /\ Progress => Step
  <2> SUFFICES ASSUME TypeOK, TypeOK', Loops, Progress PROVE Step
    OBVIOUS
  <2>1. ASSUME Finish PROVE \A ip : ~Pending(ip)
    BY <2>1 DEF Finish, Pending
  <2>2. ASSUME ClearEnd, cut' = {} PROVE Blocked' = {}
    <3>1. CASE xdp
      <4>1. map4 = {} /\ map6 = {}
        BY <2>2, <3>1 DEF ClearEnd, Clearing, Ended, Loops, SecondLoop
      <4> QED
        BY <2>2, <3>1, <4>1, BlockedIsNext DEF ClearEnd
    <3>2. CASE ~xdp
      BY <2>2, <3>2, BlockedIsNext DEF ClearEnd
    <3> QED
      BY <3>1, <3>2
  <2> QED
    BY <2>1, <2>2 DEF Progress
<1>3. Spec => []TypeOK
  BY XdpTypeCorrect
<1>4. Spec => []Loops
  BY LoopsAlways
<1> QED
  BY <1>1, <1>2, <1>3, <1>4, ProgressNext, PTL DEF Spec, AnswerTrue
=============================================================================
