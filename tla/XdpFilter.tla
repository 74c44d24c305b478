----------------------------- MODULE XdpFilter -----------------------------
(***************************************************************************)
(* The two implementations of IPFilter and the administrator's calls: the  *)
(* eBPF maps that user space (ban/xdp/filter.go) writes and the kernel     *)
(* program (ban/xdp/filter.c) reads without any lock, and the plain map of *)
(* ban/ip_filter.go.                                                       *)
(*                                                                         *)
(* A call of the filter holds its mutex throughout, but packets pass at    *)
(* any moment: Clear removes one key per step, one map after the other.    *)
(***************************************************************************)
EXTENDS Naturals, Sequences, FiniteSets

CONSTANTS
  IPv4, IPv6,       \* addresses; an IPv4-mapped IPv6 address is one of IPv4
  BadIP,            \* a string that net.ParseIP rejects
  Port,             \* destination ports of packets
  FilterPorts,      \* the tracker's own ports
  MaxBlocked,       \* MAX_BLOCKED_IPS
  Faults,           \* the calls of the kernel that may fail: "put", "delete",
                    \* and "iterate", an iteration that ends before its map does
  Requests,         \* bound: the requests the administrator makes
  MaxCount,         \* bound: on the counts of addresses
  MaxPackets        \* bound: on the packets that are counted

IP == IPv4 \cup IPv6

ASSUME XdpAssumption ==
  /\ IPv4 \cap IPv6 = {}
  /\ BadIP \notin IP
  /\ FilterPorts \subseteq Port
  /\ MaxBlocked \in Nat
  /\ Faults \subseteq {"put", "delete", "iterate"}
  /\ Requests \subseteq [op : {"ban", "unban", "clear"}, ips : Seq(IP \cup {BadIP})]
  /\ MaxCount \in Nat /\ MaxPackets \in Nat

VARIABLES
  xdp,              \* NewIPFilter attached the program; else the fallback
  map4, map6,       \* the eBPF maps blocked_ipv4 and blocked_ipv6
  plain,            \* fallbackIPFilter.blocked
  count4, count6,   \* XDPFilter.ipv4Count, ipv6Count
  dropped, allowed, \* the eBPF map stats
  job,              \* the request under way
  todo,             \* the addresses it has still to process
  loop,             \* the loop of Clear that is under way
  cut,              \* history: the maps whose last iteration of Clear ended early
  answer,           \* what the last request was answered
  reply, verdict    \* see IPFilter

counts == <<count4, count6>>
stats == <<dropped, allowed>>
vars == <<xdp, map4, map6, plain, counts, stats, job, todo, loop, cut, answer, reply, verdict>>

NoJob == [op |-> "none", ips |-> <<>>]
NoAddr == "none"

Init ==
  /\ xdp \in BOOLEAN
  /\ map4 = {} /\ map6 = {} /\ plain = {}
  /\ count4 = 0 /\ count6 = 0
  /\ dropped = 0 /\ allowed = 0
  /\ job = NoJob
  /\ todo = <<>>
  /\ loop = "ipv4"
  /\ cut = {}
  /\ answer = "none"
  /\ reply = "ok"
  /\ verdict = [src |-> NoAddr, kind |-> "none"]

(* TestIP: what the tracker itself asks before it handles an announce. *)
TestIP(ip) ==
  IF xdp THEN IF ip \in IPv4 THEN ip \in map4 ELSE ip \in map6 ELSE ip \in plain

-----------------------------------------------------------------------------
(* One call of the filter.  Each ends with a reply; an addition or removal *)
(* that fails leaves the maps and the counts alone.                        *)

(* Mutants: the address goes into the other map; it is not counted. *)
AddIPv4Crossed(ip) ==
  ip \in IPv4 /\ map6' = map6 \cup {ip} /\ count4' = count4 + 1 /\ UNCHANGED <<map4, count6>>
AddIPv4Uncounted(ip) ==
  ip \in IPv4 /\ map4' = map4 \cup {ip} /\ UNCHANGED <<map6, count4, count6>>

(* Put: a new key does not fit into a full map; an old one always does,    *)
(* and is counted again.                                                   *)
AddIPv4(ip) ==
  /\ ip \in IPv4
  /\ ip \in map4 \/ Cardinality(map4) < MaxBlocked
  /\ map4' = map4 \cup {ip}
  /\ count4' = count4 + 1
  /\ UNCHANGED <<map6, count6>>
AddIPv6(ip) ==
  /\ ip \in IPv6
  /\ ip \in map6 \/ Cardinality(map6) < MaxBlocked
  /\ map6' = map6 \cup {ip}
  /\ count6' = count6 + 1
  /\ UNCHANGED <<map4, count4>>

(* Delete: an address that is not in the map is an error. *)
RemoveIPv4(ip) ==
  /\ ip \in map4
  /\ map4' = map4 \ {ip}
  /\ count4' = IF count4 > 0 THEN count4 - 1 ELSE count4
  /\ UNCHANGED <<map6, count6>>
RemoveIPv6(ip) ==
  /\ ip \in map6
  /\ map6' = map6 \ {ip}
  /\ count6' = IF count6 > 0 THEN count6 - 1 ELSE count6
  /\ UNCHANGED <<map4, count4>>

(* The calls AddIPBan and RemoveIPBan make, when they succeed. *)
AddIP(ip) ==
  \/ xdp /\ (AddIPv4(ip) \/ AddIPv6(ip)) /\ UNCHANGED plain
  \/ ~xdp /\ ip \in IP /\ plain' = plain \cup {ip} /\ UNCHANGED <<map4, map6, counts>>
RemoveIP(ip) ==
  \/ xdp /\ (RemoveIPv4(ip) \/ RemoveIPv6(ip)) /\ UNCHANGED plain
  \/ ~xdp /\ ip \in IP /\ plain' = plain \ {ip} /\ UNCHANGED <<map4, map6, counts>>

(* When Put and Delete have no reason of their own to fail. *)
CanAdd(ip) ==
  \/ ~xdp /\ ip \in IP
  \/ xdp /\ ip \in IPv4 /\ (ip \in map4 \/ Cardinality(map4) < MaxBlocked)
  \/ xdp /\ ip \in IPv6 /\ (ip \in map6 \/ Cardinality(map6) < MaxBlocked)
CanRemove(ip) ==
  \/ ~xdp /\ ip \in IP
  \/ xdp /\ ip \in map4 \cup map6

-----------------------------------------------------------------------------
(* The administrator's requests: HandleBanIP, HandleUnbanIP and            *)
(* HandleClearBanIP.                                                       *)

Begin(r) ==
  /\ job = NoJob
  /\ r.op = "clear" \/ r.ips # <<>>
  /\ count4 + Len(r.ips) <= MaxCount /\ count6 + Len(r.ips) <= MaxCount
  /\ job' = r
  /\ todo' = r.ips
  /\ UNCHANGED <<xdp, map4, map6, plain, counts, stats, loop, cut, answer, reply, verdict>>

(* The loop stops at the first error; what was done before it stays. *)
BanNext ==
  /\ job.op = "ban" /\ todo # <<>>
  /\ AddIP(Head(todo))
  /\ todo' = Tail(todo)
  /\ reply' = "ok"
  /\ UNCHANGED <<xdp, stats, job, loop, cut, answer, verdict>>
UnbanNext ==
  /\ job.op = "unban" /\ todo # <<>>
  /\ RemoveIP(Head(todo))
  /\ todo' = Tail(todo)
  /\ reply' = "ok"
  /\ UNCHANGED <<xdp, stats, job, loop, cut, answer, verdict>>
Abort ==
  /\ todo # <<>>
  /\ \/ job.op = "ban" /\ (~CanAdd(Head(todo)) \/ (xdp /\ "put" \in Faults))
     \/ job.op = "unban" /\ (~CanRemove(Head(todo)) \/ (xdp /\ "delete" \in Faults))
  /\ reply' = "error"
  /\ answer' = "error"
  /\ job' = NoJob
  /\ todo' = <<>>
  /\ UNCHANGED <<xdp, map4, map6, plain, counts, stats, loop, cut, verdict>>
Finish ==
  /\ job.op \in {"ban", "unban"} /\ todo = <<>>
  /\ answer' = "ok"
  /\ job' = NoJob
  /\ UNCHANGED <<xdp, map4, map6, plain, counts, stats, todo, loop, cut, reply, verdict>>

(* Clear deletes the keys it iterates over, the IPv4 map first; the         *)
(* fallback drops its map at once.  A loop ends when iter.Next says so,    *)
(* because the map is empty or because the iteration failed: nobody asks   *)
(* iter.Err().                                                             *)
Clearing(l) == job.op = "clear" /\ xdp /\ loop = l
Ends(m) == m = {} \/ "iterate" \in Faults
Ended(m, l) == cut' = IF m = {} THEN cut \ {l} ELSE cut \cup {l}

ClearNext ==
  /\ \/ Clearing("ipv4") /\ \E ip \in map4 : map4' = map4 \ {ip} /\ UNCHANGED map6
     \/ Clearing("ipv6") /\ \E ip \in map6 : map6' = map6 \ {ip} /\ UNCHANGED map4
  /\ reply' = "busy"
  /\ UNCHANGED <<xdp, plain, counts, stats, job, todo, loop, cut, answer, verdict>>
ClearTurns ==
  /\ Clearing("ipv4") /\ Ends(map4)
  /\ Ended(map4, "ipv4")
  /\ loop' = "ipv6"
  /\ UNCHANGED <<xdp, map4, map6, plain, counts, stats, job, todo, answer, reply, verdict>>

(* A key cannot be deleted: Clear returns in the middle, the counts stay. *)
ClearFails ==
  /\ "delete" \in Faults
  /\ \/ Clearing("ipv4") /\ map4 # {}
     \/ Clearing("ipv6") /\ map6 # {}
  /\ reply' = "error"
  /\ answer' = "error"
  /\ job' = NoJob
  /\ loop' = "ipv4"
  /\ UNCHANGED <<xdp, map4, map6, plain, counts, stats, todo, cut, verdict>>

ClearEndMutant ==           \* mutant: it returns after the IPv4 loop
  /\ job.op = "clear" /\ (~xdp \/ loop = "ipv6")
  /\ reply' = "ok" /\ answer' = "ok" /\ job' = NoJob /\ loop' = "ipv4" /\ plain' = {}
  /\ UNCHANGED <<xdp, map4, map6, counts, stats, todo, cut, verdict>>
ClearEnd ==
  /\ job.op = "clear"
  /\ ~xdp \/ (Clearing("ipv6") /\ Ends(map6))
  /\ Ended(map6, "ipv6")
  /\ plain' = {}
  /\ count4' = 0
  /\ count6' = 0
  /\ reply' = "ok"
  /\ answer' = "ok"
  /\ job' = NoJob
  /\ loop' = "ipv4"
  /\ UNCHANGED <<xdp, map4, map6, stats, todo, verdict>>

-----------------------------------------------------------------------------
(* xdp_ip_filter, on any packet at any moment.                             *)

Packet == [family : {"ip", "ipv6", "other"}, complete : BOOLEAN,
           proto : {"tcp", "udp", "other"}, port : Port, src : IP]

(* Headers that are cut short and other transports pass uncounted. *)
Parsed(p) == p.complete /\ (p.family # "other" => p.proto # "other")
Filtered(p) == p.family # "other" /\ Parsed(p) /\ p.port \in FilterPorts
BlocksMutant(p) == Filtered(p) /\ p.src \in map4     \* mutant: one map for both families
Blocks(p) ==
  /\ Filtered(p)
  /\ \/ p.family = "ip" /\ p.src \in map4
     \/ p.family = "ipv6" /\ p.src \in map6

Receive(p) ==
  /\ xdp
  /\ p.family = "ip" => p.src \in IPv4
  /\ p.family = "ipv6" => p.src \in IPv6
  /\ dropped + allowed < MaxPackets
  /\ verdict' = [src |-> p.src, kind |-> CASE Blocks(p) -> "dropped"
                                           [] ~Blocks(p) /\ Filtered(p) -> "passed"
                                           [] OTHER -> "ignored"]
  /\ dropped' = IF Blocks(p) THEN dropped + 1 ELSE dropped
  /\ allowed' = IF ~Blocks(p) /\ Parsed(p) THEN allowed + 1 ELSE allowed
  /\ UNCHANGED <<xdp, map4, map6, plain, counts, job, todo, loop, cut, answer, reply>>

Next ==
  \/ \E r \in Requests : Begin(r)
  \/ BanNext \/ UnbanNext \/ Abort \/ Finish
  \/ ClearNext \/ ClearTurns \/ ClearFails \/ ClearEnd
  \/ \E p \in Packet : Receive(p)

Spec == Init /\ [][Next]_vars

-----------------------------------------------------------------------------
(* Properties.                                                             *)

(* The counters are counters and the maps hold addresses of their family. *)
TypeOK ==
  /\ xdp \in BOOLEAN
  /\ map4 \subseteq IPv4 /\ map6 \subseteq IPv6 /\ plain \subseteq IP
  /\ count4 \in Nat /\ count6 \in Nat
  /\ dropped \in Nat /\ allowed \in Nat
  /\ job \in Requests \cup {NoJob}
  /\ todo \in Seq(IP \cup {BadIP})
  /\ loop \in {"ipv4", "ipv6"} /\ cut \subseteq {"ipv4", "ipv6"}
  /\ answer \in {"none", "ok", "error"}
  /\ reply \in {"ok", "error", "busy"}
  /\ verdict \in [src : IP \cup {NoAddr}, kind : {"none", "dropped", "passed", "ignored"}]

Blocked == {ip \in IP : TestIP(ip)}

(* Both implementations do what the interface promises, with packets in    *)
(* the middle of a Clear and a Clear that fails half way or whose          *)
(* iteration ends early; TestIP and the kernel always agree.               *)
Promise == INSTANCE IPFilter WITH blocked <- Blocked, MayLeave <- "iterate" \in Faults
Implements == Promise!Spec

(* A request answered with success has had its effect on every address of  *)
(* it, however many packets and failures came in between, unless an        *)
(* iteration of Clear ended early.                                         *)
AnswerTrue ==
  [][/\ Finish /\ job.op = "ban" =>
          \A i \in DOMAIN job.ips : job.ips[i] \in Blocked
     /\ Finish /\ job.op = "unban" =>
          \A i \in DOMAIN job.ips : job.ips[i] \notin Blocked
     /\ ClearEnd /\ cut' = {} => Blocked' = {}]_vars

(* The counts behind TotalIPs never fall below the number of blocked       *)
(* addresses, after a Clear that failed half way too, so that the guard of *)
(* their decrement is never what stops them at zero.  (They exceed it when *)
(* an address is banned twice.)  The exception is what an iteration that   *)
(* ended early has left in a map, until a Clear gets to the end of it.     *)
CountCovers ==
  /\ "ipv4" \notin cut => Cardinality(map4) <= count4
  /\ "ipv6" \notin cut => Cardinality(map6) <= count6

(* The second loop of Clear finds the first map empty, unless it was cut.  *)
SecondLoop == loop = "ipv6" => job.op = "clear" /\ xdp /\ ("ipv4" \in cut \/ map4 = {})
=============================================================================
