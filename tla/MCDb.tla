-------------------------------- MODULE MCDb --------------------------------
(* Instances of DbManager for TLC. *)
EXTENDS DbManager

CONSTANTS h1, p1, p2

Endpoint4(ip, t) == [type |-> t, ip |-> NoIP, ipv4 |-> NoIP, ipv6 |-> NoIP,
                     clientIP |-> ip, port |-> 6881, offers |-> 0]
Says(p, ep, e, w) == [hash |-> h1, peer |-> p, ep |-> ep, event |-> e, left |-> 0, want |-> w]

(* A peer that starts and stops, and one that cannot be reached and asks. *)
MCRequests ==
  {Says(p1, Endpoint4("public4", "bittorrent"), e, 0) : e \in {"started", "stopped"}}
  \cup {Says(p2, Endpoint4("private4", "bittorrent"), "unknown", 2)}
MCOrders ==
  {[op |-> "ban", target |-> t] : t \in {<<"hash", h1>>, <<"peer", p1>>}}
  \cup {[op |-> "clear", kind |-> k] : k \in {"hash", "peer"}}
  \cup {[op |-> "delete", hash |-> h1]}
=============================================================================
