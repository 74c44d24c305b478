-------------------------------- MODULE MCWs --------------------------------
(* Instances of WsServer for TLC. *)
EXTENDS WsServer, TLC

CONSTANTS c1, c2, h1, h2, p1, p2, p3, pb

Ann(h, i, e, o) == [kind |-> "announce", good |-> TRUE, hash |-> h, id |-> i,
                    event |-> e, numWant |-> 0, offers |-> o, to |-> i]
Ans(h, i, t) == [Ann(h, i, "unknown", 0) EXCEPT !.kind = "answer", !.to = t]
Odd(k, g) == [Ann(h1, p1, "unknown", 0) EXCEPT !.kind = k, !.good = g]

(* A client with two peers in one torrent and one in another, which also   *)
(* sends what is refused; and a client that makes two offers, answers, and *)
(* stops with the id of a peer of the first client.                        *)
MCMessages ==
  c1 :> {Ann(h1, p1, "started", 0), Ann(h1, p3, "unknown", 0), Ann(h2, p1, "stopped", 0),
         Ann(h1, pb, "started", 0), Odd("other", TRUE), Odd("scrape", FALSE)}
  @@ c2 :> {Ann(h1, p2, "unknown", 2), Ans(h1, p2, p1), Ann(h1, p1, "stopped", 0), Odd("scrape", TRUE)}
=============================================================================
