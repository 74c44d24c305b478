------------------------------- MODULE MCMux -------------------------------
(***************************************************************************)
(* Instances of MuxManager for TLC.                                        *)
(***************************************************************************)
EXTENDS MuxManager

Ask(h, p, i, n, s) == [hash |-> h, peer |-> p, ip |-> i, valid |-> TRUE, stopped |-> s, numWant |-> n]
Ban(ts) == [op |-> "ban", kind |-> "hash", targets |-> ts]
ClearAll(k) == [op |-> "clear", kind |-> k, targets |-> <<>>]

(* NumWant at every limit of the handler; a peer that stops; a client without *)
(* a known address; a bad request.                                           *)
SomeRequests ==
  {Ask("h1", "p1", "i1", n, FALSE) : n \in {-1, 0, 501, 601}} \cup
  {Ask("h1", "p2", "i1", 500, FALSE), Ask("h2", "p1", "i2", 50, TRUE), Ask("h1", "p2", None, 50, FALSE),
   [Ask("h1", "p1", "i1", 50, FALSE) EXCEPT !.valid = FALSE]}
SomeOrders ==
  {Ban(<<<<"hash", "h1">>, <<"peer", "p2">>>>), Ban(<<<<"ip", "i1">>>>), Ban(<<<<"peer", "p1">>>>),
   ClearAll("hash"), ClearAll("peer"), ClearAll("ip"),
   [op |-> "unban", kind |-> "ip", targets |-> <<<<"ip", "i1">>>>],
   [op |-> "delete", kind |-> "hash", targets |-> <<<<"hash", "h1">>>>]}
=============================================================================
