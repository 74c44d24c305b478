------------------------------ MODULE MCLocal ------------------------------
(***************************************************************************)
(* Instances of LocalManager for TLC: the requests each run may make.      *)
(***************************************************************************)
EXTENDS LocalManager, TLC

Reachable == [type |-> "bittorrent", ip |-> NoIP, ipv4 |-> NoIP, ipv6 |-> NoIP,
              clientIP |-> "public4", port |-> 6881, offers |-> 0]
Private == [Reachable EXCEPT !.clientIP = "private4"]
Moved == [Reachable EXCEPT !.clientIP = "public6"]
WebPeer == [Reachable EXCEPT !.type = "webtorrent", !.offers = 1]
BadIPv4 == [Reachable EXCEPT !.ipv4 = "public6"]

Announce(id, ep, ev, lft, want) ==
  [op |-> "announce", infoHash |-> "h", peerID |-> id, ep |-> ep,
   left |-> lft, event |-> ev, numWant |-> want]
Plain(op) == [Announce(1, Reachable, "unknown", 1, 1) EXCEPT !.op = op]

(* Announces that overlap: peer 2 announces, repeats itself and stops while *)
(* peer 1, loaded from disk, comes back with an address nobody can reach,  *)
(* and the torrent may be deleted under them.                              *)
ConcurrentRequests ==
  {Announce(1, Private, "completed", 0, 1), Announce(2, Reachable, "started", 1, 1),
   Announce(2, Reachable, "stopped", 1, 1), Plain("load"), Plain("delete")}

(* Calls one after the other: two peers are loaded, two more fill the ring, *)
(* the first comes back with another address and event, or stops.          *)
SerialRequests ==
  {Plain("load"), [Plain("load") EXCEPT !.peerID = 2],
   Announce(3, Reachable, "started", 1, 1), Announce(4, Reachable, "started", 1, 0),
   Announce(1, Moved, "completed", 0, 2), Announce(1, Reachable, "stopped", 1, 1)}

(* Calls one after the other while peers expire. *)
AgingRequests ==
  {Announce(1, Reachable, "completed", 1, 1), Announce(2, Reachable, "started", 0, 2),
   Announce(2, BadIPv4, "started", 1, 1), Plain("load"), Plain("scrape"), Plain("clean")}

CallSymmetry == Permutations(Calls)
=============================================================================
