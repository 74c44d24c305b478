------------------------------- MODULE MCUdp -------------------------------
(***************************************************************************)
(* Instances of UdpServer for TLC.                                         *)
(***************************************************************************)
EXTENDS UdpServer

Client(ip, port) == [ip |-> ip, port |-> port]

(* A client over IPv4 and one over IPv6. *)
Clients == {Client("public4", 1), Client("public6", 1)}
OneClient == {Client("public4", 1)}

Data(len, action, peer, wire, field, port) ==
  [len |-> len, action |-> action, peer |-> peer, wire |-> wire, field |-> field, port |-> port]

ConnectData == Data(16, 0, "p1", 0, NoIP, 0)

(* Datagrams of every kind and length class: too short, connects, unknown  *)
(* actions, scrapes, announces one byte short, of the IPv4 layout, with an *)
(* address in the field of the longer one, of a banned peer; an event above *)
(* a byte.                                                                 *)
Mixed ==
  {ConnectData, Data(15, 0, "p1", 0, NoIP, 0), Data(16, 3, "p1", 0, NoIP, 0),
   Data(36, 2, "p1", 0, NoIP, 0), Data(97, 1, "p1", 0, NoIP, 6881),
   Data(98, 1, "p1", 2, NoIP, 6881), Data(110, 1, "p1", 259, "private4", 6881),
   Data(98, 1, "bad", 0, NoIP, 6881)}

(* Connects and announces of the three documented events. *)
Events == {ConnectData} \cup {Data(98, 1, "p1", w, NoIP, 6881) : w \in 1..3}
=============================================================================
