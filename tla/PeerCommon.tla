----------------------------- MODULE PeerCommon -----------------------------
(***************************************************************************)
(* The peer record and the pure functions on it that every peer manager    *)
(* shares: biz/services/peer/common/peer.go.                               *)
(*                                                                         *)
(* An address is what the code tells apart: its family and whether it is   *)
(* public, private or loopback.  NoIP is the nil net.IP.                   *)
(***************************************************************************)
EXTENDS Integers

CONSTANT UseAnnounceIP      \* config Tracker.UseAnnounceIP

ASSUME UseAnnounceIPAssumption == UseAnnounceIP \in BOOLEAN

NoIP == "nil"
IPv4Addr == {"public4", "private4", "loopback4"}
IPv6Addr == {"public6", "private6", "loopback6"}
Addr == IPv4Addr \cup IPv6Addr
PrivateAddr == {"private4", "private6"}
LoopbackAddr == {"loopback4", "loopback6"}

PeerType == {"bittorrent", "webtorrent"}
PeerEvent == {"unknown", "started", "stopped", "completed"}

(* The fields of a peer that are fixed when its record is created. *)
Endpoint == [type : PeerType, ip : Addr \cup {NoIP}, ipv4 : Addr \cup {NoIP},
             ipv6 : Addr \cup {NoIP}, clientIP : Addr \cup {NoIP},
             port : Nat, offers : Nat]

(* Which of the four addresses of a peer other peers are given. *)
GetIP(ep) ==
  CASE UseAnnounceIP /\ ep.ip # NoIP -> ep.ip
    [] UseAnnounceIP /\ ep.ip = NoIP /\ ep.ipv4 # NoIP -> ep.ipv4
    [] UseAnnounceIP /\ ep.ip = NoIP /\ ep.ipv4 = NoIP /\ ep.ipv6 # NoIP -> ep.ipv6
    [] OTHER -> ep.clientIP

(* A nil address is neither private nor loopback in Go's net package. *)
IsPeerConnectable(ep) ==
  \/ /\ ep.type = "bittorrent"
     /\ GetIP(ep) \notin PrivateAddr \cup LoopbackAddr
     /\ ep.port \notin {0, 1}
  \/ /\ ep.type = "webtorrent"
     /\ ep.offers > 0

(* The wire event names; every other string is Unknown. *)
ParsePeerEvent(s) ==
  IF s \in {"started", "stopped", "completed"} THEN s ELSE "unknown"

(* An explicit ipv4 parameter must be an IPv4 address, an ipv6 one must not. *)
ValidAddress(ep) ==
  /\ ep.ipv4 # NoIP => ep.ipv4 \in IPv4Addr
  /\ ep.ipv6 # NoIP => ep.ipv6 \notin IPv4Addr
=============================================================================
