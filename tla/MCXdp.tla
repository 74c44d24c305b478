------------------------------- MODULE MCXdp -------------------------------
(***************************************************************************)
(* Instances of XdpFilter for TLC.                                         *)
(***************************************************************************)
EXTENDS XdpFilter

Ask(op, ips) == [op |-> op, ips |-> ips]

(* Batches with repeated, unparsable and absent addresses, of both         *)
(* families, and more IPv4 addresses than the map has room for.            *)
AdminRequests ==
  {Ask("ban", <<"v4a", "v6a">>), Ask("ban", <<"v4b", "v4a">>), Ask("ban", <<"v6a", "bad">>),
   Ask("ban", <<"v4c", "v6a">>),
   Ask("unban", <<"v4a", "v6a">>), Ask("unban", <<"v4b">>), Ask("clear", <<>>)}
=============================================================================
