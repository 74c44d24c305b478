------------------------------ MODULE IPFilter ------------------------------
(***************************************************************************)
(* What the interface IPFilter of ban/ip_filter.go promises, whichever     *)
(* implementation NewIPFilter picks: a set of blocked addresses, calls     *)
(* that either take effect or report an error, and a packet filter that    *)
(* agrees with that set at every moment.                                   *)
(***************************************************************************)
CONSTANTS
  IP,               \* addresses of both families
  MayLeave          \* a Clear may end early without noticing it

VARIABLES
  blocked,          \* the addresses that are blocked
  reply,            \* how the last call returned; "busy" inside a Clear
  verdict           \* what happened to the last packet: [src, kind]

vars == <<blocked, reply, verdict>>

Init ==
  /\ blocked = {}
  /\ reply = "ok"
  /\ verdict.kind = "none"

AddIP(ip) ==
  /\ blocked' = blocked \cup {ip}
  /\ reply' = "ok"
  /\ UNCHANGED verdict

RemoveIP(ip) ==
  /\ blocked' = blocked \ {ip}
  /\ reply' = "ok"
  /\ UNCHANGED verdict

(* Clear unblocks the addresses in some order and reports success when     *)
(* none is left, or when it ends early.                                    *)
Unblock(ip) ==
  /\ blocked' = blocked \ {ip}
  /\ reply' = "busy"
  /\ UNCHANGED verdict
Cleared ==
  /\ blocked' = {} \/ (MayLeave /\ UNCHANGED blocked)
  /\ reply' = "ok"
  /\ UNCHANGED verdict

(* A call fails: nothing changes but what a Clear has unblocked before it. *)
Refuse ==
  /\ reply' = "error"
  /\ UNCHANGED <<blocked, verdict>>

(* A packet from ip to one of the tracker's ports. *)
Filter(ip) ==
  /\ verdict' = [src |-> ip, kind |-> IF ip \in blocked THEN "dropped" ELSE "passed"]
  /\ UNCHANGED <<blocked, reply>>

(* Any other packet passes. *)
Ignore(ip) ==
  /\ verdict' = [src |-> ip, kind |-> "ignored"]
  /\ UNCHANGED <<blocked, reply>>

Next ==
  \/ \E ip \in IP : AddIP(ip) \/ RemoveIP(ip) \/ Unblock(ip) \/ Filter(ip) \/ Ignore(ip)
  \/ Cleared
  \/ Refuse

Spec == Init /\ [][Next]_vars
=============================================================================
