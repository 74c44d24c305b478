----------------------------- MODULE MCPersist -----------------------------
(***************************************************************************)
(* Instances of Persist for TLC.                                           *)
(***************************************************************************)
EXTENDS Persist, TLC

(* One process with one shard, one with two, and processes of one shard. *)
OneOrTwo == [p \in Proc |-> IF p = "p1" THEN 1 ELSE 2]
OneEach == [p \in Proc |-> 1]

(* 5 and 10 are in one shard of one and in different ones of two; 10 is    *)
(* above the word.                                                         *)
Hashes == [k \in Key |-> CASE k = "a" -> 5 [] k = "b" -> 10 [] OTHER -> 4]
=============================================================================
