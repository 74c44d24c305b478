------------------------------ MODULE BanItem ------------------------------
(***************************************************************************)
(* A ban list: biz/services/peer/mux_local/ban/item.go, a bloom filter in  *)
(* memory beside an append-only file of hex lines.                         *)
(*                                                                         *)
(* Every operation holds the item's lock from its first to its last        *)
(* statement, so an operation is one action; what can come between its     *)
(* statements is the end of the process.  The filter is the set of what    *)
(* was added to it: a bloom filter never forgets, and its false positives, *)
(* with the size that decides their rate, are left out.                    *)
(***************************************************************************)
EXTENDS Naturals, Sequences

CONSTANTS
  Target,       \* info hashes, or peer ids: strings of 20 bytes
  DefaultCap,   \* defaultFilterCap
  Faults,       \* the errors of the file system that may happen
  MaxLines,     \* bound: lines the file may grow to
  MaxCap        \* bound: doublings of cap

Odd == "odd"        \* a line with an odd number of digits: hex decoding fails
Wrong == "wrong"    \* a line that decodes to something other than 20 bytes

ASSUME BanAssumption ==
  /\ Odd \notin Target /\ Wrong \notin Target
  /\ DefaultCap \in Nat \ {0}
  /\ Faults \subseteq {"read", "write", "torn", "truncate"}
  /\ MaxLines \in Nat
  /\ MaxCap \in Nat

VARIABLES
  up,         \* the process runs
  filter,     \* banItem.filter: what was added to the bloom filter
  cap,        \* banItem.cap
  count,      \* banItem.count
  lines,      \* the lines of the file
  ended,      \* the last line of the file has its newline
  acked,      \* history: bans reported as done since the last clear
  asked,      \* history: bans requested since the last clear of the file
  missed      \* history: bans of the file that the scan at launch did not reach

file == <<lines, ended>>
vars == <<up, filter, cap, count, lines, ended, acked, asked, missed>>

(* What a scan of lines s yields: wrong lengths are skipped, a decoding    *)
(* error ends it.  The last line counts even without its newline.          *)
Decoded(s) ==
  {t \in Target : \E i \in DOMAIN s : s[i] = t /\ \A j \in 1..(i - 1) : s[j] # Odd}

Init ==
  /\ up = TRUE
  /\ filter = {}
  /\ cap = DefaultCap
  /\ count = 0
  /\ lines = <<>>
  /\ ended = TRUE
  /\ acked = {}
  /\ asked = {}
  /\ missed = {}

-----------------------------------------------------------------------------
(* add.                                                                    *)

Full == count + 1 >= cap

(* The filter with t: the same one, or a larger one made from the file. *)
WithTargetMutant(t) ==      \* mutant: the old list is not migrated
  IF Full THEN {t} ELSE filter \cup {t}
WithTarget(t) ==
  IF Full THEN Decoded(lines) \cup {t} ELSE filter \cup {t}

Insert(t) ==
  /\ filter' = WithTarget(t)
  /\ cap' = IF Full THEN cap * 2 ELSE cap
  /\ count' = count + 1
  /\ missed' = IF Full THEN {} ELSE missed \ {t}

(* The file after a whole line for t, or after the part of it that an      *)
(* interrupted write left behind, each as [lines, ended].  A write after   *)
(* such a part goes on in the same line: a whole line makes it longer than *)
(* 20 bytes, but two parts may add up to 20 bytes of any target.           *)
Last == lines[Len(lines)]
Line(t) ==
  [lines |-> IF ended THEN Append(lines, t)
             ELSE [lines EXCEPT ![Len(lines)] = IF Last = Odd THEN Odd ELSE Wrong],
   ended |-> TRUE]
Torn(t) ==
  {[lines |-> IF ended THEN Append(lines, x) ELSE [lines EXCEPT ![Len(lines)] = x],
    ended |-> FALSE] : x \in {Odd, Wrong} \cup (IF ended THEN {t} ELSE Target)}
Same == [lines |-> lines, ended |-> ended]
Becomes(f) == lines' = f.lines /\ ended' = f.ended

(* Bounds only. *)
Room == Len(lines) < MaxLines /\ cap <= MaxCap

Add(t) ==
  /\ up /\ Room
  /\ Insert(t)
  /\ Becomes(Line(t))
  /\ acked' = acked \cup {t}
  /\ asked' = asked \cup {t}
  /\ UNCHANGED up

(* The list cannot be read back: the capacity has been doubled already, the *)
(* filter has not.                                                         *)
AddReadFails(t) ==
  /\ up /\ Room
  /\ "read" \in Faults
  /\ Full
  /\ cap' = cap * 2
  /\ asked' = asked \cup {t}
  /\ UNCHANGED <<up, filter, count, file, acked, missed>>

(* The line cannot be written or synced: nothing, all, or with "torn" a    *)
(* part of it is in the file, the target is in the filter.                 *)
AddWriteFails(t) ==
  /\ up /\ Room
  /\ "write" \in Faults
  /\ Insert(t)
  /\ \E f \in {Same, Line(t)} \cup (IF "torn" \in Faults THEN Torn(t) ELSE {}) : Becomes(f)
  /\ asked' = asked \cup {t}
  /\ UNCHANGED <<up, acked>>

(* The process ends before Sync returns. *)
AddCrash(t) ==
  /\ up /\ Room
  /\ \E f \in {Same, Line(t)} \cup (IF "torn" \in Faults THEN Torn(t) ELSE {}) : Becomes(f)
  /\ up' = FALSE
  /\ asked' = asked \cup {t}
  /\ UNCHANGED <<filter, cap, count, acked, missed>>

-----------------------------------------------------------------------------
(* Mutants: the file keeps its lines; the capacity is reset to zero. *)
ClearMemory ==
  /\ up
  /\ filter' = {} /\ cap' = DefaultCap /\ count' = 0
  /\ acked' = {} /\ asked' = {} /\ missed' = {}
  /\ UNCHANGED <<up, file>>
ClearToZero ==
  /\ up
  /\ filter' = {} /\ cap' = 0 /\ count' = 0
  /\ lines' = <<>> /\ ended' = TRUE
  /\ acked' = {} /\ asked' = {} /\ missed' = {}
  /\ UNCHANGED up

(* clear: the result of Truncate is ignored, and what it leaves in the     *)
(* file may come back.                                                     *)
Clear ==
  /\ up
  /\ filter' = {}
  /\ cap' = DefaultCap
  /\ count' = 0
  /\ \/ lines' = <<>> /\ ended' = TRUE /\ asked' = {}
     \/ "truncate" \in Faults /\ UNCHANGED <<file, asked>>
  /\ acked' = {}
  /\ missed' = {}
  /\ UNCHANGED up

Crash ==
  /\ up
  /\ up' = FALSE
  /\ UNCHANGED <<filter, cap, count, file, acked, asked, missed>>

(* newBanItem: the count starts at 0 whatever the file holds.  A read      *)
(* error ends the scan after some line n, and nobody asks scanner.Err().   *)
Restart ==
  /\ ~up
  /\ up' = TRUE
  /\ \E n \in (IF "read" \in Faults THEN 0..Len(lines) ELSE {Len(lines)}) :
       /\ filter' = Decoded(SubSeq(lines, 1, n))
       /\ missed' = Decoded(lines) \ Decoded(SubSeq(lines, 1, n))
  /\ cap' = DefaultCap
  /\ count' = 0
  /\ UNCHANGED <<file, acked, asked>>

Next ==
  \/ \E t \in Target : Add(t) \/ AddReadFails(t) \/ AddWriteFails(t) \/ AddCrash(t)
  \/ Clear
  \/ Crash
  \/ Restart

Spec == Init /\ [][Next]_vars

-----------------------------------------------------------------------------
(* Properties.                                                             *)

(* The fields of banItem have their types, and a file that does not end in *)
(* a newline has a last line to go on with.                                *)
TypeOK ==
  /\ up \in BOOLEAN
  /\ filter \subseteq Target
  /\ cap \in Nat \ {0}
  /\ count \in Nat
  /\ lines \in Seq(Target \cup {Odd, Wrong})
  /\ ended \in BOOLEAN
  /\ ~ended => Len(lines) > 0
  /\ acked \subseteq Target
  /\ asked \subseteq Target
  /\ missed \subseteq Target

(* A ban that add reported as done holds until the list is cleared: it     *)
(* survives every rebuild of the filter, failed adds of other targets,     *)
(* crashes and restarts.  The exceptions are the lines behind a read error *)
(* at launch, and they are in force again from the next rebuild on.        *)
AckedIsBanned == up => acked \ missed \subseteq filter

(* Nothing is banned that was not asked for since the file was last        *)
(* emptied: a clear takes the bans off the disk too, so no restart or      *)
(* rebuild brings one back.                                                *)
OnlyAskedIsBanned == up => filter \subseteq asked

-----------------------------------------------------------------------------
(* The inductive invariants behind these: without torn writes the file has *)
(* whole lines only, holds every reported ban and nothing that was not     *)
(* asked for.                                                              *)
WholeLines == ended /\ \A i \in DOMAIN lines : lines[i] \in Target
FileHasAcked == acked \subseteq Decoded(lines)
FileOnlyAsked == Decoded(lines) \subseteq asked

DurableInv == TypeOK /\ WholeLines /\ FileHasAcked /\ AckedIsBanned
ClearedInv == TypeOK /\ WholeLines /\ FileOnlyAsked /\ OnlyAskedIsBanned
=============================================================================
