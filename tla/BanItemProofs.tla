--------------------------- MODULE BanItemProofs ---------------------------
(***************************************************************************)
(* As long as no write leaves part of a line: a reported ban holds until   *)
(* the list is cleared, except while the launch has missed it, and nothing *)
(* is banned that was not asked for since the file was last emptied.       *)
(***************************************************************************)
EXTENDS BanItem, TLAPS

(* What the file may be after an add of t. *)
After(t) == {Same, Line(t)} \cup (IF "torn" \in Faults THEN Torn(t) ELSE {})

(* A line appended to whole lines is read back with all of them. *)
LEMMA DecodedAppend ==
  ASSUME WholeLines, lines \in Seq(Target \cup {Odd, Wrong}), NEW t \in Target
  PROVE  Decoded(Append(lines, t)) = Decoded(lines) \cup {t}
<1> DEFINE s == Append(lines, t)
<1>1. /\ Len(lines) \in Nat /\ DOMAIN lines = 1..Len(lines)
      /\ DOMAIN s = 1..(Len(lines) + 1) /\ s[Len(lines) + 1] = t
      /\ \A i \in 1..Len(lines) : s[i] = lines[i]
  OBVIOUS
<1> HIDE DEF s
<1>2. \A i \in 1..Len(lines) : lines[i] # Odd /\ s[i] # Odd
  BY <1>1, BanAssumption DEF WholeLines
<1>3. \A u \in Target : u \in Decoded(lines) <=> \E i \in 1..Len(lines) : lines[i] = u
  BY <1>1, <1>2 DEF Decoded
<1>4. \A u \in Target : u \in Decoded(s) <=> \E i \in 1..(Len(lines) + 1) : s[i] = u
  BY <1>1, <1>2 DEF Decoded
<1>5. ASSUME NEW u \in Target
      PROVE  (\E i \in 1..(Len(lines) + 1) : s[i] = u)
               <=> (u = t \/ \E i \in 1..Len(lines) : lines[i] = u)
  <2>1. 1..(Len(lines) + 1) = 1..Len(lines) \cup {Len(lines) + 1}
    BY <1>1
  <2>2. (\E i \in 1..(Len(lines) + 1) : s[i] = u)
          <=> (s[Len(lines) + 1] = u \/ \E i \in 1..Len(lines) : s[i] = u)
    BY <2>1, Zenon
  <2> QED
    BY <1>1, <2>2, Zenon
<1>6. \A u \in Target : u \in Decoded(s) <=> u \in Decoded(lines) \cup {t}
  BY <1>3, <1>4, <1>5, Zenon
<1>7. Decoded(s) \subseteq Target /\ Decoded(lines) \subseteq Target
  BY DEF Decoded
<1> QED
  BY <1>6, <1>7 DEF s

(* What an add leaves is a file: its last line may be unfinished only if   *)
(* there is one.                                                           *)
LEMMA AfterType ==
  ASSUME TypeOK, NEW t \in Target, NEW f \in After(t)
  PROVE  /\ f.lines \in Seq(Target \cup {Odd, Wrong})
         /\ f.ended \in BOOLEAN
         /\ ~f.ended => Len(f.lines) > 0
<1>1. PICK x \in Target \cup {Odd, Wrong} :
        \/ f = Same
        \/ ended /\ f.lines = Append(lines, x) /\ f.ended \in BOOLEAN
        \/ ~ended /\ f.ended \in BOOLEAN /\ f.lines = [lines EXCEPT ![Len(lines)] = x]
  <2>1. CASE f = Same
    BY <2>1
  <2>2. CASE f = Line(t)
    <3>1. CASE ended
      BY <2>2, <3>1 DEF Line
    <3>2. CASE ~ended
      BY <2>2, <3>2 DEF Line
    <3> QED
      BY <3>1, <3>2
  <2>3. CASE f \in Torn(t)
    <3>1. PICK x \in {Odd, Wrong} \cup (IF ended THEN {t} ELSE Target) :
            f = [lines |-> IF ended THEN Append(lines, x) ELSE [lines EXCEPT ![Len(lines)] = x],
                 ended |-> FALSE]
      BY <2>3 DEF Torn
    <3>2. CASE ended
      BY <3>1, <3>2
    <3>3. CASE ~ended
      BY <3>1, <3>3
    <3> QED
      BY <3>2, <3>3
  <2> QED
    BY <2>1, <2>2, <2>3 DEF After
<1>2. lines \in Seq(Target \cup {Odd, Wrong}) /\ (~ended => Len(lines) > 0) /\ ended \in BOOLEAN
  BY DEF TypeOK
<1>3. CASE f = Same
  BY <1>2, <1>3 DEF Same
<1>4. CASE ended /\ f.lines = Append(lines, x) /\ f.ended \in BOOLEAN
  BY <1>2, <1>4
<1>5. CASE ~ended /\ f.ended \in BOOLEAN /\ f.lines = [lines EXCEPT ![Len(lines)] = x]
  <2>1. f.lines \in Seq(Target \cup {Odd, Wrong}) /\ Len(f.lines) = Len(lines)
    BY <1>2, <1>5
  <2> QED
    BY <1>2, <1>5, <2>1
<1> QED
  BY <1>1, <1>3, <1>4, <1>5

(* A scan that stops early reads no more than a whole one. *)
LEMMA DecodedPrefix ==
  ASSUME lines \in Seq(Target \cup {Odd, Wrong}), NEW n \in 0..Len(lines)
  PROVE  Decoded(SubSeq(lines, 1, n)) \subseteq Decoded(lines)
<1> DEFINE s == SubSeq(lines, 1, n)
<1>1. /\ Len(lines) \in Nat /\ DOMAIN lines = 1..Len(lines)
      /\ DOMAIN s = 1..n /\ n \in Nat /\ n <= Len(lines)
      /\ \A i \in 1..n : s[i] = lines[i]
  OBVIOUS
<1> HIDE DEF s
<1>2. ASSUME NEW u \in Target, NEW i \in 1..n, s[i] = u, \A j \in 1..(i - 1) : s[j] # Odd
      PROVE  i \in DOMAIN lines /\ lines[i] = u /\ \A j \in 1..(i - 1) : lines[j] # Odd
  <2>1. i \in 1..Len(lines) /\ \A j \in 1..(i - 1) : j \in 1..n
    BY <1>1
  <2> QED
    BY <1>1, <1>2, <2>1
<1>3. ASSUME NEW u \in Decoded(s) PROVE u \in Decoded(lines)
  <2>1. PICK i \in DOMAIN s : s[i] = u /\ \A j \in 1..(i - 1) : s[j] # Odd
    BY <1>3 DEF Decoded
  <2>2. u \in Target /\ i \in 1..n
    BY <1>1, <1>3 DEF Decoded
  <2> QED
    BY <1>2, <2>1, <2>2 DEF Decoded
<1> QED
  BY <1>3 DEF s

-----------------------------------------------------------------------------
(* Type correctness of every step. *)
LEMMA TypeInit == Init => TypeOK
BY BanAssumption DEF Init, TypeOK

LEMMA InsertType ==
  ASSUME TypeOK, NEW t \in Target, Insert(t)
  PROVE  /\ filter' \subseteq Target /\ cap' \in Nat \ {0} /\ count' \in Nat
         /\ missed' \subseteq Target
<1>1. filter' \subseteq Target /\ missed' \subseteq Target
  BY DEF TypeOK, Insert, WithTarget, Decoded
<1>2. cap' \in Nat \ {0} /\ count' \in Nat
  BY DEF TypeOK, Insert
<1> QED
  BY <1>1, <1>2

LEMMA TypeNext == TypeOK /\ [Next]_vars => TypeOK'
<1> SUFFICES ASSUME TypeOK, [Next]_vars PROVE TypeOK'
  OBVIOUS
<1>1. ASSUME NEW t \in Target, Add(t) PROVE TypeOK'
  <2>1. Line(t) \in After(t) /\ lines' = Line(t).lines /\ ended' = Line(t).ended
    BY <1>1 DEF Add, Becomes, After
  <2>2. filter' \subseteq Target /\ cap' \in Nat \ {0} /\ count' \in Nat /\ missed' \subseteq Target
    BY <1>1, InsertType DEF Add
  <2>3. /\ lines' \in Seq(Target \cup {Odd, Wrong}) /\ ended' \in BOOLEAN
        /\ ~ended' => Len(lines') > 0
    BY <2>1, AfterType
  <2> QED
    BY <1>1, <2>2, <2>3 DEF Add, TypeOK
<1>2. ASSUME NEW t \in Target, AddReadFails(t) PROVE TypeOK'
  BY <1>2 DEF AddReadFails, TypeOK, file
<1>3. ASSUME NEW t \in Target, AddWriteFails(t) PROVE TypeOK'
  <2>1. PICK f \in After(t) : lines' = f.lines /\ ended' = f.ended
    BY <1>3 DEF AddWriteFails, Becomes, After
  <2>2. filter' \subseteq Target /\ cap' \in Nat \ {0} /\ count' \in Nat /\ missed' \subseteq Target
    BY <1>3, InsertType DEF AddWriteFails
  <2>3. /\ lines' \in Seq(Target \cup {Odd, Wrong}) /\ ended' \in BOOLEAN
        /\ ~ended' => Len(lines') > 0
    BY <2>1, AfterType
  <2> QED
    BY <1>3, <2>2, <2>3 DEF AddWriteFails, TypeOK
<1>4. ASSUME NEW t \in Target, AddCrash(t) PROVE TypeOK'
  <2>1. PICK f \in After(t) : lines' = f.lines /\ ended' = f.ended
    BY <1>4 DEF AddCrash, Becomes, After
  <2>2. /\ lines' \in Seq(Target \cup {Odd, Wrong}) /\ ended' \in BOOLEAN
        /\ ~ended' => Len(lines') > 0
    BY <2>1, AfterType
  <2> QED
    BY <1>4, <2>2 DEF AddCrash, TypeOK
<1>5. CASE Clear
  <2>1. CASE lines' = <<>> /\ ended' = TRUE
    <3>1. lines' \in Seq(Target \cup {Odd, Wrong}) /\ (~ended' => Len(lines') > 0)
      BY <2>1
    <3> QED
      BY <1>5, <2>1, <3>1, BanAssumption DEF Clear, TypeOK
  <2>2. CASE UNCHANGED file
    BY <1>5, <2>2, BanAssumption DEF Clear, TypeOK, file
  <2> QED
    BY <1>5, <2>1, <2>2 DEF Clear
<1>6. CASE Crash
  BY <1>6 DEF Crash, TypeOK, file
<1>7. CASE Restart
  BY <1>7, BanAssumption DEF Restart, TypeOK, file, Decoded
<1>8. CASE UNCHANGED vars
  BY <1>8 DEF vars, TypeOK
<1> QED
  BY <1>1, <1>2, <1>3, <1>4, <1>5, <1>6, <1>7, <1>8 DEF Next

-----------------------------------------------------------------------------
(* The filter after an insertion holds t and every reported ban that is    *)
(* not missed: a rebuild reads all of them back from the file.             *)
LEMMA InsertKeeps ==
  ASSUME DurableInv, up, NEW t \in Target, Insert(t)
  PROVE  (acked \cup {t}) \ missed' \subseteq filter'
BY DEF DurableInv, FileHasAcked, AckedIsBanned, Insert, WithTarget

(* Without torn writes an add leaves whole lines, t among them or not, and *)
(* what is read back is what was there, with or without t.                 *)
LEMMA AfterKeeps ==
  ASSUME TypeOK, WholeLines, "torn" \notin Faults, NEW t \in Target, NEW f \in After(t)
  PROVE  /\ f.ended /\ \A i \in DOMAIN f.lines : f.lines[i] \in Target
         /\ Decoded(lines) \subseteq Decoded(f.lines)
         /\ Decoded(f.lines) \subseteq Decoded(lines) \cup {t}
<1>1. f = Same \/ f = Line(t)
  BY DEF After
<1>2. CASE f = Same
  BY <1>2 DEF Same, WholeLines
<1>3. CASE f = Line(t)
  <2>1. f.ended /\ f.lines = Append(lines, t)
    BY <1>3 DEF Line, WholeLines
  <2>2. lines \in Seq(Target \cup {Odd, Wrong}) /\ WholeLines
    BY DEF TypeOK
  <2>3. Decoded(f.lines) = Decoded(lines) \cup {t}
    BY <2>1, <2>2, DecodedAppend
  <2>4. \A i \in DOMAIN f.lines : f.lines[i] \in Target
    BY <2>1, <2>2 DEF WholeLines
  <2> QED
    BY <2>1, <2>3, <2>4
<1> QED
  BY <1>1, <1>2, <1>3

LEMMA DurableNext ==
  ASSUME "torn" \notin Faults
  PROVE  DurableInv /\ [Next]_vars => DurableInv'
<1> SUFFICES ASSUME DurableInv, [Next]_vars PROVE DurableInv'
  OBVIOUS
<1>1. TypeOK'
  BY TypeNext DEF DurableInv
<1>2. ASSUME NEW t \in Target, Add(t) PROVE DurableInv'
  <2>1. lines' = Append(lines, t) /\ ended'
    BY <1>2 DEF Add, Becomes, Line, DurableInv, WholeLines
  <2>2. lines \in Seq(Target \cup {Odd, Wrong}) /\ WholeLines
    BY DEF DurableInv, TypeOK
  <2>3. Decoded(lines') = Decoded(lines) \cup {t}
    BY <2>1, <2>2, DecodedAppend
  <2>4. WholeLines'
    BY <2>1, <2>2 DEF WholeLines
  <2>5. (acked \cup {t}) \ missed' \subseteq filter'
    BY <1>2, InsertKeeps DEF Add
  <2>6. acked' = acked \cup {t}
    BY <1>2 DEF Add
  <2> QED
    BY <1>1, <2>3, <2>4, <2>5, <2>6 DEF DurableInv, FileHasAcked, AckedIsBanned
<1>3. ASSUME NEW t \in Target, AddReadFails(t) PROVE DurableInv'
  BY <1>1, <1>3 DEF AddReadFails, DurableInv, WholeLines, FileHasAcked, AckedIsBanned, file
<1>4. ASSUME NEW t \in Target, AddWriteFails(t) PROVE DurableInv'
  <2>1. PICK f \in After(t) : lines' = f.lines /\ ended' = f.ended
    BY <1>4 DEF AddWriteFails, Becomes, After
  <2>2. acked \ missed' \subseteq filter'
    BY <1>4, InsertKeeps DEF AddWriteFails
  <2>3. acked' = acked
    BY <1>4 DEF AddWriteFails
  <2>4. WholeLines' /\ FileHasAcked'
    BY <2>1, <2>3, AfterKeeps DEF DurableInv, WholeLines, FileHasAcked
  <2> QED
    BY <1>1, <2>2, <2>3, <2>4 DEF DurableInv, AckedIsBanned
<1>5. ASSUME NEW t \in Target, AddCrash(t) PROVE DurableInv'
  <2>1. PICK f \in After(t) : lines' = f.lines /\ ended' = f.ended
    BY <1>5 DEF AddCrash, Becomes, After
  <2>2. acked' = acked /\ ~up'
    BY <1>5 DEF AddCrash
  <2>3. WholeLines' /\ FileHasAcked'
    BY <2>1, <2>2, AfterKeeps DEF DurableInv, WholeLines, FileHasAcked
  <2> QED
    BY <1>1, <2>2, <2>3 DEF DurableInv, AckedIsBanned
<1>6. CASE Clear
  <2>1. acked' = {}
    BY <1>6 DEF Clear
  <2>2. WholeLines'
    <3>1. CASE lines' = <<>> /\ ended' = TRUE
      BY <3>1 DEF WholeLines
    <3>2. CASE UNCHANGED file
      BY <3>2 DEF file, DurableInv, WholeLines
    <3> QED
      BY <1>6, <3>1, <3>2 DEF Clear
  <2> QED
    BY <1>1, <2>1, <2>2 DEF DurableInv, FileHasAcked, AckedIsBanned
<1>7. CASE Crash
  BY <1>1, <1>7 DEF Crash, DurableInv, WholeLines, FileHasAcked, AckedIsBanned, file
<1>8. CASE Restart
  <2>1. PICK n \in 0..Len(lines) :
          /\ filter' = Decoded(SubSeq(lines, 1, n))
          /\ missed' = Decoded(lines) \ Decoded(SubSeq(lines, 1, n))
    BY <1>8 DEF Restart, DurableInv, TypeOK
  <2>2. Decoded(lines) \ missed' \subseteq filter'
    BY <2>1
  <2>3. UNCHANGED <<lines, ended, acked>>
    BY <1>8 DEF Restart, file
  <2> QED
    BY <1>1, <2>2, <2>3 DEF DurableInv, WholeLines, FileHasAcked, AckedIsBanned
<1>9. CASE UNCHANGED vars
  BY <1>1, <1>9 DEF vars, DurableInv, WholeLines, FileHasAcked, AckedIsBanned
<1> QED
  BY <1>2, <1>3, <1>4, <1>5, <1>6, <1>7, <1>8, <1>9 DEF Next

LEMMA DurableInit == Init => DurableInv
<1> SUFFICES ASSUME Init PROVE DurableInv
  OBVIOUS
<1>1. WholeLines
  BY DEF Init, WholeLines
<1> QED
  BY <1>1, TypeInit DEF Init, DurableInv, FileHasAcked, AckedIsBanned

(* Every field of a ban item keeps its type whatever fails. *)
THEOREM BanTypeCorrect == Spec => []TypeOK
BY TypeInit, TypeNext, PTL DEF Spec

(* Provided that a write is never left half done, a ban that add reported  *)
(* as done stays in force until the list is cleared, through every growth  *)
(* of the filter, every failed read, write, sync or truncation, every      *)
(* crash and every restart, except from a launch whose scan did not reach  *)
(* it to the next growth of the filter; item.go:26-53, 72-99.              *)
THEOREM BansAreDurable == "torn" \notin Faults => (Spec => []AckedIsBanned)
<1> SUFFICES ASSUME "torn" \notin Faults PROVE Spec => []AckedIsBanned
  OBVIOUS
<1>1. DurableInv /\ [Next]_vars => DurableInv'
  BY DurableNext
<1>2. DurableInv => AckedIsBanned
  BY DEF DurableInv
<1> QED
  BY <1>1, <1>2, DurableInit, PTL DEF Spec

-----------------------------------------------------------------------------
LEMMA ClearedNext ==
  ASSUME "torn" \notin Faults
  PROVE  ClearedInv /\ [Next]_vars => ClearedInv'
<1> SUFFICES ASSUME ClearedInv, [Next]_vars PROVE ClearedInv'
  OBVIOUS
<1>1. TypeOK'
  BY TypeNext DEF ClearedInv
<1>2. ASSUME NEW t \in Target, Add(t) \/ AddWriteFails(t) PROVE ClearedInv'
  <2>1. PICK f \in After(t) : lines' = f.lines /\ ended' = f.ended
    BY <1>2 DEF Add, AddWriteFails, Becomes, After
  <2>2. WholeLines' /\ Decoded(lines') \subseteq Decoded(lines) \cup {t}
    BY <2>1, AfterKeeps DEF ClearedInv, WholeLines
  <2>3. asked' = asked \cup {t} /\ up
    BY <1>2 DEF Add, AddWriteFails
  <2>4. filter' \subseteq Decoded(lines) \cup filter \cup {t}
    BY <1>2 DEF Add, AddWriteFails, Insert, WithTarget
  <2> QED
    BY <1>1, <2>2, <2>3, <2>4 DEF ClearedInv, FileOnlyAsked, OnlyAskedIsBanned
<1>3. ASSUME NEW t \in Target, AddReadFails(t) PROVE ClearedInv'
  BY <1>1, <1>3 DEF AddReadFails, ClearedInv, WholeLines, FileOnlyAsked, OnlyAskedIsBanned, file
<1>4. ASSUME NEW t \in Target, AddCrash(t) PROVE ClearedInv'
  <2>1. PICK f \in After(t) : lines' = f.lines /\ ended' = f.ended
    BY <1>4 DEF AddCrash, Becomes, After
  <2>2. WholeLines' /\ Decoded(lines') \subseteq Decoded(lines) \cup {t}
    BY <2>1, AfterKeeps DEF ClearedInv, WholeLines
  <2>3. asked' = asked \cup {t} /\ ~up'
    BY <1>4 DEF AddCrash
  <2> QED
    BY <1>1, <2>2, <2>3 DEF ClearedInv, FileOnlyAsked, OnlyAskedIsBanned
<1>5. CASE Clear
  <2>1. filter' = {}
    BY <1>5 DEF Clear
  <2>2. WholeLines' /\ FileOnlyAsked'
    <3>1. CASE lines' = <<>> /\ ended' = TRUE
      BY <3>1 DEF WholeLines, FileOnlyAsked, Decoded
    <3>2. CASE UNCHANGED <<file, asked>>
      BY <3>2 DEF file, ClearedInv, WholeLines, FileOnlyAsked
    <3> QED
      BY <1>5, <3>1, <3>2 DEF Clear
  <2> QED
    BY <1>1, <2>1, <2>2 DEF ClearedInv, OnlyAskedIsBanned
<1>6. CASE Crash
  BY <1>1, <1>6 DEF Crash, ClearedInv, WholeLines, FileOnlyAsked, OnlyAskedIsBanned, file
<1>7. CASE Restart
  <2>1. PICK n \in 0..Len(lines) : filter' = Decoded(SubSeq(lines, 1, n))
    BY <1>7 DEF Restart, ClearedInv, TypeOK
  <2>2. filter' \subseteq Decoded(lines)
    BY <2>1, DecodedPrefix DEF ClearedInv, TypeOK
  <2>3. UNCHANGED <<lines, ended, asked>>
    BY <1>7 DEF Restart, file
  <2> QED
    BY <1>1, <2>2, <2>3 DEF ClearedInv, WholeLines, FileOnlyAsked, OnlyAskedIsBanned
<1>8. CASE UNCHANGED vars
  BY <1>1, <1>8 DEF vars, ClearedInv, WholeLines, FileOnlyAsked, OnlyAskedIsBanned
<1> QED
  BY <1>2, <1>3, <1>4, <1>5, <1>6, <1>7, <1>8 DEF Next

LEMMA ClearedInit == Init => ClearedInv
<1> SUFFICES ASSUME Init PROVE ClearedInv
  OBVIOUS
<1>1. Decoded(lines) = {} /\ WholeLines
  BY DEF Init, Decoded, WholeLines
<1> QED
  BY <1>1, TypeInit DEF Init, ClearedInv, FileOnlyAsked, OnlyAskedIsBanned

(* Provided that a write is never left half done, nothing is in force that *)
(* was not asked for since the file was last emptied: no crash, restart,   *)
(* rebuild, failed truncation or failed read brings a ban back;            *)
(* item.go:26-53, 61-70.                                                   *)
THEOREM ClearedStaysCleared == "torn" \notin Faults => (Spec => []OnlyAskedIsBanned)
<1> SUFFICES ASSUME "torn" \notin Faults PROVE Spec => []OnlyAskedIsBanned
  OBVIOUS
<1>1. ClearedInv /\ [Next]_vars => ClearedInv'
  BY ClearedNext
<1>2. ClearedInv => OnlyAskedIsBanned
  BY DEF ClearedInv
<1> QED
  BY <1>1, <1>2, ClearedInit, PTL DEF Spec
=============================================================================
