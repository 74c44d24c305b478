--------------------------- MODULE PersistProofs ---------------------------
(***************************************************************************)
(* Saving and loading the peers, for any numbers of processes, of shards   *)
(* and of keys: a loaded peer is in the shard that serves it; and, while   *)
(* launches and stores do not overlap, a launch brings back nothing but    *)
(* the last complete store, and all of it.                                 *)
(***************************************************************************)
EXTENDS Persist, WellFoundedInduction, TLAPS

(* One cell of a function of two arguments is assigned. *)
LEMMA SetCell ==
  ASSUME NEW A, NEW B, NEW V, NEW f \in [A -> [B -> V]], NEW a \in A, NEW b \in B, NEW v \in V
  PROVE  /\ [f EXCEPT ![a][b] = v] \in [A -> [B -> V]]
         /\ \A x \in A, y \in B :
              [f EXCEPT ![a][b] = v][x][y] = IF x = a /\ y = b THEN v ELSE f[x][y]
OBVIOUS

(* The memory after one key of one shard is assigned. *)
MemType == [Proc -> [Shard -> [Key -> Nat \cup {None}]]]
LEMMA SetMem ==
  ASSUME NEW m \in MemType, NEW p \in Proc, NEW s \in Shard, NEW k \in Key, NEW v \in Nat \cup {None}
  PROVE  /\ [m EXCEPT ![p][s][k] = v] \in MemType
         /\ \A q \in Proc, z \in Shard, j \in Key :
              [m EXCEPT ![p][s][k] = v][q][z][j] =
                IF q = p /\ z = s /\ j = k THEN v ELSE m[q][z][j]
BY DEF MemType

LEMMA WorkerIsShard ==
  ASSUME NEW p \in Proc, NEW k \in Key
  PROVE  pickWorker(p, k) \in Shard /\ pickWorker(p, k) < Shards[p]
<1>1. HashOf[k] \in Nat /\ Word \in Nat /\ Word > 0 /\ Shards[p] \in Nat /\ Shards[p] > 0
      /\ MaxShard \in Nat /\ Shards[p] <= MaxShard
  BY PersistAssumption
<1>2. HashOf[k] % Word \in Nat
  BY <1>1
<1>3. (HashOf[k] % Word) % Shards[p] \in 0..(Shards[p] - 1)
  BY <1>1, <1>2
<1> QED
  BY <1>1, <1>3 DEF pickWorker, Shard

LEMMA StoreOf ==
  /\ \A p \in Proc : Save(p) \in Store /\ Exit(p) \in Store /\ Save(p) # Exit(p)
                     /\ Save(p)[1] = p /\ Exit(p)[1] = p
                     /\ Save(p)[2] = "save" /\ Exit(p)[2] = "exit"
  /\ \A w \in Store : w[1] \in Proc /\ (w = Save(w[1]) \/ w = Exit(w[1]))
BY DEF Store, Save, Exit

(* A set of places in a sequence has a last one. *)
LEMMA LastPlace ==
  ASSUME NEW n \in Nat, NEW S \in SUBSET (1..n), S # {}
  PROVE  \E i \in S : \A j \in S : j <= i
<1> DEFINE R == OpToRel(<, Nat)
<1>1. IsWellFoundedOn(R, Nat)
  BY NatLessThanWellFounded
<1>2. \A x, y \in Nat : <<y, x>> \in R <=> y < x
  BY DEF OpToRel
<1> HIDE DEF R
<1> DEFINE T == {n - i : i \in S}
<1>3. T \subseteq Nat
  <2>1. \A i \in S : i \in Nat /\ i <= n
    OBVIOUS
  <2>2. \A i \in S : n - i \in Nat
    BY <2>1
  <2> QED
    BY <2>2
<1>4. T # {}
  OBVIOUS
<1>5. \E x \in T : \A y \in T : ~(<<y, x>> \in R)
  <2> HIDE DEF T
  <2> QED
    BY <1>1, <1>3, <1>4, WFMin
<1>6. PICK x \in T : \A y \in T : ~(y < x)
  <2> HIDE DEF T
  <2> QED
    BY <1>2, <1>3, <1>5
<1>7. PICK i \in S : x = n - i
  OBVIOUS
<1>8. ASSUME NEW j \in S PROVE j <= i
  BY <1>6, <1>7
<1> QED
  BY <1>8

LEMMA LatestIs ==
  ASSUME NEW f \in Seq(Record), NEW I \in SUBSET DOMAIN f, NEW k, \E i \in I : f[i].key = k
  PROVE  \E i \in I : f[i].key = k /\ f[i].seen = Latest(f, I, k)
<1> DEFINE S == {i \in I : f[i].key = k}
<1>1. S \in SUBSET (1..Len(f)) /\ S # {} /\ Len(f) \in Nat
  OBVIOUS
<1>2. PICK i \in S : \A j \in S : j <= i
  <2> HIDE DEF S
  <2> QED
    BY <1>1, LastPlace
<1>3. i \in I /\ f[i].key = k /\ \A j \in I : f[j].key = k => j <= i
  BY <1>2
<1> QED
  BY <1>3 DEF Latest

LEMMA SeenIsTime ==
  ASSUME NEW f \in Seq(Record)
  PROVE  \A i \in DOMAIN f : f[i].key \in Key /\ f[i].seen \in Nat
<1>1. \A r \in Record : r.key \in Key /\ r.seen \in Nat
  BY DEF Record
<1>2. \A i \in DOMAIN f : f[i] \in Record
  OBVIOUS
<1> QED
  BY <1>1, <1>2

(* What a file that was read leaves in memory. *)
LEMMA ReloadIs ==
  ASSUME TypeOK, NEW p \in Proc, NEW s \in Shard, NEW f \in Seq(Record), NEW I \in SUBSET DOMAIN f
  PROVE  /\ Reload(p, s, f, I) \in [Shard -> [Key -> Nat \cup {None}]]
         /\ \A z \in Shard, k \in Key :
              \/ /\ Reload(p, s, f, I)[z][k] = mem[p][z][k]
                 /\ z = pickWorker(p, k) => \A i \in I : f[i].key # k
              \/ /\ z = pickWorker(p, k)
                 /\ \E i \in I : f[i].key = k /\ f[i].seen = Reload(p, s, f, I)[z][k]
<1>1. \A i \in I : f[i].seen \in Nat
  BY SeenIsTime
<1>2. ASSUME NEW k \in Key, \E i \in I : f[i].key = k
      PROVE  Latest(f, I, k) \in Nat /\ \E i \in I : f[i].key = k /\ f[i].seen = Latest(f, I, k)
  BY <1>1, <1>2, LatestIs
<1>3. mem[p] \in [Shard -> [Key -> Nat \cup {None}]]
  BY DEF TypeOK
<1> QED
  BY <1>2, <1>3 DEF Reload

LEMMA EmptyFile == <<>> \in Seq(Record) /\ <<>> # None
<1>1. <<>> \in Seq(Record)
  OBVIOUS
<1> QED
  BY <1>1, PersistAssumption

(* A file that is not there counts as empty. *)
InFile(s, r) == file[s] # None /\ \E i \in DOMAIN file[s] : file[s][i] = r
LEMMA ContentIs ==
  ASSUME TypeOK, NEW s \in Shard
  PROVE  /\ Content(s) \in Seq(Record)
         /\ RecordsIn(Content(s)) \subseteq Record
         /\ \A r : InFile(s, r) <=> r \in RecordsIn(Content(s))
<1>1. Content(s) \in Seq(Record)
  BY EmptyFile DEF Content, TypeOK
<1>2. DOMAIN <<>> = {}
  OBVIOUS
<1> QED
  BY <1>1, <1>2 DEF Content, InFile, RecordsIn

(* The first records of a file. *)
LEMMA FirstRecords ==
  ASSUME NEW f \in Seq(Record), NEW n \in 0..Len(f)
  PROVE  /\ SubSeq(f, 1, n) \in Seq(Record) /\ Len(SubSeq(f, 1, n)) = n
         /\ \A i \in 1..n : SubSeq(f, 1, n)[i] = f[i]
OBVIOUS

-----------------------------------------------------------------------------
(* Types.  What a store appends to has to be a file: a file that a store   *)
(* has open under its name is there.                                       *)

NameThere == \A w \in Store, s \in Shard : linked[w][s] => file[s] # None

LEMMA HeldType == ASSUME TypeOK, NEW p \in Proc
                  PROVE  Held(p) \subseteq Record /\ KeysOf(Held(p)) \subseteq Key
<1>1. \A k \in Key : mem[p][pickWorker(p, k)][k] \in Nat \cup {None}
  BY WorkerIsShard DEF TypeOK
<1> QED
  BY <1>1 DEF Held, Record, KeysOf

LEMMA TypeInit == Init => TypeOK
<1> SUFFICES ASSUME Init PROVE TypeOK
  OBVIOUS
<1>1. mem \in [Proc -> [Shard -> [Key -> Nat \cup {None}]]]
  BY DEF Init, NoPeers
<1>2. /\ writer \in [Store -> [Shard -> {"idle", "begin", "wait", "locked", "writing", "done"}]]
      /\ linked \in [Store -> [Shard -> BOOLEAN]] /\ left \in [Store -> [Shard -> SUBSET Key]]
      /\ ahead \in [Store -> [Shard -> SUBSET Key]]
      /\ reader \in [Proc -> [Shard -> {"idle", "locked", "done"}]]
  BY DEF Init, All
<1> QED
  BY <1>1, <1>2 DEF Init, TypeOK

LEMMA TypeServe ==
  ASSUME TypeOK, NEW p \in Proc, NEW k \in Key, Announce(p, k) \/ Leave(p, k)
  PROVE  TypeOK'
<1>1. PICK v \in Nat \cup {None} : mem' = [mem EXCEPT ![p][pickWorker(p, k)][k] = v]
  BY DEF Announce, Leave, TypeOK
<1>2. mem' \in [Proc -> [Shard -> [Key -> Nat \cup {None}]]]
  BY <1>1, SetMem, WorkerIsShard DEF TypeOK, MemType
<1>3. promised' \subseteq Key /\ fresh' \subseteq Record
  BY DEF Announce, Leave, TypeOK, Record
<1>4. left' \in [Store -> [Shard -> SUBSET Key]] /\ ahead' \in [Store -> [Shard -> SUBSET Key]]
  <2>1. CASE Leave(p, k)
    BY <2>1 DEF Leave, TypeOK, storing
  <2>2. CASE Announce(p, k)
    <3> DEFINE z == pickWorker(p, k)
               ranging == {u \in Store : u[1] = p /\ writer[u][z] = "writing"}
    <3>1. PICK meets \in SUBSET {u \in ranging : k \notin ahead[u][z]} :
            /\ left' = [u \in Store |-> [left[u] EXCEPT ![z] =
                         IF u \in meets THEN @ \cup {k} ELSE IF u \in ranging THEN @ \ {k} ELSE @]]
            /\ ahead' = [u \in Store |-> [ahead[u] EXCEPT ![z] = IF u \in meets THEN @ \cup {k} ELSE @]]
      BY <2>2 DEF Announce
    <3>2. z \in Shard
      BY WorkerIsShard
    <3>3. left \in [Store -> [Shard -> SUBSET Key]] /\ ahead \in [Store -> [Shard -> SUBSET Key]]
      BY DEF TypeOK
    <3> HIDE DEF ranging, z
    <3>4. ASSUME NEW u \in Store
          PROVE  [left[u] EXCEPT ![z] = IF u \in meets THEN left[u][z] \cup {k}
                    ELSE IF u \in ranging THEN left[u][z] \ {k} ELSE left[u][z]] \in [Shard -> SUBSET Key]
      BY <3>2, <3>3
    <3>5. ASSUME NEW u \in Store
          PROVE  [ahead[u] EXCEPT ![z] = IF u \in meets THEN ahead[u][z] \cup {k} ELSE ahead[u][z]]
                   \in [Shard -> SUBSET Key]
      BY <3>2, <3>3
    <3> QED
      BY <3>1, <3>4, <3>5
  <2> QED
    BY <2>1, <2>2
<1> QED
  BY <1>2, <1>3, <1>4 DEF Announce, Leave, TypeOK, bounds, disk, storing, loading

(* A file is read: as a whole, or as far as its first records f. *)
PartRead(p, s, f) ==
  /\ f \in Seq(Record)
  /\ \A i \in DOMAIN f : f[i] \in RecordsIn(Content(s))
  /\ ReadRecords(p, s, f)
  /\ UNCHANGED now
  /\ promised' \subseteq promised
  /\ \A r \in RecordsIn(Content(s)) : r.key \in promised' => r \in RecordsIn(f)

LEMMA ReadIsPart ==
  ASSUME TypeOK, NEW p \in Proc, NEW s \in Shard, ReadFile(p, s) \/ ReadBreaks(p, s)
  PROVE  \E f : PartRead(p, s, f)
<1>1. Content(s) \in Seq(Record)
  BY ContentIs
<1>2. CASE ReadFile(p, s)
  <2>1. PartRead(p, s, Content(s))
    BY <1>1, <1>2 DEF PartRead, ReadFile, RecordsIn, bounds
  <2> QED
    BY <2>1
<1>3. CASE ReadBreaks(p, s)
  <2>1. PICK n \in 0..Len(Content(s)) :
          /\ ReadRecords(p, s, SubSeq(Content(s), 1, n))
          /\ promised' = promised \ {Content(s)[i].key : i \in (n + 1)..Len(Content(s))}
    BY <1>3 DEF ReadBreaks
  <2> DEFINE f == SubSeq(Content(s), 1, n)
  <2>2. f \in Seq(Record) /\ Len(f) = n /\ \A i \in 1..n : f[i] = Content(s)[i]
    BY <1>1, FirstRecords
  <2>3. ReadRecords(p, s, f)
    BY <2>1
  <2> HIDE DEF f
  <2>4. \A i \in DOMAIN f : f[i] \in RecordsIn(Content(s))
    <3>1. \A i \in DOMAIN f : i \in 1..n /\ i \in DOMAIN Content(s)
      BY <1>1, <2>2
    <3> QED
      BY <2>2, <3>1 DEF RecordsIn
  <2>5. ASSUME NEW r \in RecordsIn(Content(s)), r.key \in promised' PROVE r \in RecordsIn(f)
    <3>1. PICK i \in DOMAIN Content(s) : r = Content(s)[i]
      BY DEF RecordsIn
    <3>2. i \in 1..Len(Content(s)) /\ i \notin (n + 1)..Len(Content(s))
      BY <1>1, <2>1, <2>5, <3>1
    <3>3. i \in 1..n /\ i \in DOMAIN f
      BY <1>1, <2>2, <3>2
    <3> QED
      BY <2>2, <3>1, <3>3 DEF RecordsIn
  <2>6. PartRead(p, s, f)
    BY <1>3, <2>1, <2>2, <2>3, <2>4, <2>5 DEF PartRead, ReadBreaks, Fault
  <2> QED
    BY <2>6
<1> QED
  BY <1>2, <1>3

(* What reading does to the memory: it keeps a key or takes it from a      *)
(* record that has not expired.                                            *)
LEMMA ReadRecordsIs ==
  ASSUME TypeOK, NEW p \in Proc, NEW s \in Shard, NEW f \in Seq(Record), ReadRecords(p, s, f)
  PROVE  /\ mem' \in MemType
         /\ \A q \in Proc \ {p} : mem'[q] = mem[q]
         /\ \A z \in Shard, k \in Key :
              \/ /\ mem'[p][z][k] = mem[p][z][k]
                 /\ z = pickWorker(p, k) =>
                      \A i \in Readable(f) : f[i].key = k => Expired(f[i].seen, now)
              \/ /\ z = pickWorker(p, k) /\ mem'[p][z][k] \in Nat
                 /\ \E i \in DOMAIN f : f[i].key = k /\ f[i].seen = mem'[p][z][k]
<1> DEFINE I == {i \in Readable(f) : ~Expired(f[i].seen, now)}
<1>1. I \in SUBSET DOMAIN f
  BY DEF Readable
<1>2. mem' = [mem EXCEPT ![p] = Reload(p, s, f, I)]
  BY DEF ReadRecords
<1>3. \A k : (\A i \in I : f[i].key # k) => \A i \in Readable(f) : f[i].key = k => Expired(f[i].seen, now)
  OBVIOUS
<1> HIDE DEF I
<1>4. mem \in MemType /\ \A i \in DOMAIN f : f[i].seen \in Nat
  BY SeenIsTime DEF TypeOK, MemType
<1>5. mem'[p] = Reload(p, s, f, I) /\ \A q \in Proc \ {p} : mem'[q] = mem[q]
  BY <1>2, <1>4 DEF MemType
<1>6. mem' \in MemType
  BY <1>1, <1>2, <1>4, ReloadIs DEF MemType
<1>7. ASSUME NEW z \in Shard, NEW k \in Key
      PROVE  \/ /\ mem'[p][z][k] = mem[p][z][k]
                /\ z = pickWorker(p, k) => \A i \in I : f[i].key # k
             \/ /\ z = pickWorker(p, k) /\ mem'[p][z][k] \in Nat
                /\ \E i \in DOMAIN f : f[i].key = k /\ f[i].seen = mem'[p][z][k]
  BY <1>1, <1>4, <1>5, ReloadIs
<1> QED
  BY <1>3, <1>5, <1>6, <1>7

LEMMA TypeLoad ==
  ASSUME TypeOK, NEW p \in Proc, Start(p) \/ LoadEnd(p) \/ \E s \in Shard : LoadShard(p, s)
  PROVE  TypeOK'
<1>1. CASE Start(p)
  BY <1>1 DEF Start, TypeOK, disk, storing, history
<1>2. CASE LoadEnd(p)
  BY <1>2 DEF LoadEnd, TypeOK, bounds, disk, storing, loading
<1>3. ASSUME NEW s \in Shard, NEW v \in {"idle", "locked", "done"}, reader' = [reader EXCEPT ![p][s] = v]
      PROVE  reader' \in [Proc -> [Shard -> {"idle", "locked", "done"}]]
  BY <1>3, SetCell DEF TypeOK
<1>4. ASSUME NEW s \in Shard, ReadLock(p, s) PROVE TypeOK'
  <2>1. reader' \in [Proc -> [Shard -> {"idle", "locked", "done"}]]
    BY <1>3, <1>4 DEF ReadLock
  <2>2. file' \in [Shard -> Seq(Record) \cup {None}]
    BY <1>4 DEF ReadLock, TypeOK
  <2> QED
    BY <1>4, <2>1, <2>2 DEF ReadLock, TypeOK, bounds, storing, history
<1>5. ASSUME NEW s \in Shard, ReadSkip(p, s) PROVE TypeOK'
  <2>1. reader' \in [Proc -> [Shard -> {"idle", "locked", "done"}]]
    BY <1>3, <1>5 DEF ReadSkip
  <2> QED
    BY <1>5, <2>1 DEF ReadSkip, TypeOK, bounds, disk, storing, history
<1>6. ASSUME NEW s \in Shard, ReadFile(p, s) \/ ReadBreaks(p, s) PROVE TypeOK'
  <2>1. PICK f : PartRead(p, s, f)
    BY <1>6, ReadIsPart
  <2>2. mem' \in [Proc -> [Shard -> [Key -> Nat \cup {None}]]]
    BY <2>1, ReadRecordsIs DEF PartRead, MemType
  <2>3. reader' \in [Proc -> [Shard -> {"idle", "locked", "done"}]]
    BY <1>3, <2>1 DEF PartRead, ReadRecords
  <2>4. now' \in Nat /\ starts' \in Nat /\ stores' \in Nat /\ faults' \in Nat /\ joins' \in Nat
    BY <1>6 DEF ReadFile, ReadBreaks, Fault, TypeOK, bounds
  <2>5. promised' \subseteq Key /\ rlock' \in [Shard -> SUBSET Proc]
    BY <2>1 DEF PartRead, ReadRecords, TypeOK
  <2> QED
    BY <2>1, <2>2, <2>3, <2>4, <2>5 DEF PartRead, ReadRecords, TypeOK, storing
<1>7. ASSUME NEW s \in Shard, Remove(p, s) PROVE TypeOK'
  <2>1. reader' \in [Proc -> [Shard -> {"idle", "locked", "done"}]]
    BY <1>3, <1>7 DEF Remove
  <2>2. linked' \in [Store -> [Shard -> BOOLEAN]]
    BY <1>7 DEF Remove, TypeOK
  <2>3. /\ file' \in [Shard -> Seq(Record) \cup {None}] /\ wlock' \in [Shard -> Store \cup {None}]
        /\ rlock' \in [Shard -> SUBSET Proc] /\ files' \in [Proc -> SUBSET Shard]
    BY <1>7 DEF Remove, TypeOK
  <2> QED
    BY <1>7, <2>1, <2>2, <2>3 DEF Remove, TypeOK, bounds, history
<1>8. ASSUME NEW s \in Shard, RemoveFails(p, s) PROVE TypeOK'
  <2>1. reader' \in [Proc -> [Shard -> {"idle", "locked", "done"}]]
    BY <1>3, <1>8 DEF RemoveFails
  <2>2. files' \in [Proc -> SUBSET Shard] /\ stuck' \subseteq Record /\ faults' \in Nat
    BY <1>8, ContentIs DEF RemoveFails, Fault, TypeOK
  <2> QED
    BY <1>8, <2>1, <2>2 DEF RemoveFails, Fault, TypeOK, disk, storing
<1> QED
  BY <1>1, <1>2, <1>4, <1>5, <1>6, <1>7, <1>8 DEF LoadShard

Stages == {"idle", "begin", "wait", "locked", "writing", "done"}

LEMMA TypeBegin ==
  ASSUME TypeOK, NEW p \in Proc, SaveBegin(p) \/ SaveEnd(p) \/ StoreBegin(p)
  PROVE  TypeOK'
<1>1. writer' \in [Store -> [Shard -> Stages]]
  <2>1. Jobs(p) \in [Shard -> Stages] /\ [s \in Shard |-> "idle"] \in [Shard -> Stages]
    BY DEF Jobs, Stages
  <2>2. PICK w \in Store, j \in [Shard -> Stages] : writer' = [writer EXCEPT ![w] = j]
    BY <2>1, StoreOf DEF SaveBegin, SaveEnd, StoreBegin
  <2> QED
    BY <2>2 DEF TypeOK, Stages
<1>2. /\ promised' \subseteq Key /\ fresh' \subseteq Record /\ held' \subseteq Record
      /\ stuck' \subseteq Record /\ whole' \in BOOLEAN
  <2>1. KeysOf(Held(p)) \subseteq Key /\ Held(p) \subseteq Record
    BY HeldType
  <2> QED
    BY <2>1 DEF SaveBegin, SaveEnd, StoreBegin, Promise, TypeOK, history
<1>3. phase' \in [Proc -> {"down", "loading", "serving", "leaving"}]
  BY DEF SaveBegin, SaveEnd, StoreBegin, TypeOK
<1>4. now' \in Nat /\ starts' \in Nat /\ stores' \in Nat /\ faults' \in Nat /\ joins' \in Nat
  BY DEF SaveBegin, SaveEnd, StoreBegin, TypeOK, bounds
<1> QED
  BY <1>1, <1>2, <1>3, <1>4 DEF SaveBegin, SaveEnd, StoreBegin, TypeOK, Stages, disk, loading

(* What Write does, when the file it has open is there. *)
Appended(w, s, k) ==
  /\ k \in Key
  /\ left' = [left EXCEPT ![w][s] = left[w][s] \ {k}]
  /\ \/ file' = file /\ ~(linked[w][s] /\ mem[w[1]][s][k] # None)
     \/ /\ mem[w[1]][s][k] \in Nat /\ file[s] \in Seq(Record)
        /\ Append(file[s], Written(w[1], s, k)) \in Seq(Record)
        /\ file' = [file EXCEPT ![s] = Append(file[s], Written(w[1], s, k))]

LEMMA WriteAppends ==
  ASSUME TypeOK, NameThere, NEW w \in Store, NEW s \in Shard, Write(w, s)
  PROVE  \E k \in left[w][s] : Appended(w, s, k)
<1>1. PICK k \in left[w][s] :
        /\ left' = [left EXCEPT ![w][s] = left[w][s] \ {k}]
        /\ file' = IF linked[w][s] /\ mem[w[1]][s][k] # None
                   THEN [file EXCEPT ![s] = Append(file[s], Written(w[1], s, k))] ELSE file
  BY DEF Write, TypeOK
<1>2. k \in Key
  BY <1>1 DEF TypeOK
<1>3. CASE linked[w][s] /\ mem[w[1]][s][k] # None
  <2>1. file[s] \in Seq(Record)
    BY <1>3 DEF TypeOK, NameThere
  <2>2. mem[w[1]][s][k] \in Nat
    BY <1>2, <1>3, StoreOf DEF TypeOK
  <2>3. Append(file[s], Written(w[1], s, k)) \in Seq(Record)
    BY <1>2, <2>1, <2>2 DEF Written, Record
  <2> QED
    BY <1>1, <1>2, <1>3, <2>1, <2>2, <2>3 DEF Appended
<1>4. CASE ~(linked[w][s] /\ mem[w[1]][s][k] # None)
  BY <1>1, <1>2, <1>4 DEF Appended
<1> QED
  BY <1>3, <1>4

LEMMA TypeStore ==
  ASSUME TypeOK, NameThere, NEW w \in Store, NEW s \in Shard, StoreShard(w, s)
  PROVE  TypeOK'
<1> DEFINE others == <<bounds, phase, mem, rlock, ahead, loading, history>>
<1>1. ASSUME NEW v \in Stages, writer' = [writer EXCEPT ![w][s] = v] PROVE writer' \in [Store -> [Shard -> Stages]]
  BY <1>1, SetCell DEF TypeOK, Stages
<1>2. ASSUME NEW v \in BOOLEAN, linked' = [linked EXCEPT ![w][s] = v] PROVE linked' \in [Store -> [Shard -> BOOLEAN]]
  BY <1>2, SetCell DEF TypeOK
<1>3. ASSUME NEW v \in SUBSET Key, left' = [left EXCEPT ![w][s] = v] PROVE left' \in [Store -> [Shard -> SUBSET Key]]
  BY <1>3, SetCell DEF TypeOK
<1>4. ASSUME UNCHANGED others, writer' \in [Store -> [Shard -> Stages]],
             linked' \in [Store -> [Shard -> BOOLEAN]], left' \in [Store -> [Shard -> SUBSET Key]],
             file' \in [Shard -> Seq(Record) \cup {None}], wlock' \in [Shard -> Store \cup {None}]
      PROVE  TypeOK'
  BY <1>4 DEF TypeOK, Stages, bounds, loading, history
<1>5. CASE OpenLock(w, s)
  <2>1. writer' \in [Store -> [Shard -> Stages]] /\ linked' \in [Store -> [Shard -> BOOLEAN]]
    BY <1>1, <1>2, <1>5 DEF OpenLock, Stages
  <2>2. file' \in [Shard -> Seq(Record) \cup {None}]
    BY <1>5 DEF OpenLock, TypeOK
  <2> QED
    BY <1>4, <1>5, <2>1, <2>2 DEF OpenLock, TypeOK
<1>6. CASE Lock(w, s)
  <2>1. writer' \in [Store -> [Shard -> Stages]]
    BY <1>1, <1>6 DEF Lock, Stages
  <2>2. wlock' \in [Shard -> Store \cup {None}]
    BY <1>6 DEF Lock, TypeOK
  <2> QED
    BY <1>4, <1>6, <2>1, <2>2 DEF Lock, TypeOK
<1>7. CASE Truncate(w, s)
  <2>1. writer' \in [Store -> [Shard -> Stages]] /\ linked' \in [Store -> [Shard -> BOOLEAN]]
    BY <1>1, <1>2, <1>7 DEF Truncate, Stages
  <2>2. left' \in [Store -> [Shard -> SUBSET Key]]
    <3>1. KeysIn(w[1], s) \in SUBSET Key
      BY DEF KeysIn
    <3> QED
      BY <1>3, <1>7, <3>1 DEF Truncate
  <2>3. file' \in [Shard -> Seq(Record) \cup {None}]
    BY <1>7 DEF Truncate, TypeOK
  <2> QED
    BY <1>4, <1>7, <2>1, <2>2, <2>3 DEF Truncate, TypeOK
<1>8. CASE Write(w, s)
  <2>1. PICK k \in left[w][s] : Appended(w, s, k)
    BY <1>8, WriteAppends
  <2>2. left[w][s] \ {k} \in SUBSET Key
    BY <2>1 DEF TypeOK
  <2>3. left' \in [Store -> [Shard -> SUBSET Key]]
    BY <1>3, <2>1, <2>2 DEF Appended
  <2>4. file' \in [Shard -> Seq(Record) \cup {None}]
    BY <2>1 DEF Appended, TypeOK
  <2> QED
    BY <1>4, <1>8, <2>3, <2>4 DEF Write, TypeOK, Stages
<1>9. CASE Close(w, s)
  <2>1. writer' \in [Store -> [Shard -> Stages]] /\ linked' \in [Store -> [Shard -> BOOLEAN]]
    BY <1>1, <1>2, <1>9 DEF Close, Stages
  <2>2. wlock' \in [Shard -> Store \cup {None}]
    BY <1>9 DEF Close, TypeOK
  <2>3. ahead' \in [Store -> [Shard -> SUBSET Key]]
    BY <1>9, SetCell DEF Close, TypeOK
  <2> QED
    BY <1>9, <2>1, <2>2, <2>3 DEF Close, TypeOK, Stages, bounds, loading, history
<1>10. CASE StoreFails(w, s)
  <2>1. writer' \in [Store -> [Shard -> Stages]] /\ linked' \in [Store -> [Shard -> BOOLEAN]]
    BY <1>1, <1>2, <1>10 DEF StoreFails, Stages
  <2>2. wlock' \in [Shard -> Store \cup {None}]
    BY <1>10 DEF StoreFails, TypeOK
  <2>3. stuck' \subseteq Record /\ promised' \subseteq Key /\ faults' \in Nat
    BY <1>10, ContentIs DEF StoreFails, Fault, TypeOK
  <2> QED
    BY <1>10, <2>1, <2>2, <2>3 DEF StoreFails, Fault, TypeOK, Stages, loading
<1>11. CASE WriteFails(w, s)
  <2>1. left' \in [Store -> [Shard -> SUBSET Key]]
    <3>1. {} \in SUBSET Key
      OBVIOUS
    <3> QED
      BY <1>3, <1>11, <3>1 DEF WriteFails
  <2>2. file' \in [Shard -> Seq(Record) \cup {None}]
    BY <1>11, ContentIs, FirstRecords DEF WriteFails, TypeOK
  <2>3. promised' \subseteq Key /\ faults' \in Nat
    BY <1>11 DEF WriteFails, Fault, TypeOK
  <2> QED
    BY <1>11, <2>1, <2>2, <2>3 DEF WriteFails, Fault, TypeOK, loading
<1> QED
  BY <1>5, <1>6, <1>7, <1>8, <1>9, <1>10, <1>11 DEF StoreShard

Ends(p) == StoreEnd(p) \/ Crash(p) \/ \E s \in Shard : ReadPanics(p, s)

LEMMA TypeEnd ==
  ASSUME TypeOK, NEW p \in Proc, Ends(p)
  PROVE  TypeOK'
<1>0. whole' \in BOOLEAN
  BY Zenon DEF Ends, StoreEnd, Crash, ReadPanics, Killed, TypeOK
<1>1. /\ End(p) /\ held' \subseteq Record
      /\ now' \in Nat /\ starts' \in Nat /\ stores' \in Nat /\ faults' \in Nat /\ joins' \in Nat
  BY DEF Ends, StoreEnd, Crash, ReadPanics, Killed, Fault, bounds, TypeOK
<1>2. mem' \in [Proc -> [Shard -> [Key -> Nat \cup {None}]]]
  <2>1. NoPeers \in [Shard -> [Key -> Nat \cup {None}]]
    BY DEF NoPeers
  <2> QED
    BY <1>1, <2>1 DEF End, TypeOK
<1>3. /\ writer' \in [Store -> [Shard -> Stages]] /\ linked' \in [Store -> [Shard -> BOOLEAN]]
      /\ left' \in [Store -> [Shard -> SUBSET Key]] /\ ahead' \in [Store -> [Shard -> SUBSET Key]]
  BY <1>1 DEF End, TypeOK, Stages
<1>4. /\ wlock' \in [Shard -> Store \cup {None}] /\ rlock' \in [Shard -> SUBSET Proc]
      /\ files' \in [Proc -> SUBSET Shard]
      /\ phase' \in [Proc -> {"down", "loading", "serving", "leaving"}]
  BY <1>1 DEF End, TypeOK
<1>5. reader' \in [Proc -> [Shard -> {"idle", "locked", "done"}]]
  BY <1>1 DEF End, TypeOK
<1> QED
  BY <1>0, <1>1, <1>2, <1>3, <1>4, <1>5 DEF End, TypeOK, Stages

LEMMA TypeNext == TypeOK /\ NameThere /\ [Next]_vars => TypeOK'
<1> SUFFICES ASSUME TypeOK, NameThere, [Next]_vars PROVE TypeOK'
  OBVIOUS
<1>1. CASE Advance
  BY <1>1 DEF Advance, TypeOK, disk, storing, loading, history
<1>2. CASE UNCHANGED vars
  BY <1>2 DEF vars, TypeOK, bounds, disk, storing, loading, history
<1> QED
  BY <1>1, <1>2, TypeServe, TypeLoad, TypeBegin, TypeStore, TypeEnd DEF Next, Load, Ends

LEMMA NameThereNext == TypeOK /\ NameThere /\ [Next]_vars => NameThere'
<1> SUFFICES ASSUME TypeOK, NameThere, [Next]_vars PROVE NameThere'
  OBVIOUS
<1> USE PersistAssumption DEF NameThere
<1>1. CASE UNCHANGED <<file, linked>>
  BY <1>1
<1>2. ASSUME NEW p \in Proc, NEW s \in Shard, ReadLock(p, s) PROVE NameThere'
  BY <1>2 DEF ReadLock, TypeOK, storing
<1>3. ASSUME NEW p \in Proc, NEW s \in Shard, Remove(p, s) PROVE NameThere'
  BY <1>3 DEF Remove, TypeOK
<1>4. ASSUME NEW p \in Proc, End(p) PROVE NameThere'
  BY <1>4 DEF End, TypeOK
<1>5. ASSUME NEW w \in Store, NEW s \in Shard, NEW b \in BOOLEAN, linked' = [linked EXCEPT ![w][s] = b],
             NEW v \in Store, NEW z \in Shard, v # w \/ z # s
      PROVE  linked'[v][z] = linked[v][z]
  <2>1. linked \in [Store -> [Shard -> BOOLEAN]]
    BY DEF TypeOK
  <2> HIDE PersistAssumption
  <2> QED
    BY <1>5, <2>1, SetCell
<1>6. ASSUME NEW w \in Store, NEW s \in Shard, OpenLock(w, s) \/ Truncate(w, s) PROVE NameThere'
  <2>1. linked' = [linked EXCEPT ![w][s] = TRUE]
    BY <1>6 DEF OpenLock, Truncate
  <2>2. /\ file'[s] # None
        /\ \A z \in Shard : z # s => file'[z] = file[z]
    <3>1. <<>> # None
      BY EmptyFile
    <3> QED
      BY <1>6, <3>1 DEF OpenLock, Truncate, TypeOK
  <2> QED
    BY <1>5, <2>1, <2>2
<1>7. ASSUME NEW w \in Store, NEW s \in Shard, Close(w, s) PROVE NameThere'
  <2>1. linked' = [linked EXCEPT ![w][s] = FALSE] /\ file' = file
    BY <1>7 DEF Close
  <2>2. ~linked'[w][s]
    BY <2>1 DEF TypeOK
  <2> QED
    BY <1>5, <2>1, <2>2
<1>9. ASSUME NEW w \in Store, NEW s \in Shard, StoreFails(w, s) PROVE NameThere'
  <2>1. linked' = [linked EXCEPT ![w][s] = FALSE] /\ file' = file
    BY <1>9 DEF StoreFails
  <2>2. ~linked'[w][s]
    BY <2>1 DEF TypeOK
  <2> QED
    BY <1>5, <2>1, <2>2
<1>10. ASSUME NEW w \in Store, NEW s \in Shard, WriteFails(w, s) PROVE NameThere'
  <2>1. file' = file \/ \E e \in Seq(Record) : file' = [file EXCEPT ![s] = e]
    BY <1>10, ContentIs, FirstRecords DEF WriteFails
  <2>2. linked' = linked
    BY <1>10 DEF WriteFails
  <2> QED
    BY <2>1, <2>2 DEF TypeOK
<1>8. ASSUME NEW w \in Store, NEW s \in Shard, Write(w, s) PROVE NameThere'
  <2>1. PICK k \in left[w][s] : Appended(w, s, k)
    BY <1>8, WriteAppends
  <2>2. file' = file \/ \E e \in Seq(Record) : file' = [file EXCEPT ![s] = e]
    BY <2>1 DEF Appended
  <2>3. linked' = linked
    BY <1>8 DEF Write
  <2> QED
    BY <2>2, <2>3 DEF TypeOK
<1>11. ASSUME NEW p \in Proc, NEW s \in Shard, LoadShard(p, s) PROVE NameThere'
  BY <1>1, <1>2, <1>3, <1>11
  DEF LoadShard, ReadSkip, ReadFile, ReadBreaks, ReadRecords, RemoveFails, disk, storing
<1>12. ASSUME NEW w \in Store, NEW s \in Shard, StoreShard(w, s) PROVE NameThere'
  BY <1>1, <1>6, <1>7, <1>8, <1>9, <1>10, <1>12 DEF StoreShard, Lock
<1>13. ASSUME NEW p \in Proc, Ends(p) PROVE NameThere'
  BY <1>4, <1>13 DEF Ends, StoreEnd, Crash, ReadPanics, Killed
<1> QED
  BY <1>1, <1>11, <1>12, <1>13
  DEF Next, Load, Ends, Announce, Leave, Start, LoadEnd, SaveBegin, SaveEnd, StoreBegin, Advance,
      vars, disk, storing

(* Memory, files, locks and the stages of a store keep their types: every  *)
(* record that is written carries the time its peer was last seen, and is  *)
(* written to a file that is there (persist.go:139-222).                   *)
THEOREM PersistTypeCorrect == Spec => []TypeOK
<1>1. Init => TypeOK /\ NameThere
  BY TypeInit DEF Init, NameThere, All
<1>2. TypeOK /\ NameThere /\ [Next]_vars => (TypeOK /\ NameThere)'
  BY TypeNext, NameThereNext
<1> QED
  BY <1>1, <1>2, PTL DEF Spec

-----------------------------------------------------------------------------
(* A peer is where its torrent is looked for.                              *)

LEMMA ReachableNext == TypeOK /\ Reachable /\ [Next]_vars => Reachable'
<1> SUFFICES ASSUME TypeOK, Reachable, [Next]_vars PROVE Reachable'
  OBVIOUS
<1>0. \A p, k : pickWorker(p, k)' = pickWorker(p, k)
  BY DEF pickWorker
<1>1. CASE UNCHANGED mem
  BY <1>0, <1>1 DEF Reachable
<1>2. ASSUME NEW p \in Proc, NEW k \in Key, Announce(p, k) \/ Leave(p, k) PROVE Reachable'
  <2>1. PICK v \in Nat \cup {None} : mem' = [mem EXCEPT ![p][pickWorker(p, k)][k] = v]
    BY <1>2 DEF Announce, Leave, TypeOK
  <2>2. pickWorker(p, k) \in Shard /\ mem \in MemType
    BY WorkerIsShard DEF TypeOK, MemType
  <2>3. \A q \in Proc, z \in Shard, j \in Key :
          mem'[q][z][j] = IF q = p /\ z = pickWorker(p, k) /\ j = k THEN v ELSE mem[q][z][j]
    BY <2>1, <2>2, SetMem
  <2> QED
    BY <1>0, <2>3 DEF Reachable
<1>3. ASSUME NEW p \in Proc, NEW s \in Shard, ReadFile(p, s) \/ ReadBreaks(p, s) PROVE Reachable'
  <2>0. PICK f : PartRead(p, s, f)
    BY <1>3, ReadIsPart
  <2>1. \A q \in Proc, z \in Shard, k \in Key : mem'[q][z][k] = mem[q][z][k] \/ z = pickWorker(q, k)
    BY <2>0, ReadRecordsIs DEF PartRead
  <2> QED
    BY <1>0, <2>1 DEF Reachable
<1>4. ASSUME NEW p \in Proc, End(p) PROVE Reachable'
  BY <1>0, <1>4 DEF End, NoPeers, Reachable, TypeOK
<1> QED
  BY <1>1, <1>2, <1>3, <1>4
  DEF Next, Load, LoadShard, StoreShard, Start, ReadLock, ReadSkip, Remove, RemoveFails, LoadEnd, SaveBegin,
      SaveEnd, StoreBegin, OpenLock, Lock, Truncate, Write, Close, StoreFails, WriteFails, StoreEnd, Crash,
      ReadPanics, Killed, Advance, vars

(* Whatever numbers of shards the processes before it had, every peer that *)
(* a process holds is in the shard that pickWorker names, so that          *)
(* announces and scrapes of its torrent find it (persist.go:31-137,        *)
(* mux_manager.go).                                                        *)
THEOREM AlwaysReachable == Spec => []Reachable
<1>1. Init => Reachable
  BY DEF Init, NoPeers, Reachable
<1>2. Spec => []TypeOK
  BY PersistTypeCorrect
<1> QED
  BY <1>1, <1>2, ReachableNext, PTL DEF Spec

-----------------------------------------------------------------------------
(* Launches and stores that do not overlap.                                *)

PhaseOf(w) == IF w[2] = "save" THEN "serving" ELSE "leaving"

(* One process runs at a time, and what stores is the interval task of a   *)
(* process that serves or the shutdown of one that leaves.                 *)
Alone ==
  /\ \A p, q \in Proc : phase[p] # "down" /\ phase[q] # "down" => p = q
  /\ \A w \in Store, s \in Shard : writer[w][s] # "idle" => phase[w[1]] = PhaseOf(w)
OwnShards ==
  \A w \in Store, s \in Shard : writer[w][s] \notin {"idle", "done"} => s < Shards[w[1]]

(* A process that loads knows every file, and once it serves there are     *)
(* none but those of its own shards and those it could not remove.         *)
Cleared ==
  \A p \in Proc, s \in Shard, r \in Record : InFile(s, r) =>
    /\ phase[p] = "loading" => s \in files[p] \/ r \in stuck
    /\ phase[p] \in {"serving", "leaving"} => s < Shards[p] \/ r \in stuck

(* Locks are those of stores under way, and what is being written still    *)
(* has its name.                                                           *)
Locks ==
  /\ \A s \in Shard : wlock[s] # None => writer[wlock[s]][s] \in {"locked", "writing"}
  /\ \A w \in Store, s \in Shard : writer[w][s] = "writing" => linked[w][s]
Discipline == Alone /\ OwnShards /\ Cleared /\ Locks

(* At most one store is under way, and none while a process loads. *)
LEMMA OneStore ==
  ASSUME Alone, NEW w \in Store, Storing(w)
  PROVE  /\ phase[w[1]] = PhaseOf(w)
         /\ \A p \in Proc : phase[p] # "down" => p = w[1]
         /\ \A v \in Store, s \in Shard : writer[v][s] # "idle" => v = w
<1>1. phase[w[1]] = PhaseOf(w) /\ phase[w[1]] # "down"
  BY DEF Storing, Alone, PhaseOf
<1>2. \A p \in Proc : phase[p] # "down" => p = w[1]
  BY <1>1, StoreOf DEF Alone
<1>3. ASSUME NEW v \in Store, NEW s \in Shard, writer[v][s] # "idle" PROVE v = w
  <2>1. phase[v[1]] = PhaseOf(v) /\ phase[v[1]] # "down"
    BY <1>3 DEF Alone, PhaseOf
  <2>2. v[1] = w[1] /\ PhaseOf(v) = PhaseOf(w)
    BY <1>1, <1>2, <2>1, StoreOf
  <2> QED
    BY <2>2 DEF PhaseOf, Store
<1> QED
  BY <1>1, <1>2, <1>3

LEMMA LockHolder == TypeOK => \A s \in Shard : wlock[s] # None => wlock[s] \in Store
BY DEF TypeOK

LEMMA NoStoreWhileLoading ==
  ASSUME Discipline, NEW p \in Proc, phase[p] \in {"down", "loading"}, \A q \in Proc : phase[q] # "down" => q = p
  PROVE  /\ \A w \in Store, s \in Shard : writer[w][s] = "idle"
         /\ TypeOK => \A s \in Shard : wlock[s] = None
<1>1. ASSUME NEW w \in Store, NEW s \in Shard PROVE writer[w][s] = "idle"
  BY StoreOf DEF Discipline, Alone, PhaseOf
<1>2. ASSUME TypeOK, NEW s \in Shard PROVE wlock[s] = None
  BY <1>1, <1>2, LockHolder DEF Discipline, Locks
<1> QED
  BY <1>1, <1>2

LEMMA DisciplineLoad ==
  ASSUME TypeOK, Discipline, Overlaps = {}, NEW p \in Proc,
         Start(p) \/ LoadEnd(p) \/ \E s \in Shard : LoadShard(p, s)
  PROVE  Discipline'
<1> USE DEF Discipline
<1>1. CASE Start(p)
  <2>1. /\ \A q \in Proc : phase[q] = "down" /\ phase'[q] = IF q = p THEN "loading" ELSE "down"
        /\ files'[p] = {s \in Shard : file[s] # None}
        /\ UNCHANGED <<file, wlock, linked, writer, stuck>>
    BY <1>1 DEF Start, TypeOK, disk, storing, history
  <2>2. \A w \in Store, s \in Shard : writer[w][s] = "idle"
    BY <2>1, NoStoreWhileLoading
  <2> QED
    BY <2>1, <2>2 DEF Alone, OwnShards, Cleared, Locks, InFile
<1>2. CASE UNCHANGED <<phase, writer, wlock, linked, file, files, stuck>>
  BY <1>2 DEF Alone, OwnShards, Cleared, Locks, PhaseOf, InFile
<1>3. ASSUME phase[p] = "loading"
      PROVE  /\ \A q \in Proc : phase[q] # "down" => q = p
             /\ \A w \in Store, s \in Shard : writer[w][s] = "idle"
  <2>1. \A q \in Proc : phase[q] # "down" => q = p
    BY <1>3 DEF Alone
  <2> QED
    BY <1>3, <2>1, NoStoreWhileLoading
<1>4. ASSUME NEW s \in Shard, ReadLock(p, s) PROVE Discipline'
  <2>1. phase[p] = "loading" /\ s \in files[p] /\ UNCHANGED <<phase, writer, wlock, linked, files, stuck>>
        /\ \A z \in Shard : z # s => file'[z] = file[z]
    BY <1>4 DEF ReadLock, TypeOK, storing, history
  <2> QED
    BY <1>3, <2>1 DEF Alone, OwnShards, Cleared, Locks, PhaseOf, InFile
<1>5. ASSUME NEW s \in Shard, Remove(p, s) PROVE Discipline'
  <2>1. /\ phase[p] = "loading" /\ UNCHANGED <<phase, writer>>
        /\ \A z \in Shard : file'[z] = (IF z = s THEN None ELSE file[z])
        /\ \A z \in Shard : wlock'[z] = (IF z = s THEN None ELSE wlock[z])
        /\ files'[p] = files[p] \ {s} /\ UNCHANGED stuck
    BY <1>5 DEF Remove, TypeOK, history
  <2> QED
    BY <1>3, <2>1 DEF Alone, OwnShards, Cleared, Locks, InFile
<1>7. ASSUME NEW s \in Shard, RemoveFails(p, s) PROVE Discipline'
  <2>1. /\ phase[p] = "loading" /\ UNCHANGED <<phase, writer, wlock, linked, file>>
        /\ files'[p] = files[p] \ {s} /\ stuck \subseteq stuck'
        /\ \A r : InFile(s, r) => r \in stuck'
    BY <1>7, ContentIs DEF RemoveFails, TypeOK, disk, storing
  <2>2. \A z, r : InFile(z, r)' <=> InFile(z, r)
    BY <2>1 DEF InFile
  <2>3. Cleared'
    BY <1>3, <2>1, <2>2 DEF Cleared
  <2> QED
    BY <2>1, <2>3 DEF Alone, OwnShards, Locks, PhaseOf
<1>6. CASE LoadEnd(p)
  <2>1. /\ phase[p] = "loading" /\ files[p] = {} /\ UNCHANGED <<writer, wlock, linked, file, files, stuck>>
        /\ \A q \in Proc : phase'[q] = IF q = p THEN "serving" ELSE phase[q]
    BY <1>6 DEF LoadEnd, TypeOK, disk, storing, loading
  <2>2. \A z \in Shard, r \in Record : InFile(z, r)' => r \in stuck'
    BY <2>1 DEF Cleared, InFile
  <2> QED
    BY <1>3, <2>1, <2>2 DEF Alone, OwnShards, Cleared, Locks
<1> QED
  BY <1>1, <1>2, <1>4, <1>5, <1>6, <1>7
  DEF LoadShard, ReadSkip, ReadFile, ReadBreaks, ReadRecords, disk, storing, history

LEMMA DisciplineBegin ==
  ASSUME TypeOK, Discipline, Overlaps = {}, NEW p \in Proc, SaveBegin(p) \/ StoreBegin(p)
  PROVE  Discipline'
<1> USE DEF Discipline
<1>1. /\ phase[p] = "serving" /\ UNCHANGED <<wlock, linked, file, files, stuck>>
      /\ \A s \in Shard : writer[Save(p)][s] = "idle"
  BY DEF SaveBegin, StoreBegin, Promise, Storing, disk, loading, history
<1>2. \A w \in Store, s \in Shard : writer[w][s] = "idle"
  <2> SUFFICES ASSUME NEW w \in Store, NEW s \in Shard, writer[w][s] # "idle" PROVE FALSE
    OBVIOUS
  <2>1. phase[w[1]] = PhaseOf(w) /\ w[1] = p
    BY <1>1, StoreOf DEF Alone, PhaseOf
  <2>2. w = Save(p)
    BY <1>1, <2>1, StoreOf DEF PhaseOf
  <2> QED
    BY <1>1, <2>2
<1>3. \A s \in Shard : wlock[s] = None
  BY <1>2, LockHolder DEF Locks
<1>4. PICK w \in Store :
        /\ w[1] = p
        /\ \A q \in Proc : phase'[q] = IF q = p THEN PhaseOf(w) ELSE phase[q]
        /\ \A v \in Store, s \in Shard : writer'[v][s] = IF v = w THEN Jobs(p)[s] ELSE writer[v][s]
  <2>1. CASE SaveBegin(p)
    BY <1>1, <2>1, StoreOf DEF SaveBegin, TypeOK, PhaseOf
  <2>2. CASE StoreBegin(p)
    BY <1>1, <2>2, StoreOf DEF StoreBegin, TypeOK, PhaseOf
  <2> QED
    BY <2>1, <2>2
<1>5. Alone' /\ OwnShards'
  BY <1>1, <1>2, <1>4 DEF Alone, OwnShards, Jobs, PhaseOf
<1>6. Cleared'
  BY <1>1, <1>4 DEF Alone, Cleared, PhaseOf, InFile
<1>7. Locks'
  BY <1>1, <1>2, <1>3, <1>4 DEF Locks, Jobs
<1> QED
  BY <1>5, <1>6, <1>7

LEMMA DisciplineSaveEnd ==
  ASSUME TypeOK, Discipline, NEW p \in Proc, SaveEnd(p)
  PROVE  Discipline'
<1>1. /\ UNCHANGED <<phase, wlock, linked, file, files, stuck>>
      /\ \A s \in Shard : writer[Save(p)][s] = "done"
      /\ \A v \in Store, s \in Shard : writer'[v][s] = IF v = Save(p) THEN "idle" ELSE writer[v][s]
  BY StoreOf DEF SaveEnd, Done, TypeOK, disk, loading
<1>2. Alone' /\ OwnShards' /\ Cleared'
  BY <1>1 DEF Discipline, Alone, OwnShards, Cleared, PhaseOf, InFile
<1>3. Locks'
  BY <1>1, LockHolder DEF Discipline, Locks
<1> QED
  BY <1>2, <1>3 DEF Discipline

LEMMA DisciplineEnd ==
  ASSUME TypeOK, Discipline, NEW p \in Proc, End(p)
  PROVE  Discipline'
<1>1. /\ \A q \in Proc : phase'[q] = IF q = p THEN "down" ELSE phase[q]
      /\ \A q \in Proc : q # p => files'[q] = files[q]
      /\ file' = file /\ stuck' = stuck
      /\ \A s \in Shard : wlock'[s] = IF wlock[s] \in {Save(p), Exit(p)} THEN None ELSE wlock[s]
  BY DEF End, TypeOK
<1>2. \A w \in Store, s \in Shard :
        IF w[1] = p THEN writer'[w][s] = "idle"
        ELSE writer'[w][s] = writer[w][s] /\ linked'[w][s] = linked[w][s]
  <2>1. \A w \in Store : w[1] = p <=> w \in {Save(p), Exit(p)}
    BY StoreOf
  <2>2. /\ \A w \in Store : w[1] = p => writer'[w] = [s \in Shard |-> "idle"]
        /\ \A w \in Store : w[1] # p => writer'[w] = writer[w] /\ linked'[w] = linked[w]
    BY <2>1 DEF End
  <2> QED
    BY <2>2
<1>3. \A s \in Shard : wlock'[s] # None => wlock'[s] = wlock[s] /\ wlock[s] \in Store /\ wlock[s][1] # p
  <2>1. \A w \in Store : w \notin {Save(p), Exit(p)} => w[1] # p
    BY StoreOf
  <2> QED
    BY <1>1, <2>1, LockHolder
<1>4. Alone' /\ OwnShards' /\ Cleared'
  BY <1>1, <1>2, StoreOf DEF Discipline, Alone, OwnShards, Cleared, PhaseOf, InFile
<1>5. Locks'
  BY <1>2, <1>3 DEF Discipline, Locks
<1> QED
  BY <1>4, <1>5 DEF Discipline

LEMMA DisciplineStore ==
  ASSUME TypeOK, NameThere, Discipline, NEW w \in Store, NEW s \in Shard, StoreShard(w, s)
  PROVE  Discipline'
<1> USE DEF Discipline
<1>1. UNCHANGED <<phase, files>> /\ Storing(w) /\ writer[w][s] # "done" /\ stuck \subseteq stuck'
  BY DEF StoreShard, OpenLock, Lock, Truncate, Write, Close, StoreFails, WriteFails, loading, history, Storing
<1>2. /\ s < Shards[w[1]] /\ phase[w[1]] = PhaseOf(w)
      /\ \A p \in Proc : phase[p] # "down" => p = w[1]
  BY <1>1, OneStore DEF StoreShard, OpenLock, Lock, Truncate, Write, Close, StoreFails, WriteFails, OwnShards
<1>3. \A z \in Shard : z # s => file'[z] = file[z] /\ wlock'[z] = wlock[z]
  BY WriteAppends
  DEF StoreShard, OpenLock, Lock, Truncate, Write, Close, StoreFails, WriteFails, Appended, TypeOK
<1>4. \A v \in Store, z \in Shard : (v # w \/ z # s) => writer'[v][z] = writer[v][z] /\ linked'[v][z] = linked[v][z]
  BY DEF StoreShard, OpenLock, Lock, Truncate, Write, Close, StoreFails, WriteFails, TypeOK
<1>5. /\ writer'[w][s] # "idle"
      /\ writer'[w][s] = "writing" => linked'[w][s]
      /\ wlock'[s] # None => \/ wlock'[s] = w /\ writer'[w][s] \in {"locked", "writing"}
                             \/ wlock'[s] = wlock[s] /\ wlock[s] # w
  BY DEF StoreShard, OpenLock, Lock, Truncate, Write, Close, StoreFails, WriteFails, TypeOK, Locks
<1>6. Alone' /\ OwnShards'
  BY <1>1, <1>2, <1>4, <1>5 DEF Alone, OwnShards, PhaseOf
<1>7. Cleared'
  BY <1>1, <1>2, <1>3 DEF Cleared, PhaseOf, InFile
<1>8. Locks'
  <2>1. ASSUME NEW z \in Shard, wlock'[z] # None PROVE writer'[wlock'[z]][z] \in {"locked", "writing"}
    <3>1. wlock'[z] = wlock[z] => wlock[z] \in Store /\ writer[wlock[z]][z] \in {"locked", "writing"}
      BY <2>1, LockHolder DEF Locks
    <3> QED
      BY <1>3, <1>4, <1>5, <2>1, <3>1
  <2>2. ASSUME NEW v \in Store, NEW z \in Shard, writer'[v][z] = "writing" PROVE linked'[v][z]
    BY <1>4, <1>5, <2>2 DEF Locks
  <2> QED
    BY <2>1, <2>2 DEF Locks
<1> QED
  BY <1>6, <1>7, <1>8

LEMMA DisciplineNext ==
  ASSUME TypeOK, NameThere, Discipline, Overlaps = {}, [Next]_vars
  PROVE  Discipline'
<1>1. CASE UNCHANGED <<phase, writer, wlock, linked, file, files, stuck>>
  BY <1>1 DEF Discipline, Alone, OwnShards, Cleared, Locks, PhaseOf, InFile
<1> QED
  BY <1>1, DisciplineLoad, DisciplineBegin, DisciplineSaveEnd, DisciplineEnd, DisciplineStore
  DEF Next, Load, StoreEnd, Crash, ReadPanics, Killed, Announce, Leave, Advance, vars, disk, storing, loading,
      history

(* Files are read by a process that loads, which has found them. *)
Readers ==
  \A p \in Proc, s \in Shard : reader[p][s] # "idle" => phase[p] = "loading" /\ s \in files[p]

LEMMA ReadersNext == TypeOK /\ Readers /\ [Next]_vars => Readers'
<1> SUFFICES ASSUME TypeOK, Readers, [Next]_vars PROVE Readers'
  OBVIOUS
<1> USE DEF Readers
<1>1. CASE UNCHANGED <<phase, files, reader>>
  BY <1>1
<1>2. ASSUME NEW p \in Proc, Start(p) PROVE Readers'
  BY <1>2 DEF Start, TypeOK
<1>3. ASSUME NEW p \in Proc, NEW s \in Shard, NEW v \in {"locked", "done"},
             phase[p] = "loading", s \in files[p], UNCHANGED <<phase, files>>,
             reader' = [reader EXCEPT ![p][s] = v]
      PROVE  Readers'
  BY <1>3, SetCell DEF TypeOK
<1>4. ASSUME NEW p \in Proc, NEW s \in Shard, ReadLock(p, s) \/ ReadSkip(p, s) \/ ReadFile(p, s) \/ ReadBreaks(p, s)
      PROVE  Readers'
  <2>1. phase[p] = "loading" /\ s \in files[p]
    BY <1>4 DEF ReadLock, ReadSkip, ReadFile, ReadBreaks
  <2>2. UNCHANGED <<phase, files>> /\ reader' \in {[reader EXCEPT ![p][s] = v] : v \in {"locked", "done"}}
    BY <1>4 DEF ReadLock, ReadSkip, ReadFile, ReadBreaks, ReadRecords
  <2> QED
    BY <1>3, <2>1, <2>2
<1>5. ASSUME NEW p \in Proc, NEW s \in Shard, Remove(p, s) \/ RemoveFails(p, s) PROVE Readers'
  <2>1. \A q \in Proc, z \in Shard : reader'[q][z] = IF q = p /\ z = s THEN "idle" ELSE reader[q][z]
    <3>1. reader' = [reader EXCEPT ![p][s] = "idle"]
      BY <1>5 DEF Remove, RemoveFails
    <3> QED
      BY <3>1, SetCell DEF TypeOK
  <2>2. phase' = phase /\ files' = [files EXCEPT ![p] = files[p] \ {s}]
    BY <1>5 DEF Remove, RemoveFails
  <2> QED
    BY <2>1, <2>2 DEF TypeOK
<1>6. ASSUME NEW p \in Proc, LoadEnd(p) PROVE Readers'
  BY <1>6 DEF LoadEnd, TypeOK, loading
<1>7. ASSUME NEW p \in Proc, StoreBegin(p) PROVE Readers'
  BY <1>7 DEF StoreBegin, TypeOK, loading
<1>8. ASSUME NEW p \in Proc, End(p) PROVE Readers'
  BY <1>8 DEF End, TypeOK
<1> QED
  BY <1>1, <1>2, <1>4, <1>5, <1>6, <1>7, <1>8
  DEF Next, Load, LoadShard, StoreShard, Announce, Leave, SaveBegin, SaveEnd, OpenLock, Lock, Truncate, Write,
      Close, StoreFails, WriteFails, StoreEnd, Crash, ReadPanics, Killed, Advance, vars, loading

(* The invariant of launches and stores that do not overlap. *)
BaseInv == TypeOK /\ NameThere /\ Reachable /\ Readers /\ Discipline

LEMMA BaseInit == Init => BaseInv
<1> SUFFICES ASSUME Init PROVE BaseInv
  OBVIOUS
<1>1. TypeOK
  BY TypeInit
<1>2. /\ \A w \in Store, s \in Shard : writer[w][s] = "idle" /\ ~linked[w][s]
      /\ \A p \in Proc, s \in Shard : reader[p][s] = "idle"
      /\ \A p \in Proc : phase[p] = "down"
      /\ \A s \in Shard : wlock[s] = None
  BY DEF Init, All
<1>3. Reachable
  BY DEF Init, NoPeers, Reachable
<1> QED
  BY <1>1, <1>2, <1>3 DEF BaseInv, NameThere, Readers, Discipline, Alone, OwnShards, Cleared, Locks, InFile

LEMMA BaseNext == ASSUME Overlaps = {}, BaseInv, [Next]_vars PROVE BaseInv'
BY TypeNext, NameThereNext, ReachableNext, ReadersNext, DisciplineNext DEF BaseInv

(* Nothing but a process that serves or leaves stores, and alone. *)
LEMMA StoringIs ==
  ASSUME BaseInv, NEW p \in Proc, phase[p] \in {"serving", "leaving"}
  PROVE  /\ \A q \in Proc \ {p} : phase[q] = "down"
         /\ \A w \in Store : Storing(w) => w[1] = p
BY StoreOf DEF BaseInv, Discipline, Alone, Storing, PhaseOf

(* Appending adds one element. *)
LEMMA AppendElements ==
  ASSUME NEW S, NEW f \in Seq(S), NEW e \in S, NEW r
  PROVE  (\E i \in DOMAIN Append(f, e) : Append(f, e)[i] = r) <=> (\E i \in DOMAIN f : f[i] = r) \/ r = e
<1>1. /\ DOMAIN f = 1..Len(f) /\ DOMAIN Append(f, e) = 1..(Len(f) + 1) /\ Len(f) \in Nat
      /\ \A i \in 1..Len(f) : Append(f, e)[i] = f[i]
      /\ Append(f, e)[Len(f) + 1] = e
  OBVIOUS
<1>2. \A i \in 1..(Len(f) + 1) : i \in 1..Len(f) \/ i = Len(f) + 1
  BY <1>1
<1>3. Len(f) + 1 \in 1..(Len(f) + 1) /\ \A i \in 1..Len(f) : i \in 1..(Len(f) + 1)
  BY <1>1
<1> QED
  BY <1>1, <1>2, <1>3

-----------------------------------------------------------------------------
(* No stale shard.                                                         *)

InMem(p, r) == mem[p][pickWorker(p, r.key)][r.key] = r.seen

(* The files hold what the last complete store held, or what the one under *)
(* way has written; the shards that it is done with hold nothing else; all *)
(* this but for files that failures have left.                             *)
FilesHeld ==
  \A s \in Shard, r \in Record : InFile(s, r) =>
    r \in held \cup stuck \/ (r \in fresh /\ \E w \in Store : Storing(w))
Rewritten ==
  \A w \in Store, s \in Shard, r \in Record :
    writer[w][s] \in {"writing", "done"} /\ InFile(s, r) => r \in fresh \cup stuck
FreshHeld == (\A w \in Store : ~Storing(w)) => fresh \subseteq held

(* So does the memory of a process that loads; and what is in memory       *)
(* during a store is remembered.                                           *)
LoadedHeld ==
  \A p \in Proc, r \in Record : InMem(p, r) =>
    phase[p] # "down" /\ (phase[p] = "loading" => r \in held \cup stuck)
StoredFresh ==
  \A w \in Store, r \in Record : Storing(w) /\ InMem(w[1], r) => r \in fresh
StaleInv == FilesHeld /\ Rewritten /\ FreshHeld /\ LoadedHeld /\ StoredFresh

LEMMA StaleInit == Init => StaleInv
<1> SUFFICES ASSUME Init PROVE StaleInv
  OBVIOUS
<1>1. \A p \in Proc, r \in Record : ~InMem(p, r)
  BY WorkerIsShard, PersistAssumption DEF Init, InMem, NoPeers, Record
<1>2. \A s \in Shard, r \in Record : ~InFile(s, r)
  BY DEF Init, InFile
<1>3. \A w \in Store : ~Storing(w)
  BY DEF Init, Storing, All
<1> QED
  BY <1>1, <1>2, <1>3 DEF Init, StaleInv, FilesHeld, Rewritten, FreshHeld, LoadedHeld, StoredFresh

(* Memory holds a record or does not. *)
LEMMA InMemType ==
  ASSUME TypeOK, NEW p \in Proc, NEW k \in Key, mem[p][pickWorker(p, k)][k] # None
  PROVE  /\ [key |-> k, seen |-> mem[p][pickWorker(p, k)][k]] \in Record
         /\ InMem(p, [key |-> k, seen |-> mem[p][pickWorker(p, k)][k]])
BY WorkerIsShard DEF TypeOK, Record, InMem

LEMMA HeldIs ==
  ASSUME TypeOK, NEW p \in Proc
  PROVE  \A r \in Record : r \in Held(p) <=> InMem(p, r)
<1> SUFFICES ASSUME NEW r \in Record PROVE r \in Held(p) <=> InMem(p, r)
  OBVIOUS
<1>1. r.key \in Key /\ r.seen \in Nat /\ r.seen # None /\ r = [key |-> r.key, seen |-> r.seen]
  BY PersistAssumption DEF Record
<1>2. ASSUME r \in Held(p) PROVE InMem(p, r)
  <2>1. PICK k \in Key : r = [key |-> k, seen |-> mem[p][pickWorker(p, k)][k]]
    BY <1>2 DEF Held
  <2>2. r.key = k /\ r.seen = mem[p][pickWorker(p, k)][k]
    BY <2>1
  <2> QED
    BY <2>2 DEF InMem
<1>3. ASSUME InMem(p, r) PROVE r \in Held(p)
  BY <1>1, <1>3 DEF Held, InMem
<1> QED
  BY <1>2, <1>3

(* Serving. *)
LEMMA StaleServe ==
  ASSUME BaseInv, StaleInv, NEW p \in Proc, NEW k \in Key, Announce(p, k) \/ Leave(p, k)
  PROVE  StaleInv'
<1> USE DEF StaleInv
<1>1. /\ phase[p] \in {"serving", "leaving"} /\ UNCHANGED <<phase, file, writer, held, stuck>>
      /\ fresh \subseteq fresh'
      /\ fresh' = fresh \/ Storing(Save(p)) \/ Storing(Exit(p))
  BY DEF Announce, Leave, disk, storing
<1>2. PICK v \in Nat \cup {None} :
        /\ mem' = [mem EXCEPT ![p][pickWorker(p, k)][k] = v]
        /\ v # None => v = now /\ (Storing(Save(p)) \/ Storing(Exit(p)) => [key |-> k, seen |-> v] \in fresh')
  BY PersistAssumption DEF Announce, Leave, BaseInv, TypeOK
<1>3. \A q \in Proc, z \in Shard, j \in Key :
        mem'[q][z][j] = IF q = p /\ z = pickWorker(p, k) /\ j = k THEN v ELSE mem[q][z][j]
  BY <1>2, SetMem, WorkerIsShard DEF BaseInv, TypeOK, MemType
<1>4. ASSUME NEW q \in Proc, NEW r \in Record, InMem(q, r)'
      PROVE  InMem(q, r) \/ (q = p /\ r = [key |-> k, seen |-> v] /\ v # None)
  <2>1. r.key \in Key /\ r.seen \in Nat /\ r.seen # None /\ r = [key |-> r.key, seen |-> r.seen]
    BY PersistAssumption DEF Record
  <2>2. pickWorker(q, r.key) \in Shard /\ mem'[q][pickWorker(q, r.key)][r.key] = r.seen
    BY <1>4, <2>1, WorkerIsShard DEF InMem, pickWorker
  <2>3. CASE q = p /\ r.key = k
    BY <1>3, <2>1, <2>2, <2>3
  <2>4. CASE ~(q = p /\ r.key = k)
    BY <1>3, <2>1, <2>2, <2>4 DEF InMem
  <2> QED
    BY <2>3, <2>4
<1>5. \A s, r : InFile(s, r)' <=> InFile(s, r)
  BY <1>1 DEF InFile
<1>6. \A w : Storing(w)' <=> Storing(w)
  BY <1>1 DEF Storing
<1>7. FilesHeld' /\ Rewritten' /\ FreshHeld'
  BY <1>1, <1>5, <1>6, StoreOf DEF FilesHeld, Rewritten, FreshHeld
<1>8. LoadedHeld'
  BY <1>1, <1>4 DEF LoadedHeld
<1>9. StoredFresh'
  <2> SUFFICES ASSUME NEW w \in Store, NEW r \in Record, Storing(w), InMem(w[1], r)'
               PROVE  r \in fresh'
    BY <1>6 DEF StoredFresh
  <2>1. CASE InMem(w[1], r)
    BY <1>1, <2>1 DEF StoredFresh
  <2>2. CASE ~InMem(w[1], r)
    BY <1>2, <1>4, <2>2, StoreOf
  <2> QED
    BY <2>1, <2>2
<1> QED
  BY <1>7, <1>8, <1>9

(* A step that stores nothing and brings no record into a file. *)
LEMMA StaleQuiet ==
  ASSUME StaleInv, UNCHANGED <<mem, held, fresh, writer>>, stuck \subseteq stuck',
         \A s \in Shard, r \in Record : InFile(s, r)' => InFile(s, r),
         \A p \in Proc : phase'[p] = phase[p] \/ phase[p] = "down" \/ phase'[p] = "serving"
  PROVE  StaleInv'
<1>1. \A p, r : InMem(p, r)' <=> InMem(p, r)
  BY DEF InMem, pickWorker
<1>2. \A w : Storing(w)' <=> Storing(w)
  BY DEF Storing
<1> QED
  BY <1>1, <1>2 DEF StaleInv, FilesHeld, Rewritten, FreshHeld, LoadedHeld, StoredFresh

LEMMA NoStoring ==
  ASSUME BaseInv, NEW p \in Proc, phase[p] = "loading"
  PROVE  /\ \A w \in Store : ~Storing(w)
         /\ \A q \in Proc \ {p} : phase[q] = "down"
<1>1. \A q \in Proc : phase[q] # "down" => q = p
  BY DEF BaseInv, Discipline, Alone
<1> QED
  BY <1>1, NoStoreWhileLoading DEF BaseInv, Storing

LEMMA StaleLoad ==
  ASSUME BaseInv, StaleInv, NEW p \in Proc, Start(p) \/ LoadEnd(p) \/ \E s \in Shard : LoadShard(p, s)
  PROVE  StaleInv'
<1>1. CASE Start(p)
  BY <1>1, StaleQuiet DEF Start, BaseInv, TypeOK, disk, storing, history, InFile
<1>2. ASSUME NEW s \in Shard, ReadLock(p, s) PROVE StaleInv'
  <2>1. \A z \in Shard, r \in Record : InFile(z, r)' => InFile(z, r)
    <3>1. DOMAIN <<>> = {}
      OBVIOUS
    <3> QED
      BY <1>2, <3>1 DEF ReadLock, InFile, BaseInv, TypeOK
  <2> QED
    BY <1>2, <2>1, StaleQuiet DEF ReadLock, storing, history
<1>3. ASSUME NEW s \in Shard, ReadSkip(p, s) PROVE StaleInv'
  BY <1>3, StaleQuiet DEF ReadSkip, disk, storing, history, InFile
<1>4. ASSUME NEW s \in Shard, ReadFile(p, s) \/ ReadBreaks(p, s) PROVE StaleInv'
  <2>0. PICK f : PartRead(p, s, f)
    BY <1>4, ReadIsPart DEF BaseInv
  <2>1. /\ phase[p] = "loading" /\ UNCHANGED <<phase, file, writer, held, fresh, stuck>>
        /\ \A w \in Store : ~Storing(w) /\ ~Storing(w)'
    BY <1>4, <2>0, NoStoring DEF ReadFile, ReadBreaks, PartRead, ReadRecords, BaseInv, Readers, storing, Storing
  <2>2. \A z, r : InFile(z, r)' <=> InFile(z, r)
    BY <2>1 DEF InFile
  <2>3. ASSUME NEW q \in Proc, NEW r \in Record, InMem(q, r)', ~InMem(q, r)
        PROVE  q = p /\ InFile(s, r)
    <3>1. r.key \in Key /\ r = [key |-> r.key, seen |-> r.seen]
      BY DEF Record
    <3>2. mem'[q][pickWorker(q, r.key)][r.key] = r.seen /\ pickWorker(q, r.key) \in Shard
      BY <2>3, <3>1, WorkerIsShard DEF InMem, pickWorker
    <3>3. q = p /\ \E i \in DOMAIN f : f[i].key = r.key /\ f[i].seen = r.seen
      BY <2>0, <2>3, <3>1, <3>2, ReadRecordsIs DEF InMem, BaseInv, PartRead
    <3>4. PICK i \in DOMAIN f : f[i].key = r.key /\ f[i].seen = r.seen
      BY <3>3
    <3>5. f[i] \in Record /\ f[i] \in RecordsIn(Content(s))
      BY <2>0 DEF PartRead
    <3>6. f[i] = r
      BY <3>4, <3>5 DEF Record
    <3> QED
      BY <3>3, <3>5, <3>6, ContentIs DEF BaseInv
  <2>4. LoadedHeld'
    BY <2>1, <2>3 DEF StaleInv, LoadedHeld, FilesHeld
  <2> QED
    BY <2>1, <2>2, <2>4 DEF StaleInv, FilesHeld, Rewritten, FreshHeld, StoredFresh
<1>5. ASSUME NEW s \in Shard, Remove(p, s) \/ RemoveFails(p, s) PROVE StaleInv'
  BY <1>5, StaleQuiet DEF Remove, RemoveFails, history, disk, storing, InFile, BaseInv, TypeOK
<1>6. CASE LoadEnd(p)
  BY <1>6, StaleQuiet DEF LoadEnd, disk, storing, InFile, BaseInv, TypeOK
<1> QED
  BY <1>1, <1>2, <1>3, <1>4, <1>5, <1>6 DEF LoadShard

(* A store begins when no other is under way. *)
LEMMA BeginsAlone ==
  ASSUME BaseInv, Overlaps = {}, NEW p \in Proc, SaveBegin(p) \/ StoreBegin(p)
  PROVE  /\ \A w \in Store : ~Storing(w)
         /\ \E w \in Store :
              /\ w[1] = p
              /\ \A v \in Store, s \in Shard : writer'[v][s] = IF v = w THEN Jobs(p)[s] ELSE writer[v][s]
<1>1. phase[p] = "serving" /\ ~Storing(Save(p))
  BY DEF SaveBegin, StoreBegin
<1>2. \A w \in Store : ~Storing(w)
  <2> SUFFICES ASSUME NEW w \in Store, Storing(w) PROVE FALSE
    OBVIOUS
  <2>1. w[1] = p /\ phase[w[1]] = PhaseOf(w)
    BY <1>1, OneStore DEF BaseInv, Discipline
  <2> QED
    BY <1>1, <2>1, StoreOf DEF PhaseOf
<1>3. \E w \in Store :
        /\ w[1] = p
        /\ \A v \in Store, s \in Shard : writer'[v][s] = IF v = w THEN Jobs(p)[s] ELSE writer[v][s]
  <2>1. CASE SaveBegin(p)
    BY <2>1, StoreOf DEF SaveBegin, BaseInv, TypeOK
  <2>2. CASE StoreBegin(p)
    BY <2>2, StoreOf DEF StoreBegin, BaseInv, TypeOK
  <2> QED
    BY <2>1, <2>2
<1> QED
  BY <1>2, <1>3

LEMMA StaleBegin ==
  ASSUME BaseInv, StaleInv, BaseInv', Overlaps = {}, NEW p \in Proc, SaveBegin(p) \/ StoreBegin(p)
  PROVE  StaleInv'
<1>1. /\ phase[p] = "serving" /\ ~Storing(Save(p)) /\ Promise(p)
      /\ UNCHANGED <<mem, file>> /\ phase'[p] \in {"serving", "leaving"}
  BY DEF SaveBegin, StoreBegin, BaseInv, TypeOK, disk
<1>2. \A w \in Store : ~Storing(w)
  BY BeginsAlone
<1>3. PICK w \in Store :
        /\ w[1] = p
        /\ \A v \in Store, s \in Shard : writer'[v][s] = IF v = w THEN Jobs(p)[s] ELSE writer[v][s]
  BY BeginsAlone
<1>4. \A s \in Shard, r \in Record : InFile(s, r)' =>
        InFile(s, r) /\ r \in held \cup stuck /\ (s < Shards[p] \/ r \in stuck)
  <2>1. \A s \in Shard, r \in Record : InFile(s, r)' => InFile(s, r)
    BY <1>1 DEF InFile
  <2> QED
    BY <1>1, <1>2, <2>1 DEF StaleInv, FilesHeld, BaseInv, Discipline, Cleared
<1>5. \A q \in Proc : \A r : InMem(q, r)' <=> InMem(q, r)
  BY <1>1 DEF InMem, pickWorker
<1>6. FilesHeld'
  BY <1>1, <1>4 DEF FilesHeld, Promise
<1>7. Rewritten'
  BY <1>1, <1>2, <1>3, <1>4 DEF Rewritten, Jobs, Storing, Promise
<1>10. FreshHeld'
  <2>1. 0 \in Shard /\ 0 < Shards[p]
    BY PersistAssumption DEF Shard
  <2>2. writer'[w][0] = "begin"
    BY <1>3, <2>1 DEF Jobs
  <2> QED
    BY <2>1, <2>2 DEF FreshHeld, Storing
<1>8. LoadedHeld'
  <2>1. \A q \in Proc : phase'[q] = phase[q] \/ q = p
    BY DEF SaveBegin, StoreBegin, BaseInv, TypeOK
  <2> QED
    BY <1>1, <1>5, <2>1 DEF StaleInv, LoadedHeld, Promise
<1>9. StoredFresh'
  <2>1. \A v \in Store : Storing(v)' => v[1] = p
    BY <1>2, <1>3 DEF Storing
  <2>2. \A r \in Record : InMem(p, r) => r \in Held(p)
    BY HeldIs DEF BaseInv
  <2> QED
    BY <1>1, <1>5, <2>1, <2>2 DEF StoredFresh, Promise
<1> QED
  BY <1>6, <1>7, <1>8, <1>9, <1>10 DEF StaleInv

(* A store that is complete has rewritten every file that it could. *)
LEMMA DoneRewrote ==
  ASSUME BaseInv, StaleInv, NEW w \in Store, Done(w)
  PROVE  /\ Storing(w)
         /\ \A s \in Shard, r \in Record : InFile(s, r) => r \in fresh \cup stuck
<1>1. 0 \in Shard
  BY StoreOf, PersistAssumption DEF Shard
<1> QED
  BY <1>1 DEF Done, Storing, StaleInv, Rewritten

LEMMA StaleSaveEnd ==
  ASSUME BaseInv, StaleInv, NEW p \in Proc, SaveEnd(p)
  PROVE  StaleInv'
<1>1. Done(Save(p)) /\ Save(p) \in Store
  BY StoreOf DEF SaveEnd
<1>2. phase[p] = "serving" /\ \A q \in Proc \ {p} : phase[q] = "down"
  BY <1>1, DoneRewrote, OneStore, StoreOf DEF BaseInv, Discipline, PhaseOf
<1>3. /\ UNCHANGED <<phase, mem, file, fresh, stuck>> /\ held' = fresh
      /\ \A v \in Store, s \in Shard : writer'[v][s] = IF v = Save(p) THEN "idle" ELSE writer[v][s]
  BY <1>1, <1>2 DEF SaveEnd, disk, BaseInv, TypeOK
<1>4. \A q \in Proc : \A r : InMem(q, r)' <=> InMem(q, r)
  BY <1>3 DEF InMem, pickWorker
<1>5. \A s, r : InFile(s, r)' <=> InFile(s, r)
  BY <1>3 DEF InFile
<1>6. \A v \in Store : Storing(v)' => Storing(v)
  BY <1>3 DEF Storing
<1>7. FilesHeld'
  BY <1>1, <1>3, <1>5, DoneRewrote DEF FilesHeld
<1> QED
  BY <1>2, <1>3, <1>4, <1>5, <1>6, <1>7, StoreOf
  DEF StaleInv, Rewritten, FreshHeld, LoadedHeld, StoredFresh

(* A write that fails leaves records that were there. *)
LEMMA CutShort ==
  ASSUME TypeOK, NEW w \in Store, NEW s \in Shard, WriteFails(w, s), NEW r \in Record, InFile(s, r)'
  PROVE  InFile(s, r)
<1>1. PICK n \in 0..Len(Content(s)) :
        file' = IF linked[w][s] THEN [file EXCEPT ![s] = SubSeq(Content(s), 1, n)] ELSE file
  BY DEF WriteFails
<1>2. CASE ~linked[w][s]
  BY <1>1, <1>2 DEF InFile
<1>3. CASE linked[w][s]
  <2> DEFINE f == SubSeq(Content(s), 1, n)
  <2>1. Content(s) \in Seq(Record)
    BY ContentIs
  <2>2. f \in Seq(Record) /\ Len(f) = n /\ \A i \in 1..n : f[i] = Content(s)[i]
    BY <2>1, FirstRecords
  <2>3. file'[s] = f
    BY <1>1, <1>3 DEF TypeOK
  <2> HIDE DEF f
  <2>4. PICK i \in DOMAIN f : f[i] = r
    BY <2>3 DEF InFile
  <2>5. i \in DOMAIN Content(s) /\ Content(s)[i] = r
    BY <2>1, <2>2, <2>4
  <2> QED
    BY <2>5, ContentIs DEF RecordsIn
<1> QED
  BY <1>2, <1>3

LEMMA StaleStore ==
  ASSUME BaseInv, StaleInv, NEW w \in Store, NEW s \in Shard, StoreShard(w, s)
  PROVE  StaleInv'
<1>1. /\ UNCHANGED <<phase, mem, held, fresh>> /\ writer[w][s] # "idle" /\ stuck \subseteq stuck'
      /\ \A v \in Store, z \in Shard : (v # w \/ z # s) => writer'[v][z] = writer[v][z]
      /\ writer'[w][s] # "idle"
      /\ writer'[w][s] \in {"writing", "done"} =>
           Truncate(w, s) \/ StoreFails(w, s) \/ writer[w][s] \in {"writing", "done"}
  BY DEF StoreShard, OpenLock, Lock, Truncate, Write, Close, StoreFails, WriteFails, history, BaseInv, TypeOK
<1>2. ASSUME NEW z \in Shard, NEW r \in Record, InFile(z, r)'
      PROVE  InFile(z, r) \/ (z = s /\ r \in fresh)
  <2>1. CASE OpenLock(w, s) \/ Truncate(w, s)
    <3>1. DOMAIN <<>> = {}
      OBVIOUS
    <3> QED
      BY <1>2, <2>1, <3>1 DEF OpenLock, Truncate, InFile, BaseInv, TypeOK
  <2>2. CASE Lock(w, s) \/ Close(w, s) \/ StoreFails(w, s)
    BY <1>2, <2>2 DEF Lock, Close, StoreFails, InFile
  <2>4. CASE WriteFails(w, s)
    <3>1. CASE z = s
      BY <1>2, <2>4, <3>1, CutShort DEF BaseInv
    <3>2. CASE z # s
      BY <1>2, <2>4, <3>2 DEF WriteFails, InFile, BaseInv, TypeOK
    <3> QED
      BY <3>1, <3>2
  <2>3. CASE Write(w, s)
    <3>1. PICK k \in left[w][s] : Appended(w, s, k)
      BY <2>3, WriteAppends DEF BaseInv
    <3>2. CASE file' = file
      BY <1>2, <3>2 DEF InFile
    <3>3. CASE file' # file
      <4> DEFINE e == Written(w[1], s, k)
      <4>1. /\ k \in Key /\ mem[w[1]][s][k] \in Nat /\ file[s] \in Seq(Record)
            /\ file' = [file EXCEPT ![s] = Append(file[s], e)]
        BY <3>1, <3>3 DEF Appended
      <4>2. s = pickWorker(w[1], k)
        BY <4>1, StoreOf, PersistAssumption DEF BaseInv, Reachable
      <4>3. e \in Record /\ InMem(w[1], e)
        BY <4>1, <4>2 DEF Written, Record, InMem
      <4>4. e \in fresh
        BY <1>1, <4>3 DEF StaleInv, StoredFresh, Storing
      <4> HIDE DEF e
      <4>5. CASE z = s
        <5>1. file'[s] = Append(file[s], e) /\ file[s] # None
          BY <4>1, PersistAssumption DEF BaseInv, TypeOK
        <5>2. (\E i \in DOMAIN file[s] : file[s][i] = r) \/ r = e
          BY <1>2, <4>1, <4>3, <4>5, <5>1, AppendElements DEF InFile
        <5> QED
          BY <4>4, <4>5, <5>1, <5>2 DEF InFile
      <4>6. CASE z # s
        BY <1>2, <4>1, <4>6 DEF InFile, BaseInv, TypeOK
      <4> QED
        BY <4>5, <4>6
    <3> QED
      BY <3>2, <3>3
  <2> QED
    BY <2>1, <2>2, <2>3, <2>4 DEF StoreShard
<1>3. \A p \in Proc : \A r : InMem(p, r)' <=> InMem(p, r)
  BY <1>1 DEF InMem, pickWorker
<1>4. Storing(w) /\ \A v \in Store : Storing(v)' <=> Storing(v)
  BY <1>1 DEF Storing
<1>5. FilesHeld'
  BY <1>1, <1>2, <1>4 DEF StaleInv, FilesHeld
<1>6. Rewritten'
  <2> SUFFICES ASSUME NEW v \in Store, NEW z \in Shard, NEW r \in Record,
                      writer'[v][z] \in {"writing", "done"}, InFile(z, r)'
               PROVE  r \in fresh \cup stuck'
    BY <1>1 DEF Rewritten
  <2>1. CASE writer[v][z] \in {"writing", "done"}
    BY <1>1, <1>2, <2>1 DEF StaleInv, Rewritten
  <2>2. CASE writer[v][z] \notin {"writing", "done"}
    <3>1. v = w /\ z = s
      BY <1>1, <2>2
    <3>2. CASE Truncate(w, s)
      <4>1. file'[s] = <<>> /\ DOMAIN <<>> = {}
        BY <3>2 DEF Truncate, BaseInv, TypeOK
      <4> QED
        BY <3>1, <4>1 DEF InFile
    <3>3. CASE StoreFails(w, s)
      <4>1. file' = file /\ stuck' = stuck \cup RecordsIn(Content(s))
        BY <3>3 DEF StoreFails
      <4>2. InFile(s, r)
        BY <3>1, <4>1 DEF InFile
      <4> QED
        BY <4>1, <4>2, ContentIs DEF BaseInv
    <3> QED
      BY <1>1, <2>2, <3>1, <3>2, <3>3
  <2> QED
    BY <2>1, <2>2
<1>7. LoadedHeld' /\ StoredFresh' /\ FreshHeld'
  BY <1>1, <1>3, <1>4, StoreOf DEF StaleInv, LoadedHeld, StoredFresh, FreshHeld
<1> QED
  BY <1>5, <1>6, <1>7 DEF StaleInv

LEMMA StaleEnd ==
  ASSUME BaseInv, StaleInv, NEW p \in Proc, Ends(p)
  PROVE  StaleInv'
<1>1. End(p) /\ UNCHANGED <<file, fresh, stuck>> /\ (StoreEnd(p) \/ Killed(p))
  BY DEF Ends, StoreEnd, Crash, ReadPanics, Killed, End
<1>2. /\ \A q \in Proc : phase'[q] = IF q = p THEN "down" ELSE phase[q]
      /\ \A q \in Proc : mem'[q] = IF q = p THEN NoPeers ELSE mem[q]
  BY <1>1 DEF End, BaseInv, TypeOK
<1>3. \A w \in Store, s \in Shard : writer'[w][s] = "idle" \/ writer'[w][s] = writer[w][s]
  BY <1>1 DEF End
<1>4. \A q \in Proc, r \in Record : InMem(q, r)' => q # p /\ InMem(q, r)
  <2>1. ASSUME NEW r \in Record PROVE ~InMem(p, r)'
    <3>1. r.key \in Key /\ r.seen # None
      BY PersistAssumption DEF Record
    <3>2. mem'[p][pickWorker(p, r.key)][r.key] = None
      BY <1>2, <3>1, WorkerIsShard DEF NoPeers
    <3> QED
      BY <3>1, <3>2 DEF InMem, pickWorker
  <2>2. ASSUME NEW q \in Proc, q # p, NEW r \in Record, InMem(q, r)' PROVE InMem(q, r)
    BY <1>2, <2>2 DEF InMem, pickWorker
  <2> QED
    BY <2>1, <2>2
<1>5. \A s, r : InFile(s, r)' <=> InFile(s, r)
  BY <1>1 DEF InFile
<1>6. \A w \in Store : Storing(w)' => Storing(w)
  BY <1>3 DEF Storing
<1>7. FilesHeld' /\ LoadedHeld' /\ FreshHeld'
  <2>1. CASE StoreEnd(p)
    <3>1. held' = fresh /\ Done(Exit(p)) /\ Exit(p) \in Store
      BY <2>1, StoreOf DEF StoreEnd
    <3>2. \A q \in Proc \ {p} : phase[q] = "down"
      BY <3>1, DoneRewrote, OneStore, StoreOf DEF BaseInv, Discipline, PhaseOf
    <3> QED
      BY <1>1, <1>2, <1>4, <1>5, <3>1, <3>2, DoneRewrote DEF FilesHeld, StaleInv, LoadedHeld, FreshHeld
  <2>2. CASE Killed(p)
    <3>1. held' = held \cup fresh
      BY <2>2 DEF Killed
    <3> QED
      BY <1>1, <1>2, <1>4, <1>5, <3>1 DEF StaleInv, FilesHeld, LoadedHeld, FreshHeld
  <2> QED
    BY <1>1, <2>1, <2>2
<1>8. Rewritten' /\ StoredFresh'
  BY <1>1, <1>3, <1>4, <1>5, <1>6, StoreOf DEF StaleInv, Rewritten, StoredFresh
<1> QED
  BY <1>7, <1>8 DEF StaleInv

LEMMA StaleNext ==
  ASSUME Overlaps = {}, BaseInv, BaseInv', StaleInv, [Next]_vars
  PROVE  StaleInv'
<1>1. CASE Advance
  BY <1>1, StaleQuiet DEF Advance, disk, storing, history, InFile
<1>2. CASE UNCHANGED vars
  BY <1>2, StaleQuiet DEF vars, disk, storing, history, InFile
<1> QED
  BY <1>1, <1>2, StaleServe, StaleLoad, StaleBegin, StaleSaveEnd, StaleStore, StaleEnd DEF Next, Load, Ends

(* Crashes, changes of the number of shards, saves cut short and failures  *)
(* notwithstanding, a launch that ends has in memory nothing but what was  *)
(* there during the last complete store or after it, and what is in files  *)
(* that could not be removed or opened for writing: LoadFromPersist has    *)
(* removed every other file that it found, and StoreToPersist truncated    *)
(* every other file of its shards (persist.go:31-222).  This needs that    *)
(* processes and stores do not overlap.                                    *)
THEOREM NeverStale ==
  ASSUME Overlaps = {}
  PROVE  Spec => NoStaleShard
<1>1. Init => BaseInv /\ StaleInv
  BY BaseInit, StaleInit
<1>2. BaseInv /\ StaleInv /\ [Next]_vars => (BaseInv /\ StaleInv)'
  BY BaseNext, StaleNext
<1>3. BaseInv /\ StaleInv => \A p \in Proc : LoadEnd(p) => Held(p) \subseteq held \cup stuck
  <2> SUFFICES ASSUME BaseInv, StaleInv, NEW p \in Proc, LoadEnd(p), NEW r \in Held(p) PROVE r \in held \cup stuck
    OBVIOUS
  <2>1. r \in Record /\ InMem(p, r)
    BY HeldType, HeldIs DEF BaseInv
  <2> QED
    BY <2>1 DEF LoadEnd, StaleInv, LoadedHeld
<1> QED
  BY <1>1, <1>2, <1>3, PTL DEF Spec, NoStaleShard

-----------------------------------------------------------------------------
(* Nothing is forgotten.                                                   *)

Filed(s, k) == \E r \in Record : r.key = k /\ r \in fresh /\ InFile(s, r)
Gone(k) == \E r \in held : r.key = k /\ Expired(r.seen, now)
Loaded(p, k) == mem[p][pickWorker(p, k)][k] # None

(* A promised key is in a file, or in the memory of the process that has   *)
(* loaded it, or has expired.                                              *)
Kept(k) ==
  \/ \E s \in Shard : Filed(s, k)
  \/ \E p \in Proc : phase[p] = "loading" /\ Loaded(p, k)
  \/ Gone(k)
WholeKept == whole => \A k \in promised : Kept(k)
WholeQuiet == \A w \in Store : Storing(w) => ~whole

(* A file that has been read may be removed. *)
ReadKept ==
  \A p \in Proc, s \in Shard, k \in promised :
    phase[p] = "loading" /\ reader[p][s] = "done" /\ Filed(s, k) => Loaded(p, k) \/ Gone(k)

(* What a store still has to keep is in memory, and no shard is done or    *)
(* passes a key without having written it.                                 *)
WriterKeeps(w, s, k) ==
  /\ writer[w][s] = "writing" => k \in left[w][s] \/ Filed(s, k)
  /\ writer[w][s] = "done" => Filed(s, k)
StoreKeeps ==
  \A w \in Store, k \in promised : Storing(w) =>
    Loaded(w[1], k) /\ WriterKeeps(w, pickWorker(w[1], k), k)
KeepInv == WholeKept /\ WholeQuiet /\ ReadKept /\ StoreKeeps
ReloadInv == BaseInv /\ StaleInv /\ KeepInv

LEMMA KeepInit == Init => KeepInv
<1> SUFFICES ASSUME Init PROVE KeepInv
  OBVIOUS
<1>1. \A w \in Store : ~Storing(w)
  BY DEF Init, Storing, All
<1>2. ~whole /\ \A p \in Proc : phase[p] = "down"
  BY DEF Init
<1> QED
  BY <1>1, <1>2 DEF KeepInv, WholeKept, WholeQuiet, ReadKept, StoreKeeps

(* A step that leaves files, stores and their history alone. *)
LEMMA KeepQuiet ==
  ASSUME ReloadInv, UNCHANGED <<file, writer, held, whole>>, promised' \subseteq promised, now \in Nat,
         now' = now \/ now' = now + 1, fresh \subseteq fresh',
         fresh' = fresh \/ \A p \in Proc : phase'[p] # "loading",
         \A w \in Store, s \in Shard, k \in promised' : k \in left[w][s] => k \in left'[w][s],
         \A p \in Proc : phase[p] = "loading" => phase'[p] = "loading",
         \A p \in Proc, s \in Shard : reader'[p][s] = "done" /\ phase'[p] = "loading" => phase[p] = "loading",
         \A p \in Proc, k \in Key : Loaded(p, k) /\ phase[p] = "loading" => Loaded(p, k)',
         \A p \in Proc, k \in promised' : Loaded(p, k) /\ (\E w \in Store : Storing(w) /\ w[1] = p) => Loaded(p, k)',
         \A p \in Proc, s \in Shard : reader'[p][s] = "done" => reader[p][s] = "done"
  PROVE  KeepInv'
<1>1. \A s, k : Filed(s, k) => Filed(s, k)'
  BY DEF Filed, InFile
<1>2. \A w : Storing(w)' <=> Storing(w)
  BY DEF Storing
<1>3. \A k : Gone(k) => Gone(k)'
  <2>1. \A r \in held : r.seen \in Nat
    BY DEF ReloadInv, BaseInv, TypeOK, Record
  <2>2. \A t \in Nat : Expired(t, now) => Expired(t, now')
    BY PersistAssumption DEF Expired
  <2>3. \A t : Expired(t, now)' <=> Expired(t, now')
    BY DEF Expired
  <2> QED
    BY <2>1, <2>2, <2>3 DEF Gone
<1>4. promised \subseteq Key
  BY DEF ReloadInv, BaseInv, TypeOK
<1>5. \A k \in Key : Kept(k) => Kept(k)'
  BY <1>1, <1>3 DEF Kept
<1>6. WholeKept' /\ WholeQuiet'
  BY <1>2, <1>4, <1>5 DEF ReloadInv, KeepInv, WholeKept, WholeQuiet
<1>7. ReadKept'
  <2>1. CASE fresh' = fresh
    <3>1. \A s, k : Filed(s, k)' <=> Filed(s, k)
      BY <2>1 DEF Filed, InFile
    <3> QED
      BY <1>3, <1>4, <3>1 DEF ReloadInv, KeepInv, ReadKept
  <2>2. CASE \A p \in Proc : phase'[p] # "loading"
    BY <2>2 DEF ReadKept
  <2> QED
    BY <2>1, <2>2
<1>8. \A p, k : pickWorker(p, k)' = pickWorker(p, k)
  BY DEF pickWorker
<1>9. \A w \in Store, s \in Shard, k \in promised' : WriterKeeps(w, s, k) => WriterKeeps(w, s, k)'
  BY <1>1 DEF WriterKeeps
<1>10. StoreKeeps'
  <2> SUFFICES ASSUME NEW w \in Store, NEW k \in promised', Storing(w)
               PROVE  Loaded(w[1], k)' /\ WriterKeeps(w, pickWorker(w[1], k), k)'
    BY <1>2, <1>8 DEF StoreKeeps
  <2>1. k \in promised /\ k \in Key /\ w[1] \in Proc
    BY <1>4, StoreOf
  <2>2. Loaded(w[1], k) /\ WriterKeeps(w, pickWorker(w[1], k), k)
    BY <2>1 DEF ReloadInv, KeepInv, StoreKeeps
  <2>3. pickWorker(w[1], k) \in Shard
    BY <2>1, WorkerIsShard
  <2>4. Loaded(w[1], k)'
    BY <2>1, <2>2
  <2>5. PICK z \in Shard : z = pickWorker(w[1], k)
    BY <2>3
  <2>6. WriterKeeps(w, z, k)'
    BY <1>9, <2>2, <2>5
  <2> QED
    BY <1>8, <2>4, <2>5, <2>6 DEF WriterKeeps, pickWorker
<1> QED
  BY <1>6, <1>7, <1>10 DEF KeepInv

(* While a process serves or leaves nobody loads. *)
LEMMA NobodyLoads ==
  ASSUME BaseInv, NEW p \in Proc, phase[p] \in {"serving", "leaving"}
  PROVE  \A q \in Proc : phase[q] # "loading"
BY DEF BaseInv, Discipline, Alone

LEMMA KeepServe ==
  ASSUME ReloadInv, NEW p \in Proc, NEW k \in Key, Announce(p, k) \/ Leave(p, k)
  PROVE  KeepInv'
<1>1. /\ phase[p] \in {"serving", "leaving"} /\ promised' \subseteq promised
      /\ UNCHANGED <<phase, file, writer, held, whole, now, reader>> /\ fresh \subseteq fresh'
  BY DEF Announce, Leave, disk, storing, loading, bounds
<1>2. now \in Nat /\ mem \in MemType /\ pickWorker(p, k) \in Shard
  BY WorkerIsShard DEF ReloadInv, BaseInv, TypeOK, MemType
<1>3. PICK v \in Nat \cup {None} :
        /\ mem' = [mem EXCEPT ![p][pickWorker(p, k)][k] = v]
        /\ v = None => Leave(p, k)
  BY <1>2, PersistAssumption DEF Announce, Leave
<1>4. \A q \in Proc, z \in Shard, j \in Key :
        mem'[q][z][j] = IF q = p /\ z = pickWorker(p, k) /\ j = k THEN v ELSE mem[q][z][j]
  BY <1>2, <1>3, SetMem
<1>5. ASSUME NEW q \in Proc, NEW j \in Key, Loaded(q, j) PROVE Loaded(q, j)' \/ (q = p /\ j = k /\ Leave(p, k))
  BY <1>3, <1>4, <1>5, WorkerIsShard DEF Loaded, pickWorker
<1>6. \A q \in Proc, j \in Key : Loaded(q, j) /\ phase[q] = "loading" => Loaded(q, j)'
  BY <1>1, <1>5
<1>7. ASSUME NEW q \in Proc, NEW j \in promised', Loaded(q, j), NEW w \in Store, Storing(w), w[1] = q
      PROVE  Loaded(q, j)'
  <2>1. w[1] = p
    BY <1>1, <1>7, StoringIs DEF ReloadInv
  <2>2. Leave(p, k) => j # k
    BY <1>7, <2>1, StoreOf DEF Leave
  <2>3. j \in Key
    BY <1>1, <1>7 DEF ReloadInv, BaseInv, TypeOK
  <2> QED
    BY <1>5, <1>7, <2>2, <2>3
<1>8. ASSUME NEW w \in Store, NEW s \in Shard, NEW j \in promised', j \in left[w][s]
      PROVE  j \in left'[w][s]
  <2>1. CASE Leave(p, k)
    BY <1>8, <2>1 DEF Leave, storing
  <2>2. CASE Announce(p, k)
    <3> DEFINE z == pickWorker(p, k)
               ranging == {u \in Store : u[1] = p /\ writer[u][z] = "writing"}
    <3>1. PICK meets \in SUBSET {u \in ranging : k \notin ahead[u][z]} :
            left' = [u \in Store |-> [left[u] EXCEPT ![z] =
                      IF u \in meets THEN @ \cup {k} ELSE IF u \in ranging THEN @ \ {k} ELSE @]]
      BY <2>2 DEF Announce
    <3>2. CASE j = k /\ w \in ranging
      <4>1. Storing(w) /\ w[1] = p /\ k \in promised
        BY <1>1, <1>2, <3>2, <1>8 DEF Storing
      <4>2. Loaded(p, k)
        BY <4>1 DEF ReloadInv, KeepInv, StoreKeeps
      <4> QED
        BY <2>2, <4>2 DEF Announce, Loaded
    <3>3. CASE ~(j = k /\ w \in ranging)
      <4>1. left[w] \in [Shard -> SUBSET Key]
        BY DEF ReloadInv, BaseInv, TypeOK
      <4>2. left'[w] = [left[w] EXCEPT ![z] =
                IF w \in meets THEN left[w][z] \cup {k} ELSE IF w \in ranging THEN left[w][z] \ {k} ELSE left[w][z]]
        BY <1>2, <3>1, <4>1
      <4> HIDE DEF ranging, z
      <4>3. CASE s = z
        BY <1>8, <3>3, <4>1, <4>2, <4>3
      <4>4. CASE s # z
        BY <1>8, <4>1, <4>2, <4>4
      <4> QED
        BY <4>3, <4>4
    <3> QED
      BY <3>2, <3>3
  <2> QED
    BY <2>1, <2>2
<1>9. \A q \in Proc : phase'[q] # "loading"
  BY <1>1, NobodyLoads DEF ReloadInv
<1> QED
  BY <1>1, <1>2, <1>6, <1>7, <1>8, <1>9, KeepQuiet

LEMMA ReadableAll ==
  ASSUME Long = {}, NEW f \in Seq(Record)
  PROVE  Readable(f) = DOMAIN f
BY DEF Readable

LEMMA KeepLoad ==
  ASSUME ReloadInv, Long = {}, NEW p \in Proc, Start(p) \/ LoadEnd(p) \/ \E s \in Shard : LoadShard(p, s)
  PROVE  KeepInv'
<1> USE DEF ReloadInv
<1>0. \A q, k : pickWorker(q, k)' = pickWorker(q, k)
  BY DEF pickWorker
<1>1. CASE Start(p)
  <2>1. /\ UNCHANGED <<file, writer, left, held, whole, promised, fresh, now, mem, reader>>
        /\ phase[p] = "down" /\ \A q \in Proc : phase'[q] = IF q = p THEN "loading" ELSE phase[q]
    BY <1>1 DEF Start, disk, storing, history, BaseInv, TypeOK
  <2>2. \A q, k : Loaded(q, k)' <=> Loaded(q, k)
    BY <1>0, <2>1 DEF Loaded
  <2>3. \A s \in Shard : reader[p][s] = "idle"
    BY <2>1 DEF BaseInv, Readers
  <2>4. now \in Nat
    BY DEF BaseInv, TypeOK
  <2> QED
    BY <2>1, <2>2, <2>3, <2>4, KeepQuiet
<1>2. ASSUME phase[p] = "loading"
      PROVE  /\ \A w \in Store : ~Storing(w) /\ \A s \in Shard : writer[w][s] = "idle"
             /\ \A q \in Proc \ {p} : phase[q] = "down"
             /\ \A s \in Shard : wlock[s] = None
  BY <1>2, NoStoring, NoStoreWhileLoading DEF BaseInv, Storing
<1>3. ASSUME phase[p] = "loading", UNCHANGED <<writer, phase, held, whole, now>>, promised' \subseteq promised,
             \A k \in Key : Loaded(p, k) => Loaded(p, k)',
             \A k \in promised', s \in Shard : Filed(s, k) => Filed(s, k)' \/ Loaded(p, k) \/ Gone(k),
             \A k \in promised', s \in Shard : reader'[p][s] = "done" /\ Filed(s, k)' => Loaded(p, k)' \/ Gone(k)
      PROVE  KeepInv'
  <2>1. \A k : Gone(k)' <=> Gone(k)
    BY <1>3 DEF Gone, Expired
  <2>2. \A w \in Store : ~Storing(w)'
    BY <1>2, <1>3 DEF Storing
  <2>3. \A k \in promised' : Kept(k) => Kept(k)'
    <3>1. promised' \subseteq Key
      BY <1>3 DEF BaseInv, TypeOK
    <3> QED
      BY <1>2, <1>3, <2>1, <3>1 DEF Kept
  <2>4. WholeKept'
    BY <1>3, <2>3 DEF KeepInv, WholeKept, BaseInv, TypeOK
  <2>5. ReadKept'
    BY <1>2, <1>3, <2>1 DEF ReadKept
  <2> QED
    BY <2>2, <2>4, <2>5 DEF KeepInv, WholeQuiet, StoreKeeps
<1>4. ASSUME NEW s \in Shard, ReadLock(p, s) PROVE KeepInv'
  <2>1. /\ phase[p] = "loading" /\ UNCHANGED <<writer, phase, held, whole, promised, fresh, now, mem>>
        /\ \A z \in Shard : reader'[p][z] = IF z = s THEN "locked" ELSE reader[p][z]
    BY <1>4, SetCell DEF ReadLock, storing, history, bounds, BaseInv, TypeOK
  <2>2. \A z \in Shard : \A r : InFile(z, r)' <=> InFile(z, r)
    <3>1. DOMAIN <<>> = {}
      OBVIOUS
    <3> QED
      BY <1>4, <3>1 DEF ReadLock, InFile, BaseInv, TypeOK
  <2>3. /\ \A z \in Shard : \A k : Filed(z, k)' <=> Filed(z, k)
        /\ \A k : Loaded(p, k)' <=> Loaded(p, k)
    BY <1>0, <2>1, <2>2 DEF Filed, Loaded
  <2> QED
    BY <1>3, <2>1, <2>3 DEF KeepInv, ReadKept
<1>5. ASSUME NEW s \in Shard, ReadSkip(p, s) PROVE FALSE
  BY <1>2, <1>5 DEF ReadSkip
<1>6. ASSUME NEW s \in Shard, ReadFile(p, s) \/ ReadBreaks(p, s) PROVE KeepInv'
  <2>0. PICK f : PartRead(p, s, f)
    BY <1>6, ReadIsPart DEF BaseInv
  <2>1. /\ phase[p] = "loading" /\ UNCHANGED <<writer, phase, held, whole, fresh, now, file>>
        /\ promised' \subseteq promised
        /\ \A z \in Shard : reader'[p][z] = IF z = s THEN "done" ELSE reader[p][z]
    BY <1>6, <2>0, SetCell DEF ReadFile, ReadBreaks, PartRead, ReadRecords, storing, BaseInv, TypeOK, Readers
  <2>2. \A z, k : Filed(z, k)' <=> Filed(z, k)
    BY <2>1 DEF Filed, InFile
  <2>3. ASSUME NEW k \in Key, Loaded(p, k) PROVE Loaded(p, k)'
    <3>1. pickWorker(p, k) \in Shard /\ mem[p][pickWorker(p, k)][k] # None /\ None \notin Nat
      BY <2>3, WorkerIsShard, PersistAssumption DEF Loaded
    <3>2. mem'[p][pickWorker(p, k)][k] = mem[p][pickWorker(p, k)][k] \/ mem'[p][pickWorker(p, k)][k] \in Nat
      BY <2>0, <3>1, ReadRecordsIs DEF BaseInv, PartRead
    <3> QED
      BY <1>0, <3>1, <3>2 DEF Loaded
  <2>4. ASSUME NEW k \in promised', Filed(s, k) PROVE Loaded(p, k)' \/ Gone(k)
    <3>1. PICK r \in Record : r.key = k /\ r \in fresh /\ InFile(s, r)
      BY <2>4 DEF Filed
    <3>2. r \in held
      BY <1>2, <2>1, <3>1 DEF StaleInv, FreshHeld
    <3>3. r \in RecordsIn(f)
      BY <2>0, <2>4, <3>1, ContentIs DEF PartRead, BaseInv
    <3>4. PICK i \in DOMAIN f : f[i] = r
      BY <3>3 DEF RecordsIn
    <3>5. CASE Expired(r.seen, now)
      BY <3>1, <3>2, <3>5 DEF Gone
    <3>6. CASE ~Expired(r.seen, now)
      <4>1. k \in Key /\ pickWorker(p, k) \in Shard
        BY <2>1, <2>4, WorkerIsShard DEF BaseInv, TypeOK
      <4>2. i \in Readable(f)
        BY <2>0, ReadableAll DEF PartRead
      <4>3. mem'[p][pickWorker(p, k)][k] \in Nat
        BY <2>0, <3>1, <3>4, <3>6, <4>1, <4>2, ReadRecordsIs DEF BaseInv, PartRead
      <4> QED
        BY <1>0, <4>3, PersistAssumption DEF Loaded
    <3> QED
      BY <3>5, <3>6
  <2>5. \A k \in promised', z \in Shard : reader'[p][z] = "done" /\ Filed(z, k)' => Loaded(p, k)' \/ Gone(k)
    BY <2>1, <2>2, <2>3, <2>4 DEF KeepInv, ReadKept, BaseInv, TypeOK
  <2> QED
    BY <1>3, <2>1, <2>2, <2>3, <2>5
<1>7. ASSUME NEW s \in Shard, Remove(p, s) \/ RemoveFails(p, s) PROVE KeepInv'
  <2>1. /\ phase[p] = "loading" /\ UNCHANGED <<writer, phase, held, whole, promised, fresh, now, mem>>
        /\ reader[p][s] = "done"
        /\ \A z \in Shard : file'[z] = file[z] \/ (z = s /\ file'[z] = None)
        /\ \A z \in Shard : reader'[p][z] = IF z = s THEN "idle" ELSE reader[p][z]
    BY <1>7, SetCell
    DEF Remove, RemoveFails, Fault, ReadersDone, history, disk, storing, bounds, BaseInv, TypeOK
  <2>2. /\ \A z \in Shard : \A k : Filed(z, k)' => Filed(z, k)
        /\ \A z \in Shard : \A k : Filed(z, k) => Filed(z, k)' \/ z = s
    BY <2>1 DEF Filed, InFile
  <2>3. \A k : Loaded(p, k)' <=> Loaded(p, k)
    BY <1>0, <2>1 DEF Loaded
  <2>4. \A k \in promised : Filed(s, k) => Loaded(p, k) \/ Gone(k)
    BY <2>1 DEF KeepInv, ReadKept
  <2>5. \A k \in promised', z \in Shard : Filed(z, k) => Filed(z, k)' \/ Loaded(p, k) \/ Gone(k)
    BY <2>1, <2>2, <2>4
  <2>6. ASSUME NEW k \in promised', NEW z \in Shard, reader'[p][z] = "done", Filed(z, k)'
        PROVE  Loaded(p, k)' \/ Gone(k)
    <3>1. reader[p][z] = "done" /\ Filed(z, k) /\ k \in promised
      BY <2>1, <2>2, <2>6
    <3> QED
      BY <2>1, <2>3, <3>1 DEF KeepInv, ReadKept
  <2> HIDE DEF ReloadInv
  <2>7. /\ phase[p] = "loading" /\ UNCHANGED <<writer, phase, held, whole, now>> /\ promised' \subseteq promised
        /\ \A k \in Key : Loaded(p, k) => Loaded(p, k)'
    BY <2>1, <2>3
  <2> QED
    BY <1>3, <2>5, <2>6, <2>7
<1>8. CASE LoadEnd(p)
  <2>1. /\ phase[p] = "loading" /\ ~whole' /\ UNCHANGED writer
        /\ \A q \in Proc : phase'[q] = IF q = p THEN "serving" ELSE phase[q]
    BY <1>8 DEF LoadEnd, storing, BaseInv, TypeOK
  <2>2. \A w \in Store : ~Storing(w)'
    BY <1>2, <2>1 DEF Storing
  <2> QED
    BY <1>2, <2>1, <2>2 DEF KeepInv, WholeKept, WholeQuiet, ReadKept, StoreKeeps
<1> QED
  BY <1>1, <1>4, <1>5, <1>6, <1>7, <1>8 DEF LoadShard

LEMMA KeepBegin ==
  ASSUME ReloadInv, BaseInv', Overlaps = {}, NEW p \in Proc, SaveBegin(p) \/ StoreBegin(p)
  PROVE  KeepInv'
<1> USE DEF ReloadInv
<1>1. /\ phase[p] = "serving" /\ ~Storing(Save(p)) /\ Promise(p) /\ UNCHANGED mem
      /\ \A q \in Proc : phase'[q] = phase[q] \/ phase'[q] = "leaving"
  BY DEF SaveBegin, StoreBegin, BaseInv, TypeOK
<1>2. \A w \in Store : ~Storing(w)
  BY BeginsAlone
<1>3. PICK w \in Store :
        /\ w[1] = p
        /\ \A v \in Store, s \in Shard : writer'[v][s] = IF v = w THEN Jobs(p)[s] ELSE writer[v][s]
  BY BeginsAlone
<1>4. WholeKept' /\ WholeQuiet'
  BY <1>1 DEF WholeKept, WholeQuiet, Promise
<1>5. ReadKept'
  BY <1>1, NobodyLoads DEF ReadKept
<1>6. StoreKeeps'
  <2> SUFFICES ASSUME NEW v \in Store, NEW k \in promised', Storing(v)'
               PROVE  Loaded(v[1], k)' /\ WriterKeeps(v, pickWorker(v[1], k), k)'
    BY DEF StoreKeeps, pickWorker
  <2>1. v = w /\ v[1] = p
    BY <1>2, <1>3 DEF Storing
  <2>2. k \in Key /\ Loaded(p, k)
    BY <1>1 DEF Promise, KeysOf, Held, Loaded
  <2>3. pickWorker(p, k) \in Shard /\ pickWorker(p, k) < Shards[p]
    BY <2>2, WorkerIsShard
  <2>4. writer'[w][pickWorker(p, k)] = "begin"
    BY <1>3, <2>3 DEF Jobs
  <2> QED
    BY <1>1, <2>1, <2>2, <2>4 DEF Loaded, WriterKeeps, pickWorker
<1> QED
  BY <1>4, <1>5, <1>6 DEF KeepInv

(* Every promised key of a store that is complete is in a file. *)
LEMMA DoneKept ==
  ASSUME ReloadInv, NEW w \in Store, Done(w), NEW k \in promised
  PROVE  \E s \in Shard : Filed(s, k)
<1>1. Storing(w) /\ k \in Key /\ w[1] \in Proc
  BY DoneRewrote, StoreOf DEF ReloadInv, BaseInv, TypeOK
<1>2. pickWorker(w[1], k) \in Shard
  BY <1>1, WorkerIsShard
<1> QED
  BY <1>1, <1>2 DEF Done, ReloadInv, KeepInv, StoreKeeps, WriterKeeps

LEMMA KeepSaveEnd ==
  ASSUME ReloadInv, NEW p \in Proc, SaveEnd(p)
  PROVE  KeepInv'
<1> USE DEF ReloadInv
<1>1. Done(Save(p)) /\ Save(p) \in Store /\ Storing(Save(p))
  BY StoreOf, DoneRewrote DEF SaveEnd
<1>2. phase[p] = "serving" /\ \A v \in Store, s \in Shard : writer[v][s] # "idle" => v = Save(p)
  BY <1>1, OneStore, StoreOf DEF BaseInv, Discipline, PhaseOf
<1>3. /\ UNCHANGED <<phase, file, promised, fresh>>
      /\ \A v \in Store, s \in Shard : writer'[v][s] = IF v = Save(p) THEN "idle" ELSE writer[v][s]
  BY <1>1 DEF SaveEnd, disk, BaseInv, TypeOK
<1>4. \A v \in Store : ~Storing(v)'
  BY <1>2, <1>3 DEF Storing
<1>5. \A s, k : Filed(s, k)' <=> Filed(s, k)
  BY <1>3 DEF Filed, InFile
<1>6. WholeKept'
  BY <1>1, <1>3, <1>5, DoneKept DEF WholeKept, Kept
<1>7. ReadKept'
  BY <1>2, <1>3, NobodyLoads DEF ReadKept
<1> QED
  BY <1>4, <1>6, <1>7 DEF KeepInv, WholeQuiet, StoreKeeps

LEMMA KeepEnd ==
  ASSUME ReloadInv, NEW p \in Proc, Ends(p)
  PROVE  KeepInv'
<1> USE DEF ReloadInv
<1>1. End(p) /\ UNCHANGED <<file, promised, fresh, now>> /\ (StoreEnd(p) \/ Killed(p))
  BY DEF Ends, StoreEnd, Crash, ReadPanics, Killed, Fault, End, bounds
<1>2. phase[p] # "down"
  <2>1. CASE StoreEnd(p)
    <3>1. Storing(Exit(p)) /\ Exit(p) \in Store
      BY <2>1, DoneRewrote, StoreOf DEF StoreEnd
    <3> QED
      BY <3>1, OneStore, StoreOf DEF BaseInv, Discipline, PhaseOf
  <2> QED
    BY <1>1, <2>1 DEF Killed
<1>3. \A q \in Proc : phase'[q] = "down" /\ (q # p => phase[q] = "down")
  BY <1>1, <1>2 DEF End, BaseInv, Discipline, Alone, TypeOK
<1>4. \A w \in Store : ~Storing(w)'
  <2> SUFFICES ASSUME NEW w \in Store, NEW s \in Shard PROVE writer'[w][s] = "idle"
    BY DEF Storing
  <2>1. CASE w[1] = p
    <3>1. w \in {Save(p), Exit(p)}
      BY <2>1, StoreOf
    <3> QED
      BY <1>1, <3>1 DEF End
  <2>2. CASE w[1] # p
    <3>1. w \notin {Save(p), Exit(p)} /\ phase[w[1]] = "down"
      BY <1>3, <2>2, StoreOf
    <3>2. writer[w][s] = "idle"
      BY <3>1 DEF BaseInv, Discipline, Alone, PhaseOf
    <3> QED
      BY <1>1, <3>1, <3>2 DEF End
  <2> QED
    BY <2>1, <2>2
<1>5. \A s, k : Filed(s, k)' <=> Filed(s, k)
  BY <1>1 DEF Filed, InFile
<1>6. WholeKept'
  <2>1. CASE StoreEnd(p)
    BY <1>1, <1>5, <2>1, DoneKept, StoreOf DEF StoreEnd, WholeKept, Kept
  <2>2. CASE Killed(p)
    <3>1. held' = held \cup fresh /\ (whole' => whole /\ phase[p] # "loading")
      BY <2>2 DEF Killed, BaseInv, TypeOK
    <3>2. \A k : Gone(k) => Gone(k)'
      BY <1>1, <3>1 DEF Gone, Expired
    <3>3. ASSUME whole', NEW k \in promised PROVE Kept(k)'
      BY <1>3, <1>5, <3>1, <3>2, <3>3 DEF KeepInv, WholeKept, Kept
    <3> QED
      BY <1>1, <3>3 DEF WholeKept
  <2> QED
    BY <1>1, <2>1, <2>2
<1> QED
  BY <1>3, <1>4, <1>6 DEF KeepInv, WholeQuiet, StoreKeeps, ReadKept

LEMMA KeepStore ==
  ASSUME ReloadInv, NEW w \in Store, NEW s \in Shard, StoreShard(w, s)
  PROVE  KeepInv'
<1> USE DEF ReloadInv
<1>1. /\ UNCHANGED <<phase, mem, fresh, whole>> /\ writer[w][s] # "idle" /\ promised' \subseteq promised
      /\ \A v \in Store, z \in Shard : (v # w \/ z # s) => writer'[v][z] = writer[v][z]
      /\ writer'[w][s] # "idle"
  BY DEF StoreShard, OpenLock, Lock, Truncate, Write, Close, StoreFails, WriteFails, history, BaseInv, TypeOK
<1>2. /\ Storing(w) /\ ~whole
      /\ \A v \in Store : Storing(v)' => v = w
  <2>1. Storing(w)
    BY <1>1 DEF Storing
  <2> QED
    BY <1>1, <2>1, OneStore DEF KeepInv, WholeQuiet, BaseInv, Discipline, Storing
<1>3. WholeKept' /\ WholeQuiet'
  BY <1>1, <1>2 DEF WholeKept, WholeQuiet
<1>4. ReadKept'
  <2>1. phase[w[1]] \in {"serving", "leaving"} /\ w[1] \in Proc
    BY <1>2, OneStore, StoreOf DEF BaseInv, Discipline, PhaseOf
  <2> QED
    BY <1>1, <2>1, NobodyLoads DEF ReadKept
<1>5. ASSUME NEW k \in promised'
      PROVE  Loaded(w[1], k)' /\ WriterKeeps(w, pickWorker(w[1], k), k)'
  <2> DEFINE z == pickWorker(w[1], k)
  <2>1. k \in promised /\ k \in Key /\ w[1] \in Proc
    BY <1>1, StoreOf DEF BaseInv, TypeOK
  <2>2. z \in Shard
    BY <2>1, WorkerIsShard
  <2>3. mem[w[1]][z][k] # None /\ WriterKeeps(w, z, k)
    BY <1>2, <2>1 DEF KeepInv, StoreKeeps, Loaded
  <2>4. Loaded(w[1], k)'
    BY <1>1, <2>3 DEF Loaded, pickWorker
  <2>5. z' = z
    BY DEF pickWorker
  <2> HIDE DEF z
  <2>6. CASE z # s
    <3>1. writer'[w][z] = writer[w][z] /\ left'[w][z] = left[w][z]
      BY <2>2, <2>6
      DEF StoreShard, OpenLock, Lock, Truncate, Write, Close, StoreFails, WriteFails, BaseInv, TypeOK
    <3>2. file'[z] = file[z]
      BY <2>2, <2>6, WriteAppends
      DEF StoreShard, OpenLock, Lock, Truncate, Close, StoreFails, WriteFails, Appended, BaseInv, TypeOK
    <3>3. Filed(z, k)' <=> Filed(z, k)
      BY <1>1, <2>5, <3>2 DEF Filed, InFile
    <3> QED
      BY <2>3, <2>4, <2>5, <3>1, <3>3 DEF WriterKeeps, z
  <2>7. CASE z = s
    <3>1. CASE OpenLock(w, s) \/ Lock(w, s)
      <4>1. writer'[w][s] \in {"wait", "locked"}
        BY <3>1 DEF OpenLock, Lock, BaseInv, TypeOK
      <4> QED
        BY <2>4, <2>5, <2>7, <4>1 DEF WriterKeeps, z
    <3>2. CASE Truncate(w, s)
      <4>1. writer'[w][s] = "writing" /\ left'[w][s] = KeysIn(w[1], s)
        BY <3>2 DEF Truncate, BaseInv, TypeOK
      <4> QED
        BY <2>1, <2>3, <2>4, <2>5, <2>7, <4>1 DEF WriterKeeps, KeysIn, z
    <3>3. CASE Write(w, s)
      <4>1. PICK j \in left[w][s] : Appended(w, s, j)
        BY <3>3, WriteAppends DEF BaseInv
      <4>2. writer[w][s] = "writing" /\ writer'[w][s] = "writing" /\ linked[w][s]
        BY <3>3 DEF Write, BaseInv, Discipline, Locks
      <4>3. left'[w][s] = left[w][s] \ {j}
        BY <4>1, SetCell DEF Appended, BaseInv, TypeOK
      <4>4. ASSUME NEW r \in Record, InFile(s, r) PROVE InFile(s, r)'
        <5>1. CASE file' = file
          BY <4>4, <5>1 DEF InFile
        <5>2. CASE file' # file
          <6> DEFINE e == Written(w[1], s, j)
          <6>1. /\ file[s] \in Seq(Record) /\ file'[s] = Append(file[s], e)
                /\ file'[s] \in Seq(Record) /\ j \in Key /\ mem[w[1]][s][j] \in Nat
            BY <4>1, <5>2 DEF Appended, BaseInv, TypeOK
          <6>2. e \in Record /\ file'[s] # None
            BY <6>1, PersistAssumption DEF Written, Record
          <6> HIDE DEF e
          <6> QED
            BY <4>4, <6>1, <6>2, AppendElements DEF InFile
        <5> QED
          BY <5>1, <5>2
      <4>5. Filed(s, k) => Filed(s, k)'
        BY <1>1, <4>4 DEF Filed
      <4>6. CASE k # j
        BY <2>3, <2>4, <2>5, <2>7, <4>2, <4>3, <4>5, <4>6 DEF WriterKeeps, z
      <4>7. CASE k = j
        <5> DEFINE e == Written(w[1], s, k)
        <5>1. mem[w[1]][s][k] # None
          BY <2>3, <2>7
        <5>2. /\ file[s] \in Seq(Record) /\ mem[w[1]][s][k] \in Nat
              /\ file'[s] = Append(file[s], e) /\ file'[s] \in Seq(Record)
          BY <4>1, <4>2, <4>7, <5>1 DEF Appended, BaseInv, TypeOK
        <5>3. e \in Record /\ e.key = k /\ file'[s] # None
          BY <2>1, <5>2, PersistAssumption DEF Written, Record
        <5>7. e.key = k /\ e.seen = mem[w[1]][s][k] /\ pickWorker(w[1], k) = z
          BY DEF Written, z
        <5> HIDE DEF e
        <5>4. PICK r \in Record : r = e
          BY <5>3
        <5>5. InFile(s, r)'
          BY <5>2, <5>3, <5>4, AppendElements DEF InFile
        <5>6. e \in fresh'
          <6>1. InMem(w[1], e)
            BY <2>7, <5>2, <5>7 DEF InMem
          <6> QED
            BY <1>1, <1>2, <5>3, <6>1 DEF StaleInv, StoredFresh
        <5>8. Filed(s, k)'
          BY <5>3, <5>4, <5>5, <5>6 DEF Filed
        <5> QED
          BY <2>4, <2>5, <2>7, <4>2, <5>8 DEF WriterKeeps, z
      <4> QED
        BY <4>6, <4>7
    <3>4. CASE Close(w, s)
      <4>1. writer[w][s] = "writing" /\ left[w][s] = {} /\ writer'[w][s] = "done" /\ file' = file
        BY <3>4 DEF Close, BaseInv, TypeOK
      <4>2. Filed(s, k)'
        BY <1>1, <2>3, <2>7, <4>1 DEF WriterKeeps, Filed, InFile
      <4> QED
        BY <2>4, <2>5, <2>7, <4>1, <4>2 DEF WriterKeeps, z
    <3>5. CASE StoreFails(w, s) \/ WriteFails(w, s)
      BY <2>7, <3>5 DEF StoreFails, WriteFails, z
    <3> QED
      BY <3>1, <3>2, <3>3, <3>4, <3>5 DEF StoreShard
  <2> QED
    BY <2>6, <2>7
<1>6. StoreKeeps'
  BY <1>1, <1>2, <1>5 DEF StoreKeeps
<1> QED
  BY <1>3, <1>4, <1>6 DEF KeepInv

LEMMA KeepNext ==
  ASSUME Overlaps = {}, Long = {}, ReloadInv, BaseInv', [Next]_vars
  PROVE  KeepInv'
<1>1. now \in Nat
  BY DEF ReloadInv, BaseInv, TypeOK
<1>2. CASE Advance \/ UNCHANGED vars
  <2>1. /\ UNCHANGED <<file, writer, left, held, whole, promised, fresh, mem, phase, reader>>
        /\ now' = now \/ now' = now + 1
    BY <1>2 DEF Advance, vars, disk, storing, loading, history, bounds
  <2>2. \A p, k : Loaded(p, k)' <=> Loaded(p, k)
    BY <2>1 DEF Loaded, pickWorker
  <2> QED
    BY <1>1, <2>1, <2>2, KeepQuiet
<1> QED
  BY <1>2, KeepServe, KeepLoad, KeepBegin, KeepSaveEnd, KeepEnd, KeepStore DEF Next, Load, Ends

(* "Save the peers to the disk and load them while launching": a peer that *)
(* was in memory all through a store that ended, not even taken out to be  *)
(* renewed, is, at the end of the next launch, in memory again or still on *)
(* the disk, unless it has expired or reading or writing its file failed,  *)
(* whether the process was shut down or killed since, in the middle of     *)
(* anything but another store, and whatever numbers of shards the two have *)
(* (persist.go:31-222).  This needs that processes and stores do not       *)
(* overlap, and that every record fits the buffer it is read into.         *)
THEOREM NothingIsForgotten ==
  ASSUME Overlaps = {}, Long = {}
  PROVE  Spec => NothingForgotten
<1>1. Init => ReloadInv
  BY BaseInit, StaleInit, KeepInit DEF ReloadInv
<1>2. ReloadInv /\ [Next]_vars => ReloadInv'
  BY BaseNext, StaleNext, KeepNext DEF ReloadInv
<1>3. ReloadInv => \A p \in Proc : LoadEnd(p) /\ whole =>
        \A k \in promised : \/ \E r \in held : r.key = k /\ Expired(r.seen, now)
                            \/ k \in KeysOf(Held(p)) \cup OnDisk
  <2> SUFFICES ASSUME ReloadInv, NEW p \in Proc, LoadEnd(p), whole, NEW k \in promised
               PROVE  Gone(k) \/ k \in KeysOf(Held(p)) \cup OnDisk
    BY DEF Gone
  <2>1. k \in Key /\ Kept(k)
    BY DEF ReloadInv, KeepInv, WholeKept, BaseInv, TypeOK
  <2>2. ASSUME NEW s \in Shard, Filed(s, k) PROVE k \in OnDisk
    <3>1. PICK r \in Record : r.key = k /\ r \in RecordsIn(Content(s))
      BY <2>2, ContentIs DEF Filed, ReloadInv, BaseInv
    <3>2. k \in KeysOf(RecordsIn(Content(s)))
      BY <3>1 DEF KeysOf
    <3> QED
      BY <3>1, <3>2 DEF OnDisk
  <2>3. ASSUME NEW q \in Proc, phase[q] = "loading", Loaded(q, k) PROVE k \in KeysOf(Held(p))
    <3>1. q = p
      BY <2>3 DEF LoadEnd, ReloadInv, BaseInv, Discipline, Alone
    <3>2. [key |-> k, seen |-> mem[p][pickWorker(p, k)][k]] \in Held(p)
      BY <2>1, <2>3, <3>1 DEF Loaded, Held
    <3>3. [key |-> k, seen |-> mem[p][pickWorker(p, k)][k]].key = k
      OBVIOUS
    <3> QED
      BY <3>2, <3>3 DEF KeysOf
  <2> QED
    BY <2>1, <2>2, <2>3 DEF Kept
<1> QED
  BY <1>1, <1>2, <1>3, PTL DEF Spec, NothingForgotten
=============================================================================
