------------------------------ MODULE Persist ------------------------------
(***************************************************************************)
(* Saving the peers, at intervals and at shutdown, and loading them at     *)
(* launch: biz/services/peer/mux_local/persist.go, with the shards of      *)
(* mux_manager.go and the task of biz/services/interval.  The tracker is   *)
(* run again and again, by processes whose configuration may name          *)
(* different numbers of shards; a process may be killed at any point       *)
(* (hertz waits a minute for a shutdown).                                  *)
(*                                                                         *)
(* A shard is written to one file under an flock.  The lock belongs to the *)
(* open file, not to the name: when a loader removes the name, a writer    *)
(* that has it open or waits for its lock is left with a file nobody can   *)
(* find again ("linked" is FALSE).                                         *)
(*                                                                         *)
(* Opening, locking, reading, writing and removing a file can fail.  The   *)
(* code logs the error and goes on: a file that was not read is removed    *)
(* all the same, and one that was not written or not removed stays.        *)
(***************************************************************************)
EXTENDS Naturals, Sequences, FiniteSets

CONSTANTS
  Proc,             \* processes, each launched any number of times
  MaxShard,         \* the largest number of shards
  Shards,           \* config Tracker.Memory.Shard of each process
  Key,              \* an info hash with a peer id
  HashOf,           \* the info hash of a key, as a number
  Word,             \* 2^64: big.Int.Uint64 keeps the low bits
  Long,             \* keys whose record does not decompress into 400 bytes
  Huge,             \* keys whose record is longer than the pooled 512 bytes
  TTL,              \* config Tracker.TTL
  Overlaps,         \* "launch": a launch need not wait for the last exit;
                    \* "save": nor a shutdown for the interval task's save
  Faults,           \* what may happen to a process: it is killed ("kill"), or
                    \* "read", "write" or "remove" of a file fails
  MaxTime,          \* bound: the clock stops here
  MaxStarts,        \* bound: launches
  MaxStores,        \* bound: saves of the interval task and shutdowns
  MaxFaults,        \* bound: kills and failures
  MaxJoins,         \* bound: peers stored by announces
  None

Shard == 0..(MaxShard - 1)
Record == [key : Key, seen : Nat]
Store == Proc \X {"save", "exit"}   \* StoreToPersist, by the task or by OnShutdown
Save(p) == <<p, "save">>
Exit(p) == <<p, "exit">>

ASSUME PersistAssumption ==
  /\ MaxShard \in Nat
  /\ Shards \in [Proc -> 1..MaxShard]
  /\ HashOf \in [Key -> Nat]
  /\ Word \in Nat \ {0}
  /\ Long \subseteq Key /\ Huge \subseteq Key
  /\ TTL \in Nat
  /\ Overlaps \subseteq {"launch", "save"}
  /\ Faults \subseteq {"kill", "read", "write", "remove"}
  /\ MaxTime \in Nat /\ MaxStarts \in Nat /\ MaxStores \in Nat /\ MaxFaults \in Nat
  /\ MaxJoins \in Nat
  /\ None \notin Nat /\ None \notin Seq(Record) /\ None \notin Store

VARIABLES
  now,              \* the wall clock
  starts, stores,   \* launches, and stores begun, so far
  faults,           \* kills and failures so far
  joins,            \* peers stored so far
  phase,            \* what a process is doing
  mem,              \* MuxLocalManager.localList: last seen, per shard and key
  file,             \* the file of a shard: its records, or None
  wlock, rlock,     \* the store with its write lock, processes with a read lock
  writer,           \* per store and shard: where StoreToPersist is
  linked,           \* per store and shard: its open file still has its name
  left,             \* per store and shard: the keys still to be met
  ahead,            \* per store and shard: keys renewed into a map still to come
  files,            \* LoadFromPersist: the files found and not yet removed
  reader,           \* per process and shard: where LoadFromPersist is
  promised,         \* history: the keys held all through the last store, but
                    \* for those that a failure has lost
  fresh,            \* history: the records held at any time during it
  held,             \* history: those the files may hold, after it
  stuck,            \* history: those of files not rewritten or not removed
  whole             \* history: that store ended, and nobody has loaded it yet

disk == <<file, wlock, rlock>>
storing == <<writer, linked, left, ahead>>
loading == <<files, reader>>
history == <<promised, fresh, held, stuck, whole>>
bounds == <<now, starts, stores, faults, joins>>
vars == <<bounds, phase, mem, disk, storing, loading, history>>

NoPeers == [s \in Shard |-> [k \in Key |-> None]]
All(D, v) == [d \in D |-> [s \in Shard |-> v]]

Init ==
  /\ now = 0
  /\ starts = 0 /\ stores = 0 /\ faults = 0 /\ joins = 0
  /\ phase = [p \in Proc |-> "down"]
  /\ mem = [p \in Proc |-> NoPeers]
  /\ file = [s \in Shard |-> None]
  /\ wlock = [s \in Shard |-> None]
  /\ rlock = [s \in Shard |-> {}]
  /\ writer = All(Store, "idle")
  /\ linked = All(Store, FALSE)
  /\ left = All(Store, {}) /\ ahead = All(Store, {})
  /\ files = [p \in Proc |-> {}]
  /\ reader = All(Proc, "idle")
  /\ promised = {}
  /\ fresh = {}
  /\ held = {} /\ stuck = {}
  /\ whole = FALSE

(* The shard that serves a torrent. *)
pickWorker(p, k) == (HashOf[k] % Word) % Shards[p]

Expired(seen, t) == seen + TTL < t
Held(p) == {[key |-> k, seen |-> mem[p][pickWorker(p, k)][k]] :
              k \in {j \in Key : mem[p][pickWorker(p, j)][j] # None}}
KeysIn(p, s) == {k \in Key : mem[p][s][k] # None}
KeysOf(R) == {r.key : r \in R}
Storing(w) == \E s \in Shard : writer[w][s] # "idle"
Content(s) == IF file[s] = None THEN <<>> ELSE file[s]
RecordsIn(f) == {f[i] : i \in DOMAIN f}

Fault(f) ==
  /\ f \in Faults /\ faults < MaxFaults
  /\ faults' = faults + 1
  /\ UNCHANGED <<now, starts, stores, joins>>

-----------------------------------------------------------------------------
(* Serving.  The UDP listener is not stopped while the peers are stored.   *)

(* A task stores a peer, in the map of the ring that is current: a new     *)
(* one, or the one it has taken out to renew it.  A range over the maps    *)
(* (in any order, each key at most once in a map) meets it if that map is  *)
(* still to come; otherwise it has missed it, or has it twice.             *)
Announce(p, k) ==
  LET s == pickWorker(p, k)
      ranging == {w \in Store : w[1] = p /\ writer[w][s] = "writing"}
  IN  /\ phase[p] \in {"serving", "leaving"}
      /\ mem[p][s][k] = None
      /\ joins < MaxJoins
      /\ joins' = joins + 1
      /\ mem' = [mem EXCEPT ![p][s][k] = now]
      /\ fresh' = IF Storing(Save(p)) \/ Storing(Exit(p))
                  THEN fresh \cup {[key |-> k, seen |-> now]} ELSE fresh
      /\ \E meets \in SUBSET {w \in ranging : k \notin ahead[w][s]} :
           /\ left' = [w \in Store |-> [left[w] EXCEPT ![s] =
                        IF w \in meets THEN @ \cup {k} ELSE IF w \in ranging THEN @ \ {k} ELSE @]]
           /\ ahead' = [w \in Store |-> [ahead[w] EXCEPT ![s] = IF w \in meets THEN @ \cup {k} ELSE @]]
      /\ UNCHANGED <<now, starts, stores, faults, phase, disk, writer, linked, loading>>
      /\ UNCHANGED <<promised, held, stuck, whole>>

(* A peer stops, expires, is deleted with its torrent, or is taken out of  *)
(* its map by the task that will store it again.                           *)
Leave(p, k) ==
  /\ phase[p] \in {"serving", "leaving"}
  /\ mem[p][pickWorker(p, k)][k] # None
  /\ mem' = [mem EXCEPT ![p][pickWorker(p, k)][k] = None]
  /\ promised' = IF Storing(Save(p)) \/ Storing(Exit(p)) THEN promised \ {k} ELSE promised
  /\ UNCHANGED <<bounds, phase, disk, storing, loading, fresh, held, stuck, whole>>

-----------------------------------------------------------------------------
(* LoadFromPersist, before the process serves anybody.                     *)

Start(p) ==
  /\ phase[p] = "down"
  /\ starts < MaxStarts
  /\ "launch" \in Overlaps \/ \A q \in Proc : phase[q] = "down"
  /\ starts' = starts + 1
  /\ phase' = [phase EXCEPT ![p] = "loading"]
  /\ files' = [files EXCEPT ![p] = {s \in Shard : file[s] # None}]
  /\ UNCHANGED <<now, stores, faults, joins, mem, disk, storing, reader, history>>

(* TryRLock: opening the file to lock it creates it if it has gone. *)
ReadLock(p, s) ==
  /\ phase[p] = "loading" /\ s \in files[p] /\ reader[p][s] = "idle"
  /\ wlock[s] = None
  /\ rlock' = [rlock EXCEPT ![s] = @ \cup {p}]
  /\ file' = [file EXCEPT ![s] = IF @ = None THEN <<>> ELSE @]
  /\ reader' = [reader EXCEPT ![p][s] = "locked"]
  /\ UNCHANGED <<bounds, phase, mem, wlock, storing, files, history>>
(* "file %s is writing, skip" *)
ReadSkip(p, s) ==
  /\ phase[p] = "loading" /\ s \in files[p] /\ reader[p][s] = "idle"
  /\ wlock[s] # None
  /\ reader' = [reader EXCEPT ![p][s] = "done"]
  /\ UNCHANGED <<bounds, phase, mem, disk, storing, files, history>>

(* The places of the records before the first that does not decompress     *)
(* into its buffer: the loop breaks there.                                 *)
ReadableMutant(f) == {i \in DOMAIN f : i < Len(f)}      \* mutant: stops one short
Readable(f) == {i \in DOMAIN f : \A n \in 1..i : f[n].key \notin Long}

(* data[:size] is out of range before that. *)
Panics(f) == \E i \in DOMAIN f : f[i].key \in Huge /\ \A n \in 1..(i - 1) : f[n].key \notin Long

(* Every record that has not expired goes to the shard that serves it now, *)
(* over an earlier one of the same peer.                                   *)
Latest(f, I, k) ==
  f[CHOOSE i \in I : f[i].key = k /\ \A j \in I : f[j].key = k => j <= i].seen
ReloadMutant(p, s, f, I) ==        \* mutant: to the shard the file is named after
  [mem[p] EXCEPT ![s] = [k \in Key |->
     IF \E i \in I : f[i].key = k THEN Latest(f, I, k) ELSE @[k]]]
Reload(p, s, f, I) ==
  [w \in Shard |-> [k \in Key |->
     IF w = pickWorker(p, k) /\ \E i \in I : f[i].key = k
     THEN Latest(f, I, k) ELSE mem[p][w][k]]]

(* A file is read as far as its first records f, and unlocked. *)
ReadRecords(p, s, f) ==
  /\ ~Panics(f)
  /\ mem' = [mem EXCEPT ![p] = Reload(p, s, f, {i \in Readable(f) : ~Expired(f[i].seen, now)})]
  /\ rlock' = [rlock EXCEPT ![s] = @ \ {p}]
  /\ reader' = [reader EXCEPT ![p][s] = "done"]
  /\ UNCHANGED <<phase, file, wlock, storing, files, fresh, held, stuck, whole>>

(* The whole file; none of it, if it cannot be opened any more. *)
ReadFile(p, s) ==
  /\ reader[p][s] = "locked"
  /\ ReadRecords(p, s, Content(s))
  /\ UNCHANGED <<bounds, promised>>

(* It cannot be locked or opened, or reading it fails: it counts as dealt  *)
(* with, and the rest of it is lost when it is removed.                    *)
ReadBreaks(p, s) ==
  /\ phase[p] = "loading" /\ s \in files[p]
  /\ Fault("read")
  /\ \E n \in 0..Len(Content(s)) :
       /\ reader[p][s] = "locked" \/ (reader[p][s] = "idle" /\ n = 0)
       /\ ReadRecords(p, s, SubSeq(Content(s), 1, n))
       /\ promised' = promised \ {Content(s)[i].key : i \in (n + 1)..Len(Content(s))}

(* When every file has been dealt with, they are removed one by one. *)
ReadersDone(p) == \A s \in files[p] : reader[p][s] = "done"

RemoveMutant(p, s) ==              \* mutant: only the files of its own shards
  /\ phase[p] = "loading" /\ \A z \in Shard : reader[p][z] # "locked"
  /\ s \in files[p] /\ reader[p][s] = "done"
  /\ file' = [file EXCEPT ![s] = IF s < Shards[p] THEN None ELSE @]
  /\ files' = [files EXCEPT ![p] = @ \ {s}]
  /\ reader' = [reader EXCEPT ![p][s] = "idle"]
  /\ UNCHANGED <<bounds, phase, mem, wlock, rlock, storing, history>>
Remove(p, s) ==
  /\ phase[p] = "loading" /\ ReadersDone(p)
  /\ s \in files[p]
  /\ file' = [file EXCEPT ![s] = None]
  /\ wlock' = [wlock EXCEPT ![s] = None]
  /\ rlock' = [rlock EXCEPT ![s] = {}]
  /\ linked' = [w \in Store |-> [linked[w] EXCEPT ![s] = FALSE]]
  /\ files' = [files EXCEPT ![p] = @ \ {s}]
  /\ reader' = [reader EXCEPT ![p][s] = "idle"]
  /\ UNCHANGED <<bounds, phase, mem, writer, left, ahead, history>>
(* "remove file error": it will be loaded again. *)
RemoveFails(p, s) ==
  /\ phase[p] = "loading" /\ ReadersDone(p)
  /\ s \in files[p]
  /\ Fault("remove")
  /\ files' = [files EXCEPT ![p] = @ \ {s}]
  /\ reader' = [reader EXCEPT ![p][s] = "idle"]
  /\ stuck' = stuck \cup RecordsIn(Content(s))
  /\ UNCHANGED <<phase, mem, disk, storing, promised, fresh, held, whole>>

LoadEnd(p) ==
  /\ phase[p] = "loading" /\ files[p] = {}
  /\ phase' = [phase EXCEPT ![p] = "serving"]
  /\ whole' = FALSE
  /\ UNCHANGED <<bounds, mem, disk, storing, loading, promised, fresh, held, stuck>>

-----------------------------------------------------------------------------
(* StoreToPersist: one job per shard.                                      *)

Jobs(p) == [s \in Shard |-> IF s < Shards[p] THEN "begin" ELSE "done"]
Done(w) == \A s \in Shard : writer[w][s] = "done"

(* What a store that begins now has to keep. *)
Promise(p) ==
  /\ promised' = KeysOf(Held(p))
  /\ fresh' = Held(p)
  /\ whole' = FALSE
  /\ UNCHANGED <<held, stuck>>

(* saveDB.  The task never overlaps itself; nobody stops it at shutdown.   *)
SaveBegin(p) ==
  /\ stores < MaxStores
  /\ ~Storing(Save(p))
  /\ stores' = stores + 1
  /\ writer' = [writer EXCEPT ![Save(p)] = Jobs(p)]
  /\ \/ phase[p] = "serving" /\ Promise(p)
     \/ phase[p] = "leaving" /\ "save" \in Overlaps /\ UNCHANGED history
  /\ UNCHANGED <<now, starts, faults, joins, phase, mem, disk, linked, left, ahead, loading>>
SaveEnd(p) ==
  /\ Done(Save(p))
  /\ writer' = [writer EXCEPT ![Save(p)] = [s \in Shard |-> "idle"]]
  /\ IF phase[p] = "serving" THEN whole' = TRUE /\ held' = fresh
     ELSE UNCHANGED <<whole, held>>
  /\ UNCHANGED <<bounds, phase, mem, disk, linked, left, ahead, loading, promised, fresh, stuck>>

(* OnShutdown. *)
StoreBegin(p) ==
  /\ stores < MaxStores
  /\ phase[p] = "serving"
  /\ "save" \in Overlaps \/ ~Storing(Save(p))
  /\ phase' = [phase EXCEPT ![p] = "leaving"]
  /\ writer' = [writer EXCEPT ![Exit(p)] = Jobs(p)]
  /\ Promise(p)
  /\ stores' = stores + 1
  /\ UNCHANGED <<now, starts, faults, joins, mem, disk, linked, left, ahead, loading>>

(* Lock opens the file, creating it, and then waits for the others. *)
OpenLock(w, s) ==
  /\ writer[w][s] = "begin"
  /\ file' = [file EXCEPT ![s] = IF @ = None THEN <<>> ELSE @]
  /\ linked' = [linked EXCEPT ![w][s] = TRUE]
  /\ writer' = [writer EXCEPT ![w][s] = "wait"]
  /\ UNCHANGED <<bounds, phase, mem, wlock, rlock, left, ahead, loading, history>>
Lock(w, s) ==
  /\ writer[w][s] = "wait"
  /\ linked[w][s] => wlock[s] = None /\ rlock[s] = {}
  /\ wlock' = IF linked[w][s] THEN [wlock EXCEPT ![s] = w] ELSE wlock
  /\ writer' = [writer EXCEPT ![w][s] = "locked"]
  /\ UNCHANGED <<bounds, phase, mem, file, rlock, linked, left, ahead, loading, history>>

(* The file is opened a second time, by name, and truncated. *)
Truncate(w, s) ==
  /\ writer[w][s] = "locked"
  /\ file' = [file EXCEPT ![s] = <<>>]
  /\ linked' = [linked EXCEPT ![w][s] = TRUE]
  /\ left' = [left EXCEPT ![w][s] = KeysIn(w[1], s)]
  /\ writer' = [writer EXCEPT ![w][s] = "writing"]
  /\ UNCHANGED <<bounds, phase, mem, wlock, rlock, ahead, loading, history>>

(* RangeMap, past the keys that are not in memory when it comes to them.   *)
WrittenMutant(p, s, k) == [key |-> k, seen |-> None]   \* mutant: the time is not kept
Written(p, s, k) == [key |-> k, seen |-> mem[p][s][k]]
Write(w, s) ==
  /\ writer[w][s] = "writing"
  /\ \E k \in left[w][s] :
       /\ left' = [left EXCEPT ![w][s] = @ \ {k}]
       /\ file' = IF linked[w][s] /\ mem[w[1]][s][k] # None
                  THEN [file EXCEPT ![s] = Append(@, Written(w[1], s, k))] ELSE file
  /\ UNCHANGED <<bounds, phase, mem, wlock, rlock, writer, linked, ahead, loading, history>>

(* Flush, close, unlock. *)
CloseMutant(w, s) ==               \* mutant: the lock is not given back
  /\ writer[w][s] = "writing" /\ left[w][s] = {}
  /\ linked' = [linked EXCEPT ![w][s] = FALSE]
  /\ writer' = [writer EXCEPT ![w][s] = "done"]
  /\ ahead' = [ahead EXCEPT ![w][s] = {}]
  /\ UNCHANGED <<bounds, phase, mem, disk, left, loading, history>>
Close(w, s) ==
  /\ writer[w][s] = "writing" /\ left[w][s] = {}
  /\ wlock' = [wlock EXCEPT ![s] = IF @ = w THEN None ELSE @]
  /\ linked' = [linked EXCEPT ![w][s] = FALSE]
  /\ writer' = [writer EXCEPT ![w][s] = "done"]
  /\ ahead' = [ahead EXCEPT ![w][s] = {}]
  /\ UNCHANGED <<bounds, phase, mem, file, rlock, left, loading, history>>

(* The file cannot be locked or opened (or its directory not be made): it  *)
(* stays as it is, and the store goes on with the other shards.            *)
StoreFails(w, s) ==
  /\ writer[w][s] \in {"begin", "wait", "locked"}
  /\ Fault("write")
  /\ wlock' = [wlock EXCEPT ![s] = IF @ = w THEN None ELSE @]
  /\ linked' = [linked EXCEPT ![w][s] = FALSE]
  /\ writer' = [writer EXCEPT ![w][s] = "done"]
  /\ promised' = {k \in promised : pickWorker(w[1], k) # s}
  /\ stuck' = stuck \cup RecordsIn(Content(s))
  /\ UNCHANGED <<phase, mem, file, rlock, left, ahead, loading, fresh, held, whole>>

(* Writing or flushing fails, and with it all that follows: the first      *)
(* records are in the file.                                                *)
WriteFails(w, s) ==
  /\ writer[w][s] = "writing"
  /\ Fault("write")
  /\ left' = [left EXCEPT ![w][s] = {}]
  /\ \E n \in 0..Len(Content(s)) :
       file' = IF linked[w][s] THEN [file EXCEPT ![s] = SubSeq(Content(s), 1, n)] ELSE file
  /\ promised' = {k \in promised : pickWorker(w[1], k) # s}
  /\ UNCHANGED <<phase, mem, wlock, rlock, writer, linked, ahead, loading, fresh, held, stuck, whole>>

(* The process ends: its memory, its goroutines and its locks are gone. *)
End(p) ==
  LET mine == {Save(p), Exit(p)}
  IN  /\ phase' = [phase EXCEPT ![p] = "down"]
      /\ mem' = [mem EXCEPT ![p] = NoPeers]
      /\ wlock' = [s \in Shard |-> IF wlock[s] \in mine THEN None ELSE wlock[s]]
      /\ rlock' = [s \in Shard |-> rlock[s] \ {p}]
      /\ writer' = [w \in Store |-> IF w \in mine THEN [s \in Shard |-> "idle"] ELSE writer[w]]
      /\ linked' = [w \in Store |-> IF w \in mine THEN [s \in Shard |-> FALSE] ELSE linked[w]]
      /\ left' = [w \in Store |-> IF w \in mine THEN [s \in Shard |-> {}] ELSE left[w]]
      /\ ahead' = [w \in Store |-> IF w \in mine THEN [s \in Shard |-> {}] ELSE ahead[w]]
      /\ files' = [files EXCEPT ![p] = {}]
      /\ reader' = [reader EXCEPT ![p] = [s \in Shard |-> "idle"]]
      /\ UNCHANGED <<file, promised, fresh, stuck>>
StoreEnd(p) ==
  /\ Done(Exit(p))
  /\ End(p)
  /\ whole' = TRUE
  /\ held' = fresh
  /\ UNCHANGED bounds
Killed(p) ==
  /\ phase[p] # "down"
  /\ End(p)
  /\ whole' = (whole /\ phase[p] # "loading")
  /\ held' = held \cup fresh
Crash(p) == Fault("kill") /\ Killed(p)
(* A record too long for its buffer ends the launch, and every later one:  *)
(* no file has been removed yet.                                           *)
ReadPanics(p, s) ==
  /\ reader[p][s] = "locked" /\ Panics(Content(s))
  /\ Killed(p)
  /\ UNCHANGED bounds

Advance ==
  /\ now < MaxTime
  /\ now' = now + 1
  /\ UNCHANGED <<starts, stores, faults, joins, phase, mem, disk, storing, loading, history>>

-----------------------------------------------------------------------------
LoadShard(p, s) ==
  \/ ReadLock(p, s) \/ ReadSkip(p, s) \/ ReadFile(p, s) \/ ReadBreaks(p, s)
  \/ Remove(p, s) \/ RemoveFails(p, s)
Load(p) ==
  \/ \E s \in Shard : LoadShard(p, s) \/ ReadPanics(p, s)
  \/ LoadEnd(p)
StoreShard(w, s) ==
  \/ OpenLock(w, s) \/ Lock(w, s) \/ Truncate(w, s) \/ Write(w, s) \/ Close(w, s)
  \/ StoreFails(w, s) \/ WriteFails(w, s)

Next ==
  \/ \E p \in Proc : \/ Start(p) \/ Load(p) \/ Crash(p)
                     \/ SaveBegin(p) \/ SaveEnd(p) \/ StoreBegin(p) \/ StoreEnd(p)
                     \/ \E k \in Key : Announce(p, k) \/ Leave(p, k)
  \/ \E w \in Store, s \in Shard : StoreShard(w, s)
  \/ Advance

Spec == Init /\ [][Next]_vars

(* A goroutine that can run does; nobody is obliged to launch, to announce *)
(* or to shut down.                                                        *)
FairSpec ==
  /\ Spec
  /\ \A p \in Proc : WF_vars(Load(p)) /\ WF_vars(SaveEnd(p)) /\ WF_vars(StoreEnd(p))
  /\ \A w \in Store, s \in Shard : WF_vars(StoreShard(w, s))

-----------------------------------------------------------------------------
(* Properties.                                                             *)

(* Memory, files and locks hold what their names say; in particular every  *)
(* record on the disk carries the time its peer was last seen.             *)
TypeOK ==
  /\ now \in Nat /\ starts \in Nat /\ stores \in Nat /\ faults \in Nat /\ joins \in Nat
  /\ phase \in [Proc -> {"down", "loading", "serving", "leaving"}]
  /\ mem \in [Proc -> [Shard -> [Key -> Nat \cup {None}]]]
  /\ file \in [Shard -> Seq(Record) \cup {None}]
  /\ wlock \in [Shard -> Store \cup {None}]
  /\ rlock \in [Shard -> SUBSET Proc]
  /\ writer \in [Store -> [Shard -> {"idle", "begin", "wait", "locked", "writing", "done"}]]
  /\ linked \in [Store -> [Shard -> BOOLEAN]]
  /\ left \in [Store -> [Shard -> SUBSET Key]] /\ ahead \in [Store -> [Shard -> SUBSET Key]]
  /\ files \in [Proc -> SUBSET Shard]
  /\ reader \in [Proc -> [Shard -> {"idle", "locked", "done"}]]
  /\ promised \subseteq Key /\ fresh \subseteq Record /\ held \subseteq Record /\ stuck \subseteq Record
  /\ whole \in BOOLEAN

(* Whatever the number of shards was when a peer was saved, it is found    *)
(* again where announces and scrapes of its torrent look for it.           *)
Reachable ==
  \A p \in Proc, s \in Shard, k \in Key : mem[p][s][k] # None => s = pickWorker(p, k)

(* A launch brings back only what was in memory during the last complete   *)
(* store or after it, and what is in files that could not be rewritten or  *)
(* removed: no shard of an earlier store, left behind by a crash or by a   *)
(* change of the number of shards, is mixed in.                            *)
NoStaleShard == [][\A p \in Proc : LoadEnd(p) => Held(p) \subseteq held \cup stuck]_vars

(* "Save the peers to the disk and load them while launching": once a      *)
(* store has ended, and until another begins, the next launch has every    *)
(* peer that was in memory all through it, neither leaving nor renewed,    *)
(* unless it has expired or reading or writing its file failed, or at      *)
(* least leaves it on the disk, whether the process was shut down or       *)
(* killed.                                                                 *)
OnDisk == UNION {KeysOf(RecordsIn(Content(s))) : s \in Shard}
NothingForgotten ==
  [][\A p \in Proc : LoadEnd(p) /\ whole =>
       \A k \in promised :
         \/ \E r \in held : r.key = k /\ Expired(r.seen, now)
         \/ k \in KeysOf(Held(p)) \cup OnDisk]_vars

(* A shutdown that is not killed ends, even while the interval task's save *)
(* holds the locks of its files, or the next process reads them.           *)
ShutdownEnds == \A p \in Proc : phase[p] = "leaving" ~> phase[p] = "down"
=============================================================================
