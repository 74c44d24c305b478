------------------------- MODULE LocalManagerProofs -------------------------
(***************************************************************************)
(* Proofs about LocalManager, for every set of calls, requests, torrents   *)
(* and peers and every value of TTL and MaxPeersPerTorrent.                *)
(***************************************************************************)
EXTENDS LocalManager, FiniteSetTheorems, TLAPS

(* The index sets as the provers need them. *)
LEMMA Indices ==
  /\ 0 \in Slot /\ 1 \in Slot /\ 2 \in Slot
  /\ \A s \in Slot : s \in Nat /\ (s < 2 => s + 1 \in Slot)
                     /\ (s + 1) % 3 \in Slot /\ (s + 2) % 3 \in Slot
  /\ \A c \in Calls : \A i \in 0..3 : <<c, i>> \in MapRef
BY DEF Slot, MapRef

(* A goroutine is the handler, the task or the reaper of one call. *)
LEMMA Names ==
  /\ \A g \in Goroutine : g[1] \in Calls /\ g \in {Handler(g[1]), Task(g[1]), Reaper(g[1])}
  /\ \A c \in Calls :
       /\ Handler(c) \in Goroutine /\ Handler(c)[1] = c /\ Handler(c)[2] = "handler"
       /\ Task(c) \in Goroutine /\ Task(c)[1] = c /\ Task(c)[2] = "task"
       /\ Reaper(c) \in Goroutine /\ Reaper(c)[1] = c /\ Reaper(c)[2] = "reaper"
  /\ \A c, d \in Calls :
       Handler(c) # Task(d) /\ Handler(c) # Reaper(d) /\ Task(c) # Reaper(d)
BY DEF Goroutine, Handler, Task, Reaper

(* A step that moves no record between maps and hands and writes none      *)
(* disturbs nothing that is said about the records.                        *)
LEMMA Quiet ==
  ASSUME Stored, Held, Exclusive, StoredAdmissible, UNCHANGED <<maps, peers, found>>
  PROVE  Stored' /\ Held' /\ Exclusive' /\ StoredAdmissible'
BY DEF Stored, Held, Exclusive, StoredAdmissible, Keys, Admissible

(* The moves of a goroutine that is under way and begins no store. *)
Allowed(g, l) ==
  /\ l # "idle"
  /\ l \in Storing => pc[g] \in Storing
  /\ \/ g[2] = "handler" /\ pc[g] \notin Ended /\ l \notin {"update", "remove"}
     \/ g[2] = "task" /\ pc[g] \notin Ended
        /\ l \in {"copyForTake", "take", "update", "done"} \cup Storing
     \/ g[2] = "reaper" /\ pc[Handler(g[1])] # "idle" /\ l \in {"nextKey", "remove", "done"}

LEMMA Move ==
  ASSUME IndInv,
         \A g \in Goroutine : pc'[g] = pc[g] \/ Allowed(g, pc'[g]),
         UNCHANGED <<maps, peers, found, req>>
  PROVE  Roles' /\ Pending' /\ Fresh' /\ Stored' /\ Held' /\ Exclusive' /\ StoredAdmissible'
<1>1. Roles'
  BY Names DEF IndInv, Roles, Allowed, Ended, Storing
<1>2. Pending'
  BY Names DEF IndInv, Pending, Roles, Allowed, Ended, Storing, Admissible
<1>3. Fresh'
  BY Names DEF IndInv, Fresh, Allowed, Ended, Storing
<1>4. Stored' /\ Held' /\ Exclusive' /\ StoredAdmissible'
  BY Quiet DEF IndInv
<1> QED
  BY <1>1, <1>2, <1>3, <1>4

-----------------------------------------------------------------------------
(* The start of a call: all of its goroutines are idle. *)
LEMMA Starting ==
  ASSUME IndInv, NEW c \in Calls, NEW r \in Requests, Begin(c, r)
  PROVE  /\ \A g \in Goroutine : g[1] = c => pc[g] = "idle" /\ found[g] = None
         /\ peers[c] = None
         /\ r \in Request
         /\ NewPeer(r) \in Peer
         /\ \A m \in MapRef : \A k \in PeerID : maps[m][k] # c
         /\ \A g \in Goroutine : found[g] # c
<1>1. /\ pc[Handler(c)] = "idle"
      /\ r \in Request
  BY LocalAssumption DEF Begin
<1>2. \A g \in Goroutine : g[1] = c => pc[g] = "idle"
  BY <1>1, Names DEF IndInv, Roles
<1>3. \A g \in Goroutine : g[1] = c => found[g] = None
  BY <1>2 DEF IndInv, Scopes, Storing
<1>4. NewPeer(r) \in Peer
  BY <1>1 DEF NewPeer, Peer, Request, IndInv, TypeOK
<1> QED
  BY <1>1, <1>2, <1>3, <1>4, Names DEF IndInv, Roles, Fresh

(* A call that creates no record. *)
LEMMA RecordlessStart ==
  ASSUME IndInv, TypeOK', NEW c \in Calls, NEW r \in Requests, Begin(c, r),
         NEW l \in {"copyForRange", "done"}, NEW h \in Calls \cup {None},
         pc' = [pc EXCEPT ![Handler(c)] = l],
         root' = [root EXCEPT ![c] = h],
         l # "done" => h \in Calls,
         UNCHANGED <<maps, peers, loops>>
  PROVE  IndInv'
<1>1. /\ \A g \in Goroutine : g[1] = c => pc[g] = "idle" /\ found[g] = None
      /\ peers[c] = None
      /\ r \in Request
  BY Starting
<1>2. /\ \A g \in Goroutine : pc'[g] = IF g = Handler(c) THEN l ELSE pc[g]
      /\ \A d \in Calls : root'[d] = IF d = c THEN h ELSE root[d]
      /\ \A d \in Calls : req'[d] = IF d = c THEN r ELSE req[d]
      /\ UNCHANGED <<maps, peers, found, copy, key, dst>>
  BY DEF IndInv, TypeOK, Begin, loops
<1>3. Roles'
  BY <1>1, <1>2, Names DEF IndInv, Roles, Storing
<1>4. Scopes'
  BY <1>1, <1>2, Names DEF IndInv, Scopes, Ended, Storing
<1>5. Pending'
  BY <1>1, <1>2, Names DEF IndInv, Pending, Ended, Storing, Admissible
<1>6. Fresh'
  BY <1>1, <1>2, Names DEF IndInv, Fresh, Storing, Ended
<1>7. Stored' /\ Held' /\ Exclusive' /\ StoredAdmissible'
  BY <1>2, Quiet DEF IndInv
<1> QED
  BY <1>3, <1>4, <1>5, <1>6, <1>7 DEF IndInv

LEMMA AnnounceInvalidStep ==
  ASSUME IndInv, NEW c \in Calls, NEW r \in Requests, AnnounceInvalid(c, r)
  PROVE  IndInv'
<1>1. r \in Request
  BY LocalAssumption
<1>2. TypeOK'
  BY <1>1, Names DEF IndInv, TypeOK, AnnounceInvalid, Begin, clock, store, loops, Label
<1>3. root' = [root EXCEPT ![c] = root[c]] /\ root[c] \in Calls \cup {None}
  BY DEF IndInv, TypeOK, AnnounceInvalid
<1> QED
  BY <1>2, <1>3, RecordlessStart DEF AnnounceInvalid, store

LEMMA ScrapeWithoutRootStep ==
  ASSUME IndInv, NEW c \in Calls, NEW r \in Requests, ScrapeWithoutRoot(c, r)
  PROVE  IndInv'
<1>1. r \in Request
  BY LocalAssumption
<1>2. TypeOK'
  BY <1>1, Names DEF IndInv, TypeOK, ScrapeWithoutRoot, Begin, clock, store, loops, Label
<1>3. root' = [root EXCEPT ![c] = root[c]] /\ root[c] \in Calls \cup {None}
  BY DEF IndInv, TypeOK, ScrapeWithoutRoot
<1> QED
  BY <1>2, <1>3, RecordlessStart DEF ScrapeWithoutRoot, store

LEMMA ScrapeStep ==
  ASSUME IndInv, NEW c \in Calls, NEW r \in Requests, Scrape(c, r)
  PROVE  IndInv'
<1>1. r \in Request /\ infoHashMap[r.infoHash] \in Calls
  BY LocalAssumption DEF IndInv, TypeOK, Scrape, Request
<1>2. TypeOK'
  BY <1>1, Names DEF IndInv, TypeOK, Scrape, Begin, clock, store, loops, Label
<1> QED
  BY <1>1, <1>2, RecordlessStart DEF Scrape, store

LEMMA CleanUpStep ==
  ASSUME IndInv, NEW c \in Calls, NEW r \in Requests, CleanUp(c, r)
  PROVE  IndInv'
<1>1. r \in Request /\ infoHashMap[r.infoHash] \in Calls
  BY LocalAssumption DEF IndInv, TypeOK, CleanUp, Request
<1>2. TypeOK'
  BY <1>1, Names DEF IndInv, TypeOK, CleanUp, Begin, clock, store, loops, Label
<1> QED
  BY <1>1, <1>2, RecordlessStart DEF CleanUp, store

LEMMA DeleteInfoHashStep ==
  ASSUME IndInv, NEW c \in Calls, NEW r \in Requests, DeleteInfoHash(c, r)
  PROVE  IndInv'
<1>1. r \in Request
  BY LocalAssumption
<1>2. TypeOK'
  BY <1>1, Names DEF IndInv, TypeOK, DeleteInfoHash, Begin, clock, loops, Label
<1>3. root' = [root EXCEPT ![c] = root[c]] /\ root[c] \in Calls \cup {None}
  BY DEF IndInv, TypeOK, DeleteInfoHash
<1> QED
  BY <1>2, <1>3, RecordlessStart DEF DeleteInfoHash

-----------------------------------------------------------------------------
(* An announce: its record is created and is nowhere but with its call. *)
LEMMA RecordStart ==
  ASSUME IndInv, TypeOK', NEW c \in Calls, NEW r \in Requests, Begin(c, r),
         NEW lh \in {"copyForRange", "copyForTake", "readActive", "done"},
         NEW lt \in {"idle", "copyForTake"}, NEW h \in Calls,
         \A g \in Goroutine : pc'[g] = IF g = Handler(c) THEN lh
                                       ELSE IF g = Task(c) THEN lt ELSE pc[g],
         lh = "readActive" => IsPeerConnectable(r.ep) /\ lt = "idle",
         lh = "copyForTake" => key'[Handler(c)] \in PeerID,
         lt = "copyForTake" => key'[Task(c)] \in PeerID,
         lh = "readActive" \/ lt # "idle" => r.event # "stopped",
         peers' = [peers EXCEPT ![c] = NewPeer(r)],
         root' = [root EXCEPT ![c] = h],
         \A g \in Goroutine : g[1] # c => key'[g] = key[g],
         UNCHANGED <<maps, found, copy, dst>>
  PROVE  IndInv'
<1>1. /\ \A g \in Goroutine : g[1] = c => pc[g] = "idle" /\ found[g] = None
      /\ r \in Request
      /\ NewPeer(r) \in Peer
      /\ \A m \in MapRef : \A k \in PeerID : maps[m][k] # c
      /\ \A g \in Goroutine : found[g] # c
  BY Starting
<1>2. /\ \A d \in Calls : root'[d] = IF d = c THEN h ELSE root[d]
      /\ \A d \in Calls : req'[d] = IF d = c THEN r ELSE req[d]
      /\ \A d \in Calls : peers'[d] = IF d = c THEN NewPeer(r) ELSE peers[d]
  BY DEF IndInv, TypeOK, Begin
<1>3. NewPeer(r).event = r.event /\ NewPeer(r).ep = r.ep
  BY DEF NewPeer
<1>4. Roles'
  BY <1>1, <1>2, Names DEF IndInv, Roles, Storing
<1>5. Scopes'
  BY <1>1, <1>2, Names DEF IndInv, Scopes, Ended, Storing
<1>6. Pending'
  BY <1>1, <1>2, <1>3, Names DEF IndInv, Pending, Ended, Storing, Admissible
<1>7. Fresh'
  BY <1>1, Names DEF IndInv, Fresh, Storing, Ended
<1>8. Held'
  <2>1. \A g \in Goroutine : found[g] # None => found[g] \in Calls /\ peers'[found[g]] = peers[found[g]]
    BY <1>1, <1>2 DEF IndInv, TypeOK
  <2> QED
    BY <2>1 DEF IndInv, Held, Admissible
<1>9. Exclusive'
  BY DEF IndInv, Exclusive
<1>10. StoredAdmissible' /\ Stored'
  BY <1>1, <1>2 DEF IndInv, TypeOK, StoredAdmissible, Stored, Keys
<1> QED
  BY <1>4, <1>5, <1>6, <1>7, <1>8, <1>9, <1>10 DEF IndInv

LEMMA AnnounceFirstStep ==
  ASSUME IndInv, NEW c \in Calls, NEW r \in Requests, AnnounceFirst(c, r)
  PROVE  IndInv'
<1>1. r \in Request /\ Begin(c, r)
  BY LocalAssumption DEF AnnounceFirst
<1>2. NewPeer(r) \in Peer /\ pc[Task(c)] = "idle"
  BY <1>1, Starting, Names
<1>3. TypeOK'
  <2>1. /\ infoHashMap' \in [InfoHash -> Calls \cup {None}]
        /\ lastClean' \in [Calls -> Nat]
        /\ peers' \in [Calls -> Peer \cup {None}]
    BY <1>2 DEF IndInv, TypeOK, AnnounceFirst
  <2>2. /\ root' \in [Calls -> Calls \cup {None}]
        /\ pc' \in [Goroutine -> Label]
    BY Names DEF IndInv, TypeOK, AnnounceFirst, Label
  <2>3. /\ req' \in [Calls -> Request \cup {None}]
        /\ last' \in Calls \cup {None}
        /\ answered' \in BOOLEAN
        /\ now' \in Nat /\ serving' \in BOOLEAN
    BY <1>1 DEF IndInv, TypeOK, Begin, clock
  <2> QED
    BY <2>1, <2>2, <2>3 DEF IndInv, TypeOK, AnnounceFirst, loops
<1>4. CASE IsPeerConnectable(r.ep) /\ r.event # "stopped"
  <2>1. \A g \in Goroutine : pc'[g] = IF g = Handler(c) THEN "readActive"
                                      ELSE IF g = Task(c) THEN "idle" ELSE pc[g]
    BY <1>2, <1>4, Names DEF IndInv, TypeOK, AnnounceFirst
  <2> QED
    BY <1>1, <1>3, <1>4, <2>1, RecordStart DEF AnnounceFirst, loops
<1>5. CASE ~(IsPeerConnectable(r.ep) /\ r.event # "stopped")
  <2>1. \A g \in Goroutine : pc'[g] = IF g = Handler(c) THEN "done"
                                      ELSE IF g = Task(c) THEN "idle" ELSE pc[g]
    BY <1>2, <1>5, Names DEF IndInv, TypeOK, AnnounceFirst
  <2> QED
    BY <1>1, <1>3, <2>1, RecordStart DEF AnnounceFirst, loops
<1> QED
  BY <1>4, <1>5

LEMMA AnnounceStoppedStep ==
  ASSUME IndInv, NEW c \in Calls, NEW r \in Requests, AnnounceStopped(c, r)
  PROVE  IndInv'
<1>1. r \in Request /\ Begin(c, r) /\ r.peerID \in PeerID /\ infoHashMap[r.infoHash] \in Calls
  BY LocalAssumption DEF AnnounceStopped, Request, IndInv, TypeOK
<1>2. NewPeer(r) \in Peer /\ pc[Task(c)] = "idle"
  BY <1>1, Starting, Names
<1>3. TypeOK'
  <2>1. /\ peers' \in [Calls -> Peer \cup {None}]
        /\ root' \in [Calls -> Calls \cup {None}]
    BY <1>1, <1>2 DEF IndInv, TypeOK, AnnounceStopped
  <2>2. /\ pc' \in [Goroutine -> Label]
        /\ key' \in [Goroutine -> PeerID \cup {None}]
    BY <1>1, Names DEF IndInv, TypeOK, AnnounceStopped, Label
  <2>3. /\ req' \in [Calls -> Request \cup {None}]
        /\ last' \in Calls \cup {None}
        /\ answered' \in BOOLEAN
        /\ now' \in Nat /\ serving' \in BOOLEAN
    BY <1>1 DEF IndInv, TypeOK, Begin, clock
  <2> QED
    BY <2>1, <2>2, <2>3 DEF IndInv, TypeOK, AnnounceStopped
<1>4. /\ \A g \in Goroutine : pc'[g] = IF g = Handler(c) THEN "copyForTake"
                                       ELSE IF g = Task(c) THEN "idle" ELSE pc[g]
      /\ key'[Handler(c)] = r.peerID
      /\ \A g \in Goroutine : g[1] # c => key'[g] = key[g]
  BY <1>2, Names DEF IndInv, TypeOK, AnnounceStopped
<1> QED
  BY <1>1, <1>3, <1>4, RecordStart DEF AnnounceStopped

LEMMA AnnounceKnownStep ==
  ASSUME IndInv, NEW c \in Calls, NEW r \in Requests, AnnounceKnown(c, r)
  PROVE  IndInv'
<1>1. r \in Request /\ Begin(c, r) /\ r.peerID \in PeerID /\ infoHashMap[r.infoHash] \in Calls
  BY LocalAssumption DEF AnnounceKnown, Request, IndInv, TypeOK
<1>2. NewPeer(r) \in Peer
  BY <1>1, Starting
<1>3. TypeOK'
  <2>1. /\ peers' \in [Calls -> Peer \cup {None}]
        /\ root' \in [Calls -> Calls \cup {None}]
        /\ key' \in [Goroutine -> PeerID \cup {None}]
    BY <1>1, <1>2, Names DEF IndInv, TypeOK, AnnounceKnown
  <2>2. pc' \in [Goroutine -> Label]
    BY Names DEF IndInv, TypeOK, AnnounceKnown, Label
  <2>3. /\ req' \in [Calls -> Request \cup {None}]
        /\ last' \in Calls \cup {None}
        /\ answered' \in BOOLEAN
        /\ now' \in Nat /\ serving' \in BOOLEAN
    BY <1>1 DEF IndInv, TypeOK, Begin, clock
  <2> QED
    BY <2>1, <2>2, <2>3 DEF IndInv, TypeOK, AnnounceKnown
<1>4. /\ \A g \in Goroutine : pc'[g] = IF g = Handler(c) THEN "copyForRange"
                                       ELSE IF g = Task(c) THEN "copyForTake" ELSE pc[g]
      /\ key'[Task(c)] = r.peerID
      /\ \A g \in Goroutine : g[1] # c => key'[g] = key[g]
  BY Names DEF IndInv, TypeOK, AnnounceKnown
<1> QED
  BY <1>1, <1>3, <1>4, RecordStart DEF AnnounceKnown

-----------------------------------------------------------------------------
(* Steps that move no record. *)
LEMMA CopyForTakeStep ==
  ASSUME IndInv, NEW g \in Goroutine, CopyForTake(g)
  PROVE  IndInv'
<1>1. root[g[1]] \in Calls /\ peerMap[root[g[1]]] \in [Slot -> MapRef]
  BY DEF IndInv, TypeOK, Scopes, CopyForTake, Ended
<1>2. TypeOK'
  BY <1>1, Indices DEF IndInv, TypeOK, CopyForTake, clock, store, locals, history, Label
<1>3. /\ \A h \in Goroutine : pc'[h] = IF h = g THEN "take" ELSE pc[h]
      /\ \A h \in Goroutine : copy'[h] = IF h = g THEN peerMap[root[g[1]]] ELSE copy[h]
      /\ UNCHANGED <<maps, peers, found, req, root, key, dst>>
  BY DEF IndInv, TypeOK, CopyForTake, store, locals
<1>4. \A h \in Goroutine : pc'[h] = pc[h] \/ Allowed(h, pc'[h])
  BY <1>3, Names DEF Allowed, CopyForTake, IndInv, Roles, Ended, Storing
<1>5. Scopes'
  BY <1>1, <1>3 DEF IndInv, Scopes, CopyForTake, Ended, Storing
<1> QED
  BY <1>2, <1>3, <1>4, <1>5, Move DEF IndInv

LEMMA CopyForRangeStep ==
  ASSUME IndInv, NEW c \in Calls, CopyForRange(c)
  PROVE  IndInv'
<1> DEFINE g == Handler(c)
<1>1. g \in Goroutine /\ g[1] = c /\ root[c] \in Calls /\ peerMap[root[c]] \in [Slot -> MapRef]
  BY Names DEF IndInv, TypeOK, Scopes, CopyForRange, Ended
<1>2. TypeOK'
  BY <1>1, Indices DEF IndInv, TypeOK, CopyForRange, clock, store, history, Label
<1>3. /\ \A h \in Goroutine : pc'[h] = IF h = g THEN "range" ELSE pc[h]
      /\ \A h \in Goroutine : copy'[h] = IF h = g THEN peerMap[root[c]] ELSE copy[h]
      /\ UNCHANGED <<maps, peers, found, req, root, key, dst>>
  BY DEF IndInv, TypeOK, CopyForRange, store
<1>4. \A h \in Goroutine : pc'[h] = pc[h] \/ Allowed(h, pc'[h])
  BY <1>1, <1>3, Names DEF Allowed, CopyForRange, Ended, Storing
<1>5. Scopes'
  BY <1>1, <1>3 DEF IndInv, Scopes, CopyForRange, Ended, Storing
<1> QED
  BY <1>2, <1>3, <1>4, <1>5, Move DEF IndInv

LEMMA ReadActiveStep ==
  ASSUME IndInv, NEW g \in Goroutine, ReadActive(g)
  PROVE  IndInv'
<1>1. root[g[1]] \in Calls /\ currentActive[root[g[1]]] \in Slot
  BY DEF IndInv, TypeOK, Scopes, ReadActive, Ended
<1>2. TypeOK'
  BY <1>1 DEF IndInv, TypeOK, ReadActive, clock, store, locals, history, Label
<1>3. /\ \A h \in Goroutine : pc'[h] = IF h = g THEN "readMap" ELSE pc[h]
      /\ UNCHANGED <<maps, peers, found, req, root, copy, key, dst>>
  BY DEF IndInv, TypeOK, ReadActive, store, locals
<1>4. \A h \in Goroutine : pc'[h] = pc[h] \/ Allowed(h, pc'[h])
  BY <1>3, Names DEF Allowed, ReadActive, IndInv, Roles, Ended, Storing
<1>5. Scopes'
  BY <1>3 DEF IndInv, Scopes, ReadActive, Ended, Storing
<1> QED
  BY <1>2, <1>3, <1>4, <1>5, Move DEF IndInv

LEMMA ReadMapStep ==
  ASSUME IndInv, NEW g \in Goroutine, ReadMap(g)
  PROVE  IndInv'
<1>1. root[g[1]] \in Calls /\ peerMap[root[g[1]]][idx[g]] \in MapRef
  <2>1. root[g[1]] \in Calls /\ idx[g] \in Slot
    BY DEF IndInv, TypeOK, Scopes, ReadMap, Ended
  <2>2. peerMap[root[g[1]]] \in [Slot -> MapRef]
    BY <2>1 DEF IndInv, TypeOK
  <2> QED
    BY <2>1, <2>2
<1>2. TypeOK'
  BY <1>1, Indices DEF IndInv, TypeOK, ReadMap, clock, store, locals, history, Label
<1>3. /\ \A h \in Goroutine : pc'[h] = IF h = g THEN "put" ELSE pc[h]
      /\ \A h \in Goroutine : dst'[h] = IF h = g THEN peerMap[root[g[1]]][idx[g]] ELSE dst[h]
      /\ UNCHANGED <<maps, peers, found, req, root, copy, key>>
  BY DEF IndInv, TypeOK, ReadMap, store, locals
<1>4. \A h \in Goroutine : pc'[h] = pc[h] \/ Allowed(h, pc'[h])
  BY <1>3, Names DEF Allowed, ReadMap, IndInv, Roles, Ended, Storing
<1>5. Scopes'
  BY <1>1, <1>3 DEF IndInv, Scopes, ReadMap, Ended, Storing
<1> QED
  BY <1>2, <1>3, <1>4, <1>5, Move DEF IndInv

(* A handler that goes on, or returns, after its loop. *)
LEMMA HandlerMove ==
  ASSUME IndInv, TypeOK', NEW c \in Calls,
         NEW l \in {"nextKey", "readCurrent", "swap", "empty", "drop", "done", "copyForTake"},
         pc[Handler(c)] \in {"checkLen", "readCurrent", "swap", "empty", "nextKey", "drop"},
         pc' = [pc EXCEPT ![Handler(c)] = l],
         l = "copyForTake" => key'[Handler(c)] \in PeerID,
         \A g \in Goroutine : g # Handler(c) => key'[g] = key[g],
         UNCHANGED <<maps, peers, found, req, root, copy, dst>>
  PROVE  IndInv'
<1>1. \A h \in Goroutine : pc'[h] = IF h = Handler(c) THEN l ELSE pc[h]
  BY DEF IndInv, TypeOK
<1>2. \A h \in Goroutine : pc'[h] = pc[h] \/ Allowed(h, pc'[h])
  BY <1>1, Names DEF Allowed, Ended, Storing
<1>3. Scopes'
  BY <1>1, Names DEF IndInv, Scopes, Ended, Storing
<1> QED
  BY <1>2, <1>3, Move DEF IndInv

LEMMA Rooted ==
  ASSUME IndInv, NEW c \in Calls, pc[Handler(c)] \notin Ended
  PROVE  root[c] \in Calls /\ req[c] \in Request
BY Names DEF IndInv, Scopes

LEMMA CheckLenStep ==
  ASSUME IndInv, NEW c \in Calls, CheckLen(c)
  PROVE  IndInv'
<1>1. TypeOK'
  BY Names DEF IndInv, TypeOK, CheckLen, clock, store, locals, loops, history, Label
<1>2. PICK l \in {"readCurrent", "done"} : pc' = [pc EXCEPT ![Handler(c)] = l]
  BY DEF CheckLen
<1> QED
  BY <1>1, <1>2, HandlerMove DEF CheckLen, store, locals, loops

LEMMA ReadCurrentStep ==
  ASSUME IndInv, NEW c \in Calls, ReadCurrent(c)
  PROVE  IndInv'
<1>1. root[c] \in Calls
  BY Rooted DEF ReadCurrent, Ended
<1>2. TypeOK'
  BY <1>1, Names DEF IndInv, TypeOK, ReadCurrent, clock, store, loops, history, Label
<1> QED
  BY <1>2, HandlerMove DEF ReadCurrent, store, loops

LEMMA CompareAndSwapStep ==
  ASSUME IndInv, NEW c \in Calls, CompareAndSwap(c)
  PROVE  IndInv'
<1>1. (seen[c] + 1) % 3 \in Slot
  BY Indices DEF IndInv, TypeOK
<1>2. currentActive' \in [Calls -> Slot]
  <2>1. \/ currentActive' = [currentActive EXCEPT ![root[c]] = (seen[c] + 1) % 3]
        \/ currentActive' = currentActive
    BY DEF CompareAndSwap, NextSlot
  <2> QED
    BY <1>1, <2>1 DEF IndInv, TypeOK
<1>3. PICK l \in {"empty", "done"} : pc' = [pc EXCEPT ![Handler(c)] = l]
  BY DEF CompareAndSwap
<1>4. pc' \in [Goroutine -> Label]
  BY <1>3, Names DEF IndInv, TypeOK, Label
<1>5. TypeOK'
  BY <1>2, <1>4 DEF IndInv, TypeOK, CompareAndSwap, clock, locals, loops, history
<1> QED
  BY <1>3, <1>5, HandlerMove DEF CompareAndSwap, locals, loops

LEMMA EmptyOldestStep ==
  ASSUME IndInv, NEW c \in Calls, EmptyOldest(c)
  PROVE  IndInv'
<1>1. Oldest(c) \in Slot /\ <<c, 3>> \in MapRef /\ root[c] \in Calls
  <2>1. root[c] \in Calls
    BY Rooted DEF EmptyOldest, Ended
  <2>2. seen[c] \in Slot
    BY DEF IndInv, TypeOK
  <2>3. 3 \in 0..3
    OBVIOUS
  <2> QED
    BY <2>1, <2>2, <2>3, Indices DEF Oldest
<1>2. peerMap[root[c]] \in [Slot -> MapRef]
  BY <1>1 DEF IndInv, TypeOK
<1>3. [peerMap[root[c]] EXCEPT ![Oldest(c)] = <<c, 3>>] \in [Slot -> MapRef]
  BY <1>1, <1>2
<1>4. peerMap' \in [Calls -> [Slot -> MapRef]]
  BY <1>1, <1>3 DEF IndInv, TypeOK, EmptyOldest
<1>5. TypeOK'
  BY <1>4, Names DEF IndInv, TypeOK, EmptyOldest, clock, locals, loops, history, Label
<1> QED
  BY <1>5, HandlerMove DEF EmptyOldest, locals, loops

LEMMA DropRootStep ==
  ASSUME IndInv, NEW c \in Calls, DropRoot(c)
  PROVE  IndInv'
<1>1. TypeOK'
  BY Names DEF IndInv, TypeOK, DropRoot, clock, locals, loops, history, Label
<1> QED
  BY <1>1, HandlerMove DEF DropRoot, locals, loops

LEMMA CleanNextStep ==
  ASSUME IndInv, NEW c \in Calls, CleanNext(c)
  PROVE  IndInv'
<1>1. CASE /\ stale[c] = {}
           /\ lastClean' = [lastClean EXCEPT ![root[c]] = now]
           /\ UNCHANGED <<stale, key>>
  <2>1. PICK l \in {"drop", "done"} : pc' = [pc EXCEPT ![Handler(c)] = l]
    BY <1>1 DEF CleanNext
  <2>2. lastClean' \in [Calls -> Nat] /\ pc' \in [Goroutine -> Label]
    BY <1>1, <2>1, Names DEF IndInv, TypeOK, CleanNext, Label
  <2>3. TypeOK'
    BY <1>1, <2>2 DEF IndInv, TypeOK, CleanNext, clock, history
  <2> QED
    BY <1>1, <2>1, <2>3, HandlerMove DEF CleanNext
<1>2. ASSUME NEW e \in stale[c],
             stale' = [stale EXCEPT ![c] = @ \ {e}],
             key' = [key EXCEPT ![Handler(c)] = e[2]],
             pc' = [pc EXCEPT ![Handler(c)] = "copyForTake"],
             UNCHANGED lastClean
      PROVE  IndInv'
  <2>1. e[2] \in PeerID
    BY DEF IndInv, TypeOK
  <2>2. /\ stale' \in [Calls -> SUBSET (Slot \X PeerID)]
        /\ key' \in [Goroutine -> PeerID \cup {None}]
        /\ pc' \in [Goroutine -> Label]
        /\ key'[Handler(c)] = e[2]
        /\ \A g \in Goroutine : g # Handler(c) => key'[g] = key[g]
    BY <1>2, <2>1, Names DEF IndInv, TypeOK, Label
  <2>3. TypeOK'
    BY <1>2, <2>2 DEF IndInv, TypeOK, CleanNext, clock, history
  <2> QED
    BY <1>2, <2>1, <2>2, <2>3, HandlerMove DEF CleanNext
<1> QED
  BY <1>1, <1>2 DEF CleanNext

LEMMA NextExpiredStep ==
  ASSUME IndInv, NEW c \in Calls, NextExpired(c)
  PROVE  IndInv'
<1> DEFINE g == Reaper(c)
<1>1. g \in Goroutine /\ g[1] = c /\ g[2] = "reaper" /\ pc[Handler(c)] # "idle" /\ root[c] \in Calls
      /\ found[g] = None
  BY Names DEF IndInv, Roles, Scopes, NextExpired, Ended, Storing
<1>2. CASE stale[c] = {} /\ pc' = [pc EXCEPT ![g] = "done"] /\ UNCHANGED <<stale, copy, pos, key>>
  <2>1. TypeOK'
    BY <1>1, <1>2 DEF IndInv, TypeOK, NextExpired, clock, store, history, Label
  <2>2. \A h \in Goroutine : pc'[h] = IF h = g THEN "done" ELSE pc[h]
    BY <1>2 DEF IndInv, TypeOK
  <2>3. \A h \in Goroutine : pc'[h] = pc[h] \/ Allowed(h, pc'[h])
    BY <1>1, <2>2 DEF Allowed, Storing
  <2>4. UNCHANGED <<maps, peers, found, req, root, dst>>
    BY DEF NextExpired, store
  <2>5. Scopes'
    BY <1>1, <1>2, <2>2, <2>4 DEF IndInv, Scopes, Ended, Storing
  <2> QED
    BY <2>1, <2>3, <2>4, <2>5, Move DEF IndInv
<1>3. ASSUME NEW e \in stale[c],
             stale' = [stale EXCEPT ![c] = @ \ {e}],
             key' = [key EXCEPT ![g] = e[2]],
             copy' = [copy EXCEPT ![g] = peerMap[root[c]]],
             pos' = [pos EXCEPT ![g] = 0],
             pc' = [pc EXCEPT ![g] = "remove"]
      PROVE  IndInv'
  <2>1. e[2] \in PeerID /\ peerMap[root[c]] \in [Slot -> MapRef]
    BY <1>1 DEF IndInv, TypeOK
  <2>2. /\ stale' \in [Calls -> SUBSET (Slot \X PeerID)]
        /\ key' \in [Goroutine -> PeerID \cup {None}]
        /\ copy' \in [Goroutine -> [Slot -> MapRef] \cup {None}]
        /\ pos' \in [Goroutine -> Slot]
        /\ pc' \in [Goroutine -> Label]
    BY <1>1, <1>3, <2>1, Indices DEF IndInv, TypeOK, Label
  <2>3. TypeOK'
    BY <2>2 DEF IndInv, TypeOK, NextExpired, clock, store, history
  <2>4. /\ \A h \in Goroutine : pc'[h] = IF h = g THEN "remove" ELSE pc[h]
        /\ \A h \in Goroutine : key'[h] = IF h = g THEN e[2] ELSE key[h]
        /\ \A h \in Goroutine : copy'[h] = IF h = g THEN peerMap[root[c]] ELSE copy[h]
    BY <1>3 DEF IndInv, TypeOK
  <2>5. \A h \in Goroutine : pc'[h] = pc[h] \/ Allowed(h, pc'[h])
    BY <1>1, <2>4 DEF Allowed, Storing
  <2>6. UNCHANGED <<maps, peers, found, req, root, dst>>
    BY DEF NextExpired, store
  <2>7. req[c] \in Request
    BY <1>1 DEF IndInv, Scopes, NextExpired, Ended
  <2>8. Scopes'
    BY <1>1, <2>1, <2>4, <2>6, <2>7 DEF IndInv, Scopes, Ended, Storing
  <2> QED
    BY <2>3, <2>5, <2>6, <2>8, Move DEF IndInv
<1> QED
  BY <1>2, <1>3 DEF NextExpired

-----------------------------------------------------------------------------
(* Range over one map: what it gathers has its type. *)
LEMMA KeyCount ==
  ASSUME NEW S, S \subseteq PeerID
  PROVE  Cardinality(S) \in Nat
BY LocalAssumption, FS_Subset, FS_CardinalityType

LEMMA TallyType ==
  ASSUME TypeOK, NEW c \in Calls, NEW m \in MapRef
  PROVE  Tally(c, m) \in [seeder : Nat, complete : Nat, incomplete : Nat, downloaded : Nat]
<1> DEFINE whole == {k \in Live(c, m) : peers[maps[m][k]].left = 0}
           rest == Live(c, m) \ whole
           finished == {k \in rest : peers[maps[m][k]].event = "completed"}
           active == {k \in whole : peers[maps[m][k]].event # "stopped"}
<1>1. whole \subseteq PeerID /\ finished \subseteq PeerID
      /\ active \subseteq PeerID /\ rest \ finished \subseteq PeerID
  BY DEF Live, Keys
<1>2. /\ Cardinality(whole) \in Nat /\ Cardinality(finished) \in Nat
      /\ Cardinality(active) \in Nat /\ Cardinality(rest \ finished) \in Nat
  <2> HIDE DEF whole, rest, finished, active
  <2> QED
    BY <1>1, KeyCount
<1>3. Tally(c, m) = [seeder |-> counts[c].seeder + Cardinality(active),
                     complete |-> counts[c].complete + Cardinality(whole) + Cardinality(finished),
                     incomplete |-> counts[c].incomplete + Cardinality(rest \ finished),
                     downloaded |-> counts[c].downloaded + Cardinality(whole)]
  BY DEF Tally
<1>4. /\ counts[c].seeder \in Nat /\ counts[c].complete \in Nat
      /\ counts[c].incomplete \in Nat /\ counts[c].downloaded \in Nat
  BY DEF TypeOK
<1> HIDE DEF whole, rest, finished, active
<1> QED
  BY <1>2, <1>3, <1>4

LEMMA RangeSlotStep ==
  ASSUME IndInv, NEW c \in Calls, RangeSlot(c)
  PROVE  IndInv'
<1> DEFINE g == Handler(c)
           m == copy[g][pos[g]]
           late == stale[c] \cup {<<pos[g], k>> : k \in ExpiredKeys(c, m)}
           answer == {<<pos[g], maps[m][k]>> : k \in Answer(c, m)}
<1>1. /\ g \in Goroutine /\ g[1] = c /\ g[2] = "handler" /\ pc[g] = "range"
      /\ Reaper(c) \in Goroutine /\ Reaper(c)[1] = c /\ Reaper(c)[2] = "reaper" /\ g # Reaper(c)
  BY Names DEF RangeSlot
<1>2. root[c] \in Calls /\ req[c] \in Request
  BY <1>1, Rooted DEF Ended
<1>3. m \in MapRef /\ pos[g] \in Slot
  <2>1. copy[g] \in [Slot -> MapRef] /\ pos[g] \in Slot
    BY <1>1 DEF IndInv, Scopes, TypeOK
  <2> QED
    BY <2>1
<1>4. late \subseteq Slot \X PeerID /\ answer \subseteq Slot \X Calls
  <2>1. ExpiredKeys(c, m) \subseteq PeerID
    BY DEF ExpiredKeys, Visited, Keys
  <2>2. \A k \in Answer(c, m) : k \in PeerID /\ maps[m][k] # None
    BY DEF Answer, Others, Candidates, Keys
  <2>3. \A k \in PeerID : maps[m][k] \in Calls \cup {None}
    BY <1>3 DEF IndInv, TypeOK
  <2> QED
    BY <1>3, <2>1, <2>2, <2>3 DEF IndInv, TypeOK
<1>5. /\ stale' \in [Calls -> SUBSET (Slot \X PeerID)]
      /\ resp' \in [Calls -> SUBSET (Slot \X Calls)]
  <2>1. stale' = [stale EXCEPT ![c] = late]
    BY DEF RangeSlot
  <2>2. resp' = resp \/ resp' = [resp EXCEPT ![c] = resp[c] \cup answer]
    BY DEF RangeSlot
  <2>3. stale \in [Calls -> SUBSET (Slot \X PeerID)] /\ resp \in [Calls -> SUBSET (Slot \X Calls)]
    BY DEF IndInv, TypeOK
  <2> HIDE DEF late, answer
  <2>4. resp[c] \cup answer \in SUBSET (Slot \X Calls)
    BY <1>4, <2>3
  <2>5. late \in SUBSET (Slot \X PeerID)
    BY <1>4
  <2>6. stale' \in [Calls -> SUBSET (Slot \X PeerID)]
    BY <2>1, <2>3, <2>5
  <2>7. resp' \in [Calls -> SUBSET (Slot \X Calls)]
    BY <2>2, <2>3, <2>4
  <2> QED
    BY <2>6, <2>7
<1>6. counts' \in [Calls -> [seeder : Nat, complete : Nat, incomplete : Nat, downloaded : Nat]]
  <2>1. counts' = counts \/ counts' = [counts EXCEPT ![c] = Tally(c, m)]
    BY DEF RangeSlot
  <2> DEFINE Count == [seeder : Nat, complete : Nat, incomplete : Nat, downloaded : Nat]
  <2>2. Tally(c, m) \in Count
    BY <1>3, TallyType DEF IndInv
  <2>3. counts \in [Calls -> Count]
    BY DEF IndInv, TypeOK
  <2> HIDE DEF Count, m
  <2>4. counts' \in [Calls -> Count]
    BY <2>1, <2>2, <2>3
  <2> QED
    BY <2>4 DEF Count
<1>7. PICK lh \in {"range", "checkLen", "nextKey", "done"}, lr \in {pc[Reaper(c)], "nextKey"} :
        /\ pc' = [pc EXCEPT ![g] = lh, ![Reaper(c)] = lr]
        /\ lh = "range" => copy' = copy
  <2>1. CASE pos[g] < 2
    <3>1. pc' = pc /\ copy' = copy
      BY <2>1 DEF RangeSlot
    <3>2. pc = [pc EXCEPT ![g] = "range", ![Reaper(c)] = pc[Reaper(c)]]
      BY <1>1 DEF IndInv, TypeOK
    <3> QED
      BY <3>1, <3>2
  <2>2. CASE ~(pos[g] < 2)
    <3> DEFINE lh == CASE req[c].op = "announce" -> "checkLen"
                       [] req[c].op = "clean" -> "nextKey"
                       [] OTHER -> "done"
               lr == IF req[c].op # "clean" /\ late # {} THEN "nextKey" ELSE pc[Reaper(c)]
    <3>1. lh \in {"checkLen", "nextKey", "done"} /\ lr \in {pc[Reaper(c)], "nextKey"}
      OBVIOUS
    <3>2. pc' = [pc EXCEPT ![g] = lh, ![Reaper(c)] = lr]
      BY <1>1, <2>2 DEF RangeSlot
    <3> HIDE DEF lh, lr
    <3> QED
      BY <3>1, <3>2
  <2> QED
    BY <2>1, <2>2
<1>8. /\ copy' \in [Goroutine -> [Slot -> MapRef] \cup {None}]
      /\ pos' \in [Goroutine -> Slot]
      /\ \A h \in Goroutine : h # g => copy'[h] = copy[h]
  <2>1. \/ copy' = copy /\ pos' = [pos EXCEPT ![g] = pos[g] + 1] /\ pos[g] < 2
        \/ copy' = [copy EXCEPT ![g] = None] /\ pos' = [pos EXCEPT ![g] = 0]
    BY DEF RangeSlot, EndLoop
  <2>2. /\ copy \in [Goroutine -> [Slot -> MapRef] \cup {None}]
        /\ pos \in [Goroutine -> Slot]
    BY DEF IndInv, TypeOK
  <2>3. CASE copy' = copy /\ pos' = [pos EXCEPT ![g] = pos[g] + 1] /\ pos[g] < 2
    BY <1>1, <1>3, <2>2, <2>3, Indices
  <2>4. CASE copy' = [copy EXCEPT ![g] = None] /\ pos' = [pos EXCEPT ![g] = 0]
    BY <1>1, <2>2, <2>4, Indices
  <2> QED
    BY <2>1, <2>3, <2>4
<1>9. /\ \A h \in Goroutine : pc'[h] = IF h = g THEN lh ELSE IF h = Reaper(c) THEN lr ELSE pc[h]
      /\ pc' \in [Goroutine -> Label]
  BY <1>1, <1>7 DEF IndInv, TypeOK, Label
<1>10. TypeOK'
  BY <1>5, <1>6, <1>8, <1>9 DEF IndInv, TypeOK, RangeSlot, clock, store, history
<1>11. \A h \in Goroutine : pc'[h] = pc[h] \/ Allowed(h, pc'[h])
  BY <1>1, <1>9 DEF Allowed, Ended, Storing
<1>12. UNCHANGED <<maps, peers, found, req, root, key, dst>>
  BY DEF RangeSlot, store
<1>13. Scopes'
  BY <1>1, <1>2, <1>7, <1>8, <1>9, <1>12, Names DEF IndInv, Scopes, Roles, Ended, Storing
<1> QED
  BY <1>10, <1>11, <1>12, <1>13, Move DEF IndInv

-----------------------------------------------------------------------------
(* Steps that write, take out or store a record. *)

(* The task writes a record that only it holds; no record that its own     *)
(* call has yet to store is touched.                                       *)
LEMMA UpdateKnownStep ==
  ASSUME IndInv, NEW c \in Calls, UpdateKnown(c)
  PROVE  IndInv'
<1> DEFINE g == Task(c)
           o == found[g]
           p == [peers[o] EXCEPT !.left = peers[c].left, !.event = peers[c].event,
                                 !.lastSeen = peers[c].lastSeen]
<1>1. g \in Goroutine /\ g[1] = c /\ g[2] = "task" /\ pc[g] = "update"
  BY Names DEF UpdateKnown
<1>2. /\ o \in Calls
      /\ Admissible(peers[o])
      /\ peers[c] \in Peer /\ peers[c].event # "stopped"
      /\ o # c
  <2>1. o \in Calls
    BY <1>1 DEF IndInv, Scopes
  <2>2. peers[c] \in Peer /\ peers[c].event # "stopped"
    BY <1>1 DEF IndInv, Pending, Ended
  <2>3. o # c
    BY <1>1 DEF IndInv, Fresh, Ended
  <2> QED
    BY <1>1, <2>1, <2>2, <2>3, LocalAssumption DEF IndInv, Held
<1>3. /\ Admissible(p) /\ p.id = peers[o].id /\ p.ep = peers[o].ep
  BY <1>2 DEF Admissible, Peer
<1>4. /\ \A d \in Calls : peers'[d] = IF d = o THEN p ELSE peers[d]
      /\ \A h \in Goroutine : pc'[h] = IF h = g THEN "readActive" ELSE pc[h]
      /\ UNCHANGED <<maps, found, req, root, copy, key, dst>>
  BY DEF UpdateKnown, Refreshed, IndInv, TypeOK, locals, loops
<1>5. TypeOK'
  <2>1. peers' \in [Calls -> Peer \cup {None}]
    BY <1>2, <1>3 DEF UpdateKnown, Refreshed, IndInv, TypeOK, Admissible
  <2>2. pc' \in [Goroutine -> Label]
    BY <1>1 DEF UpdateKnown, IndInv, TypeOK, Label
  <2> QED
    BY <2>1, <2>2 DEF UpdateKnown, IndInv, TypeOK, clock, locals, loops, history
<1> HIDE DEF p
<1>6. pc[Handler(o)] # "idle" /\ pc[Handler(o)] \notin Storing /\ pc[Task(o)] \in Ended
  BY <1>1, <1>2 DEF IndInv, Fresh
<1>7. Roles'
  BY <1>1, <1>2, <1>4, <1>6, Names DEF IndInv, Roles, Ended, Storing
<1>8. Scopes'
  BY <1>1, <1>2, <1>4 DEF IndInv, Scopes, Ended, Storing
<1>9. Pending'
  BY <1>1, <1>2, <1>4, <1>6, Names, LocalAssumption DEF IndInv, Pending, Ended, Storing, Admissible
<1>10. Fresh'
  BY <1>1, <1>4, Names DEF IndInv, Fresh, Ended, Storing
<1>11. Held'
  BY <1>2, <1>3, <1>4 DEF IndInv, Held, TypeOK, Admissible
<1>12. Exclusive'
  BY <1>4 DEF IndInv, Exclusive
<1>13. StoredAdmissible' /\ Stored'
  <2>1. \A m \in MapRef : \A k \in Keys(m) : maps[m][k] \in Calls /\ maps[m][k] # o
    BY <1>1, <1>2, LocalAssumption DEF IndInv, TypeOK, Keys, Exclusive
  <2>2. \A m \in MapRef : \A k \in Keys(m) : peers'[maps[m][k]] = peers[maps[m][k]]
    BY <1>4, <2>1
  <2> QED
    BY <1>4, <2>2 DEF IndInv, StoredAdmissible, Stored, Keys
<1> QED
  BY <1>5, <1>7, <1>8, <1>9, <1>10, <1>11, <1>12, <1>13 DEF IndInv

(* LoadAndDelete at one map moves a record from the map into one hand. *)
LEMMA TakeStep ==
  ASSUME IndInv, NEW g \in Goroutine, Take(g)
  PROVE  IndInv'
<1> DEFINE c == g[1]
           m == copy[g][pos[g]]
           k == key[g]
           x == maps[m][k]
           f == Newest(found[g], x)
           f1 == found'[g]
           l == pc'[g]
<1>1. /\ c \in Calls /\ pc[g] = "take"
      /\ (g = Handler(c) /\ g[2] = "handler") \/ (g = Task(c) /\ g[2] = "task")
  <2>1. pc[g] = "take"
    BY DEF Take, Without
  <2>2. pc[Reaper(c)] # "take"
    BY Names DEF IndInv, Roles
  <2>3. c \in Calls /\ g \in {Handler(c), Task(c), Reaper(c)}
    BY Names
  <2>4. g = Handler(c) \/ g = Task(c)
    BY <2>1, <2>2, <2>3
  <2> QED
    BY <2>1, <2>3, <2>4, Names
<1>2. m \in MapRef /\ k \in PeerID /\ x \in Calls \cup {None} /\ pos[g] \in Slot
  <2>1. copy[g] \in [Slot -> MapRef] /\ pos[g] \in Slot /\ k \in PeerID
    BY <1>1 DEF IndInv, Scopes, TypeOK
  <2>2. m \in MapRef
    BY <2>1
  <2>3. maps[m] \in [PeerID -> Calls \cup {None}]
    BY <2>2 DEF IndInv, TypeOK
  <2> QED
    BY <2>1, <2>2, <2>3
<1>3. f \in {found[g], x} /\ found[g] \in Calls \cup {None} /\ (f = None => x = None)
  BY LocalAssumption, <1>2 DEF Newest, IndInv, TypeOK
<1>4. \A n \in MapRef : \A j \in PeerID :
        maps'[n][j] = IF n = m /\ j = k THEN None ELSE maps[n][j]
  <2>1. maps' = [maps EXCEPT ![m] = [maps[m] EXCEPT ![k] = None]]
    BY DEF Take, Without
  <2>2. \A n \in MapRef : maps[n] \in [PeerID -> Calls \cup {None}]
    BY DEF IndInv, TypeOK
  <2>3. maps \in [MapRef -> [PeerID -> Calls \cup {None}]]
    BY DEF IndInv, TypeOK
  <2> HIDE DEF m, k
  <2> QED
    BY <1>2, <2>1, <2>2, <2>3
<1>5. \A h \in Goroutine : h # g => found'[h] = found[h] /\ pc'[h] = pc[h]
                                    /\ copy'[h] = copy[h]
  BY DEF Take, EndLoop, IndInv, TypeOK
<1>6. UNCHANGED <<peers, req, root, key, dst>>
  BY DEF Take, locals
<1>7. /\ f1 \in {f, None}
      /\ \/ l = "take" /\ copy' = copy
         \/ g = Handler(c) /\ l \in {"nextKey", "done"} /\ f1 = None
         \/ g = Task(c) /\ l = "update" /\ f1 # None
         \/ g = Task(c) /\ l = "readActive" /\ f1 = None /\ IsPeerConnectable(req[c].ep)
         \/ g = Task(c) /\ l = "done" /\ f1 = None
  <2>1. f1 = IF pos[g] = 2 /\ g[2] = "handler" THEN None ELSE f
    BY DEF Take, IndInv, TypeOK
  <2>2. CASE pos[g] < 2
    BY <1>1, <2>1, <2>2 DEF Take, EndLoop
  <2>3. CASE ~(pos[g] < 2)
    <3>1. pos[g] = 2
      BY <1>2, <2>3 DEF Slot
    <3>2. l = AfterTake(g, f)
      BY <2>3 DEF Take, IndInv, TypeOK
    <3>3. CASE g = Handler(c)
      BY <1>1, <2>1, <3>1, <3>2, <3>3, Names DEF AfterTake
    <3>4. CASE g = Task(c)
      BY <1>1, <2>1, <3>1, <3>2, <3>4, Names DEF AfterTake
    <3> QED
      BY <1>1, <3>3, <3>4
  <2> QED
    BY <2>2, <2>3
<1> HIDE DEF f, f1, l, m, k, x
<1>8. TypeOK'
  <2>1. maps' \in [MapRef -> [PeerID -> Calls \cup {None}]]
    <3>1. [maps[m] EXCEPT ![k] = None] \in [PeerID -> Calls \cup {None}]
      BY <1>2 DEF IndInv, TypeOK
    <3>2. maps' = [maps EXCEPT ![m] = [maps[m] EXCEPT ![k] = None]]
      BY DEF Take, Without, m, k
    <3> QED
      BY <1>2, <3>1, <3>2 DEF IndInv, TypeOK
  <2>2. found' \in [Goroutine -> Calls \cup {None}]
    <3>1. f1 \in Calls \cup {None}
      BY <1>2, <1>3, <1>7
    <3>2. found' = [found EXCEPT ![g] = f1]
      BY DEF Take, f1, IndInv, TypeOK
    <3> QED
      BY <3>1, <3>2 DEF IndInv, TypeOK
  <2>3. pc' \in [Goroutine -> Label]
    <3>1. l \in Label
      BY <1>7 DEF Label
    <3>2. pc' = [pc EXCEPT ![g] = l]
      BY DEF Take, l, IndInv, TypeOK
    <3> QED
      BY <3>1, <3>2 DEF IndInv, TypeOK
  <2>4. /\ copy' \in [Goroutine -> [Slot -> MapRef] \cup {None}]
        /\ pos' \in [Goroutine -> Slot]
    <3>1. \/ copy' = copy /\ pos' = [pos EXCEPT ![g] = pos[g] + 1] /\ pos[g] < 2
          \/ copy' = [copy EXCEPT ![g] = None] /\ pos' = [pos EXCEPT ![g] = 0]
      BY DEF Take, EndLoop
    <3>2. /\ copy \in [Goroutine -> [Slot -> MapRef] \cup {None}]
          /\ pos \in [Goroutine -> Slot]
      BY DEF IndInv, TypeOK
    <3>3. CASE copy' = copy /\ pos' = [pos EXCEPT ![g] = pos[g] + 1] /\ pos[g] < 2
      BY <1>2, <3>2, <3>3, Indices
    <3>4. CASE copy' = [copy EXCEPT ![g] = None] /\ pos' = [pos EXCEPT ![g] = 0]
      BY <3>2, <3>4, Indices
    <3> QED
      BY <3>1, <3>3, <3>4
  <2> QED
    BY <2>1, <2>2, <2>3, <2>4 DEF Take, IndInv, TypeOK, clock, locals, history
<1>9. pc'[g] = l /\ found'[g] = f1
  BY DEF l, f1
<1>10. \A o \in Calls : (\A n \in MapRef : \A j \in PeerID : maps[n][j] # o)
                         /\ (\A h \in Goroutine : found[h] # o)
                        => (\A n \in MapRef : \A j \in PeerID : maps'[n][j] # o)
                         /\ (\A h \in Goroutine : found'[h] # o)
  BY <1>2, <1>3, <1>4, <1>5, <1>7, <1>9, LocalAssumption DEF x
<1>11. Roles'
  BY <1>1, <1>5, <1>6, <1>7, <1>9, Names DEF IndInv, Roles, Ended, Storing
<1>12. Scopes'
  <2>1. f1 \in Calls \cup {None}
    BY <1>2, <1>3, <1>7
  <2>2. /\ root[c] \in Calls /\ req[c] \in Request
        /\ copy[g] \in [Slot -> MapRef] /\ key[g] \in PeerID
    BY <1>1 DEF IndInv, Scopes, Ended
  <2> SUFFICES ASSUME NEW h \in Goroutine
               PROVE  /\ pc'[h] \notin Ended => root'[h[1]] \in Calls /\ req'[h[1]] \in Request
                      /\ pc'[h] \in {"take", "range", "remove"} => copy'[h] \in [Slot -> MapRef]
                      /\ pc'[h] \in {"copyForTake", "take", "remove"} => key'[h] \in PeerID
                      /\ pc'[h] = "put" => dst'[h] \in MapRef
                      /\ pc'[h] = "update" => found'[h] \in Calls
                      /\ pc'[h] \notin {"take", "update"} \cup Storing => found'[h] = None
    BY DEF Scopes
  <2>3. CASE h = g
    BY <1>6, <1>7, <1>9, <2>1, <2>2, <2>3 DEF Ended, Storing
  <2>4. CASE h # g
    BY <1>5, <1>6, <2>4 DEF IndInv, Scopes
  <2> QED
    BY <2>3, <2>4
<1>13. Pending'
  BY <1>1, <1>5, <1>6, <1>7, <1>9, Names DEF IndInv, Pending, Ended, Storing, Admissible
<1>14. Fresh'
  BY <1>1, <1>5, <1>7, <1>9, <1>10, Names DEF IndInv, Fresh, Ended, Storing
<1>15. Held'
  <2>1. x # None => Admissible(peers[x])
    <3>1. x # None => k \in Keys(m)
      BY <1>2 DEF Keys, x
    <3>2. x # None => peers[x].event # "stopped" /\ IsPeerConnectable(peers[x].ep)
                      /\ peers[x].id = k
      BY <1>2, <3>1 DEF IndInv, StoredAdmissible, x
    <3>3. x # None => peers[x] \in Peer
      BY <1>2, <3>1 DEF IndInv, Stored, x
    <3> QED
      BY <3>2, <3>3 DEF Admissible
  <2> QED
    BY <1>3, <1>5, <1>6, <1>7, <1>9, <2>1 DEF IndInv, Held, Admissible
<1>16. Exclusive'
  BY <1>2, <1>3, <1>4, <1>5, <1>7, <1>9 DEF IndInv, Exclusive, x
<1>17. StoredAdmissible' /\ Stored'
  BY <1>4, <1>6 DEF IndInv, StoredAdmissible, Stored, Keys
<1> QED
  BY <1>8, <1>11, <1>12, <1>13, <1>14, <1>15, <1>16, <1>17 DEF IndInv

(* Delete at one map: a record may drop out. *)
LEMMA RemoveStep ==
  ASSUME IndInv, NEW c \in Calls, Remove(c)
  PROVE  IndInv'
<1> DEFINE g == Reaper(c)
           m == copy[g][pos[g]]
           k == key[g]
           l == pc'[g]
<1>1. /\ g \in Goroutine /\ g[1] = c /\ g[2] = "reaper" /\ pc[g] = "remove"
      /\ pc[Handler(c)] # "idle"
  BY Names DEF Remove, IndInv, Roles
<1>2. m \in MapRef /\ k \in PeerID /\ pos[g] \in Slot
  <2>1. copy[g] \in [Slot -> MapRef] /\ pos[g] \in Slot /\ k \in PeerID
    BY <1>1 DEF IndInv, Scopes, TypeOK
  <2> QED
    BY <2>1
<1>3. maps' \in [MapRef -> [PeerID -> Calls \cup {None}]]
      /\ \A n \in MapRef : \A j \in PeerID :
           maps'[n][j] = IF n = m /\ j = k THEN None ELSE maps[n][j]
  <2>1. maps' = [maps EXCEPT ![m] = [maps[m] EXCEPT ![k] = None]]
    BY DEF Remove, Without
  <2>2. maps \in [MapRef -> [PeerID -> Calls \cup {None}]]
    BY DEF IndInv, TypeOK
  <2> HIDE DEF m, k
  <2>3. [maps[m] EXCEPT ![k] = None] \in [PeerID -> Calls \cup {None}]
    BY <1>2, <2>2
  <2> QED
    BY <1>2, <2>1, <2>2, <2>3
<1>4. \/ l = "nextKey" /\ EndLoop(g)
      \/ l = "remove" /\ copy' = copy /\ pos' = [pos EXCEPT ![g] = pos[g] + 1] /\ pos[g] # 2
  BY <1>1 DEF Remove, Without, IndInv, TypeOK
<1>5. \A h \in Goroutine : h # g => pc'[h] = pc[h] /\ copy'[h] = copy[h]
  BY DEF Remove, EndLoop, IndInv, TypeOK
<1>6. UNCHANGED <<peers, req, root, key, dst, found>>
  BY DEF Remove, locals
<1> HIDE DEF m, k
<1>7. TypeOK'
  <2>1. pc' \in [Goroutine -> Label]
    <3>1. pc' = [pc EXCEPT ![g] = l]
      BY DEF Remove, IndInv, TypeOK
    <3> QED
      BY <1>4, <3>1 DEF IndInv, TypeOK, Label
  <2>2. /\ copy' \in [Goroutine -> [Slot -> MapRef] \cup {None}]
        /\ pos' \in [Goroutine -> Slot]
    <3>1. /\ copy \in [Goroutine -> [Slot -> MapRef] \cup {None}]
          /\ pos \in [Goroutine -> Slot]
      BY DEF IndInv, TypeOK
    <3>2. CASE EndLoop(g)
      BY <1>1, <3>1, <3>2, Indices DEF EndLoop
    <3>3. CASE copy' = copy /\ pos' = [pos EXCEPT ![g] = pos[g] + 1] /\ pos[g] # 2
      <4>1. pos[g] + 1 \in Slot
        BY <1>2, <3>3 DEF Slot
      <4> QED
        BY <3>1, <3>3, <4>1
    <3> QED
      BY <1>4, <3>2, <3>3
  <2> QED
    BY <1>3, <2>1, <2>2 DEF Remove, IndInv, TypeOK, clock, locals, history
<1>8. Roles'
  BY <1>1, <1>4, <1>5, <1>6, Names DEF IndInv, Roles, Ended, Storing
<1>9. Scopes'
  BY <1>1, <1>4, <1>5, <1>6 DEF IndInv, Scopes, Ended, Storing
<1>10. Pending'
  BY <1>1, <1>5, <1>6, Names DEF IndInv, Pending, Ended, Storing, Admissible
<1>11. Fresh'
  BY <1>2, <1>3, <1>5, <1>6, Names, LocalAssumption DEF IndInv, Fresh, Ended, Storing
<1>12. Held'
  BY <1>6 DEF IndInv, Held, Admissible
<1>13. Exclusive'
  BY <1>2, <1>3, <1>6 DEF IndInv, Exclusive
<1>14. StoredAdmissible' /\ Stored'
  BY <1>3, <1>6 DEF IndInv, StoredAdmissible, Stored, Keys
<1> QED
  BY <1>7, <1>8, <1>9, <1>10, <1>11, <1>12, <1>13, <1>14 DEF IndInv

(* Store and LoadOrStore put a record nobody else has into a map. *)
LEMMA PutStep ==
  ASSUME IndInv, NEW g \in Goroutine, Put(g)
  PROVE  IndInv'
<1> DEFINE c == g[1]
           o == IF found[g] # None THEN found[g] ELSE c
           k == peers[o].id
           m == dst[g]
<1>1. /\ c \in Calls /\ pc[g] = "put"
      /\ g = Handler(c) \/ g = Task(c)
  <2>1. pc[g] = "put"
    BY DEF Put
  <2>2. pc[Reaper(c)] # "put"
    BY Names DEF IndInv, Roles
  <2> QED
    BY <2>1, <2>2, Names
<1>2. /\ o \in Calls /\ m \in MapRef /\ Admissible(peers[o])
      /\ \A n \in MapRef : \A j \in PeerID : maps[n][j] # o
      /\ \A h \in Goroutine : h # g => found[h] # o
  <2>1. m \in MapRef /\ found[g] \in Calls \cup {None}
    BY <1>1 DEF IndInv, Scopes, TypeOK
  <2>2. CASE found[g] # None
    BY <2>1, <2>2 DEF IndInv, Held, Exclusive
  <2>3. CASE found[g] = None
    <3>1. Admissible(peers[c])
      BY <1>1, <2>3 DEF IndInv, Pending, Storing, Ended, Admissible
    <3>2. /\ \A n \in MapRef : \A j \in PeerID : maps[n][j] # c
          /\ \A h \in Goroutine : found[h] # c
      BY <1>1 DEF IndInv, Fresh, Storing, Ended
    <3> QED
      BY <1>1, <2>1, <2>3, <3>1, <3>2
  <2> QED
    BY <2>2, <2>3
<1>3. k \in PeerID
  BY <1>2 DEF Admissible, Peer
<1>4. /\ \A h \in Goroutine : pc'[h] = IF h = g THEN "done" ELSE pc[h]
      /\ \A h \in Goroutine : found'[h] = IF h = g THEN None ELSE found[h]
      /\ \A h \in Goroutine : h # g => dst'[h] = dst[h]
      /\ UNCHANGED <<peers, req, root, copy, key>>
  BY DEF Put, IndInv, TypeOK, locals
<1>5. /\ maps' \in [MapRef -> [PeerID -> Calls \cup {None}]]
      /\ \/ maps' = maps
         \/ \A n \in MapRef : \A j \in PeerID :
              maps'[n][j] = IF n = m /\ j = k THEN o ELSE maps[n][j]
  <2>1. maps' = maps \/ maps' = [maps EXCEPT ![m] = [maps[m] EXCEPT ![k] = o]]
    BY DEF Put
  <2>2. maps \in [MapRef -> [PeerID -> Calls \cup {None}]]
    BY DEF IndInv, TypeOK
  <2> HIDE DEF m, k, o
  <2>3. [maps[m] EXCEPT ![k] = o] \in [PeerID -> Calls \cup {None}]
    BY <1>2, <1>3, <2>2
  <2> QED
    BY <1>2, <1>3, <2>1, <2>2, <2>3
<1>6. TypeOK'
  <2>1. /\ pc' \in [Goroutine -> Label]
        /\ found' \in [Goroutine -> Calls \cup {None}]
        /\ dst' \in [Goroutine -> MapRef \cup {None}]
    BY DEF Put, IndInv, TypeOK, Label
  <2> QED
    BY <1>5, <2>1 DEF Put, IndInv, TypeOK, clock, locals, history
<1>7. Roles'
  BY <1>1, <1>4, Names DEF IndInv, Roles, Ended, Storing
<1>8. Scopes'
  BY <1>1, <1>4 DEF IndInv, Scopes, Ended, Storing
<1>9. Pending'
  BY <1>1, <1>4, Names DEF IndInv, Pending, Ended, Storing, Admissible
<1>10. Fresh'
  <2>1. \A d \in Calls : pc'[Handler(d)] \in {"idle"} \cup Storing \/ pc'[Task(d)] \notin Ended
                         => pc[Handler(d)] \in {"idle"} \cup Storing \/ pc[Task(d)] \notin Ended
    BY <1>4, Names DEF Ended, Storing
  <2>2. \A d \in Calls : pc'[Handler(d)] \in {"idle"} \cup Storing \/ pc'[Task(d)] \notin Ended
                         => d # o
    <3>1. CASE found[g] # None
      BY <2>1, <3>1 DEF IndInv, Fresh
    <3>2. CASE found[g] = None
      BY <1>1, <1>4, <3>2, Names DEF IndInv, Roles, Ended, Storing
    <3> QED
      BY <3>1, <3>2
  <2> HIDE DEF m, k, o
  <2>3. \A d \in Calls : d # o /\ (\A n \in MapRef : \A j \in PeerID : maps[n][j] # d)
                         => (\A n \in MapRef : \A j \in PeerID : maps'[n][j] # d)
    BY <1>5
  <2> QED
    BY <1>4, <2>1, <2>2, <2>3, LocalAssumption DEF IndInv, Fresh
<1> HIDE DEF m, k, o
<1>11. Held'
  BY <1>4 DEF IndInv, Held, Admissible
<1>12. Exclusive'
  <2>1. CASE maps' = maps
    BY <1>4, <2>1 DEF IndInv, Exclusive
  <2>2. CASE \A n \in MapRef : \A j \in PeerID :
               maps'[n][j] = IF n = m /\ j = k THEN o ELSE maps[n][j]
    <3>1. \A m1, m2 \in MapRef : \A k1, k2 \in PeerID :
            maps'[m1][k1] # None /\ maps'[m1][k1] = maps'[m2][k2] => m1 = m2 /\ k1 = k2
      BY <1>2, <2>2 DEF IndInv, Exclusive
    <3>2. \A h \in Goroutine : found'[h] # None =>
            /\ \A n \in MapRef : \A j \in PeerID : maps'[n][j] # found'[h]
            /\ \A h2 \in Goroutine : found'[h2] = found'[h] => h2 = h
      BY <1>2, <1>4, <2>2 DEF IndInv, Exclusive
    <3> QED
      BY <3>1, <3>2 DEF Exclusive
  <2> QED
    BY <1>5, <2>1, <2>2
<1>13. StoredAdmissible' /\ Stored'
  BY <1>2, <1>3, <1>4, <1>5 DEF IndInv, StoredAdmissible, Stored, Keys, Admissible, k
<1> QED
  BY <1>6, <1>7, <1>8, <1>9, <1>10, <1>11, <1>12, <1>13 DEF IndInv

(* A record loaded at start-up is new, and nothing runs yet. *)
LEMMA DirectStoreStep ==
  ASSUME IndInv, NEW c \in Calls, NEW r \in Requests, NEW t \in 0..now, DirectStore(c, r, t)
  PROVE  IndInv'
<1> DEFINE h == IF infoHashMap[r.infoHash] = None THEN c ELSE infoHashMap[r.infoHash]
           m == peerMap[h][currentActive[h]]
           k == r.peerID
           p == [NewPeer(r) EXCEPT !.lastSeen = t]
           g == Handler(c)
<1>1. /\ r \in Request /\ r.event # "stopped" /\ IsPeerConnectable(r.ep)
      /\ k \in PeerID
  <2>1. r.op = "load"
    BY DEF DirectStore
  <2>2. r \in Request /\ r.event # "stopped" /\ IsPeerConnectable(r.ep)
    BY <2>1, LocalAssumption
  <2>3. k \in PeerID
    BY <2>2 DEF Request
  <2> QED
    BY <2>2, <2>3
<1>2. /\ g \in Goroutine /\ g[1] = c /\ pc[g] = "idle"
      /\ \A d \in Goroutine : d[1] = c => pc[d] = "idle"
  <2>1. g \in Goroutine /\ g[1] = c
    BY Names
  <2>2. pc[g] = "idle"
    BY DEF DirectStore
  <2>3. pc[Task(c)] = "idle" /\ pc[Reaper(c)] = "idle"
    BY <2>2 DEF IndInv, Roles
  <2> QED
    BY <2>1, <2>2, <2>3, Names
<1>3. h \in Calls /\ m \in MapRef
  <2>1. h \in Calls
    BY <1>1 DEF IndInv, TypeOK, Request
  <2>2. currentActive[h] \in Slot /\ peerMap[h] \in [Slot -> MapRef]
    BY <2>1 DEF IndInv, TypeOK
  <2> QED
    BY <2>1, <2>2
<1>4. Admissible(p) /\ p.id = k
  <2>1. t \in Nat /\ now \in Nat
    BY DEF IndInv, TypeOK
  <2> QED
    BY <1>1, <2>1 DEF Admissible, NewPeer, Peer, Request
<1>5. /\ \A n \in MapRef : \A j \in PeerID : maps[n][j] # c
      /\ \A d \in Goroutine : found[d] # c
  BY <1>2 DEF IndInv, Fresh
<1>6. /\ maps' \in [MapRef -> [PeerID -> Calls \cup {None}]]
      /\ \A n \in MapRef : \A j \in PeerID :
           maps'[n][j] = IF n = m /\ j = k THEN c ELSE maps[n][j]
  <2>1. maps' = [maps EXCEPT ![m] = [maps[m] EXCEPT ![k] = c]]
    BY DEF DirectStore
  <2>2. maps \in [MapRef -> [PeerID -> Calls \cup {None}]]
    BY DEF IndInv, TypeOK
  <2> HIDE DEF m, k, h
  <2>3. [maps[m] EXCEPT ![k] = c] \in [PeerID -> Calls \cup {None}]
    BY <1>1, <1>3, <2>2
  <2> QED
    BY <1>1, <1>3, <2>1, <2>2, <2>3
<1>7. /\ \A d \in Goroutine : pc'[d] = IF d = g THEN "done" ELSE pc[d]
      /\ \A d \in Calls : peers'[d] = IF d = c THEN p ELSE peers[d]
      /\ \A d \in Calls : root'[d] = IF d = c THEN h ELSE root[d]
      /\ \A d \in Calls : req'[d] = IF d = c THEN r ELSE req[d]
      /\ UNCHANGED <<found, copy, key, dst>>
  BY DEF DirectStore, IndInv, TypeOK, loops
<1>8. TypeOK'
  <2>1. /\ infoHashMap' = [infoHashMap EXCEPT ![r.infoHash] = h]
        /\ lastClean' = [lastClean EXCEPT ![h] = IF h = c THEN now ELSE @]
        /\ peers' = [peers EXCEPT ![c] = p]
        /\ root' = [root EXCEPT ![c] = h]
        /\ req' = [req EXCEPT ![c] = r]
        /\ pc' = [pc EXCEPT ![g] = "done"]
    BY DEF DirectStore
  <2>2. p \in Peer
    BY <1>4 DEF Admissible
  <2> HIDE DEF h, m, p, g
  <2>3. /\ infoHashMap' \in [InfoHash -> Calls \cup {None}]
        /\ lastClean' \in [Calls -> Nat]
        /\ peers' \in [Calls -> Peer \cup {None}]
    BY <1>3, <2>1, <2>2 DEF IndInv, TypeOK
  <2>4. /\ root' \in [Calls -> Calls \cup {None}]
        /\ req' \in [Calls -> Request \cup {None}]
        /\ pc' \in [Goroutine -> Label]
    BY <1>1, <1>2, <1>3, <2>1 DEF IndInv, TypeOK, Label
  <2> QED
    BY <1>6, <2>3, <2>4 DEF DirectStore, IndInv, TypeOK, clock, loops, history
<1> HIDE DEF h, m, k, p
<1>9. Roles'
  BY <1>2, <1>7, Names DEF IndInv, Roles, Ended, Storing
<1>10. Scopes'
  BY <1>2, <1>7, Names DEF IndInv, Scopes, Ended, Storing
<1>11. Pending'
  BY <1>2, <1>7, Names DEF IndInv, Pending, Ended, Storing, Admissible
<1>12. Fresh'
  <2>1. \A d \in Calls : pc'[Handler(d)] \in {"idle"} \cup Storing \/ pc'[Task(d)] \notin Ended
                         => /\ d # c
                            /\ pc[Handler(d)] \in {"idle"} \cup Storing \/ pc[Task(d)] \notin Ended
    BY <1>2, <1>7, Names DEF Ended, Storing
  <2> QED
    BY <1>6, <1>7, <2>1 DEF IndInv, Fresh
<1>13. Held'
  BY <1>5, <1>7 DEF IndInv, Held, TypeOK, Admissible
<1>14. Exclusive'
  <2>1. \A m1, m2 \in MapRef : \A k1, k2 \in PeerID :
          maps'[m1][k1] # None /\ maps'[m1][k1] = maps'[m2][k2] => m1 = m2 /\ k1 = k2
    BY <1>5, <1>6 DEF IndInv, Exclusive
  <2>2. \A d \in Goroutine : found'[d] # None =>
          /\ \A n \in MapRef : \A j \in PeerID : maps'[n][j] # found'[d]
          /\ \A d2 \in Goroutine : found'[d2] = found'[d] => d2 = d
    BY <1>5, <1>6, <1>7 DEF IndInv, Exclusive
  <2> QED
    BY <2>1, <2>2 DEF Exclusive
<1>15. StoredAdmissible' /\ Stored'
  <2>1. \A n \in MapRef : \A j \in PeerID : maps[n][j] \in Calls \cup {None}
    BY DEF IndInv, TypeOK
  <2> QED
    BY <1>4, <1>5, <1>6, <1>7, <2>1 DEF IndInv, StoredAdmissible, Stored, Keys, Admissible
<1> QED
  BY <1>8, <1>9, <1>10, <1>11, <1>12, <1>13, <1>14, <1>15 DEF IndInv

-----------------------------------------------------------------------------
(* Neither the clock nor the listeners touch the store. *)
LEMMA ClockStep ==
  ASSUME IndInv, Serve \/ Tick \/ UNCHANGED vars
  PROVE  IndInv'
<1>1. /\ now' \in Nat /\ serving' \in BOOLEAN
      /\ UNCHANGED <<store, locals, pc, loops, history>>
  <2>1. now \in Nat /\ serving \in BOOLEAN
    BY DEF IndInv, TypeOK
  <2>2. CASE Serve
    BY <2>1, <2>2 DEF Serve
  <2>3. CASE Tick
    BY <2>1, <2>3 DEF Tick
  <2>4. CASE UNCHANGED vars
    BY <2>1, <2>4 DEF vars, clock
  <2> QED
    BY <2>2, <2>3, <2>4
<1>2. TypeOK'
  BY <1>1 DEF IndInv, TypeOK, store, locals, loops, history
<1>3. Scopes'
  BY <1>1 DEF IndInv, Scopes, locals, loops
<1>4. UNCHANGED <<maps, peers, found, req, pc>>
  BY <1>1 DEF store, locals, loops
<1> QED
  BY <1>2, <1>3, <1>4, Move DEF IndInv

LEMMA InitInd == Init => IndInv
<1> SUFFICES ASSUME Init PROVE IndInv
  OBVIOUS
<1> USE DEF Init
<1>1. TypeOK
  <2>1. peerMap \in [Calls -> [Slot -> MapRef]]
    BY DEF Slot, MapRef
  <2> QED
    BY <2>1, LocalAssumption, Indices DEF TypeOK, Label, NoCounts
<1>2. Roles /\ Scopes
  BY Names DEF Roles, Scopes, Ended, Storing
<1>3. Pending /\ Stored /\ Held /\ Fresh
  BY Names, LocalAssumption DEF Pending, Stored, Held, Fresh, Keys, Ended, Storing
<1>4. Exclusive /\ StoredAdmissible
  BY DEF Exclusive, StoredAdmissible, Keys
<1> QED
  BY <1>1, <1>2, <1>3, <1>4 DEF IndInv

LEMMA NextInd == IndInv /\ [Next]_vars => IndInv'
<1> SUFFICES ASSUME IndInv, [Next]_vars PROVE IndInv'
  OBVIOUS
<1>1. CASE \E c \in Calls, r \in Requests, t \in 0..now : DirectStore(c, r, t)
  BY <1>1, DirectStoreStep
<1>2. CASE Serve \/ Tick \/ Finished \/ UNCHANGED vars
  BY <1>2, ClockStep DEF Finished
<1>3. ASSUME NEW c \in Calls, BeginCall(c)
      PROVE  IndInv'
  BY <1>3, AnnounceInvalidStep, AnnounceFirstStep, AnnounceStoppedStep, AnnounceKnownStep,
     ScrapeWithoutRootStep, ScrapeStep, CleanUpStep, DeleteInfoHashStep DEF BeginCall
<1>4. ASSUME NEW c \in Calls, HandlerStep(c)
      PROVE  IndInv'
  BY <1>4, CopyForRangeStep, RangeSlotStep, CheckLenStep, ReadCurrentStep, CompareAndSwapStep,
     EmptyOldestStep, CleanNextStep, DropRootStep DEF HandlerStep
<1>5. ASSUME NEW c \in Calls, TaskStep(c) \/ ReaperStep(c)
      PROVE  IndInv'
  BY <1>5, UpdateKnownStep, NextExpiredStep, RemoveStep DEF TaskStep, ReaperStep
<1>6. ASSUME NEW g \in Goroutine, AnyStep(g)
      PROVE  IndInv'
  BY <1>6, CopyForTakeStep, TakeStep, ReadActiveStep, ReadMapStep, PutStep DEF AnyStep
<1> QED
  BY <1>1, <1>2, <1>3, <1>4, <1>5, <1>6 DEF Next

-----------------------------------------------------------------------------
LEMMA Inductive == Spec => []IndInv
BY InitInd, NextInd, PTL DEF Spec

(* Every reachable state of the store, for any number of calls, is well    *)
(* typed: every reference a goroutine follows is to an existing object.    *)
THEOREM TypeCorrect == Spec => []TypeOK
BY Inductive, PTL DEF IndInv

(* However the goroutines of announces, stops, scrapes, cleanings, deletes *)
(* and rotations interleave, a peer record is in one map or in one hand:   *)
(* the unlocked writes of the announce task never race with another writer.*)
THEOREM RecordsAreExclusive == Spec => []Exclusive
BY Inductive, PTL DEF IndInv

(* No interleaving puts a stopped or an unreachable peer into a map, or a  *)
(* peer under another peer's key.                                          *)
THEOREM OnlyAdmissibleStored == Spec => []StoredAdmissible
BY Inductive, PTL DEF IndInv

(* The id and the addresses of a record never change once it exists, so an *)
(* answer can be serialised while later announces update its records.      *)
THEOREM AddressesAreStable == Spec => AddressStable
<1> DEFINE Stable == \A c \in Calls : peers[c] # None =>
                       peers'[c].id = peers[c].id /\ peers'[c].ep = peers[c].ep
<1>1. IndInv /\ [Next]_vars => [Stable]_vars
  <2> SUFFICES ASSUME IndInv, Next PROVE Stable
    BY DEF vars
  <2>1. ASSUME NEW c \in Calls, NEW r \in Requests, NEW t \in 0..now, DirectStore(c, r, t)
        PROVE  Stable
    <3>1. peers[c] = None
      BY <2>1 DEF DirectStore, IndInv, Roles
    <3>2. \A d \in Calls : d # c => peers'[d] = peers[d]
      BY <2>1 DEF DirectStore, IndInv, TypeOK
    <3> QED
      BY <3>1, <3>2
  <2>2. CASE Serve \/ Tick \/ Finished
    BY <2>2 DEF Serve, Tick, Finished, vars, store
  <2>3. ASSUME NEW c \in Calls, BeginCall(c)
        PROVE  Stable
    <3>1. PICK r \in Requests : \/ UNCHANGED peers
                                \/ Begin(c, r) /\ peers' = [peers EXCEPT ![c] = NewPeer(r)]
      BY <2>3 DEF BeginCall, AnnounceInvalid, AnnounceFirst, AnnounceStopped, AnnounceKnown,
                  ScrapeWithoutRoot, Scrape, CleanUp, DeleteInfoHash, store
    <3>2. Begin(c, r) => peers[c] = None
      BY Starting
    <3> QED
      BY <3>1, <3>2 DEF IndInv, TypeOK
  <2>4. ASSUME NEW c \in Calls, HandlerStep(c) \/ ReaperStep(c)
        PROVE  Stable
    BY <2>4 DEF HandlerStep, ReaperStep, CopyForRange, RangeSlot, CheckLen, ReadCurrent,
                CompareAndSwap, EmptyOldest, CleanNext, DropRoot, NextExpired, Remove, store
  <2>5. ASSUME NEW c \in Calls, TaskStep(c)
        PROVE  Stable
    <3> DEFINE o == found[Task(c)]
    <3>1. o \in Calls /\ peers[o] \in Peer
      <4>1. o \in Calls
        BY <2>5, Names DEF TaskStep, UpdateKnown, IndInv, Scopes
      <4> QED
        BY <4>1, Names, LocalAssumption DEF IndInv, Held, Admissible
    <3>2. \A d \in Calls : d # o => peers'[d] = peers[d]
      BY <2>5 DEF TaskStep, UpdateKnown, IndInv, TypeOK
    <3>3. peers'[o] = [peers[o] EXCEPT !.left = peers[c].left, !.event = peers[c].event,
                                       !.lastSeen = peers[c].lastSeen]
      BY <2>5, <3>1 DEF TaskStep, UpdateKnown, Refreshed, IndInv, TypeOK
    <3>4. peers'[o].id = peers[o].id /\ peers'[o].ep = peers[o].ep
      BY <3>1, <3>3 DEF Peer
    <3> HIDE DEF o
    <3> QED
      BY <3>2, <3>4
  <2>6. ASSUME NEW g \in Goroutine, AnyStep(g)
        PROVE  Stable
    BY <2>6 DEF AnyStep, CopyForTake, Take, ReadActive, ReadMap, Put, store
  <2> HIDE DEF Stable
  <2> QED
    BY <2>1, <2>2, <2>3, <2>4, <2>5, <2>6 DEF Next
<1>2. QED
  BY <1>1, Inductive, PTL DEF Spec, AddressStable

-----------------------------------------------------------------------------
(* Answers.                                                                *)

(* A finite non-empty set of naturals has a largest element: the one with  *)
(* the smallest set of elements above it.                                  *)
LEMMA Largest ==
  ASSUME NEW S \in SUBSET Nat, IsFiniteSet(S), S # {}
  PROVE  \E k \in S : \A j \in S : j <= k
<1> DEFINE Above(k) == {j \in S : j > k}
           T == {Above(k) : k \in S}
           R == StrictSubsetOrdering(S)
<1>1. T \subseteq FiniteSubsetsOf(S) /\ T # {}
  <2>1. FiniteSubsetsOf(S) = SUBSET S
    BY FS_FiniteSubsetsOfFinite
  <2>2. \A k \in S : Above(k) \in SUBSET S
    OBVIOUS
  <2>3. PICK k \in S : TRUE
    OBVIOUS
  <2>4. Above(k) \in T
    BY <2>3
  <2>5. T \subseteq SUBSET S
    <3> HIDE DEF Above
    <3> QED
      BY <2>2
  <2> HIDE DEF T
  <2> QED
    BY <2>1, <2>4, <2>5
<1>2. IsWellFoundedOn(R, FiniteSubsetsOf(S))
  BY FS_StrictSubsetOrderingWellFounded
<1>3. PICK x \in T : \A y \in T : ~(<<y, x>> \in R)
  <2> HIDE DEF T, R
  <2> QED
    BY <1>1, <1>2, WFMin
<1>4. PICK k \in S : x = Above(k)
  BY <1>3
<1>5. ASSUME NEW j \in S, j > k
      PROVE  FALSE
  <2>1. j \in Above(k) /\ j \notin Above(j)
    BY <1>5
  <2>2. Above(j) \subseteq Above(k)
    <3>1. j \in Nat /\ k \in Nat
      OBVIOUS
    <3>2. \A i \in S : i > j => i > k
      BY <1>5, <3>1
    <3> QED
      BY <3>2
  <2>3. Above(j) \in SUBSET S /\ Above(k) \in SUBSET S /\ Above(j) \in T
    OBVIOUS
  <2> HIDE DEF Above
  <2>4. <<Above(j), Above(k)>> \in R
    BY <2>1, <2>2, <2>3 DEF StrictSubsetOrdering
  <2> QED
    BY <1>3, <1>4, <2>3, <2>4
<1> QED
  BY <1>5

(* A Range that counts what it has put into the answer stops in time: the  *)
(* entries of one map fill the answer to numWant at most.                  *)
LEMMA AnswerFits ==
  ASSUME NEW c \in Calls, NEW m \in MapRef, IsFiniteSet(resp[c]),
         req[c].numWant \in Int, Answer(c, m) # {}
  PROVE  Cardinality(resp[c]) + Cardinality(Answer(c, m)) <= req[c].numWant
<1> DEFINE A == Answer(c, m)
           O == Others(c, m)
<1>1. /\ O \in SUBSET PeerID /\ A \in SUBSET O /\ A \in SUBSET Nat
      /\ IsFiniteSet(O) /\ IsFiniteSet(A)
  <2>1. O \in SUBSET PeerID /\ A \in SUBSET O
    BY DEF Answer, Others, Candidates, Keys
  <2> HIDE DEF O, A
  <2> QED
    BY <2>1, LocalAssumption, FS_Subset
<1>2. PICK k \in A : \A j \in A : j <= k
  <2> HIDE DEF A
  <2> QED
    BY <1>1, Largest DEF A
<1> DEFINE B == {j \in O : j < k}
<1>3. A \ {k} \in SUBSET B
  BY <1>1, <1>2
<1>4. IsFiniteSet(B) /\ Cardinality(B) \in Nat /\ Cardinality(resp[c]) \in Nat
  <2>1. B \in SUBSET O
    OBVIOUS
  <2> HIDE DEF B, O
  <2> QED
    BY <1>1, <2>1, FS_Subset, FS_CardinalityType
<1>5. ~(Cardinality(resp[c]) + Cardinality(B) >= req[c].numWant)
  BY <1>2 DEF Answer, FullBefore
<1> HIDE DEF A, B, O
<1>6. Cardinality(A \ {k}) <= Cardinality(B)
  BY <1>3, <1>4, FS_Subset
<1>7. Cardinality(A \ {k}) = Cardinality(A) - 1 /\ Cardinality(A) \in Nat
  BY <1>1, <1>2, FS_RemoveElement, FS_CardinalityType
<1>8. Cardinality(resp[c]) + Cardinality(A) <= req[c].numWant
  BY <1>4, <1>5, <1>6, <1>7
<1> QED
  BY <1>8 DEF A

(* An entry of the answer to call c: the record of a call that was made,   *)
(* admissible and fit for the asker.                                       *)
Fits(c, e) ==
  /\ e[2] \in Calls
  /\ pc[Handler(e[2])] # "idle"
  /\ peers[e[2]].ep.type = req[c].ep.type
  /\ peers[e[2]].id # req[c].peerID
  /\ peers[e[2]].event # "stopped"
  /\ IsPeerConnectable(peers[e[2]].ep)

AnswerInv ==
  \A c \in Calls : resp[c] # {} =>
    /\ pc[Handler(c)] # "idle"
    /\ IsFiniteSet(resp[c])
    /\ Cardinality(resp[c]) <= req[c].numWant
    /\ \A e \in resp[c] : Fits(c, e)

(* A call that was made stays made, with its request; its record keeps its *)
(* id and address, and no later announce turns it into a stopped one.      *)
Lasting(o) ==
  /\ pc'[Handler(o)] # "idle"
  /\ req'[o] = req[o]
  /\ peers'[o].id = peers[o].id
  /\ peers'[o].ep = peers[o].ep
  /\ peers[o].event # "stopped" => peers'[o].event # "stopped"

LEMMA CallsLast ==
  ASSUME IndInv, [Next]_vars, NEW o \in Calls, pc[Handler(o)] # "idle"
  PROVE  Lasting(o)
<1>1. Handler(o) \in Goroutine /\ pc \in [Goroutine -> Label] /\ req \in [Calls -> Request \cup {None}]
      /\ peers \in [Calls -> Peer \cup {None}]
  BY Names DEF IndInv, TypeOK
<1>2. ASSUME NEW c \in Calls, NEW r \in Requests, NEW t \in 0..now, DirectStore(c, r, t)
      PROVE  Lasting(o)
  <2>1. c # o
    BY <1>2 DEF DirectStore
  <2>2. Handler(c) # Handler(o)
    BY <2>1 DEF Handler
  <2>3. pc'[Handler(o)] = pc[Handler(o)] /\ req'[o] = req[o] /\ peers'[o] = peers[o]
    BY <1>1, <1>2, <2>1, <2>2 DEF DirectStore
  <2> QED
    BY <2>3 DEF Lasting
<1>3. CASE Serve \/ Tick \/ Finished \/ UNCHANGED vars
  BY <1>3 DEF Serve, Tick, Finished, vars, store, locals, Lasting
<1>4. ASSUME NEW c \in Calls, BeginCall(c)
      PROVE  Lasting(o)
  <2>1. PICK r \in Requests :
          /\ Begin(c, r)
          /\ peers' = peers \/ peers' = [peers EXCEPT ![c] = NewPeer(r)]
          /\ \/ \E l \in Label : pc' = [pc EXCEPT ![Handler(c)] = l]
             \/ pc' = [pc EXCEPT ![Handler(c)] = "copyForRange", ![Task(c)] = "copyForTake"]
    BY <1>4 DEF BeginCall, AnnounceInvalid, AnnounceFirst, AnnounceStopped, AnnounceKnown,
                ScrapeWithoutRoot, Scrape, CleanUp, DeleteInfoHash, store, Label
  <2>2. c # o
    BY <2>1 DEF Begin
  <2>3. Handler(c) # Handler(o) /\ Task(c) # Handler(o)
    BY <2>2 DEF Handler, Task
  <2>4. pc'[Handler(o)] = pc[Handler(o)]
    BY <1>1, <2>1, <2>3
  <2>5. req'[o] = req[o] /\ peers'[o] = peers[o]
    BY <1>1, <2>1, <2>2 DEF Begin
  <2> QED
    BY <2>4, <2>5 DEF Lasting
<1>5. ASSUME NEW c \in Calls, HandlerStep(c)
      PROVE  Lasting(o)
  <2>1. peers' = peers /\ req' = req
    BY <1>5 DEF HandlerStep, CopyForRange, RangeSlot, CheckLen, ReadCurrent, CompareAndSwap,
                EmptyOldest, CleanNext, DropRoot, store, locals
  <2>2. Handler(c) \in Goroutine /\ Reaper(c) \in Goroutine /\ Reaper(c) # Handler(o)
    BY Names
  <2>3. CASE RangeSlot(c)
    <3>1. \/ pc' = pc
          \/ \E l \in {"checkLen", "nextKey", "done"}, lr \in Label :
               pc' = [pc EXCEPT ![Handler(c)] = l, ![Reaper(c)] = lr]
      <4>1. CASE pos[Handler(c)] < 2
        BY <2>3, <4>1 DEF RangeSlot
      <4>2. CASE ~(pos[Handler(c)] < 2)
        <5> DEFINE m == copy[Handler(c)][pos[Handler(c)]]
                   late == stale[c] \cup {<<pos[Handler(c)], k>> : k \in ExpiredKeys(c, m)}
                   l == CASE req[c].op = "announce" -> "checkLen"
                          [] req[c].op = "clean" -> "nextKey"
                          [] OTHER -> "done"
                   lr == IF req[c].op # "clean" /\ late # {} THEN "nextKey" ELSE pc[Reaper(c)]
        <5>1. pc' = [pc EXCEPT ![Handler(c)] = l, ![Reaper(c)] = lr]
          BY <2>2, <2>3, <4>2, Names DEF RangeSlot
        <5>2. l \in {"checkLen", "nextKey", "done"}
          OBVIOUS
        <5>3. lr \in Label
          BY <1>1, <2>2 DEF Label
        <5> HIDE DEF l, lr
        <5> QED
          BY <5>1, <5>2, <5>3
      <4> QED
        BY <4>1, <4>2
    <3>2. pc'[Handler(o)] # "idle"
      BY <1>1, <2>2, <3>1
    <3> QED
      BY <2>1, <3>2 DEF Lasting
  <2>4. CASE ~RangeSlot(c)
    <3>1. \E l \in Label \ {"idle"} : pc' = [pc EXCEPT ![Handler(c)] = l]
      BY <1>5, <2>4 DEF HandlerStep, CopyForRange, CheckLen, ReadCurrent, CompareAndSwap,
                        EmptyOldest, CleanNext, DropRoot, Label
    <3>2. pc'[Handler(o)] # "idle"
      BY <1>1, <2>2, <3>1
    <3> QED
      BY <2>1, <3>2 DEF Lasting
  <2> QED
    BY <2>3, <2>4
<1>6. ASSUME NEW c \in Calls, TaskStep(c)
      PROVE  Lasting(o)
  <2> DEFINE k == found[Task(c)]
  <2>1. /\ pc[Task(c)] = "update" /\ Task(c) \in Goroutine /\ Task(c) # Handler(o)
        /\ k \in Calls /\ k # None
    BY <1>6, Names, LocalAssumption DEF TaskStep, UpdateKnown, IndInv, Scopes
  <2>2. peers[k] \in Peer /\ peers[c].event # "stopped"
    BY <2>1 DEF IndInv, Held, Pending, Admissible, Ended
  <2>3. pc'[Handler(o)] = pc[Handler(o)] /\ req'[o] = req[o]
    BY <1>1, <1>6, <2>1 DEF TaskStep, UpdateKnown, locals
  <2>4. peers' = [peers EXCEPT ![k] = Refreshed(peers[k], peers[c])]
    BY <1>6 DEF TaskStep, UpdateKnown
  <2> HIDE DEF k
  <2>5. CASE o # k
    BY <1>1, <2>1, <2>3, <2>4, <2>5 DEF Lasting
  <2>6. CASE o = k
    <3>1. peers'[o] = [peers[o] EXCEPT !.left = peers[c].left, !.event = peers[c].event,
                                       !.lastSeen = peers[c].lastSeen]
      BY <1>1, <2>4, <2>6 DEF Refreshed
    <3>2. /\ peers'[o].id = peers[o].id /\ peers'[o].ep = peers[o].ep
          /\ peers'[o].event = peers[c].event
      BY <2>2, <2>6, <3>1 DEF Peer
    <3> QED
      BY <2>2, <2>3, <3>2 DEF Lasting
  <2> QED
    BY <2>5, <2>6
<1>7. ASSUME NEW c \in Calls, ReaperStep(c)
      PROVE  Lasting(o)
  <2>1. peers' = peers /\ req' = req
    BY <1>7 DEF ReaperStep, NextExpired, Remove, store, locals
  <2>2. pc' = pc \/ \E l \in Label \ {"idle"} : pc' = [pc EXCEPT ![Reaper(c)] = l]
    BY <1>7 DEF ReaperStep, NextExpired, Remove, Label
  <2>3. pc'[Handler(o)] # "idle"
    BY <1>1, <2>2, Names
  <2> QED
    BY <2>1, <2>3 DEF Lasting
<1>8. ASSUME NEW g \in Goroutine, AnyStep(g)
      PROVE  Lasting(o)
  <2>1. peers' = peers /\ req' = req
    BY <1>8 DEF AnyStep, CopyForTake, Take, ReadActive, ReadMap, Put, store, locals
  <2>2. CASE Take(g)
    <3>1. \A f : AfterTake(g, f) # "idle"
      BY DEF AfterTake
    <3>2. pc' = pc \/ \E f : pc' = [pc EXCEPT ![g] = AfterTake(g, f)]
      BY <2>2 DEF Take
    <3>3. pc'[Handler(o)] # "idle"
      BY <1>1, <3>1, <3>2
    <3> QED
      BY <2>1, <3>3 DEF Lasting
  <2>3. CASE ~Take(g)
    <3>1. \E l \in Label \ {"idle"} : pc' = [pc EXCEPT ![g] = l]
      BY <1>8, <2>3 DEF AnyStep, CopyForTake, ReadActive, ReadMap, Put, Label
    <3>2. pc'[Handler(o)] # "idle"
      BY <1>1, <3>1
    <3> QED
      BY <2>1, <3>2 DEF Lasting
  <2> QED
    BY <2>2, <2>3
<1> QED
  BY <1>2, <1>3, <1>4, <1>5, <1>6, <1>7, <1>8 DEF Next

(* An answer that grows no further stays sound while the records in it are *)
(* updated by others.                                                      *)
LEMMA AnswerLasts ==
  ASSUME IndInv, AnswerInv, [Next]_vars, NEW c \in Calls, resp'[c] = resp[c], resp[c] # {}
  PROVE  /\ pc'[Handler(c)] # "idle"
         /\ IsFiniteSet(resp'[c])
         /\ Cardinality(resp'[c]) <= req'[c].numWant
         /\ \A e \in resp'[c] : Fits(c, e)'
<1>1. /\ pc[Handler(c)] # "idle" /\ IsFiniteSet(resp[c])
      /\ Cardinality(resp[c]) <= req[c].numWant
      /\ \A e \in resp[c] : Fits(c, e)
  BY DEF AnswerInv
<1>2. pc'[Handler(c)] # "idle" /\ req'[c] = req[c]
  BY <1>1, CallsLast DEF Lasting
<1>3. ASSUME NEW e \in resp[c]
      PROVE  Fits(c, e)'
  <2>1. Fits(c, e)
    BY <1>1
  <2>2. Lasting(e[2])
    BY <2>1, CallsLast DEF Fits
  <2> QED
    BY <1>2, <2>1, <2>2 DEF Fits, Lasting
<1> QED
  BY <1>1, <1>2, <1>3

(* What a Range over one map adds to the answer is as it should be. *)
LEMMA RangeSlotAnswer ==
  ASSUME IndInv, AnswerInv, [Next]_vars, NEW c \in Calls, RangeSlot(c), resp' # resp
  PROVE  AnswerInv'
<1> DEFINE g == Handler(c)
           m == copy[g][pos[g]]
           A == Answer(c, m)
           new == {<<pos[g], maps[m][k]>> : k \in A}
<1>1. pc[g] = "range" /\ req' = req /\ maps' = maps /\ peers' = peers
  BY DEF RangeSlot, store
<1>2. m \in MapRef /\ req[c] \in Request /\ req[c].numWant \in Int
  <2>1. copy[g] \in [Slot -> MapRef] /\ pos[g] \in Slot /\ req[c] \in Request
    BY <1>1, Names, Rooted DEF IndInv, Scopes, TypeOK, Ended
  <2> QED
    BY <2>1 DEF Request
<1>3. resp' = [resp EXCEPT ![c] = resp[c] \cup new]
  BY DEF RangeSlot
<1>4. /\ resp \in [Calls -> SUBSET (Slot \X Calls)]
      /\ \A n \in MapRef : \A k \in PeerID : maps[n][k] \in Calls \cup {None}
  BY DEF IndInv, TypeOK
<1>5. \A k \in A : /\ k \in PeerID /\ maps[m][k] # None
                   /\ k # req[c].peerID
                   /\ peers[maps[m][k]].ep.type = req[c].ep.type
  BY DEF Answer, Others, Candidates, Keys
<1>6. ASSUME NEW k \in A
      PROVE  LET o == maps[m][k]
             IN  /\ o \in Calls /\ pc[Handler(o)] # "idle"
                 /\ peers[o].ep.type = req[c].ep.type
                 /\ peers[o].id # req[c].peerID
                 /\ peers[o].event # "stopped"
                 /\ IsPeerConnectable(peers[o].ep)
  <2> DEFINE o == maps[m][k]
  <2>1. k \in Keys(m) /\ o \in Calls
    BY <1>2, <1>4, <1>5 DEF Keys
  <2> HIDE DEF m, A
  <2>2. peers[o].id = k /\ peers[o].event # "stopped" /\ IsPeerConnectable(peers[o].ep)
    BY <1>2, <2>1 DEF IndInv, StoredAdmissible
  <2>3. pc[Handler(o)] # "idle"
    BY <1>2, <1>5, <2>1 DEF IndInv, Fresh
  <2> QED
    BY <1>5, <2>1, <2>2, <2>3
<1>7. IsFiniteSet(resp[c])
  BY FS_EmptySet DEF AnswerInv
<1>8. A # {}
  <2>1. ASSUME A = {} PROVE FALSE
    <3>1. new = {}
      BY <2>1
    <3> HIDE DEF new
    <3>2. resp' = resp
      BY <1>3, <1>4, <3>1
    <3> QED
      BY <3>2
  <2> QED
    BY <2>1
<1>9. IsFiniteSet(new) /\ Cardinality(new) <= Cardinality(A)
  <2> DEFINE f == [k \in A |-> <<pos[g], maps[m][k]>>]
  <2>1. A \in SUBSET PeerID
    BY <1>5
  <2>2. IsFiniteSet(A)
    <3> HIDE DEF A
    <3> QED
      BY <2>1, LocalAssumption, FS_Subset
  <2>3. f \in Surjection(A, new)
    <3> HIDE DEF A, m
    <3> QED
      BY DEF Surjection
  <2> HIDE DEF f, A, new
  <2> QED
    BY <2>2, <2>3, FS_Surjection
<1>10. Cardinality(resp[c]) + Cardinality(A) <= req[c].numWant
  <2> HIDE DEF m
  <2> QED
    BY <1>2, <1>7, <1>8, AnswerFits
<1>11. IsFiniteSet(resp[c] \cup new) /\ Cardinality(resp[c] \cup new) <= req[c].numWant
  <2>1. IsFiniteSet(A)
    <3>1. A \in SUBSET PeerID
      BY <1>5
    <3> HIDE DEF A
    <3> QED
      BY <3>1, LocalAssumption, FS_Subset
  <2> HIDE DEF A, new
  <2>2. /\ Cardinality(A) \in Nat /\ Cardinality(resp[c]) \in Nat /\ Cardinality(new) \in Nat
        /\ IsFiniteSet(resp[c] \cap new)
    BY <1>7, <1>9, <2>1, FS_CardinalityType, FS_Intersection
  <2>3. Cardinality(resp[c] \cap new) \in Nat
    BY <2>2, FS_CardinalityType
  <2>4. /\ IsFiniteSet(resp[c] \cup new)
        /\ Cardinality(resp[c] \cup new)
             = Cardinality(resp[c]) + Cardinality(new) - Cardinality(resp[c] \cap new)
    BY <1>7, <1>9, FS_Union
  <2> QED
    BY <1>2, <1>9, <1>10, <2>2, <2>3, <2>4
<1>12. \A d \in Calls : resp'[d] = IF d = c THEN resp[c] \cup new ELSE resp[d]
  <2> HIDE DEF new
  <2> QED
    BY <1>3, <1>4
<1>13. \A e \in resp[c] : Fits(c, e)
  BY DEF AnswerInv
<1>14. \A e \in new : Fits(c, e)
  <2>1. \A k \in A : Fits(c, <<pos[g], maps[m][k]>>)
    <3> HIDE DEF A, m
    <3> QED
      BY <1>6 DEF Fits
  <2> HIDE DEF A, m
  <2> QED
    BY <2>1
<1> HIDE DEF g, m, A, new
<1>15. ASSUME NEW e \in resp'[c]
       PROVE  Fits(c, e)'
  <2>1. Fits(c, e)
    BY <1>12, <1>13, <1>14, <1>15
  <2>2. Lasting(e[2]) /\ req'[c] = req[c]
    BY <1>1, <2>1, CallsLast DEF Fits
  <2> QED
    BY <2>1, <2>2 DEF Fits, Lasting
<1>16. pc'[Handler(c)] # "idle"
  BY <1>1, CallsLast DEF Lasting, g
<1>17. ASSUME NEW d \in Calls, d # c, resp'[d] # {}
       PROVE  /\ pc'[Handler(d)] # "idle"
              /\ IsFiniteSet(resp'[d])
              /\ Cardinality(resp'[d]) <= req'[d].numWant
              /\ \A e \in resp'[d] : Fits(d, e)'
  <2>1. resp'[d] = resp[d]
    BY <1>12, <1>17
  <2> QED
    BY <1>17, <2>1, AnswerLasts
<1>18. IsFiniteSet(resp'[c]) /\ Cardinality(resp'[c]) <= req'[c].numWant
  BY <1>1, <1>11, <1>12
<1> QED
  BY <1>15, <1>16, <1>17, <1>18 DEF AnswerInv

(* Only a Range adds to an answer. *)
LEMMA AnswerStep ==
  ASSUME IndInv, AnswerInv, [Next]_vars
  PROVE  AnswerInv'
<1>1. CASE resp' = resp
  BY <1>1, AnswerLasts DEF AnswerInv
<1>2. CASE resp' # resp
  <2>1. ASSUME NEW c \in Calls, NEW r \in Requests, NEW t \in 0..now, DirectStore(c, r, t)
        PROVE  resp' = resp
    BY <2>1 DEF DirectStore
  <2>2. Serve \/ Tick \/ Finished \/ UNCHANGED vars => resp' = resp
    BY DEF Serve, Tick, Finished, vars, locals
  <2>3. ASSUME NEW c \in Calls, BeginCall(c)
        PROVE  resp' = resp
    BY <2>3 DEF BeginCall, AnnounceInvalid, AnnounceFirst, AnnounceStopped, AnnounceKnown,
                ScrapeWithoutRoot, Scrape, CleanUp, DeleteInfoHash
  <2>4. ASSUME NEW c \in Calls, HandlerStep(c), ~RangeSlot(c)
        PROVE  resp' = resp
    BY <2>4 DEF HandlerStep, CopyForRange, CheckLen, ReadCurrent, CompareAndSwap,
                EmptyOldest, CleanNext, DropRoot, locals
  <2>5. ASSUME NEW c \in Calls, TaskStep(c) \/ ReaperStep(c)
        PROVE  resp' = resp
    BY <2>5 DEF TaskStep, ReaperStep, UpdateKnown, NextExpired, Remove, locals
  <2>6. ASSUME NEW g \in Goroutine, AnyStep(g)
        PROVE  resp' = resp
    BY <2>6 DEF AnyStep, CopyForTake, Take, ReadActive, ReadMap, Put, locals
  <2>7. \E c \in Calls : RangeSlot(c)
    BY <1>2, <2>1, <2>2, <2>3, <2>4, <2>5, <2>6 DEF Next
  <2> QED
    BY <1>2, <2>7, RangeSlotAnswer
<1> QED
  BY <1>1, <1>2

(* For any number of calls and peers, and however their goroutines         *)
(* interleave, HandleAnnouncePeer answers with at most numWant peers, over *)
(* all three maps of the ring together, all of the asker's type and never  *)
(* the asker; and while that answer waits to be serialised, the tasks that *)
(* update its records leave each a reachable peer that has not stopped.    *)
THEOREM AnswersAreSound == Spec => []ResponseSound
<1>1. Init => AnswerInv
  BY DEF Init, AnswerInv
<1>2. IndInv /\ AnswerInv /\ [Next]_vars => AnswerInv'
  BY AnswerStep
<1>3. IndInv /\ AnswerInv => ResponseSound
  <2> SUFFICES ASSUME IndInv, AnswerInv, NEW c \in Calls, req[c] # None
               PROVE  /\ Cardinality(resp[c]) <= IF req[c].numWant > 0 THEN req[c].numWant ELSE 0
                      /\ \A e \in resp[c] :
                           /\ peers[e[2]].ep.type = req[c].ep.type
                           /\ peers[e[2]].id # req[c].peerID
                           /\ peers[e[2]].event # "stopped"
                           /\ IsPeerConnectable(peers[e[2]].ep)
    BY DEF ResponseSound
  <2>1. req[c].numWant \in Int
    BY DEF IndInv, TypeOK, Request
  <2>2. CASE resp[c] = {}
    BY <2>1, <2>2, FS_EmptySet
  <2>3. CASE resp[c] # {}
    <3>1. /\ IsFiniteSet(resp[c]) /\ Cardinality(resp[c]) <= req[c].numWant
          /\ \A e \in resp[c] : Fits(c, e)
      BY <2>3 DEF AnswerInv
    <3>2. Cardinality(resp[c]) \in Nat
      BY <3>1, FS_CardinalityType
    <3> QED
      BY <2>1, <3>1, <3>2 DEF Fits
  <2> QED
    BY <2>2, <2>3
<1> QED
  BY <1>1, <1>2, <1>3, Inductive, PTL DEF Spec

-----------------------------------------------------------------------------
(* The ring.                                                               *)

(* A call that was made: its root and its maps may be in use. *)
Born(c) == pc[Handler(c)] # "idle"
BornAfter(c) == pc'[Handler(c)] # "idle"

(* What a call will create is untouched before the call. *)
Unborn ==
  \A c \in Calls : ~Born(c) =>
    /\ \A s \in Slot : peerMap[c][s] = <<c, s>>
    /\ \A i \in 0..3 : \A k \in PeerID : maps[<<c, i>>][k] = None
    /\ \A h \in InfoHash : infoHashMap[h] # c
    /\ \A d \in Calls : root[d] # c

(* A slot, and a store under way, refers to a map that was created. *)
Owned ==
  /\ \A r \in Calls : Born(r) => \A s \in Slot : Born(peerMap[r][s][1])
  /\ \A g \in Goroutine : pc[g] = "put" => Born(dst[g][1])

(* The map of a rotation is empty and unknown until the rotation ends. *)
Spare ==
  \A c \in Calls : pc[Handler(c)] # "done" =>
    /\ \A k \in PeerID : maps[<<c, 3>>][k] = None
    /\ \A r \in Calls : \A s \in Slot : peerMap[r][s] # <<c, 3>>
    /\ \A g \in Goroutine : pc[g] = "put" => dst[g] # <<c, 3>>

(* The slots of a ring refer to different maps. *)
Apart == \A r \in Calls : \A s, t \in Slot : s # t => peerMap[r][s] # peerMap[r][t]

RingInv == Unborn /\ Owned /\ Spare /\ Apart

(* A handler that was started stays so, and one that ended stays ended. *)
LEMMA HandlerMoves ==
  ASSUME IndInv, [Next]_vars, NEW o \in Calls
  PROVE  /\ Born(o) => BornAfter(o)
         /\ pc[Handler(o)] = "done" => pc'[Handler(o)] = "done"
<1>1. Handler(o) \in Goroutine /\ pc \in [Goroutine -> Label]
  BY Names DEF IndInv, TypeOK
<1>2. Born(o) => BornAfter(o)
  BY CallsLast DEF Lasting, Born, BornAfter
<1>3. ASSUME pc[Handler(o)] = "done" PROVE pc'[Handler(o)] = "done"
  <2>1. ASSUME NEW c \in Calls, NEW r \in Requests, NEW t \in 0..now, DirectStore(c, r, t)
        PROVE  pc'[Handler(o)] = "done"
    BY <1>1, <1>3, <2>1, Names DEF DirectStore
  <2>2. CASE Serve \/ Tick \/ Finished \/ UNCHANGED vars
    BY <1>3, <2>2 DEF Serve, Tick, Finished, vars
  <2>3. ASSUME NEW c \in Calls, BeginCall(c)
        PROVE  pc'[Handler(o)] = "done"
    <3>1. /\ pc[Handler(c)] = "idle"
          /\ \/ \E l \in Label : pc' = [pc EXCEPT ![Handler(c)] = l]
             \/ pc' = [pc EXCEPT ![Handler(c)] = "copyForRange", ![Task(c)] = "copyForTake"]
      BY <2>3 DEF BeginCall, AnnounceInvalid, AnnounceFirst, AnnounceStopped, AnnounceKnown,
                  ScrapeWithoutRoot, Scrape, CleanUp, DeleteInfoHash, Begin, Label
    <3> QED
      BY <1>1, <1>3, <3>1, Names
  <2>4. ASSUME NEW c \in Calls, HandlerStep(c)
        PROVE  pc'[Handler(o)] = "done"
    <3>1. /\ pc[Handler(c)] # "done"
          /\ \/ pc' = pc
             \/ \E l : pc' = [pc EXCEPT ![Handler(c)] = l]
             \/ \E l, lr : pc' = [pc EXCEPT ![Handler(c)] = l, ![Reaper(c)] = lr]
      <4>1. CASE RangeSlot(c)
        <5>1. CASE pos[Handler(c)] < 2
          BY <4>1, <5>1 DEF RangeSlot
        <5>2. CASE ~(pos[Handler(c)] < 2)
          BY <4>1, <5>2 DEF RangeSlot
        <5> QED
          BY <5>1, <5>2
      <4>2. CASE ~RangeSlot(c)
        BY <2>4, <4>2 DEF HandlerStep, CopyForRange, CheckLen, ReadCurrent, CompareAndSwap,
                          EmptyOldest, CleanNext, DropRoot
      <4> QED
        BY <4>1, <4>2
    <3> QED
      BY <1>1, <1>3, <3>1, Names
  <2>5. ASSUME NEW c \in Calls, TaskStep(c) \/ ReaperStep(c)
        PROVE  pc'[Handler(o)] = "done"
    <3>1. pc' = pc \/ \E g \in {Task(c), Reaper(c)} : \E l : pc' = [pc EXCEPT ![g] = l]
      BY <2>5 DEF TaskStep, ReaperStep, UpdateKnown, NextExpired, Remove
    <3> QED
      BY <1>1, <1>3, <3>1, Names
  <2>6. ASSUME NEW g \in Goroutine, AnyStep(g)
        PROVE  pc'[Handler(o)] = "done"
    <3>1. pc[g] # "done" /\ (pc' = pc \/ \E l : pc' = [pc EXCEPT ![g] = l])
      BY <2>6 DEF AnyStep, CopyForTake, Take, ReadActive, ReadMap, Put
    <3> QED
      BY <1>1, <1>3, <3>1
  <2> QED
    BY <2>1, <2>2, <2>3, <2>4, <2>5, <2>6 DEF Next
<1> QED
  BY <1>2, <1>3

(* A map that a store may go to. *)
Fit(m) ==
  /\ BornAfter(m[1])
  /\ \A c \in Calls : pc'[Handler(c)] # "done" => m # <<c, 3>>

(* Every step but the replacement of the oldest map keeps the ring. *)
LEMMA RingFrame ==
  ASSUME IndInv, RingInv, [Next]_vars, peerMap' = peerMap,
         \A m \in MapRef : \A k \in PeerID :
           maps'[m][k] = maps[m][k] \/ maps'[m][k] = None \/ Fit(m),
         \A h \in InfoHash :
           infoHashMap'[h] = infoHashMap[h] \/ infoHashMap'[h] = None \/ BornAfter(infoHashMap'[h]),
         \A d \in Calls : root'[d] = root[d] \/ BornAfter(root'[d]),
         \A g \in Goroutine : pc'[g] = "put" =>
           (pc[g] = "put" /\ dst'[g] = dst[g])
           \/ \E r \in Calls, s \in Slot : Born(r) /\ dst'[g] = peerMap[r][s]
  PROVE  RingInv'
<1>1. \A c \in Calls : (Born(c) => BornAfter(c)) /\ (pc'[Handler(c)] # "done" => pc[Handler(c)] # "done")
  BY HandlerMoves
<1>2. \A r \in Calls : \A s \in Slot : peerMap[r][s] \in MapRef /\ peerMap[r][s][1] \in Calls
  BY DEF IndInv, TypeOK, MapRef
<1>3. \A c \in Calls : \A i \in 0..3 : <<c, i>> \in MapRef /\ <<c, i>>[1] = c
  BY Indices
<1>4. Unborn'
  <2> SUFFICES ASSUME NEW c \in Calls, ~BornAfter(c)
               PROVE  /\ \A s \in Slot : peerMap'[c][s] = <<c, s>>
                      /\ \A i \in 0..3 : \A k \in PeerID : maps'[<<c, i>>][k] = None
                      /\ \A h \in InfoHash : infoHashMap'[h] # c
                      /\ \A d \in Calls : root'[d] # c
    BY DEF Unborn, Born, BornAfter
  <2>1. ~Born(c)
    BY <1>1
  <2>2. /\ \A s \in Slot : peerMap[c][s] = <<c, s>>
        /\ \A i \in 0..3 : \A k \in PeerID : maps[<<c, i>>][k] = None
        /\ \A h \in InfoHash : infoHashMap[h] # c
        /\ \A d \in Calls : root[d] # c
    BY <2>1 DEF RingInv, Unborn
  <2>3. \A i \in 0..3 : \A k \in PeerID : maps'[<<c, i>>][k] = None
    BY <1>3, <2>2 DEF Fit
  <2> QED
    BY <2>2, <2>3, LocalAssumption
<1>5. Owned'
  <2>1. ASSUME NEW r \in Calls, BornAfter(r), NEW s \in Slot
        PROVE  BornAfter(peerMap'[r][s][1])
    <3>1. CASE Born(r)
      BY <1>1, <1>2, <3>1 DEF RingInv, Owned
    <3>2. CASE ~Born(r)
      <4>1. peerMap[r][s] = <<r, s>>
        BY <3>2 DEF RingInv, Unborn
      <4> QED
        BY <2>1, <4>1
    <3> QED
      BY <3>1, <3>2
  <2>2. ASSUME NEW g \in Goroutine, pc'[g] = "put"
        PROVE  BornAfter(dst'[g][1])
    <3>1. CASE pc[g] = "put" /\ dst'[g] = dst[g]
      <4>1. dst[g] \in MapRef
        BY <3>1 DEF IndInv, Scopes
      <4>2. dst[g][1] \in Calls /\ Born(dst[g][1])
        BY <3>1, <4>1 DEF RingInv, Owned, MapRef
      <4> QED
        BY <1>1, <3>1, <4>2
    <3>2. CASE \E r \in Calls, s \in Slot : Born(r) /\ dst'[g] = peerMap[r][s]
      BY <1>1, <1>2, <3>2 DEF RingInv, Owned
    <3> QED
      BY <2>2, <3>1, <3>2
  <2> QED
    BY <2>1, <2>2 DEF Owned, Born, BornAfter
<1>6. Spare'
  <2> SUFFICES ASSUME NEW c \in Calls, pc'[Handler(c)] # "done"
               PROVE  /\ \A k \in PeerID : maps'[<<c, 3>>][k] = None
                      /\ \A r \in Calls : \A s \in Slot : peerMap'[r][s] # <<c, 3>>
                      /\ \A g \in Goroutine : pc'[g] = "put" => dst'[g] # <<c, 3>>
    BY DEF Spare
  <2>1. pc[Handler(c)] # "done"
    BY <1>1
  <2>2. /\ \A k \in PeerID : maps[<<c, 3>>][k] = None
        /\ \A r \in Calls : \A s \in Slot : peerMap[r][s] # <<c, 3>>
        /\ \A g \in Goroutine : pc[g] = "put" => dst[g] # <<c, 3>>
    BY <2>1 DEF RingInv, Spare
  <2>3. <<c, 3>> \in MapRef
    <3>1. 3 \in 0..3
      OBVIOUS
    <3> QED
      BY <3>1, Indices
  <2>4. ~Fit(<<c, 3>>)
    BY DEF Fit
  <2> QED
    BY <2>2, <2>3, <2>4
<1>7. Apart'
  BY DEF RingInv, Apart
<1> QED
  BY <1>4, <1>5, <1>6, <1>7 DEF RingInv

(* A goroutine under way works on a root that was created. *)
LEMMA RootBorn ==
  ASSUME IndInv, RingInv, NEW g \in Goroutine, pc[g] \notin Ended
  PROVE  /\ root[g[1]] \in Calls /\ Born(root[g[1]])
         /\ peerMap[root[g[1]]] \in [Slot -> MapRef]
<1>1. root[g[1]] \in Calls /\ g[1] \in Calls
  BY Names DEF IndInv, Scopes
<1>2. peerMap[root[g[1]]] \in [Slot -> MapRef]
  BY <1>1 DEF IndInv, TypeOK
<1> QED
  BY <1>1, <1>2 DEF RingInv, Unborn

(* LoadAndDelete and Delete take one key out of one map. *)
LEMMA WithoutOne ==
  ASSUME IndInv, NEW n \in MapRef, NEW j \in PeerID
  PROVE  \A m \in MapRef : \A k \in PeerID :
           Without(n, j)[m][k] = IF m = n /\ k = j THEN None ELSE maps[m][k]
<1>1. maps \in [MapRef -> [PeerID -> Calls \cup {None}]]
  BY DEF IndInv, TypeOK
<1> QED
  BY <1>1 DEF Without

LEMMA RingStep ==
  ASSUME IndInv, RingInv, [Next]_vars
  PROVE  RingInv'
<1>1. ASSUME NEW c \in Calls, NEW r \in Requests, NEW t \in 0..now, DirectStore(c, r, t)
      PROVE  RingInv'
  <2> DEFINE h == IF infoHashMap[r.infoHash] = None THEN c ELSE infoHashMap[r.infoHash]
             m == peerMap[h][currentActive[h]]
  <2>1. r \in Request /\ r.infoHash \in InfoHash /\ r.peerID \in PeerID
    BY LocalAssumption DEF Request
  <2>2. /\ pc' = [pc EXCEPT ![Handler(c)] = "done"] /\ peerMap' = peerMap /\ dst' = dst
        /\ infoHashMap' = [infoHashMap EXCEPT ![r.infoHash] = h]
        /\ root' = [root EXCEPT ![c] = h]
        /\ maps' = [maps EXCEPT ![m] = [maps[m] EXCEPT ![r.peerID] = c]]
    BY <1>1 DEF DirectStore, loops
  <2>3. h \in Calls /\ currentActive[h] \in Slot
    BY <2>1 DEF IndInv, TypeOK
  <2>4. BornAfter(c) /\ \A g \in Goroutine : g # Handler(c) => pc'[g] = pc[g]
    BY <2>2, Names DEF BornAfter, IndInv, TypeOK
  <2>5. BornAfter(h)
    <3>1. CASE h = c
      BY <2>4, <3>1
    <3>2. CASE h # c
      <4>1. h = infoHashMap[r.infoHash]
        BY <3>2
      <4>2. Born(h)
        BY <2>1, <2>3, <4>1 DEF RingInv, Unborn
      <4> QED
        BY <2>3, <4>2, HandlerMoves
    <3> QED
      BY <3>1, <3>2
  <2>6. m \in MapRef /\ Fit(m)
    <3>1. m \in MapRef /\ m[1] \in Calls
      <4>1. peerMap[h] \in [Slot -> MapRef]
        BY <2>3 DEF IndInv, TypeOK
      <4>2. m \in MapRef
        BY <2>3, <4>1
      <4> QED
        BY <4>2 DEF MapRef
    <3>2. BornAfter(m[1])
      <4>1. CASE Born(h)
        BY <2>3, <3>1, <4>1, HandlerMoves DEF RingInv, Owned
      <4>2. CASE ~Born(h)
        <5>1. m = <<h, currentActive[h]>>
          BY <2>3, <4>2 DEF RingInv, Unborn
        <5> QED
          BY <2>5, <5>1
      <4> QED
        BY <4>1, <4>2
    <3>3. \A d \in Calls : pc'[Handler(d)] # "done" => m # <<d, 3>>
      <4> SUFFICES ASSUME NEW d \in Calls, pc'[Handler(d)] # "done" PROVE m # <<d, 3>>
        OBVIOUS
      <4>1. pc[Handler(d)] # "done"
        BY HandlerMoves
      <4> QED
        BY <2>3, <4>1 DEF RingInv, Spare
    <3> QED
      BY <3>1, <3>2, <3>3 DEF Fit
  <2> HIDE DEF h, m
  <2>7. \A n \in MapRef : \A k \in PeerID : maps'[n][k] = maps[n][k] \/ Fit(n)
    <3>1. \A n \in MapRef : n # m => maps'[n] = maps[n]
      BY <2>2, <2>6 DEF IndInv, TypeOK
    <3> QED
      BY <2>6, <3>1
  <2>8. \A i \in InfoHash : infoHashMap'[i] = infoHashMap[i] \/ BornAfter(infoHashMap'[i])
    BY <2>1, <2>2, <2>5 DEF IndInv, TypeOK
  <2>9. \A d \in Calls : root'[d] = root[d] \/ BornAfter(root'[d])
    BY <2>2, <2>5 DEF IndInv, TypeOK
  <2>10. \A g \in Goroutine : pc'[g] = "put" => pc[g] = "put" /\ dst'[g] = dst[g]
    BY <2>2, <2>4, Names DEF IndInv, TypeOK
  <2> QED
    BY <2>2, <2>7, <2>8, <2>9, <2>10, RingFrame
<1>2. CASE Serve \/ Tick \/ Finished \/ UNCHANGED vars
  <2>1. UNCHANGED <<peerMap, maps, infoHashMap, root, pc, dst>>
    BY <1>2 DEF Serve, Tick, Finished, vars, store, locals, loops
  <2> QED
    BY <2>1, RingFrame
<1>3. ASSUME NEW c \in Calls, BeginCall(c)
      PROVE  RingInv'
  <2>1. PICK r \in Requests :
          /\ \/ infoHashMap' = infoHashMap
             \/ infoHashMap' = [infoHashMap EXCEPT ![r.infoHash] = c]
             \/ infoHashMap' = [infoHashMap EXCEPT ![r.infoHash] = None]
          /\ \/ root' = root
             \/ root' = [root EXCEPT ![c] = c]
             \/ root' = [root EXCEPT ![c] = infoHashMap[r.infoHash]]
                /\ infoHashMap[r.infoHash] # None
          /\ UNCHANGED <<peerMap, maps, dst>>
          /\ \/ \E l \in Label \ {"put", "idle"} : pc' = [pc EXCEPT ![Handler(c)] = l]
             \/ pc' = [pc EXCEPT ![Handler(c)] = "copyForRange", ![Task(c)] = "copyForTake"]
    BY <1>3 DEF BeginCall, AnnounceInvalid, AnnounceFirst, AnnounceStopped, AnnounceKnown,
                ScrapeWithoutRoot, Scrape, CleanUp, DeleteInfoHash, store, loops, Label
  <2>2. r.infoHash \in InfoHash
    BY LocalAssumption DEF Request
  <2>3. /\ \A g \in Goroutine : pc'[g] = "put" => pc[g] = "put"
        /\ pc'[Handler(c)] # "idle"
    <3>1. pc \in [Goroutine -> Label] /\ Handler(c) \in Goroutine /\ Task(c) # Handler(c)
      BY Names DEF IndInv, TypeOK
    <3>2. CASE \E l \in Label \ {"put", "idle"} : pc' = [pc EXCEPT ![Handler(c)] = l]
      BY <3>1, <3>2
    <3>3. CASE pc' = [pc EXCEPT ![Handler(c)] = "copyForRange", ![Task(c)] = "copyForTake"]
      BY <3>1, <3>3
    <3> QED
      BY <2>1, <3>2, <3>3
  <2>4. BornAfter(c)
    BY <2>3 DEF BornAfter
  <2>5. \A i \in InfoHash : infoHashMap'[i] = infoHashMap[i] \/ infoHashMap'[i] = None
                            \/ BornAfter(infoHashMap'[i])
    BY <2>1, <2>2, <2>4 DEF IndInv, TypeOK
  <2>6. infoHashMap[r.infoHash] # None =>
          infoHashMap[r.infoHash] \in Calls /\ BornAfter(infoHashMap[r.infoHash])
    <3> SUFFICES ASSUME infoHashMap[r.infoHash] # None
                 PROVE  infoHashMap[r.infoHash] \in Calls /\ BornAfter(infoHashMap[r.infoHash])
      OBVIOUS
    <3>1. infoHashMap[r.infoHash] \in Calls
      BY <2>2 DEF IndInv, TypeOK
    <3>2. Born(infoHashMap[r.infoHash])
      BY <2>2, <3>1 DEF RingInv, Unborn
    <3> QED
      BY <3>1, <3>2, HandlerMoves
  <2>7. \A d \in Calls : root'[d] = root[d] \/ BornAfter(root'[d])
    BY <2>1, <2>4, <2>6 DEF IndInv, TypeOK
  <2> QED
    BY <2>1, <2>3, <2>5, <2>7, RingFrame
<1>4. ASSUME NEW c \in Calls, HandlerStep(c), ~EmptyOldest(c)
      PROVE  RingInv'
  <2>1. /\ UNCHANGED <<peerMap, maps, root, dst>>
        /\ infoHashMap' = infoHashMap \/ infoHashMap' = [infoHashMap EXCEPT ![req[c].infoHash] = None]
    BY <1>4 DEF HandlerStep, CopyForRange, RangeSlot, CheckLen, ReadCurrent, CompareAndSwap,
                CleanNext, DropRoot, store, locals, loops
  <2>2. \A g \in Goroutine : pc'[g] = "put" => pc[g] = "put"
    <3>1. CASE RangeSlot(c)
      <4>1. CASE pos[Handler(c)] < 2
        BY <3>1, <4>1 DEF RangeSlot
      <4>2. CASE ~(pos[Handler(c)] < 2)
        <5> DEFINE m == copy[Handler(c)][pos[Handler(c)]]
                   late == stale[c] \cup {<<pos[Handler(c)], k>> : k \in ExpiredKeys(c, m)}
                   l == CASE req[c].op = "announce" -> "checkLen"
                          [] req[c].op = "clean" -> "nextKey"
                          [] OTHER -> "done"
                   lr == IF req[c].op # "clean" /\ late # {} THEN "nextKey" ELSE pc[Reaper(c)]
        <5>1. pc' = [pc EXCEPT ![Handler(c)] = l, ![Reaper(c)] = lr]
          BY <3>1, <4>2, Names DEF RangeSlot
        <5>2. l # "put" /\ (lr = pc[Reaper(c)] \/ lr # "put")
          OBVIOUS
        <5> HIDE DEF l, lr
        <5> QED
          BY <5>1, <5>2, Names DEF IndInv, TypeOK
      <4> QED
        BY <4>1, <4>2
    <3>2. CASE ~RangeSlot(c)
      BY <1>4, <3>2 DEF HandlerStep, CopyForRange, CheckLen, ReadCurrent, CompareAndSwap,
                        CleanNext, DropRoot, IndInv, TypeOK
    <3> QED
      BY <3>1, <3>2
  <2>3. \A i \in InfoHash : infoHashMap'[i] = infoHashMap[i] \/ infoHashMap'[i] = None
    BY <2>1 DEF IndInv, TypeOK
  <2> QED
    BY <2>1, <2>2, <2>3, RingFrame
<1>5. ASSUME NEW c \in Calls, TaskStep(c) \/ ReaperStep(c)
      PROVE  RingInv'
  <2>1. UNCHANGED <<peerMap, infoHashMap, root, dst>>
    BY <1>5 DEF TaskStep, ReaperStep, UpdateKnown, NextExpired, Remove, store, locals, loops
  <2>2. \A g \in Goroutine : pc'[g] = "put" => pc[g] = "put"
    BY <1>5 DEF TaskStep, ReaperStep, UpdateKnown, NextExpired, Remove, IndInv, TypeOK
  <2>3. \A m \in MapRef : \A k \in PeerID : maps'[m][k] = maps[m][k] \/ maps'[m][k] = None
    <3>1. CASE maps' = maps
      BY <3>1
    <3>2. CASE Remove(c)
      <4> DEFINE g == Reaper(c)
                 n == copy[g][pos[g]]
      <4>1. maps' = Without(n, key[g]) /\ pc[g] = "remove" /\ g \in Goroutine
        BY <3>2, Names DEF Remove
      <4>2. n \in MapRef /\ key[g] \in PeerID
        <5>1. copy[g] \in [Slot -> MapRef] /\ pos[g] \in Slot /\ key[g] \in PeerID
          BY <4>1 DEF IndInv, Scopes, TypeOK
        <5> QED
          BY <5>1
      <4> HIDE DEF n, g
      <4> QED
        BY <4>1, <4>2, WithoutOne
    <3>3. maps' = maps \/ Remove(c)
      BY <1>5 DEF TaskStep, ReaperStep, UpdateKnown, NextExpired, store
    <3> QED
      BY <3>1, <3>2, <3>3
  <2> QED
    BY <2>1, <2>2, <2>3, RingFrame
<1>6. ASSUME NEW g \in Goroutine, CopyForTake(g) \/ ReadActive(g)
      PROVE  RingInv'
  <2>1. UNCHANGED <<peerMap, maps, infoHashMap, root, dst>>
    BY <1>6 DEF CopyForTake, ReadActive, store, locals
  <2>2. \A d \in Goroutine : pc'[d] = "put" => pc[d] = "put"
    BY <1>6 DEF CopyForTake, ReadActive, IndInv, TypeOK
  <2> QED
    BY <2>1, <2>2, RingFrame
<1>7. ASSUME NEW g \in Goroutine, Take(g)
      PROVE  RingInv'
  <2> DEFINE n == copy[g][pos[g]]
  <2>1. maps' = Without(n, key[g]) /\ pc[g] = "take" /\ UNCHANGED <<peerMap, infoHashMap, root, dst>>
    BY <1>7 DEF Take, locals
  <2>2. n \in MapRef /\ key[g] \in PeerID
    <3>1. copy[g] \in [Slot -> MapRef] /\ pos[g] \in Slot /\ key[g] \in PeerID
      BY <2>1 DEF IndInv, Scopes, TypeOK
    <3> QED
      BY <3>1
  <2>3. \A d \in Goroutine : pc'[d] = "put" => pc[d] = "put"
    <3>1. pc' = pc \/ \E f : pc' = [pc EXCEPT ![g] = AfterTake(g, f)]
      BY <1>7 DEF Take
    <3>2. \A f : AfterTake(g, f) # "put"
      BY DEF AfterTake
    <3> QED
      BY <3>1, <3>2 DEF IndInv, TypeOK
  <2> HIDE DEF n
  <2>4. \A m \in MapRef : \A k \in PeerID : maps'[m][k] = maps[m][k] \/ maps'[m][k] = None
    BY <2>1, <2>2, WithoutOne
  <2> QED
    BY <2>1, <2>3, <2>4, RingFrame
<1>8. ASSUME NEW g \in Goroutine, ReadMap(g)
      PROVE  RingInv'
  <2>1. /\ UNCHANGED <<peerMap, maps, infoHashMap, root>> /\ pc[g] = "readMap"
        /\ dst' = [dst EXCEPT ![g] = peerMap[root[g[1]]][idx[g]]]
        /\ pc' = [pc EXCEPT ![g] = "put"]
    BY <1>8 DEF ReadMap, store, locals
  <2>2. root[g[1]] \in Calls /\ Born(root[g[1]])
    BY <2>1, RootBorn DEF Ended
  <2>3. dst'[g] = peerMap[root[g[1]]][idx[g]] /\ idx[g] \in Slot
    BY <2>1 DEF IndInv, TypeOK
  <2>4. \A d \in Goroutine : d # g => pc'[d] = pc[d] /\ dst'[d] = dst[d]
    BY <2>1 DEF IndInv, TypeOK
  <2>5. \A d \in Goroutine : pc'[d] = "put" =>
           (pc[d] = "put" /\ dst'[d] = dst[d])
           \/ \E r \in Calls, s \in Slot : Born(r) /\ dst'[d] = peerMap[r][s]
    BY <2>2, <2>3, <2>4
  <2> QED
    BY <2>1, <2>5, RingFrame
<1>9. ASSUME NEW g \in Goroutine, Put(g)
      PROVE  RingInv'
  <2> DEFINE o == IF found[g] # None THEN found[g] ELSE g[1]
             k == peers[o].id
             m == dst[g]
  <2>1. /\ UNCHANGED <<peerMap, infoHashMap, root>> /\ pc[g] = "put"
        /\ maps' = maps \/ maps' = [maps EXCEPT ![m] = [maps[m] EXCEPT ![k] = o]]
        /\ dst' = [dst EXCEPT ![g] = None]
        /\ pc' = [pc EXCEPT ![g] = "done"]
    BY <1>9 DEF Put, locals
  <2>2. m \in MapRef /\ m[1] \in Calls /\ Born(m[1])
    BY <2>1 DEF IndInv, Scopes, RingInv, Owned, MapRef
  <2>3. \A c \in Calls : pc'[Handler(c)] # "done" => m # <<c, 3>>
    <3> SUFFICES ASSUME NEW c \in Calls, pc'[Handler(c)] # "done" PROVE m # <<c, 3>>
      OBVIOUS
    <3>1. pc[Handler(c)] # "done"
      BY HandlerMoves
    <3> QED
      BY <2>1, <3>1 DEF RingInv, Spare
  <2>4. Fit(m)
    BY <2>2, <2>3, HandlerMoves DEF Fit
  <2> HIDE DEF o, k, m
  <2>5. \A n \in MapRef : n # m => maps'[n] = maps[n]
    BY <2>1, <2>2 DEF IndInv, TypeOK
  <2>6. \A d \in Goroutine : pc'[d] = "put" => pc[d] = "put" /\ dst'[d] = dst[d]
    BY <2>1 DEF IndInv, TypeOK
  <2> QED
    BY <2>1, <2>4, <2>5, <2>6, RingFrame
<1>10. ASSUME NEW c \in Calls, EmptyOldest(c)
       PROVE  RingInv'
  <2> DEFINE R == root[c]
             S == Oldest(c)
  <2>1. /\ pc[Handler(c)] = "empty" /\ UNCHANGED <<maps, infoHashMap, root, dst>>
        /\ peerMap' = [peerMap EXCEPT ![R] = [peerMap[R] EXCEPT ![S] = <<c, 3>>]]
        /\ pc' = [pc EXCEPT ![Handler(c)] = "done"]
    BY <1>10 DEF EmptyOldest, locals, loops
  <2>2. R \in Calls /\ Born(R) /\ S \in Slot /\ Handler(c) \in Goroutine /\ Born(c)
    BY <2>1, Names, Rooted, Indices DEF RingInv, Unborn, Oldest, IndInv, TypeOK, Ended, Born
  <2> HIDE DEF R, S
  <2>3. \A r \in Calls : \A s \in Slot :
          peerMap'[r][s] = IF r = R /\ s = S THEN <<c, 3>> ELSE peerMap[r][s]
    BY <2>1, <2>2 DEF IndInv, TypeOK
  <2>4. \A g \in Goroutine : pc'[g] = IF g = Handler(c) THEN "done" ELSE pc[g]
    BY <2>1 DEF IndInv, TypeOK
  <2>5. /\ \A d \in Calls : Born(d)' <=> Born(d)
        /\ \A d \in Calls : pc'[Handler(d)] # "done" => pc[Handler(d)] # "done" /\ d # c
    BY <2>1, <2>4, Names DEF Born
  <2>6. \A r \in Calls : \A s \in Slot : peerMap[r][s] # <<c, 3>> /\ peerMap[r][s][1] \in Calls
    <3>1. \A r \in Calls : \A s \in Slot : peerMap[r][s] # <<c, 3>>
      BY <2>1 DEF RingInv, Spare
    <3>2. \A r \in Calls : \A s \in Slot : peerMap[r][s] \in MapRef
      BY DEF IndInv, TypeOK
    <3> QED
      BY <3>1, <3>2 DEF MapRef
  <2>7. Unborn'
    <3> SUFFICES ASSUME NEW d \in Calls, ~Born(d)'
                 PROVE  /\ \A s \in Slot : peerMap'[d][s] = <<d, s>>
                        /\ \A i \in 0..3 : \A k \in PeerID : maps'[<<d, i>>][k] = None
                        /\ \A h \in InfoHash : infoHashMap'[h] # d
                        /\ \A e \in Calls : root'[e] # d
      BY DEF Unborn
    <3>1. ~Born(d)
      BY <2>5
    <3>2. d # R
      BY <2>2, <3>1
    <3>3. /\ \A s \in Slot : peerMap[d][s] = <<d, s>>
          /\ \A i \in 0..3 : \A k \in PeerID : maps[<<d, i>>][k] = None
          /\ \A h \in InfoHash : infoHashMap[h] # d
          /\ \A e \in Calls : root[e] # d
      BY <3>1 DEF RingInv, Unborn
    <3> QED
      BY <2>1, <2>3, <3>2, <3>3
  <2>8. Owned'
    <3>1. ASSUME NEW r \in Calls, Born(r), NEW s \in Slot
          PROVE  peerMap'[r][s][1] \in Calls /\ Born(peerMap'[r][s][1])
      BY <2>2, <2>3, <2>6, <3>1 DEF RingInv, Owned
    <3>2. ASSUME NEW r \in Calls, Born(r)', NEW s \in Slot
          PROVE  pc'[Handler(peerMap'[r][s][1])] # "idle"
      BY <2>5, <3>1, <3>2 DEF Born
    <3>3. ASSUME NEW g \in Goroutine, pc'[g] = "put"
          PROVE  pc'[Handler(dst'[g][1])] # "idle"
      <4>1. pc[g] = "put" /\ dst[g] \in MapRef
        BY <2>4, <3>3 DEF IndInv, Scopes
      <4>2. dst[g][1] \in Calls /\ Born(dst[g][1])
        BY <4>1 DEF RingInv, Owned, MapRef
      <4> QED
        BY <2>1, <2>5, <4>2 DEF Born
    <3> QED
      BY <3>2, <3>3 DEF Owned, Born
  <2>9. Spare'
    <3> SUFFICES ASSUME NEW d \in Calls, pc'[Handler(d)] # "done"
                 PROVE  /\ \A k \in PeerID : maps'[<<d, 3>>][k] = None
                        /\ \A r \in Calls : \A s \in Slot : peerMap'[r][s] # <<d, 3>>
                        /\ \A g \in Goroutine : pc'[g] = "put" => dst'[g] # <<d, 3>>
      BY DEF Spare
    <3>1. /\ \A k \in PeerID : maps[<<d, 3>>][k] = None
          /\ \A r \in Calls : \A s \in Slot : peerMap[r][s] # <<d, 3>>
          /\ \A g \in Goroutine : pc[g] = "put" => dst[g] # <<d, 3>>
      BY <2>5 DEF RingInv, Spare
    <3>2. d # c
      BY <2>5
    <3>3. <<c, 3>> # <<d, 3>>
      BY <3>2
    <3> QED
      BY <2>1, <2>3, <2>4, <3>1, <3>3
  <2>10. Apart'
    BY <2>3, <2>6 DEF RingInv, Apart
  <2> QED
    BY <2>7, <2>8, <2>9, <2>10 DEF RingInv
<1> QED
  BY <1>1, <1>2, <1>3, <1>4, <1>5, <1>6, <1>7, <1>8, <1>9, <1>10 DEF Next, HandlerStep, AnyStep

LEMMA RingInductive == Spec => []RingInv
<1>1. Init => RingInv
  <2> SUFFICES ASSUME Init PROVE RingInv
    OBVIOUS
  <2>1. Unborn
    BY LocalAssumption, Indices DEF Init, Unborn
  <2>2. Owned /\ Apart
    BY Names, Indices DEF Init, Owned, Apart, Born
  <2>3. Spare
    <3>1. \A c \in Calls : \A k \in PeerID : maps[<<c, 3>>][k] = None
      <4>1. 3 \in 0..3
        OBVIOUS
      <4> QED
        BY <4>1, Indices DEF Init
    <3>2. \A r \in Calls : \A s \in Slot : peerMap[r][s] = <<r, s>> /\ s # 3
      BY DEF Init, Slot
    <3>3. \A g \in Goroutine : pc[g] # "put"
      BY DEF Init
    <3>4. \A r, c \in Calls : \A s \in Slot : s # 3 => <<r, s>> # <<c, 3>>
      OBVIOUS
    <3>5. \A c, r \in Calls : \A s \in Slot : peerMap[r][s] # <<c, 3>>
      BY <3>2, <3>4
    <3> QED
      BY <3>1, <3>3, <3>5 DEF Spare
  <2> QED
    BY <2>1, <2>2, <2>3 DEF RingInv
<1> QED
  BY <1>1, RingStep, Inductive, PTL DEF Spec

-----------------------------------------------------------------------------
(* Calls that do not overlap: MaxInflight = 1.                             *)

(* Only the call most recently begun runs. *)
Alone ==
  /\ Running \subseteq {last}
  /\ last # None => serving /\ Born(last)

LEMMA AtWork ==
  ASSUME IndInv, NEW g \in Goroutine, pc[g] \notin Ended
  PROVE  g[1] \in Running
BY Names DEF Running, Ended, Handler, Task, Reaper

(* A step of a goroutine leaves the other calls as they are. *)
LEMMA OneCallMoves ==
  ASSUME IndInv, NEW c \in Calls,
         HandlerStep(c) \/ TaskStep(c) \/ ReaperStep(c)
         \/ \E g \in Goroutine : g[1] = c /\ AnyStep(g)
  PROVE  /\ c \in Running
         /\ \A g \in Goroutine : g[1] # c => pc'[g] = pc[g]
         /\ last' = last /\ serving' = serving /\ req' = req
<1>1. pc \in [Goroutine -> Label]
  BY DEF IndInv, TypeOK
<1>2. CASE HandlerStep(c)
  <2>1. pc[Handler(c)] \notin Ended /\ UNCHANGED <<last, serving, req>>
    BY <1>2 DEF HandlerStep, CopyForRange, RangeSlot, CheckLen, ReadCurrent, CompareAndSwap,
                EmptyOldest, CleanNext, DropRoot, locals, history, clock, Ended
  <2>2. \/ pc' = pc
        \/ \E l : pc' = [pc EXCEPT ![Handler(c)] = l]
        \/ \E l, lr : pc' = [pc EXCEPT ![Handler(c)] = l, ![Reaper(c)] = lr]
    <3>1. CASE RangeSlot(c)
      <4>1. CASE pos[Handler(c)] < 2
        BY <3>1, <4>1 DEF RangeSlot
      <4>2. CASE ~(pos[Handler(c)] < 2)
        BY <3>1, <4>2 DEF RangeSlot
      <4> QED
        BY <4>1, <4>2
    <3>2. CASE ~RangeSlot(c)
      BY <1>2, <3>2 DEF HandlerStep, CopyForRange, CheckLen, ReadCurrent, CompareAndSwap,
                        EmptyOldest, CleanNext, DropRoot
    <3> QED
      BY <3>1, <3>2
  <2> QED
    BY <1>1, <2>1, <2>2, Names, AtWork
<1>3. CASE TaskStep(c) \/ ReaperStep(c)
  <2>1. PICK g \in {Task(c), Reaper(c)} :
          /\ pc[g] \notin Ended
          /\ pc' = pc \/ \E l : pc' = [pc EXCEPT ![g] = l]
    BY <1>3 DEF TaskStep, ReaperStep, UpdateKnown, NextExpired, Remove, Ended
  <2>2. UNCHANGED <<last, serving, req>>
    BY <1>3 DEF TaskStep, ReaperStep, UpdateKnown, NextExpired, Remove, locals, history, clock
  <2> QED
    BY <1>1, <2>1, <2>2, Names, AtWork
<1>4. CASE \E g \in Goroutine : g[1] = c /\ AnyStep(g)
  <2>1. PICK g \in Goroutine : g[1] = c /\ AnyStep(g)
    BY <1>4
  <2>2. pc[g] \notin Ended /\ (pc' = pc \/ \E l : pc' = [pc EXCEPT ![g] = l])
    BY <2>1 DEF AnyStep, CopyForTake, Take, ReadActive, ReadMap, Put, Ended
  <2>3. UNCHANGED <<last, serving, req>>
    BY <2>1 DEF AnyStep, CopyForTake, Take, ReadActive, ReadMap, Put, locals, history, clock
  <2> QED
    BY <1>1, <2>1, <2>2, <2>3, AtWork
<1> QED
  BY <1>2, <1>3, <1>4

(* When at most one call may run, a call begins with all others at rest. *)
LEMMA BeginsAlone ==
  ASSUME MaxInflight = 1, IndInv, Alone, NEW c \in Calls, NEW r \in Requests, Begin(c, r)
  PROVE  /\ Running = {}
         /\ last' = c /\ serving' = TRUE /\ serving
         /\ req'[c] = r
<1>1. IsFiniteSet(Running) /\ Cardinality(Running) < 1
  <2>1. IsFiniteSet({last}) /\ Running \in SUBSET {last}
    BY FS_Singleton DEF Alone
  <2> QED
    BY <2>1, FS_Subset DEF Begin
<1>2. Running = {}
  BY <1>1, FS_EmptySet, FS_CardinalityType
<1> QED
  BY <1>2 DEF Begin, clock, IndInv, TypeOK

LEMMA BeginCallBegins ==
  ASSUME NEW c \in Calls, BeginCall(c)
  PROVE  \E r \in Requests :
           /\ Begin(c, r)
           /\ \/ \E l \in Label \ {"idle"} : pc' = [pc EXCEPT ![Handler(c)] = l]
              \/ pc' = [pc EXCEPT ![Handler(c)] = "copyForRange", ![Task(c)] = "copyForTake"]
BY DEF BeginCall, AnnounceInvalid, AnnounceFirst, AnnounceStopped, AnnounceKnown,
       ScrapeWithoutRoot, Scrape, CleanUp, DeleteInfoHash, Label

LEMMA AloneStep ==
  ASSUME MaxInflight = 1, IndInv, Alone, [Next]_vars
  PROVE  Alone'
<1>1. pc \in [Goroutine -> Label]
  BY DEF IndInv, TypeOK
<1>2. ASSUME NEW c \in Calls, NEW r \in Requests, NEW t \in 0..now, DirectStore(c, r, t)
      PROVE  Alone'
  <2>1. /\ pc' = [pc EXCEPT ![Handler(c)] = "done"] /\ last' = last /\ serving' = serving
        /\ ~serving
    BY <1>2 DEF DirectStore, history, clock
  <2>2. Running' \subseteq Running
    <3>1. \A g \in Goroutine : pc'[g] = pc[g] \/ pc'[g] = "done"
      BY <1>1, <2>1
    <3> QED
      BY <3>1, Names DEF Running, Handler, Task, Reaper
  <2> QED
    BY <2>1, <2>2 DEF Alone
<1>3. CASE Serve \/ Tick \/ Finished \/ UNCHANGED vars
  <2>1. pc' = pc /\ last' = last /\ (serving => serving')
    BY <1>3 DEF Serve, Tick, Finished, vars, history, clock
  <2> QED
    BY <2>1 DEF Alone, Running, Born
<1>4. ASSUME NEW c \in Calls, BeginCall(c)
      PROVE  Alone'
  <2>1. PICK r \in Requests :
          /\ Begin(c, r)
          /\ \/ \E l \in Label \ {"idle"} : pc' = [pc EXCEPT ![Handler(c)] = l]
             \/ pc' = [pc EXCEPT ![Handler(c)] = "copyForRange", ![Task(c)] = "copyForTake"]
    BY <1>4, BeginCallBegins
  <2>2. Running = {} /\ last' = c /\ serving' = TRUE
    BY <2>1, BeginsAlone
  <2>3. /\ \A g \in Goroutine : g[1] # c => pc'[g] = pc[g]
        /\ pc'[Handler(c)] # "idle"
    BY <1>1, <2>1, Names
  <2>4. Running' \subseteq {c}
    BY <2>2, <2>3, Names DEF Running, Handler, Task, Reaper
  <2> QED
    BY <2>2, <2>3, <2>4 DEF Alone, Born
<1>5. ASSUME NEW c \in Calls,
             HandlerStep(c) \/ TaskStep(c) \/ ReaperStep(c)
             \/ \E g \in Goroutine : g[1] = c /\ AnyStep(g)
      PROVE  Alone'
  <2>1. /\ c \in Running
        /\ \A g \in Goroutine : g[1] # c => pc'[g] = pc[g]
        /\ last' = last /\ serving' = serving
    BY <1>5, OneCallMoves
  <2>2. Running' \subseteq Running
    <3>1. \A d \in Calls : d # c => \A w \in {"handler", "task", "reaper"} : pc'[<<d, w>>] = pc[<<d, w>>]
      BY <2>1, Names DEF Handler, Task, Reaper
    <3> QED
      BY <2>1, <3>1 DEF Running
  <2>3. last # None => Born(last)'
    <3>1. last = c /\ Born(c)
      BY <2>1, LocalAssumption DEF Alone
    <3>2. BornAfter(c)
      BY <3>1, HandlerMoves
    <3> QED
      BY <2>1, <3>1, <3>2 DEF Born, BornAfter
  <2> QED
    BY <2>1, <2>2, <2>3 DEF Alone, Born
<1> QED
  BY <1>2, <1>3, <1>4, <1>5, Names DEF Next

(* Everything the proofs about calls that do not overlap build on. *)
SerialBase == IndInv /\ RingInv /\ Alone

LEMMA SerialBaseInductive ==
  ASSUME MaxInflight = 1
  PROVE  Spec => []SerialBase
<1>1. Init => Alone
  BY Names DEF Init, Alone, Running, Handler, Task, Reaper
<1>2. IndInv /\ Alone /\ [Next]_vars => Alone'
  BY AloneStep
<1>3. Spec => []Alone
  BY <1>1, <1>2, Inductive, PTL DEF Spec
<1> QED
  BY <1>3, Inductive, RingInductive, PTL DEF SerialBase

(* Peer k is in none of the maps of ring r. *)
Absent(r, k) == \A s \in Slot : maps[peerMap[r][s]][k] = None

(* The stop of a peer, call c: its handler takes the peer out of one slot  *)
(* after the other, and nothing else runs.                                 *)
IsStop(q) == q.op = "announce" /\ ValidAddress(q.ep) /\ q.event = "stopped"
StopOf(c) ==
  LET k == req[c].peerID
      r == infoHashMap[req[c].infoHash]
      g == Handler(c)
  IN  /\ pc[Task(c)] = "idle" /\ pc[Reaper(c)] = "idle" /\ resp[c] = {}
      /\ pc[g] \in {"copyForTake", "take", "done"}
      /\ pc[g] # "done" => r \in Calls /\ root[c] = r /\ key[g] = k
      /\ pc[g] = "take" =>
           /\ copy[g] = peerMap[r]
           /\ \A s \in Slot : s < pos[g] => maps[peerMap[r][s]][k] = None
      /\ pc[g] = "done" /\ r # None => Absent(r, k)
StopInv == \A c \in Calls : last = c /\ IsStop(req[c]) => StopOf(c)

LEMMA StopBegins ==
  ASSUME MaxInflight = 1, SerialBase, AnswerInv, NEW c \in Calls, BeginCall(c)
  PROVE  StopInv'
<1>1. PICK r \in Requests :
        /\ Begin(c, r)
        /\ \/ AnnounceInvalid(c, r) \/ AnnounceFirst(c, r) \/ AnnounceStopped(c, r)
           \/ AnnounceKnown(c, r) \/ ScrapeWithoutRoot(c, r) \/ Scrape(c, r)
           \/ CleanUp(c, r) \/ DeleteInfoHash(c, r)
  BY DEF BeginCall, AnnounceInvalid, AnnounceFirst, AnnounceStopped, AnnounceKnown,
         ScrapeWithoutRoot, Scrape, CleanUp, DeleteInfoHash
<1>2. last' = c /\ req'[c] = r
  BY <1>1, BeginsAlone DEF SerialBase
<1> SUFFICES ASSUME IsStop(r) PROVE StopOf(c)'
  BY <1>2 DEF StopInv, IsStop
<1>3. r \in Request /\ r.infoHash \in InfoHash /\ r.peerID \in PeerID
  BY LocalAssumption DEF Request
<1>4. AnnounceFirst(c, r) \/ AnnounceStopped(c, r)
  BY <1>1 DEF IsStop, AnnounceInvalid, AnnounceKnown, ScrapeWithoutRoot, Scrape, CleanUp,
              DeleteInfoHash
<1>5. /\ pc \in [Goroutine -> Label] /\ key \in [Goroutine -> PeerID \cup {None}]
      /\ root \in [Calls -> Calls \cup {None}] /\ infoHashMap \in [InfoHash -> Calls \cup {None}]
  BY DEF SerialBase, IndInv, TypeOK
<1>6. /\ Handler(c) \in Goroutine /\ Task(c) \in Goroutine /\ Reaper(c) \in Goroutine
      /\ Handler(c) # Task(c) /\ Handler(c) # Reaper(c)
      /\ pc[Handler(c)] = "idle" /\ pc[Task(c)] = "idle" /\ pc[Reaper(c)] = "idle"
  BY <1>1, Names, Starting DEF SerialBase
<1>7. resp'[c] = {}
  BY <1>4, <1>6 DEF AnswerInv, AnnounceFirst, AnnounceStopped
<1>8. CASE AnnounceFirst(c, r)
  <2>1. /\ pc' = [pc EXCEPT ![Handler(c)] = "done"]
        /\ infoHashMap'[r.infoHash] = c
        /\ UNCHANGED <<maps, peerMap>>
    BY <1>3, <1>5, <1>8 DEF AnnounceFirst, IsStop
  <2>2. \A s \in Slot : s \in 0..3
    BY DEF Slot
  <2>3. \A s \in Slot : maps[peerMap[c][s]][r.peerID] = None
    <3>1. /\ \A s \in Slot : peerMap[c][s] = <<c, s>>
          /\ \A i \in 0..3 : \A k \in PeerID : maps[<<c, i>>][k] = None
      BY <1>6 DEF SerialBase, RingInv, Unborn, Born
    <3> QED
      BY <1>3, <2>2, <3>1
  <2>4. pc'[Handler(c)] = "done" /\ pc'[Task(c)] = "idle" /\ pc'[Reaper(c)] = "idle"
    BY <1>5, <1>6, <2>1
  <2>5. \A s \in Slot : maps'[peerMap'[c][s]][r.peerID] = None
    BY <2>1, <2>3
  <2> QED
    BY <1>2, <1>7, <2>1, <2>4, <2>5 DEF StopOf, Absent
<1>9. CASE AnnounceStopped(c, r)
  <2>1. /\ pc' = [pc EXCEPT ![Handler(c)] = "copyForTake"]
        /\ infoHashMap' = infoHashMap /\ infoHashMap[r.infoHash] \in Calls
        /\ root' = [root EXCEPT ![c] = infoHashMap[r.infoHash]]
        /\ key' = [key EXCEPT ![Handler(c)] = r.peerID]
    BY <1>3, <1>5, <1>9 DEF AnnounceStopped
  <2>2. /\ pc'[Handler(c)] = "copyForTake" /\ pc'[Task(c)] = "idle" /\ pc'[Reaper(c)] = "idle"
        /\ root'[c] = infoHashMap[r.infoHash] /\ key'[Handler(c)] = r.peerID
    BY <1>5, <1>6, <2>1
  <2> QED
    BY <1>2, <1>7, <2>1, <2>2 DEF StopOf
<1> QED
  BY <1>4, <1>8, <1>9

(* The handler of a stop at work. *)
LEMMA StopTakes ==
  ASSUME SerialBase, NEW c \in Calls, IsStop(req[c]), StopOf(c), last = c,
         NEW g \in Goroutine, AnyStep(g), g[1] = c, req' = req
  PROVE  StopOf(c)'
<1> DEFINE k == req[c].peerID
           r == infoHashMap[req[c].infoHash]
<1>1. /\ pc \in [Goroutine -> Label] /\ pos \in [Goroutine -> Slot]
      /\ copy \in [Goroutine -> [Slot -> MapRef] \cup {None}]
      /\ peerMap \in [Calls -> [Slot -> MapRef]]
  BY DEF SerialBase, IndInv, TypeOK
<1>2. g = Handler(c) /\ (CopyForTake(g) \/ Take(g)) /\ pc[g] # "done"
  <2>1. pc[g] # "idle" /\ pc[g] # "done"
    BY DEF AnyStep, CopyForTake, Take, ReadActive, ReadMap, Put
  <2>2. g = Handler(c)
    BY <2>1, Names DEF StopOf
  <2>3. pc[g] \in {"copyForTake", "take"}
    BY <2>1, <2>2 DEF StopOf
  <2> QED
    BY <2>1, <2>2, <2>3 DEF AnyStep, ReadActive, ReadMap, Put
<1>3. /\ pc[Task(c)] = "idle" /\ pc[Reaper(c)] = "idle" /\ resp[c] = {}
      /\ r \in Calls /\ root[c] = r /\ key[g] = k
  BY <1>2 DEF StopOf
<1>4. /\ Task(c) \in Goroutine /\ Reaper(c) \in Goroutine /\ Task(c) # g /\ Reaper(c) # g
      /\ g[2] = "handler"
  BY <1>2, Names
<1>5. UNCHANGED <<infoHashMap, peerMap, resp, root, key>>
  BY <1>2 DEF CopyForTake, Take, store, locals
<1>6. CASE CopyForTake(g)
  <2>1. pc'[g] = "take" /\ copy'[g] = peerMap[r] /\ pos'[g] = 0
    BY <1>1, <1>3, <1>6 DEF CopyForTake
  <2>2. pc'[Task(c)] = "idle" /\ pc'[Reaper(c)] = "idle"
    BY <1>1, <1>3, <1>4, <1>6 DEF CopyForTake
  <2>3. \A s \in Slot : ~(s < 0)
    BY DEF Slot
  <2> QED
    BY <1>2, <1>3, <1>5, <2>1, <2>2, <2>3 DEF StopOf
<1>7. CASE Take(g)
  <2> DEFINE m == copy[g][pos[g]]
  <2>1. /\ pc[g] = "take" /\ copy[g] = peerMap[r]
        /\ \A s \in Slot : s < pos[g] => maps[peerMap[r][s]][k] = None
    BY <1>2, <1>7 DEF StopOf, Take
  <2>2. m = peerMap[r][pos[g]] /\ m \in MapRef /\ pos[g] \in Slot /\ k \in PeerID
    <3>1. pos[g] \in Slot /\ peerMap[r] \in [Slot -> MapRef]
      BY <1>1, <1>3
    <3>2. key[g] \in PeerID
      BY <2>1 DEF SerialBase, IndInv, Scopes
    <3> QED
      BY <1>3, <2>1, <3>1, <3>2
  <2>3. \A n \in MapRef : \A j \in PeerID :
          maps'[n][j] = IF n = m /\ j = k THEN None ELSE maps[n][j]
    <3>1. maps' = Without(m, k)
      BY <1>3, <1>7 DEF Take
    <3> HIDE DEF m, k
    <3> QED
      BY <2>2, <3>1, WithoutOne DEF SerialBase
  <2>4. \A s \in Slot : peerMap[r][s] \in MapRef
    BY <1>1, <1>3
  <2>5. \A s \in Slot : s < pos[g] + 1 => maps'[peerMap[r][s]][k] = None
    <3> SUFFICES ASSUME NEW s \in Slot, s < pos[g] + 1 PROVE maps'[peerMap[r][s]][k] = None
      OBVIOUS
    <3>1. s < pos[g] \/ s = pos[g]
      BY <2>2 DEF Slot
    <3> HIDE DEF m, k, r
    <3> QED
      BY <2>1, <2>2, <2>3, <2>4, <3>1
  <2>6. pc'[Task(c)] = "idle" /\ pc'[Reaper(c)] = "idle"
    BY <1>1, <1>3, <1>4, <1>7 DEF Take
  <2>7. CASE pos[g] < 2
    <3>1. pc' = pc /\ copy' = copy /\ pos'[g] = pos[g] + 1
      BY <1>1, <1>7, <2>7 DEF Take
    <3> HIDE DEF m
    <3> QED
      BY <1>2, <1>3, <1>5, <2>1, <2>5, <2>6, <3>1 DEF StopOf
  <2>8. CASE ~(pos[g] < 2)
    <3>1. \E f : pc' = [pc EXCEPT ![g] = AfterTake(g, f)]
      BY <1>7, <2>8 DEF Take
    <3>2. \A f : AfterTake(g, f) = "done"
      BY <1>4 DEF AfterTake, IsStop
    <3>3. pc'[g] = "done"
      BY <1>1, <3>1, <3>2
    <3>4. \A s \in Slot : s < pos[g] + 1
      BY <2>2, <2>8 DEF Slot
    <3>5. Absent(r, k)'
      BY <1>5, <2>5, <3>4 DEF Absent
    <3> HIDE DEF m
    <3> QED
      BY <1>2, <1>3, <1>5, <2>6, <3>3, <3>5 DEF StopOf
  <2> QED
    BY <2>7, <2>8
<1> QED
  BY <1>2, <1>6, <1>7

LEMMA StopStep ==
  ASSUME MaxInflight = 1, SerialBase, AnswerInv, StopInv, [Next]_vars
  PROVE  StopInv'
<1>1. ASSUME NEW c \in Calls, NEW r \in Requests, NEW t \in 0..now, DirectStore(c, r, t)
      PROVE  StopInv'
  <2>1. last' = last /\ ~serving
    BY <1>1 DEF DirectStore, history
  <2> QED
    BY <2>1, LocalAssumption DEF SerialBase, Alone, StopInv
<1>2. CASE Serve \/ Tick \/ Finished \/ UNCHANGED vars
  <2>1. UNCHANGED <<last, store, locals, pc, loops>>
    BY <1>2 DEF Serve, Tick, Finished, vars, history
  <2> QED
    BY <2>1 DEF StopInv, StopOf, Absent, store, locals, loops
<1>3. ASSUME NEW c \in Calls, BeginCall(c)
      PROVE  StopInv'
  BY <1>3, StopBegins
<1>4. ASSUME NEW c \in Calls,
             HandlerStep(c) \/ TaskStep(c) \/ ReaperStep(c)
             \/ \E g \in Goroutine : g[1] = c /\ AnyStep(g)
      PROVE  StopInv'
  <2>1. last' = last /\ req' = req /\ c = last
    BY <1>4, OneCallMoves DEF SerialBase, Alone
  <2> SUFFICES ASSUME IsStop(req[c]) PROVE StopOf(c)'
    BY <2>1 DEF StopInv
  <2>2. StopOf(c)
    BY <2>1 DEF StopInv
  <2>3. ~HandlerStep(c) /\ ~TaskStep(c) /\ ~ReaperStep(c)
    BY <2>2 DEF StopOf, HandlerStep, TaskStep, ReaperStep, CopyForRange, RangeSlot, CheckLen,
                ReadCurrent, CompareAndSwap, EmptyOldest, CleanNext, DropRoot, UpdateKnown,
                NextExpired, Remove
  <2> QED
    BY <1>4, <2>1, <2>2, <2>3, StopTakes
<1> QED
  BY <1>1, <1>2, <1>3, <1>4, Names DEF Next

(* The answers of every interleaving are sound: see AnswersAreSound. *)
LEMMA AnswerInductive == Spec => []AnswerInv
<1>1. Init => AnswerInv
  BY DEF Init, AnswerInv
<1> QED
  BY <1>1, AnswerStep, Inductive, PTL DEF Spec

(* "stopped peer must remove and return nothing": when calls do not        *)
(* overlap, a peer whose stop was the last call is in no map of the        *)
(* torrent, whatever the ring went through before, and the stop's answer   *)
(* is empty.  (When they do, the task of an earlier announce can list the  *)
(* peer again: see the known deviations.)                                  *)
THEOREM StoppedPeerIsGone ==
  ASSUME MaxInflight = 1
  PROVE  Spec => []StoppedIsGone
<1>1. Init => StopInv
  BY LocalAssumption DEF Init, StopInv
<1>2. SerialBase /\ AnswerInv /\ StopInv /\ [Next]_vars => StopInv'
  BY StopStep
<1>3. SerialBase /\ StopInv => StoppedIsGone
  <2> SUFFICES ASSUME SerialBase, StopInv, Quiescent, last # None, IsStop(req[last]),
                      infoHashMap[req[last].infoHash] # None
               PROVE  /\ req[last].peerID \notin Listed(infoHashMap[req[last].infoHash])
                      /\ resp[last] = {}
    BY DEF StoppedIsGone, IsStop
  <2>1. last \in Calls /\ StopOf(last)
    BY DEF SerialBase, IndInv, TypeOK, StopInv
  <2>2. Handler(last) \in Goroutine /\ Handler(last)[1] = last
    BY <2>1, Names
  <2>3. pc[Handler(last)] \in Ended
    BY <2>2, AtWork DEF SerialBase, Quiescent
  <2>4. pc[Handler(last)] = "done"
    BY <2>1, <2>3 DEF StopOf, Ended
  <2> QED
    BY <2>1, <2>4 DEF StopOf, Absent, Listed, Holders
<1> QED
  BY <1>1, <1>2, <1>3, SerialBaseInductive, AnswerInductive, PTL DEF Spec

-----------------------------------------------------------------------------
(* The announce of a reachable peer, call c.                               *)

IsJoin(q) ==
  /\ q.op = "announce" /\ ValidAddress(q.ep) /\ q.event # "stopped"
  /\ IsPeerConnectable(q.ep)

(* Record o says what this announce said. *)
Own(o, c) ==
  /\ peers[o] \in Peer
  /\ peers[o].id = req[c].peerID /\ peers[o].event = req[c].event
  /\ peers[o].left = req[c].left /\ peers[o].lastSeen = peers[c].lastSeen

(* The rotation at the end of this announce will not empty slot s. *)
Lasts(c, s) ==
  /\ pc[Handler(c)] \notin {"empty", "done"} => s = currentActive[root[c]]
  /\ pc[Handler(c)] = "empty" => s # Oldest(c)

(* The peer is in slot s, and only there. *)
ListedAt(c, s) ==
  LET R == peerMap[root[c]]
      k == req[c].peerID
  IN  /\ maps[R[s]][k] # None
      /\ Own(maps[R[s]][k], c)
      /\ \A t \in Slot \ {s} : maps[R[t]][k] = None

(* Its handler stores the record into the root it has created ... *)
FirstOf(c) ==
  LET h == Handler(c)
  IN  /\ pc[h] \in Storing \cup {"done"}
      /\ pc[h] \in Storing => Absent(root[c], req[c].peerID)
      /\ pc[h] = "put" => \E s \in Slot : dst[h] = peerMap[root[c]][s]
      /\ pc[h] = "done" => \E s \in Slot : ListedAt(c, s)

(* ... or its task takes the known record out of all maps and puts it, or  *)
(* the new one, into the map that is written.  A map that is new in the    *)
(* ring since the task has copied it is empty.                             *)
TaskOf(c) ==
  LET t == Task(c)
      R == peerMap[root[c]]
      k == req[c].peerID
  IN  /\ pc[t] \in {"copyForTake", "take"} => key[t] = k
      /\ found[t] # None => peers[found[t]].id = k
      /\ pc[t] = "take" => \A s \in Slot :
           /\ s < pos[t] => maps[copy[t][s]][k] = None
           /\ R[s] = copy[t][s] \/ maps[R[s]][k] = None
      /\ pc[t] \in {"update"} \cup Storing => Absent(root[c], k)
      /\ pc[t] \in Storing /\ found[t] # None => Own(found[t], c)
      /\ pc[t] = "readMap" => Lasts(c, idx[t])
      /\ pc[t] = "put" => \E s \in Slot : dst[t] = R[s] /\ Lasts(c, s)
      /\ pc[t] = "done" => \E s \in Slot : ListedAt(c, s) /\ Lasts(c, s)

JoinBase(c) ==
  /\ root[c] \in Calls /\ infoHashMap[req[c].infoHash] = root[c]
  /\ Own(c, c)
  /\ pc[Handler(c)] \in {"copyForRange", "range", "checkLen", "readCurrent", "swap", "empty",
                         "done"} \cup Storing
  /\ pc[Handler(c)] = "empty" => currentActive[root[c]] = NextSlot(seen[c])

JoinOf(c) ==
  /\ JoinBase(c)
  /\ pc[Reaper(c)] = "idle" =>
       IF pc[Task(c)] = "idle" THEN FirstOf(c) ELSE TaskOf(c)

JoinInv == \A c \in Calls : last = c /\ IsJoin(req[c]) => JoinOf(c)

(* A goroutine that was started stays so. *)
LEMMA StaysStarted ==
  ASSUME IndInv, NEW c \in Calls,
         HandlerStep(c) \/ TaskStep(c) \/ ReaperStep(c) \/ \E g \in Goroutine : AnyStep(g),
         NEW d \in Goroutine, pc[d] # "idle"
  PROVE  pc'[d] # "idle"
<1>1. pc \in [Goroutine -> Label]
  BY DEF IndInv, TypeOK
<1>2. CASE RangeSlot(c)
  <2>1. CASE pos[Handler(c)] < 2
    BY <1>2, <2>1 DEF RangeSlot
  <2>2. CASE ~(pos[Handler(c)] < 2)
    <3> DEFINE m == copy[Handler(c)][pos[Handler(c)]]
               late == stale[c] \cup {<<pos[Handler(c)], k>> : k \in ExpiredKeys(c, m)}
               l == CASE req[c].op = "announce" -> "checkLen"
                      [] req[c].op = "clean" -> "nextKey"
                      [] OTHER -> "done"
               lr == IF req[c].op # "clean" /\ late # {} THEN "nextKey" ELSE pc[Reaper(c)]
    <3>1. pc' = [pc EXCEPT ![Handler(c)] = l, ![Reaper(c)] = lr]
      BY <1>2, <2>2, Names DEF RangeSlot
    <3>2. l # "idle" /\ (lr = pc[Reaper(c)] \/ lr = "nextKey")
      OBVIOUS
    <3> HIDE DEF l, lr
    <3> QED
      BY <1>1, <3>1, <3>2, Names
  <2> QED
    BY <2>1, <2>2
<1>3. CASE HandlerStep(c) /\ ~RangeSlot(c)
  BY <1>1, <1>3 DEF HandlerStep, CopyForRange, CheckLen, ReadCurrent, CompareAndSwap,
                    EmptyOldest, CleanNext, DropRoot
<1>4. CASE TaskStep(c) \/ ReaperStep(c)
  BY <1>1, <1>4 DEF TaskStep, ReaperStep, UpdateKnown, NextExpired, Remove
<1>5. ASSUME NEW g \in Goroutine, AnyStep(g) PROVE pc'[d] # "idle"
  <2>1. pc' = pc \/ (\E f : pc' = [pc EXCEPT ![g] = AfterTake(g, f)])
        \/ \E l \in {"take", "readMap", "put", "done"} : pc' = [pc EXCEPT ![g] = l]
    BY <1>5 DEF AnyStep, CopyForTake, Take, ReadActive, ReadMap, Put
  <2>2. \A f : AfterTake(g, f) # "idle"
    BY DEF AfterTake
  <2> QED
    BY <1>1, <2>1, <2>2
<1> QED
  BY <1>2, <1>3, <1>4, <1>5

LEMMA JoinBegins ==
  ASSUME MaxInflight = 1, SerialBase, NEW c \in Calls, BeginCall(c)
  PROVE  JoinInv'
<1>1. PICK r \in Requests :
        /\ Begin(c, r)
        /\ \/ AnnounceInvalid(c, r) \/ AnnounceFirst(c, r) \/ AnnounceStopped(c, r)
           \/ AnnounceKnown(c, r) \/ ScrapeWithoutRoot(c, r) \/ Scrape(c, r)
           \/ CleanUp(c, r) \/ DeleteInfoHash(c, r)
  BY DEF BeginCall, AnnounceInvalid, AnnounceFirst, AnnounceStopped, AnnounceKnown,
         ScrapeWithoutRoot, Scrape, CleanUp, DeleteInfoHash
<1>2. last' = c /\ req'[c] = r
  BY <1>1, BeginsAlone DEF SerialBase
<1> SUFFICES ASSUME IsJoin(r) PROVE JoinOf(c)'
  BY <1>2 DEF JoinInv, IsJoin
<1>3. r \in Request /\ r.infoHash \in InfoHash /\ r.peerID \in PeerID
  BY LocalAssumption DEF Request
<1>4. AnnounceFirst(c, r) \/ AnnounceKnown(c, r)
  BY <1>1 DEF IsJoin, AnnounceInvalid, AnnounceStopped, ScrapeWithoutRoot, Scrape, CleanUp,
              DeleteInfoHash
<1>5. /\ pc \in [Goroutine -> Label] /\ key \in [Goroutine -> PeerID \cup {None}]
      /\ root \in [Calls -> Calls \cup {None}] /\ infoHashMap \in [InfoHash -> Calls \cup {None}]
      /\ peers \in [Calls -> Peer \cup {None}]
  BY DEF SerialBase, IndInv, TypeOK
<1>6. /\ Handler(c) \in Goroutine /\ Task(c) \in Goroutine
      /\ Handler(c) # Task(c)
      /\ pc[Handler(c)] = "idle" /\ pc[Task(c)] = "idle" /\ found[Task(c)] = None
  BY <1>1, Names, Starting DEF SerialBase
<1>7. NewPeer(r) \in Peer
  BY <1>1, Starting DEF SerialBase
<1>8. peers'[c] = NewPeer(r)
  BY <1>4, <1>5 DEF AnnounceFirst, AnnounceKnown
<1>9. Own(c, c)'
  BY <1>2, <1>7, <1>8 DEF Own, NewPeer
<1>10. CASE AnnounceFirst(c, r)
  <2>1. /\ pc' = [pc EXCEPT ![Handler(c)] = "readActive"]
        /\ infoHashMap'[r.infoHash] = c
        /\ root'[c] = c
        /\ UNCHANGED <<maps, peerMap>>
    BY <1>3, <1>5, <1>10 DEF AnnounceFirst, IsJoin
  <2>2. \A s \in Slot : s \in 0..3
    BY DEF Slot
  <2>3. \A s \in Slot : maps[peerMap[c][s]][r.peerID] = None
    <3>1. /\ \A s \in Slot : peerMap[c][s] = <<c, s>>
          /\ \A i \in 0..3 : \A k \in PeerID : maps[<<c, i>>][k] = None
      BY <1>6 DEF SerialBase, RingInv, Unborn, Born
    <3> QED
      BY <1>3, <2>2, <3>1
  <2>4. pc'[Handler(c)] = "readActive" /\ pc'[Task(c)] = "idle"
    BY <1>5, <1>6, <2>1
  <2>5. FirstOf(c)'
    BY <1>2, <2>1, <2>3, <2>4 DEF FirstOf, Absent, Storing
  <2>6. JoinBase(c)'
    BY <1>2, <1>9, <2>1, <2>4 DEF JoinBase, Storing
  <2> QED
    BY <2>4, <2>5, <2>6 DEF JoinOf
<1>11. CASE AnnounceKnown(c, r)
  <2>1. /\ pc' = [pc EXCEPT ![Handler(c)] = "copyForRange", ![Task(c)] = "copyForTake"]
        /\ infoHashMap' = infoHashMap /\ infoHashMap[r.infoHash] \in Calls
        /\ root' = [root EXCEPT ![c] = infoHashMap[r.infoHash]]
        /\ key' = [key EXCEPT ![Task(c)] = r.peerID]
        /\ found' = found
    BY <1>3, <1>5, <1>11 DEF AnnounceKnown
  <2>2. /\ pc'[Handler(c)] = "copyForRange" /\ pc'[Task(c)] = "copyForTake"
        /\ root'[c] = infoHashMap[r.infoHash] /\ key'[Task(c)] = r.peerID
        /\ found'[Task(c)] = None
    BY <1>5, <1>6, <2>1
  <2>3. TaskOf(c)'
    BY <1>2, <2>2 DEF TaskOf, Storing
  <2>4. JoinBase(c)'
    BY <1>2, <1>9, <2>1, <2>2 DEF JoinBase
  <2> QED
    BY <2>2, <2>3, <2>4 DEF JoinOf
<1> QED
  BY <1>4, <1>10, <1>11

(* A step of the handler that touches neither the store nor the rotation. *)
LEMMA JoinRanges ==
  ASSUME SerialBase, NEW c \in Calls, IsJoin(req[c]), JoinOf(c),
         CopyForRange(c) \/ RangeSlot(c) \/ CheckLen(c) \/ ReadCurrent(c)
  PROVE  JoinOf(c)'
<1>1. /\ pc \in [Goroutine -> Label] /\ copy \in [Goroutine -> [Slot -> MapRef] \cup {None}]
      /\ pos \in [Goroutine -> Slot]
  BY DEF SerialBase, IndInv, TypeOK
<1>2. /\ Handler(c) \in Goroutine /\ Task(c) \in Goroutine /\ Reaper(c) \in Goroutine
      /\ Handler(c) # Task(c) /\ Handler(c) # Reaper(c) /\ Task(c) # Reaper(c)
  BY Names
<1>3. /\ UNCHANGED <<store, req, root, key, found, idx, dst>>
      /\ pc[Handler(c)] \in {"copyForRange", "range", "checkLen", "readCurrent"}
      /\ copy'[Task(c)] = copy[Task(c)] /\ pos'[Task(c)] = pos[Task(c)]
  BY <1>1, <1>2 DEF CopyForRange, RangeSlot, CheckLen, ReadCurrent, locals, loops, EndLoop
<1>4. /\ pc'[Task(c)] = pc[Task(c)]
      /\ pc'[Handler(c)] \in {"range", "checkLen", "readCurrent", "swap", "done"}
  <2>1. CASE RangeSlot(c)
    <3>1. CASE pos[Handler(c)] < 2
      BY <2>1, <3>1 DEF RangeSlot
    <3>2. CASE ~(pos[Handler(c)] < 2)
      <4>1. \E lr : pc' = [pc EXCEPT ![Handler(c)] = "checkLen", ![Reaper(c)] = lr]
        BY <2>1, <3>2 DEF RangeSlot, IsJoin
      <4> QED
        BY <1>1, <1>2, <4>1
    <3> QED
      BY <3>1, <3>2
  <2>2. CASE ~RangeSlot(c)
    BY <1>1, <1>2, <2>2 DEF CopyForRange, CheckLen, ReadCurrent
  <2> QED
    BY <2>1, <2>2
<1>5. pc'[Reaper(c)] = "idle" => pc[Reaper(c)] = "idle"
  BY <1>2, StaysStarted DEF SerialBase, HandlerStep
<1>6. UNCHANGED <<infoHashMap, currentActive, peerMap, maps, peers>>
  BY <1>3 DEF store
<1>7. JoinBase(c)'
  BY <1>3, <1>4, <1>6 DEF JoinOf, JoinBase, Own
<1>8. \A s \in Slot : Lasts(c, s) => Lasts(c, s)'
  BY <1>3, <1>4, <1>6 DEF Lasts
<1>9. \A s \in Slot : ListedAt(c, s) => ListedAt(c, s)'
  BY <1>3, <1>6 DEF ListedAt, Own
<1>10. ASSUME pc[Reaper(c)] = "idle"
       PROVE  pc'[Task(c)] # "idle" /\ TaskOf(c)'
  <2>1. pc[Task(c)] # "idle" /\ TaskOf(c)
    BY <1>3, <1>10 DEF JoinOf, FirstOf, Storing
  <2>2. idx[Task(c)] \in Slot
    BY <1>2 DEF SerialBase, IndInv, TypeOK
  <2>3. pc[Task(c)] = "readMap" => Lasts(c, idx[Task(c)])'
    BY <1>3, <1>8, <2>1, <2>2 DEF TaskOf
  <2>4. pc[Task(c)] = "put" => \E s \in Slot : dst[Task(c)] = peerMap[root[c]][s] /\ Lasts(c, s)'
    BY <1>8, <2>1 DEF TaskOf
  <2>5. pc[Task(c)] = "done" => \E s \in Slot : ListedAt(c, s)' /\ Lasts(c, s)'
    BY <1>8, <1>9, <2>1 DEF TaskOf
  <2>6. pc[Task(c)] \in {"update"} \cup Storing => Absent(root[c], req[c].peerID)'
    BY <1>3, <1>6, <2>1 DEF TaskOf, Absent
  <2>7. pc[Task(c)] \in Storing /\ found[Task(c)] # None => Own(found[Task(c)], c)'
    BY <1>3, <1>6, <2>1 DEF TaskOf, Own
  <2> QED
    BY <1>3, <1>4, <1>6, <2>1, <2>3, <2>4, <2>5, <2>6, <2>7 DEF TaskOf, Absent, Own
<1> QED
  BY <1>5, <1>7, <1>10 DEF JoinOf

(* The rotation: the write head moves on; then the slot after it, which    *)
(* the task does not write to, gets a fresh map.                           *)
LEMMA JoinSwaps ==
  ASSUME SerialBase, NEW c \in Calls, JoinOf(c), CompareAndSwap(c)
  PROVE  JoinOf(c)'
<1>1. /\ pc \in [Goroutine -> Label] /\ currentActive \in [Calls -> Slot] /\ seen \in [Calls -> Slot]
      /\ idx \in [Goroutine -> Slot]
  BY DEF SerialBase, IndInv, TypeOK
<1>2. /\ Handler(c) \in Goroutine /\ Task(c) \in Goroutine /\ Reaper(c) \in Goroutine
      /\ Handler(c) # Task(c) /\ Handler(c) # Reaper(c)
  BY Names
<1>3. /\ pc[Handler(c)] = "swap" /\ UNCHANGED <<infoHashMap, peerMap, maps, peers, locals, loops>>
      /\ UNCHANGED <<req, root, seen, copy, pos, key, found, idx, dst>>
  BY DEF CompareAndSwap, locals, loops
<1>4. /\ pc'[Task(c)] = pc[Task(c)] /\ pc'[Reaper(c)] = pc[Reaper(c)]
      /\ \/ /\ pc'[Handler(c)] = "empty" /\ currentActive[root[c]] = seen[c]
            /\ currentActive' = [currentActive EXCEPT ![root[c]] = NextSlot(seen[c])]
         \/ pc'[Handler(c)] = "done"
  BY <1>1, <1>2 DEF CompareAndSwap
<1>5. root[c] \in Calls
  BY DEF JoinOf, JoinBase
<1>6. JoinBase(c)'
  BY <1>1, <1>3, <1>4, <1>5 DEF JoinOf, JoinBase, Own
<1>7. \A s \in Slot : Lasts(c, s) => Lasts(c, s)'
  <2> SUFFICES ASSUME NEW s \in Slot, Lasts(c, s) PROVE Lasts(c, s)'
    OBVIOUS
  <2>1. s = currentActive[root[c]]
    BY <1>3 DEF Lasts
  <2>2. seen[c] # (seen[c] + 2) % 3
    BY <1>1 DEF Slot
  <2>3. pc'[Handler(c)] = "empty" => s # Oldest(c)'
    BY <1>3, <1>4, <2>1, <2>2 DEF Oldest
  <2> QED
    BY <1>4, <2>3 DEF Lasts
<1>8. \A s \in Slot : ListedAt(c, s) => ListedAt(c, s)'
  BY <1>3 DEF ListedAt, Own
<1>9. ASSUME pc[Reaper(c)] = "idle"
      PROVE  pc'[Task(c)] # "idle" /\ TaskOf(c)'
  <2>1. pc[Task(c)] # "idle" /\ TaskOf(c)
    BY <1>3, <1>9 DEF JoinOf, FirstOf, Storing
  <2>2. pc[Task(c)] = "readMap" => Lasts(c, idx[Task(c)])'
    BY <1>1, <1>2, <1>3, <1>7, <2>1 DEF TaskOf
  <2>3. pc[Task(c)] = "put" => \E s \in Slot : dst[Task(c)] = peerMap[root[c]][s] /\ Lasts(c, s)'
    BY <1>7, <2>1 DEF TaskOf
  <2>4. pc[Task(c)] = "done" => \E s \in Slot : ListedAt(c, s)' /\ Lasts(c, s)'
    BY <1>7, <1>8, <2>1 DEF TaskOf
  <2> QED
    BY <1>3, <1>4, <2>1, <2>2, <2>3, <2>4 DEF TaskOf, Absent, Own
<1> QED
  BY <1>4, <1>6, <1>9 DEF JoinOf

LEMMA JoinEmpties ==
  ASSUME SerialBase, NEW c \in Calls, req[c] \in Request, JoinOf(c), EmptyOldest(c)
  PROVE  JoinOf(c)'
<1> DEFINE R == root[c]
           S == Oldest(c)
           k == req[c].peerID
<1>1. /\ pc \in [Goroutine -> Label] /\ peerMap \in [Calls -> [Slot -> MapRef]] /\ seen \in [Calls -> Slot]
      /\ idx \in [Goroutine -> Slot]
  BY DEF SerialBase, IndInv, TypeOK
<1>2. /\ Handler(c) \in Goroutine /\ Task(c) \in Goroutine /\ Reaper(c) \in Goroutine
      /\ Handler(c) # Task(c) /\ Handler(c) # Reaper(c)
  BY Names
<1>3. /\ pc[Handler(c)] = "empty" /\ UNCHANGED <<infoHashMap, currentActive, maps, peers>>
      /\ UNCHANGED <<req, root, seen, copy, pos, key, found, idx, dst>>
      /\ peerMap' = [peerMap EXCEPT ![R] = [peerMap[R] EXCEPT ![S] = <<c, 3>>]]
      /\ pc' = [pc EXCEPT ![Handler(c)] = "done"]
  BY DEF EmptyOldest, locals, loops
<1>4. /\ pc'[Handler(c)] = "done" /\ pc'[Task(c)] = pc[Task(c)] /\ pc'[Reaper(c)] = pc[Reaper(c)]
      /\ R \in Calls /\ S \in Slot /\ k \in PeerID
  BY <1>1, <1>2, <1>3, Indices DEF JoinOf, JoinBase, Oldest, Request
<1>5. \A s \in Slot : /\ s # S => peerMap'[R][s] = peerMap[R][s]
                      /\ s = S => peerMap'[R][s] = <<c, 3>>
  <2> HIDE DEF R, S
  <2> QED
    BY <1>1, <1>3, <1>4
<1>6. maps[<<c, 3>>][k] = None
  <2>1. pc[Handler(c)] # "done"
    BY <1>3
  <2> QED
    BY <1>4, <2>1 DEF SerialBase, RingInv, Spare
<1>7. JoinBase(c)'
  BY <1>3, <1>4 DEF JoinOf, JoinBase, Own
<1>8. \A s \in Slot : Lasts(c, s) => s # S
  BY <1>3 DEF Lasts
<1>9. \A s \in Slot : Lasts(c, s)'
  BY <1>4 DEF Lasts
<1>10. \A s \in Slot : maps[peerMap[R][s]][k] = None => maps'[peerMap'[R][s]][k] = None
  <2> HIDE DEF R, S, k
  <2> QED
    BY <1>3, <1>5, <1>6
<1>11. \A s \in Slot : ListedAt(c, s) /\ s # S => ListedAt(c, s)'
  <2> SUFFICES ASSUME NEW s \in Slot, ListedAt(c, s), s # S PROVE ListedAt(c, s)'
    OBVIOUS
  <2>1. peerMap'[R][s] = peerMap[R][s]
    BY <1>5
  <2>2. \A t \in Slot \ {s} : maps'[peerMap'[R][t]][k] = None
    BY <1>10 DEF ListedAt
  <2> QED
    BY <1>3, <2>1, <2>2 DEF ListedAt, Own
<1>12. ASSUME pc[Reaper(c)] = "idle"
       PROVE  pc'[Task(c)] # "idle" /\ TaskOf(c)'
  <2> DEFINE t == Task(c)
  <2>1. pc[t] # "idle" /\ TaskOf(c)
    BY <1>3, <1>12 DEF JoinOf, FirstOf, Storing
  <2>2. pc[t] = "take" => \A s \in Slot :
           /\ s < pos[t] => maps'[copy[t][s]][k] = None
           /\ peerMap'[R][s] = copy[t][s] \/ maps'[peerMap'[R][s]][k] = None
    <3> SUFFICES ASSUME pc[t] = "take", NEW s \in Slot
                 PROVE  /\ s < pos[t] => maps'[copy[t][s]][k] = None
                        /\ peerMap'[R][s] = copy[t][s] \/ maps'[peerMap'[R][s]][k] = None
      OBVIOUS
    <3>1. /\ s < pos[t] => maps[copy[t][s]][k] = None
          /\ peerMap[R][s] = copy[t][s] \/ maps[peerMap[R][s]][k] = None
      BY <2>1 DEF TaskOf
    <3> HIDE DEF R, S, k, t
    <3> QED
      BY <1>3, <1>5, <1>6, <3>1
  <2>3. pc[t] \in {"update"} \cup Storing => \A s \in Slot : maps'[peerMap'[R][s]][k] = None
    BY <1>10, <2>1 DEF TaskOf, Absent
  <2>4. pc[t] = "put" => \E s \in Slot : dst[t] = peerMap'[R][s]
    <3> SUFFICES ASSUME pc[t] = "put" PROVE \E s \in Slot : dst[t] = peerMap'[R][s]
      OBVIOUS
    <3>1. PICK s \in Slot : dst[t] = peerMap[R][s] /\ Lasts(c, s)
      BY <2>1 DEF TaskOf
    <3> QED
      BY <1>5, <1>8, <3>1
  <2>5. pc[t] = "done" => \E s \in Slot : ListedAt(c, s)'
    BY <1>8, <1>11, <2>1 DEF TaskOf
  <2>6. Lasts(c, idx[t])'
    BY <1>4 DEF Lasts
  <2>7. pc'[t] = pc[t]
    BY <1>4
  <2>8. pc[t] \in Storing /\ found[t] # None => Own(found[t], c)'
    BY <1>3, <2>1 DEF TaskOf, Own
  <2>9. /\ pc[t] \in {"copyForTake", "take"} => key[t] = k
        /\ found[t] # None => peers[found[t]].id = k
    BY <2>1 DEF TaskOf
  <2>10. root'[c] = R /\ req'[c].peerID = k
    BY <1>3
  <2> QED
    BY <1>3, <1>9, <2>1, <2>2, <2>3, <2>4, <2>5, <2>6, <2>7, <2>8, <2>9, <2>10
    DEF TaskOf, Absent, Own
<1> QED
  BY <1>4, <1>7, <1>12 DEF JoinOf

(* The task writes the known record, which is not its own call's. *)
LEMMA JoinUpdates ==
  ASSUME SerialBase, NEW c \in Calls, JoinOf(c), UpdateKnown(c)
  PROVE  JoinOf(c)'
<1> DEFINE t == Task(c)
           o == found[t]
<1>1. /\ pc \in [Goroutine -> Label] /\ peers \in [Calls -> Peer \cup {None}]
  BY DEF SerialBase, IndInv, TypeOK
<1>2. /\ t \in Goroutine /\ Handler(c) \in Goroutine /\ Reaper(c) \in Goroutine
      /\ Handler(c) # t /\ Reaper(c) # t
  BY Names
<1>3. /\ pc[t] = "update"
      /\ UNCHANGED <<infoHashMap, currentActive, peerMap, maps, req, root, seen,
                     copy, pos, key, found, idx, dst>>
      /\ pc' = [pc EXCEPT ![t] = "readActive"]
      /\ peers' = [peers EXCEPT ![o] = Refreshed(peers[o], peers[c])]
  BY DEF UpdateKnown, locals, loops
<1>4. o \in Calls /\ o # None /\ o # c /\ peers[o] \in Peer
  <2>1. o \in Calls /\ o # None
    BY <1>2, <1>3, LocalAssumption DEF SerialBase, IndInv, Scopes
  <2>2. o # c
    BY <1>2, <1>3 DEF SerialBase, IndInv, Fresh, Ended
  <2>3. peers[o] \in Peer
    BY <1>2, <2>1 DEF SerialBase, IndInv, Held, Admissible
  <2> QED
    BY <2>1, <2>2, <2>3
<1>5. /\ pc'[t] = "readActive" /\ pc'[Handler(c)] = pc[Handler(c)] /\ pc'[Reaper(c)] = pc[Reaper(c)]
  BY <1>1, <1>2, <1>3
<1>6. peers'[c] = peers[c] /\ peers'[o] = Refreshed(peers[o], peers[c])
  <2> HIDE DEF o
  <2> QED
    BY <1>1, <1>3, <1>4
<1>7. Own(c, c)
  BY DEF JoinOf, JoinBase
<1>8. JoinBase(c)'
  BY <1>3, <1>5, <1>6 DEF JoinOf, JoinBase, Own
<1>9. ASSUME pc[Reaper(c)] = "idle"
      PROVE  TaskOf(c)'
  <2>1. TaskOf(c)
    BY <1>3, <1>9 DEF JoinOf
  <2>2. peers[o].id = req[c].peerID /\ Absent(root[c], req[c].peerID)
    BY <1>3, <1>4, <2>1 DEF TaskOf
  <2>3. /\ peers'[o] = [peers[o] EXCEPT !.left = peers[c].left, !.event = peers[c].event,
                                       !.lastSeen = peers[c].lastSeen]
    BY <1>6 DEF Refreshed
  <2> HIDE DEF o
  <2>4. /\ peers'[o] \in Peer /\ peers'[o].id = req[c].peerID
        /\ peers'[o].event = req[c].event /\ peers'[o].left = req[c].left
        /\ peers'[o].lastSeen = peers[c].lastSeen
    BY <1>4, <1>7, <2>2, <2>3 DEF Own, Peer
  <2>5. Own(o, c)'
    BY <1>3, <1>6, <2>4 DEF Own, o
  <2>6. Absent(root[c], req[c].peerID)'
    BY <1>3, <2>2 DEF Absent
  <2> QED
    BY <1>3, <1>5, <2>4, <2>5, <2>6 DEF TaskOf, Storing, o
<1> QED
  BY <1>5, <1>8, <1>9 DEF JoinOf

(* What a reaper removes is of no concern: AnnouncedIsListed is about      *)
(* announces that met no expired peer.                                     *)
LEMMA JoinReaps ==
  ASSUME SerialBase, NEW c \in Calls, JoinOf(c), ReaperStep(c)
  PROVE  JoinOf(c)'
<1>1. /\ Handler(c) \in Goroutine /\ Reaper(c) \in Goroutine /\ Handler(c) # Reaper(c)
      /\ pc \in [Goroutine -> Label]
  BY Names DEF SerialBase, IndInv, TypeOK
<1>2. /\ pc[Reaper(c)] # "idle"
      /\ UNCHANGED <<infoHashMap, currentActive, peers, req, root, seen>>
      /\ pc' = pc \/ \E l : pc' = [pc EXCEPT ![Reaper(c)] = l]
  BY DEF ReaperStep, NextExpired, Remove, store, locals
<1>3. pc'[Reaper(c)] # "idle"
  BY <1>1, <1>2, StaysStarted DEF SerialBase
<1>4. pc'[Handler(c)] = pc[Handler(c)]
  BY <1>1, <1>2
<1> QED
  BY <1>2, <1>3, <1>4 DEF JoinOf, JoinBase, Own

(* The store of record o into a map of the ring that did not hold its key. *)
LEMMA JoinPuts ==
  ASSUME SerialBase, NEW c \in Calls, NEW g \in Goroutine, g[1] = c, Put(g),
         root[c] \in Calls, req[c] \in Request,
         Absent(root[c], req[c].peerID), NEW s \in Slot, dst[g] = peerMap[root[c]][s],
         NEW o \in Calls, o = (IF found[g] # None THEN found[g] ELSE c), Own(o, c), Own(c, c)
  PROVE  ListedAt(c, s)'
<1> DEFINE k == req[c].peerID
           R == peerMap[root[c]]
<1>1. /\ R \in [Slot -> MapRef] /\ maps \in [MapRef -> [PeerID -> Calls \cup {None}]]
      /\ k \in PeerID
  BY DEF SerialBase, IndInv, TypeOK, Request
<1>2. peers[o].id = k /\ maps[R[s]][k] = None
  BY DEF Own, Absent
<1>3. /\ maps' = [maps EXCEPT ![R[s]] = [maps[R[s]] EXCEPT ![k] = o]]
      /\ UNCHANGED <<peerMap, peers, req, root>>
  BY <1>2 DEF Put, locals
<1>4. \A n \in Slot : n # s => R[n] # R[s]
  BY DEF SerialBase, RingInv, Apart
<1> HIDE DEF k, R
<1>5. maps'[R[s]][k] = o
  BY <1>1, <1>3
<1>6. \A n \in Slot \ {s} : maps'[R[n]][k] = None
  <2>1. \A n \in Slot : maps[R[n]][k] = None
    BY DEF Absent, R, k
  <2> QED
    BY <1>1, <1>3, <1>4, <2>1
<1>7. Own(o, c)'
  BY <1>3 DEF Own
<1>8. o # None
  BY LocalAssumption
<1> QED
  BY <1>3, <1>5, <1>6, <1>7, <1>8 DEF ListedAt, R, k, Own

(* The handler of the first announce of a torrent stores its record. *)
LEMMA JoinFirst ==
  ASSUME SerialBase, NEW c \in Calls, req[c] \in Request, JoinOf(c), AnyStep(Handler(c))
  PROVE  JoinOf(c)'
<1> DEFINE g == Handler(c)
<1>1. /\ pc \in [Goroutine -> Label] /\ idx \in [Goroutine -> Slot]
      /\ dst \in [Goroutine -> MapRef \cup {None}]
  BY DEF SerialBase, IndInv, TypeOK
<1>2. /\ g \in Goroutine /\ g[1] = c /\ Task(c) \in Goroutine /\ Reaper(c) \in Goroutine
      /\ g # Task(c) /\ g # Reaper(c)
  BY Names
<1>3. /\ pc[g] \in Storing /\ (ReadActive(g) \/ ReadMap(g) \/ Put(g))
      /\ pc[Task(c)] = "idle" /\ found[g] = None
      /\ root[c] \in Calls /\ Own(c, c)
  <2>1. pc[g] \in Storing /\ (ReadActive(g) \/ ReadMap(g) \/ Put(g))
    BY DEF JoinOf, JoinBase, AnyStep, CopyForTake, Take, ReadActive, ReadMap, Put, Storing
  <2> QED
    BY <2>1 DEF SerialBase, IndInv, Roles, Pending, JoinOf, JoinBase
<1>4. /\ UNCHANGED <<infoHashMap, currentActive, peerMap, peers, req, root, seen>>
      /\ pc'[Task(c)] = pc[Task(c)] /\ pc'[Reaper(c)] = pc[Reaper(c)]
      /\ pc'[g] \in {"readMap", "put", "done"}
  BY <1>1, <1>2, <1>3 DEF ReadActive, ReadMap, Put, store, locals
<1>5. JoinBase(c)'
  BY <1>3, <1>4 DEF JoinOf, JoinBase, Own, Storing
<1>6. ASSUME pc[Reaper(c)] = "idle"
      PROVE  FirstOf(c)'
  <2>1. FirstOf(c)
    BY <1>3, <1>6 DEF JoinOf
  <2>2. Absent(root[c], req[c].peerID)
    BY <1>3, <2>1 DEF FirstOf
  <2>3. CASE ReadActive(g)
    <3>1. pc'[g] = "readMap" /\ maps' = maps
      BY <1>1, <1>2, <2>3 DEF ReadActive, store
    <3> QED
      BY <1>4, <2>2, <3>1 DEF FirstOf, Absent, Storing
  <2>4. CASE ReadMap(g)
    <3>1. pc'[g] = "put" /\ maps' = maps /\ dst'[g] = peerMap[root[c]][idx[g]] /\ idx[g] \in Slot
      BY <1>1, <1>2, <2>4 DEF ReadMap, store
    <3> QED
      BY <1>4, <2>2, <3>1 DEF FirstOf, Absent, Storing
  <2>5. CASE Put(g)
    <3>1. pc'[g] = "done" /\ pc[g] = "put"
      BY <1>1, <1>2, <2>5 DEF Put
    <3>2. PICK s \in Slot : dst[g] = peerMap[root[c]][s]
      BY <2>1, <3>1 DEF FirstOf
    <3>3. ListedAt(c, s)'
      BY <1>2, <1>3, <2>2, <2>5, <3>2, JoinPuts
    <3> QED
      BY <3>1, <3>3 DEF FirstOf, Storing
  <2> QED
    BY <1>3, <2>3, <2>4, <2>5
<1> QED
  BY <1>3, <1>4, <1>5, <1>6 DEF JoinOf

(* The task takes the known record out of every map it copied. *)
LEMMA JoinTakes ==
  ASSUME SerialBase, NEW c \in Calls, IsJoin(req[c]), req[c] \in Request, JoinBase(c),
         TaskOf(c), Take(Task(c))
  PROVE  TaskOf(c)' /\ pc'[Task(c)] # "idle"
<1> DEFINE t == Task(c)
           k == req[c].peerID
           R == peerMap[root[c]]
           m == copy[t][pos[t]]
           f == Newest(found[t], maps[m][k])
<1>1. /\ pc \in [Goroutine -> Label] /\ pos \in [Goroutine -> Slot]
      /\ found \in [Goroutine -> Calls \cup {None}]
      /\ \A n \in MapRef : \A j \in PeerID : maps[n][j] \in Calls \cup {None}
  BY DEF SerialBase, IndInv, TypeOK
<1>2. t \in Goroutine /\ t[1] = c /\ t[2] = "task"
  BY Names
<1>3. /\ pc[t] = "take" /\ key[t] = k /\ k \in PeerID
      /\ copy[t] \in [Slot -> MapRef] /\ pos[t] \in Slot
      /\ found[t] # None => peers[found[t]].id = k
      /\ \A s \in Slot : /\ s < pos[t] => maps[copy[t][s]][k] = None
                         /\ R[s] = copy[t][s] \/ maps[R[s]][k] = None
  <2>1. pc[t] = "take"
    BY DEF Take
  <2>2. copy[t] \in [Slot -> MapRef] /\ pos[t] \in Slot
    BY <1>1, <1>2, <2>1 DEF SerialBase, IndInv, Scopes
  <2> QED
    BY <2>1, <2>2 DEF TaskOf, Request
<1>4. m \in MapRef /\ R \in [Slot -> MapRef]
  BY <1>3 DEF JoinBase, SerialBase, IndInv, TypeOK
<1>5. /\ UNCHANGED <<infoHashMap, currentActive, peerMap, peers, req, root, seen, key>>
      /\ maps' = Without(m, k)
      /\ found'[t] = f
  BY <1>1, <1>2, <1>3 DEF Take, locals
<1>6. \A n \in MapRef : \A j \in PeerID :
        maps'[n][j] = IF n = m /\ j = k THEN None ELSE maps[n][j]
  <2> HIDE DEF m, k
  <2> QED
    BY <1>3, <1>4, <1>5, WithoutOne DEF SerialBase
<1>7. f # None => peers[f].id = k
  <2>1. f = found[t] \/ (f = maps[m][k] /\ maps[m][k] # None)
    BY DEF Newest
  <2>2. maps[m][k] # None => k \in Keys(m)
    BY <1>3 DEF Keys
  <2>3. maps[m][k] # None => peers[maps[m][k]].id = k
    <3> HIDE DEF m, k
    <3> QED
      BY <1>4, <2>2 DEF SerialBase, IndInv, StoredAdmissible
  <2> HIDE DEF f
  <2> QED
    BY <1>3, <2>1, <2>3
<1>8. \A s \in Slot : s < pos[t] + 1 => maps'[copy[t][s]][k] = None
  <2> SUFFICES ASSUME NEW s \in Slot, s < pos[t] + 1 PROVE maps'[copy[t][s]][k] = None
    OBVIOUS
  <2>1. s < pos[t] \/ s = pos[t]
    BY <1>3 DEF Slot
  <2>2. copy[t][s] \in MapRef
    BY <1>3
  <2>3. s = pos[t] => copy[t][s] = m
    OBVIOUS
  <2> HIDE DEF m, k
  <2> QED
    BY <1>3, <1>6, <2>1, <2>2, <2>3
<1>9. \A s \in Slot : R[s] = copy[t][s] \/ maps'[R[s]][k] = None
  <2>1. \A s \in Slot : R[s] \in MapRef
    BY <1>4
  <2> HIDE DEF m, k, R
  <2> QED
    BY <1>3, <1>6, <2>1
<1> HIDE DEF f
<1>10. CASE pos[t] < 2
  <2>1. pc' = pc /\ copy' = copy /\ pos'[t] = pos[t] + 1
    BY <1>1, <1>2, <1>10 DEF Take
  <2> HIDE DEF m
  <2> QED
    BY <1>3, <1>5, <1>7, <1>8, <1>9, <2>1 DEF TaskOf, Storing
<1>11. CASE ~(pos[t] < 2)
  <2>1. pc'[t] = AfterTake(t, f)
    BY <1>1, <1>2, <1>3, <1>11 DEF Take, f
  <2>2. IF f = None THEN pc'[t] = "readActive" ELSE pc'[t] = "update"
    BY <1>2, <2>1 DEF AfterTake, IsJoin
  <2>3. \A s \in Slot : s < pos[t] + 1
    BY <1>3, <1>11 DEF Slot
  <2>4. \A s \in Slot : maps'[R[s]][k] = None
    <3> HIDE DEF m, k, R
    <3> QED
      BY <1>8, <1>9, <2>3
  <2>5. Absent(root[c], req[c].peerID)'
    BY <1>5, <2>4 DEF Absent
  <2> HIDE DEF m
  <2> QED
    BY <1>5, <1>7, <2>2, <2>5 DEF TaskOf, Storing
<1> QED
  BY <1>10, <1>11

LEMMA JoinTask ==
  ASSUME SerialBase, NEW c \in Calls, IsJoin(req[c]), req[c] \in Request, JoinOf(c),
         AnyStep(Task(c))
  PROVE  JoinOf(c)'
<1> DEFINE g == Task(c)
<1>1. /\ pc \in [Goroutine -> Label] /\ idx \in [Goroutine -> Slot]
      /\ dst \in [Goroutine -> MapRef \cup {None}] /\ found \in [Goroutine -> Calls \cup {None}]
      /\ copy \in [Goroutine -> [Slot -> MapRef] \cup {None}] /\ pos \in [Goroutine -> Slot]
      /\ currentActive \in [Calls -> Slot] /\ seen \in [Calls -> Slot]
  BY DEF SerialBase, IndInv, TypeOK
<1>2. /\ g \in Goroutine /\ g[1] = c /\ Handler(c) \in Goroutine /\ Reaper(c) \in Goroutine
      /\ g # Handler(c) /\ g # Reaper(c)
  BY Names
<1>3. /\ pc[g] # "idle" /\ root[c] \in Calls /\ Own(c, c)
      /\ UNCHANGED <<infoHashMap, currentActive, peerMap, peers, req, root, seen>>
      /\ pc'[Handler(c)] = pc[Handler(c)] /\ pc'[Reaper(c)] = pc[Reaper(c)]
  BY <1>1, <1>2 DEF AnyStep, CopyForTake, Take, ReadActive, ReadMap, Put, store, locals,
                    JoinOf, JoinBase
<1>4. JoinBase(c)'
  BY <1>3 DEF JoinOf, JoinBase, Own
<1>5. ASSUME pc[Reaper(c)] = "idle"
      PROVE  TaskOf(c)' /\ pc'[g] # "idle"
  <2>1. TaskOf(c)
    BY <1>3, <1>5 DEF JoinOf
  <2>2. CASE CopyForTake(g)
    <3>1. /\ pc[g] = "copyForTake" /\ pc'[g] = "take" /\ copy'[g] = peerMap[root[c]] /\ pos'[g] = 0
          /\ UNCHANGED <<maps, key, found>>
      BY <1>1, <1>2, <2>2 DEF CopyForTake, store
    <3>2. \A s \in Slot : ~(s < 0)
      BY DEF Slot
    <3> QED
      BY <1>3, <2>1, <3>1, <3>2 DEF TaskOf, Storing
  <2>3. CASE Take(g)
    BY <2>1, <2>3, JoinTakes DEF JoinOf
  <2>4. CASE ReadActive(g)
    <3>1. /\ pc[g] = "readActive" /\ pc'[g] = "readMap" /\ idx'[g] = currentActive[root[c]]
          /\ UNCHANGED <<maps, found>>
      BY <1>1, <1>2, <2>4 DEF ReadActive, store
    <3>2. /\ Absent(root[c], req[c].peerID)
          /\ found[g] # None => Own(found[g], c) /\ peers[found[g]].id = req[c].peerID
      BY <2>1, <3>1 DEF TaskOf, Storing
    <3>3. (seen[c] + 1) % 3 # (seen[c] + 2) % 3
      BY <1>1 DEF Slot
    <3>4. pc[Handler(c)] = "empty" => currentActive[root[c]] # Oldest(c)
      BY <3>3 DEF JoinOf, JoinBase, NextSlot, Oldest
    <3>5. Lasts(c, idx[g])'
      BY <1>3, <3>1, <3>4 DEF Lasts, Oldest
    <3>6. Absent(root[c], req[c].peerID)' /\ (found[g] # None => Own(found[g], c)')
      BY <1>3, <3>1, <3>2 DEF Absent, Own
    <3> QED
      BY <1>3, <3>1, <3>2, <3>5, <3>6 DEF TaskOf, Own
  <2>5. CASE ReadMap(g)
    <3>1. /\ pc[g] = "readMap" /\ pc'[g] = "put" /\ dst'[g] = peerMap[root[c]][idx[g]]
          /\ idx[g] \in Slot /\ UNCHANGED <<maps, found>>
      BY <1>1, <1>2, <2>5 DEF ReadMap, store
    <3>2. /\ Absent(root[c], req[c].peerID) /\ Lasts(c, idx[g])
          /\ found[g] # None => Own(found[g], c) /\ peers[found[g]].id = req[c].peerID
      BY <2>1, <3>1 DEF TaskOf, Storing
    <3>3. \A s \in Slot : Lasts(c, s) => Lasts(c, s)'
      BY <1>3 DEF Lasts, Oldest
    <3>4. \E s \in Slot : dst'[g] = peerMap'[root'[c]][s] /\ Lasts(c, s)'
      BY <1>3, <3>1, <3>2, <3>3
    <3>5. Absent(root[c], req[c].peerID)' /\ (found[g] # None => Own(found[g], c)')
      BY <1>3, <3>1, <3>2 DEF Absent, Own
    <3> QED
      BY <1>3, <3>1, <3>2, <3>4, <3>5 DEF TaskOf, Own
  <2>6. CASE Put(g)
    <3>1. pc'[g] = "done" /\ pc[g] = "put" /\ found'[g] = None
      BY <1>1, <1>2, <2>6 DEF Put
    <3>2. PICK s \in Slot : dst[g] = peerMap[root[c]][s] /\ Lasts(c, s)
      BY <2>1, <3>1 DEF TaskOf
    <3>3. /\ Absent(root[c], req[c].peerID)
          /\ found[g] # None => Own(found[g], c)
      BY <2>1, <3>1 DEF TaskOf, Storing
    <3> DEFINE o == IF found[g] # None THEN found[g] ELSE c
    <3>4. o \in Calls /\ Own(o, c)
      BY <1>1, <1>2, <1>3, <3>3
    <3>5. ListedAt(c, s)'
      <4> HIDE DEF g
      <4>1. g[1] = c /\ g \in Goroutine
        BY <1>2
      <4> QED
        BY <1>3, <2>6, <3>2, <3>3, <3>4, <4>1, JoinPuts
    <3>6. Lasts(c, s)'
      BY <1>3, <3>2 DEF Lasts, Oldest
    <3> QED
      BY <3>1, <3>5, <3>6 DEF TaskOf, Storing
  <2> QED
    BY <2>2, <2>3, <2>4, <2>5, <2>6 DEF AnyStep
<1> QED
  BY <1>3, <1>4, <1>5 DEF JoinOf

LEMMA JoinStep ==
  ASSUME MaxInflight = 1, SerialBase, JoinInv, [Next]_vars
  PROVE  JoinInv'
<1>1. ASSUME NEW c \in Calls, NEW r \in Requests, NEW t \in 0..now, DirectStore(c, r, t)
      PROVE  JoinInv'
  <2>1. last' = last /\ ~serving
    BY <1>1 DEF DirectStore, history
  <2> QED
    BY <2>1, LocalAssumption DEF SerialBase, Alone, JoinInv
<1>2. CASE Serve \/ Tick \/ Finished \/ UNCHANGED vars
  <2>1. UNCHANGED <<last, infoHashMap, currentActive, peerMap, maps, peers, req, root, seen, pc,
                    copy, pos, key, found, idx, dst>>
    BY <1>2 DEF Serve, Tick, Finished, vars, history, store, locals, loops
  <2>2. \A c \in Calls : JoinOf(c) => JoinOf(c)'
    <3> SUFFICES ASSUME NEW c \in Calls, JoinOf(c) PROVE JoinOf(c)'
      OBVIOUS
    <3>1. JoinBase(c)'
      BY <2>1 DEF JoinOf, JoinBase, Own
    <3>2. FirstOf(c) => FirstOf(c)'
      BY <2>1 DEF FirstOf, Absent, ListedAt, Own
    <3>3. TaskOf(c) => TaskOf(c)'
      BY <2>1 DEF TaskOf, Absent, ListedAt, Lasts, Oldest, Own
    <3> QED
      BY <2>1, <3>1, <3>2, <3>3 DEF JoinOf
  <2> QED
    BY <2>1, <2>2 DEF JoinInv
<1>3. ASSUME NEW c \in Calls, BeginCall(c)
      PROVE  JoinInv'
  BY <1>3, JoinBegins
<1>4. ASSUME NEW c \in Calls,
             HandlerStep(c) \/ TaskStep(c) \/ ReaperStep(c)
             \/ \E g \in Goroutine : g[1] = c /\ AnyStep(g)
      PROVE  JoinInv'
  <2>1. last' = last /\ req' = req /\ c = last /\ c \in Running
    BY <1>4, OneCallMoves DEF SerialBase, Alone
  <2> SUFFICES ASSUME IsJoin(req[c]) PROVE JoinOf(c)'
    BY <2>1 DEF JoinInv
  <2>2. JoinOf(c)
    BY <2>1 DEF JoinInv
  <2>3. req[c] \in Request
    <3>1. PICK w \in {"handler", "task", "reaper"} : pc[<<c, w>>] \notin Ended
      BY <2>1 DEF Running, Ended
    <3> QED
      BY <3>1 DEF SerialBase, IndInv, Scopes, Goroutine
  <2>4. CASE HandlerStep(c)
    <3>1. ~CleanNext(c) /\ ~DropRoot(c)
      BY <2>2 DEF JoinOf, JoinBase, CleanNext, DropRoot, Storing
    <3> QED
      BY <2>2, <2>3, <2>4, <3>1, JoinRanges, JoinSwaps, JoinEmpties DEF HandlerStep
  <2>5. CASE TaskStep(c)
    BY <2>2, <2>5, JoinUpdates DEF TaskStep
  <2>6. CASE ReaperStep(c)
    BY <2>2, <2>6, JoinReaps
  <2>7. CASE \E g \in Goroutine : g[1] = c /\ AnyStep(g)
    <3>1. PICK g \in Goroutine : g[1] = c /\ AnyStep(g)
      BY <2>7
    <3>2. g # Reaper(c)
      BY <3>1 DEF SerialBase, IndInv, Roles, AnyStep, CopyForTake, Take, ReadActive, ReadMap, Put
    <3> QED
      BY <2>2, <2>3, <3>1, <3>2, Names, JoinFirst, JoinTask
  <2> QED
    BY <1>4, <2>4, <2>5, <2>6, <2>7
<1> QED
  BY <1>1, <1>2, <1>3, <1>4, Names DEF Next

(* HandleAnnouncePeer of a reachable peer, when calls do not overlap: once *)
(* the handler and its task have ended, and no expired peer was met, the   *)
(* peer is in exactly one map of the torrent, with the time, event and     *)
(* left it has just announced, although the task may have been storing it  *)
(* while the handler turned the ring and replaced a map.                   *)
THEOREM AnnouncedPeerIsListed ==
  ASSUME MaxInflight = 1
  PROVE  Spec => []AnnouncedIsListed
<1>1. Init => JoinInv
  BY LocalAssumption DEF Init, JoinInv
<1>2. SerialBase /\ JoinInv /\ [Next]_vars => JoinInv'
  BY JoinStep
<1>3. SerialBase /\ JoinInv => AnnouncedIsListed
  <2> SUFFICES ASSUME SerialBase, JoinInv, Quiescent, last # None, IsJoin(req[last]),
                      pc[Reaper(last)] = "idle"
               PROVE  LET q == req[last]
                          r == infoHashMap[q.infoHash]
                      IN  /\ r # None
                          /\ Cardinality(Holders(r, q.peerID)) = 1
                          /\ Record(r, q.peerID).lastSeen = peers[last].lastSeen
                          /\ Record(r, q.peerID).event = q.event
                          /\ Record(r, q.peerID).left = q.left
    BY DEF AnnouncedIsListed, IsJoin
  <2> DEFINE r == infoHashMap[req[last].infoHash]
             k == req[last].peerID
  <2>1. last \in Calls /\ JoinOf(last)
    BY DEF SerialBase, IndInv, TypeOK, JoinInv
  <2>2. pc[Handler(last)] \in Ended /\ pc[Task(last)] \in Ended
    BY <2>1, Names, AtWork DEF SerialBase, Quiescent
  <2>3. r = root[last] /\ r \in Calls
    BY <2>1 DEF JoinOf, JoinBase
  <2>4. PICK s \in Slot : ListedAt(last, s)
    BY <2>1, <2>2 DEF JoinOf, JoinBase, FirstOf, TaskOf, Ended, Storing
  <2>5. Holders(r, k) = {s}
    BY <2>3, <2>4 DEF Holders, ListedAt
  <2>6. (CHOOSE i \in Holders(r, k) : TRUE) = s
    BY <2>5
  <2>7. Own(maps[peerMap[r][s]][k], last)
    BY <2>3, <2>4 DEF ListedAt
  <2>8. Record(r, k) = peers[maps[peerMap[r][s]][k]]
    BY <2>6 DEF Record
  <2>9. Cardinality(Holders(r, k)) = 1
    BY <2>5, FS_Singleton
  <2>10. r # None
    BY <2>3, LocalAssumption
  <2> QED
    BY <2>7, <2>8, <2>9, <2>10 DEF Own
<1> QED
  BY <1>1, <1>2, <1>3, SerialBaseInductive, PTL DEF Spec

-----------------------------------------------------------------------------
(***************************************************************************)
(* The ring of three maps when calls do not overlap.                       *)
(*                                                                         *)
(* HeadInv says where the write head is while the goroutines of the one    *)
(* running call move: what a rotation relies on, and where a store of its  *)
(* task may still go.                                                      *)
(***************************************************************************)

(* The map that is written, the one the head moves to next and the one it  *)
(* came from.                                                              *)
HeadMap(r) == peerMap[r][currentActive[r]]
NextMap(r) == peerMap[r][NextSlot(currentActive[r])]
PrevMap(r) == peerMap[r][NextSlot(NextSlot(currentActive[r]))]
Empty(m) == \A k \in PeerID : maps[m][k] = None

(* The ring a map is made for: its maker's own, or the one it rotated. *)
Home(m) == IF m[2] = 3 THEN root[m[1]] ELSE m[1]
Homed == \A r \in Calls : \A s \in Slot : Home(peerMap[r][s]) = r

(* The locals of a call that was not made. *)
Blank ==
  \A c \in Calls : ~Born(c) =>
    /\ req[c] = None /\ root[c] = None /\ at[c] = 0 /\ counts[c] = NoCounts /\ stale[c] = {}

(* "one keeps empty", but for the moment between moving the head and       *)
(* replacing the oldest map.                                               *)
Vacant ==
  \A r \in Calls : Empty(NextMap(r)) \/ \E c \in Calls : pc[Handler(c)] = "empty" /\ root[c] = r

(* Nothing turns a ring before the listeners start. *)
Launch ==
  ~serving => \A r \in Calls : currentActive[r] = 0 /\ Empty(peerMap[r][1]) /\ Empty(peerMap[r][2])

(* The swap of a lone call succeeds. *)
TurnsOf(c) ==
  /\ pc[Handler(c)] = "swap" => seen[c] = currentActive[root[c]]
  /\ pc[Handler(c)] = "empty" => currentActive[root[c]] = NextSlot(seen[c])

(* The task stores into the map that is written, or into the one that was  *)
(* when it read the index: then the handler has turned the ring meanwhile  *)
(* and nothing else has been stored.                                       *)
Aim(c, m) ==
  \/ m = HeadMap(root[c])
  \/ pc[Handler(c)] \in {"empty", "done"} /\ m = PrevMap(root[c]) /\ Empty(HeadMap(root[c]))
AimsOf(c) ==
  /\ pc[Task(c)] = "readMap" => Aim(c, peerMap[root[c]][idx[Task(c)]])
  /\ pc[Task(c)] = "put" => Aim(c, dst[Task(c)])

(* A handler stores only into the ring it has just made. *)
OpensOf(c) ==
  pc[Handler(c)] \in Storing =>
    /\ root[c] = c /\ \A s \in Slot : Empty(peerMap[c][s])
    /\ pc[Handler(c)] = "readMap" => idx[Handler(c)] = currentActive[c]
    /\ pc[Handler(c)] = "put" => dst[Handler(c)] = HeadMap(c)
CallHead(c) == TurnsOf(c) /\ AimsOf(c) /\ OpensOf(c)
HeadInv == Homed /\ Blank /\ Vacant /\ Launch /\ \A c \in Calls : CallHead(c)

(* A step of one of the goroutines of call c. *)
InCall(c) ==
  \/ HandlerStep(c) \/ TaskStep(c) \/ ReaperStep(c)
  \/ \E g \in Goroutine : g[1] = c /\ AnyStep(g)

(* A step of call c leaves the locals of the others, and the others at rest. *)
LEMMA OthersRest ==
  ASSUME SerialBase, NEW c \in Calls, InCall(c)
  PROVE  /\ c = last /\ last' = c /\ serving /\ serving' /\ Born(c) /\ BornAfter(c)
         /\ root' = root /\ req' = req /\ now' = now
         /\ \A d \in Calls : d # c =>
              /\ pc[Handler(d)] \in Ended /\ pc[Task(d)] \in Ended /\ pc[Reaper(d)] \in Ended
              /\ pc'[Handler(d)] = pc[Handler(d)] /\ pc'[Task(d)] = pc[Task(d)]
              /\ pc'[Reaper(d)] = pc[Reaper(d)]
              /\ at'[d] = at[d] /\ counts'[d] = counts[d] /\ stale'[d] = stale[d]
<1>1. /\ c \in Running /\ last' = last /\ serving' = serving /\ req' = req
      /\ \A g \in Goroutine : g[1] # c => pc'[g] = pc[g]
  BY OneCallMoves DEF InCall, SerialBase
<1>2. c = last /\ serving /\ Born(c) /\ Running \subseteq {c}
  BY <1>1, LocalAssumption DEF SerialBase, Alone
<1>3. BornAfter(c)
  <2>1. Next
    BY Names DEF InCall, Next
  <2> QED
    BY <1>2, <2>1, HandlerMoves DEF SerialBase
<1>4. /\ at \in [Calls -> Nat] /\ stale \in [Calls -> SUBSET (Slot \X PeerID)]
      /\ DOMAIN counts = Calls
  BY DEF SerialBase, IndInv, TypeOK
<1>5. /\ root' = root /\ now' = now
      /\ \A d \in Calls : d # c => at'[d] = at[d] /\ counts'[d] = counts[d] /\ stale'[d] = stale[d]
  <2>1. CASE HandlerStep(c)
    <3>1. CASE RangeSlot(c)
      BY <1>4, <3>1 DEF RangeSlot, clock
    <3>2. CASE ~RangeSlot(c)
      BY <1>4, <2>1, <3>2 DEF HandlerStep, CopyForRange, CheckLen, ReadCurrent, CompareAndSwap,
                              EmptyOldest, CleanNext, DropRoot, locals, clock
    <3> QED
      BY <3>1, <3>2
  <2>2. CASE TaskStep(c) \/ ReaperStep(c)
    BY <1>4, <2>2 DEF TaskStep, ReaperStep, UpdateKnown, NextExpired, Remove, locals, clock
  <2>3. CASE \E g \in Goroutine : g[1] = c /\ AnyStep(g)
    BY <2>3 DEF AnyStep, CopyForTake, Take, ReadActive, ReadMap, Put, locals, clock
  <2> QED
    BY <2>1, <2>2, <2>3 DEF InCall
<1>6. ASSUME NEW d \in Calls, d # c
      PROVE  /\ pc[Handler(d)] \in Ended /\ pc[Task(d)] \in Ended /\ pc[Reaper(d)] \in Ended
             /\ pc'[Handler(d)] = pc[Handler(d)] /\ pc'[Task(d)] = pc[Task(d)]
             /\ pc'[Reaper(d)] = pc[Reaper(d)]
  <2>1. \A g \in {Handler(d), Task(d), Reaper(d)} : g \in Goroutine /\ g[1] = d
    BY Names
  <2> QED
    BY <1>1, <1>2, <1>6, <2>1, AtWork DEF SerialBase
<1> QED
  BY <1>1, <1>2, <1>3, <1>5, <1>6

(* The steps of a handler that only look at the ring. *)
Looking(c) ==
  CopyForRange(c) \/ RangeSlot(c) \/ CheckLen(c) \/ ReadCurrent(c) \/ CleanNext(c) \/ DropRoot(c)

LEMMA LooksOnly ==
  ASSUME SerialBase, NEW c \in Calls, Looking(c)
  PROVE  /\ UNCHANGED <<maps, peerMap, currentActive, peers, found, idx, dst>>
         /\ pc'[Task(c)] = pc[Task(c)]
         /\ key'[Task(c)] = key[Task(c)] /\ copy'[Task(c)] = copy[Task(c)]
         /\ pos'[Task(c)] = pos[Task(c)]
         /\ pc[Handler(c)] \in {"copyForRange", "range", "checkLen", "readCurrent", "nextKey", "drop"}
         /\ pc'[Handler(c)] \in {"range", "checkLen", "readCurrent", "swap", "nextKey", "drop",
                                 "copyForTake", "done"}
         /\ pc'[Handler(c)] = "swap" => pc[Handler(c)] = "readCurrent" /\ seen'[c] = currentActive[root[c]]
         /\ pc'[Handler(c)] = "readCurrent" => pc[Handler(c)] = "checkLen" /\ Full(root[c])
         /\ pc[Handler(c)] = "checkLen" /\ pc'[Handler(c)] = "done" => ~Full(root[c])
         /\ pc'[Reaper(c)] = "idle" => pc[Reaper(c)] = "idle"
<1>1. /\ pc \in [Goroutine -> Label] /\ copy \in [Goroutine -> [Slot -> MapRef] \cup {None}]
      /\ pos \in [Goroutine -> Slot] /\ key \in [Goroutine -> PeerID \cup {None}]
      /\ seen \in [Calls -> Slot]
  BY DEF SerialBase, IndInv, TypeOK
<1>2. /\ Handler(c) \in Goroutine /\ Task(c) \in Goroutine /\ Reaper(c) \in Goroutine
      /\ Handler(c) # Task(c) /\ Handler(c) # Reaper(c) /\ Task(c) # Reaper(c)
  BY Names
<1>3. CASE RangeSlot(c)
  <2>1. /\ UNCHANGED <<maps, peerMap, currentActive, peers, found, idx, dst, key>>
        /\ pc[Handler(c)] = "range"
    BY <1>3 DEF RangeSlot, store
  <2>2. CASE pos[Handler(c)] < 2
    BY <1>1, <1>2, <1>3, <2>1, <2>2 DEF RangeSlot
  <2>3. CASE ~(pos[Handler(c)] < 2)
    <3>1. \E l \in {"checkLen", "nextKey", "done"}, lr \in {"nextKey", pc[Reaper(c)]} :
             pc' = [pc EXCEPT ![Handler(c)] = l, ![Reaper(c)] = lr]
      <4> DEFINE late == stale[c] \cup {<<pos[Handler(c)], k>> :
                                  k \in ExpiredKeys(c, copy[Handler(c)][pos[Handler(c)]])}
                 l == CASE req[c].op = "announce" -> "checkLen"
                        [] req[c].op = "clean" -> "nextKey"
                        [] OTHER -> "done"
                 lr == IF req[c].op # "clean" /\ late # {} THEN "nextKey" ELSE pc[Reaper(c)]
      <4>1. pc' = [pc EXCEPT ![Handler(c)] = l, ![Reaper(c)] = lr]
        BY <1>1, <1>2, <1>3, <2>3 DEF RangeSlot
      <4>2. l \in {"checkLen", "nextKey", "done"} /\ lr \in {"nextKey", pc[Reaper(c)]}
        OBVIOUS
      <4> HIDE DEF l, lr
      <4> QED
        BY <4>1, <4>2
    <3>2. copy'[Task(c)] = copy[Task(c)] /\ pos'[Task(c)] = pos[Task(c)]
      BY <1>1, <1>2, <1>3, <2>3 DEF RangeSlot, EndLoop
    <3> QED
      BY <1>1, <1>2, <2>1, <3>1, <3>2
  <2> QED
    BY <2>2, <2>3
<1>4. CASE CopyForRange(c)
  BY <1>1, <1>2, <1>4 DEF CopyForRange, store
<1>5. CASE CheckLen(c)
  BY <1>1, <1>2, <1>5 DEF CheckLen, store, loops
<1>6. CASE ReadCurrent(c)
  BY <1>1, <1>2, <1>6 DEF ReadCurrent, store, loops
<1>7. CASE CleanNext(c)
  BY <1>1, <1>2, <1>7 DEF CleanNext
<1>8. CASE DropRoot(c)
  BY <1>1, <1>2, <1>8 DEF DropRoot, loops
<1> QED
  BY <1>3, <1>4, <1>5, <1>6, <1>7, <1>8 DEF Looking

(* The steps that take one key out of one map. *)
LEMMA TakesOne ==
  ASSUME SerialBase, NEW c \in Calls, NEW g \in Goroutine, g[1] = c,
         Take(g) \/ (g = Reaper(c) /\ Remove(c))
  PROVE  \E n \in MapRef, j \in PeerID :
           /\ n = copy[g][pos[g]] /\ j = key[g]
           /\ \A m \in MapRef : \A k \in PeerID :
                maps'[m][k] = IF m = n /\ k = j THEN None ELSE maps[m][k]
<1>1. /\ pos \in [Goroutine -> Slot] /\ copy[g] \in [Slot -> MapRef] /\ key[g] \in PeerID
  BY DEF SerialBase, IndInv, TypeOK, Scopes, Take, Remove
<1>2. maps' = Without(copy[g][pos[g]], key[g])
  BY DEF Take, Remove
<1> QED
  BY <1>1, <1>2, WithoutOne DEF SerialBase

(* What a goroutine of the call does to the labels when it takes a step of *)
(* those that handler and task share, or the reaper does.                  *)
LEMMA SharedMoves ==
  ASSUME SerialBase, NEW c \in Calls, NEW g \in Goroutine, g[1] = c,
         AnyStep(g) \/ (g = Reaper(c) /\ ReaperStep(c)) \/ (g = Task(c) /\ TaskStep(c))
  PROVE  /\ UNCHANGED <<peerMap, currentActive, seen>>
         /\ \A d \in Goroutine : d # g =>
              /\ pc'[d] = pc[d] /\ key'[d] = key[d] /\ copy'[d] = copy[d] /\ pos'[d] = pos[d]
              /\ found'[d] = found[d] /\ idx'[d] = idx[d] /\ dst'[d] = dst[d]
         /\ pc[g] \notin Ended
         /\ pc'[g] \notin {"idle", "empty", "swap", "checkLen", "readCurrent"}
         /\ g # Handler(c) => pc'[g] \notin {"copyForRange", "range"}
<1>1. /\ pc \in [Goroutine -> Label] /\ copy \in [Goroutine -> [Slot -> MapRef] \cup {None}]
      /\ pos \in [Goroutine -> Slot] /\ key \in [Goroutine -> PeerID \cup {None}]
      /\ found \in [Goroutine -> Calls \cup {None}] /\ idx \in [Goroutine -> Slot]
      /\ dst \in [Goroutine -> MapRef \cup {None}]
  BY DEF SerialBase, IndInv, TypeOK
<1>2. /\ Task(c) \in Goroutine /\ Reaper(c) \in Goroutine
      /\ g \in {Handler(c), Task(c), Reaper(c)} /\ Task(c) # Reaper(c)
  BY Names
<1>3. CASE ReaperStep(c) /\ g = Reaper(c)
  BY <1>1, <1>3 DEF ReaperStep, NextExpired, Remove, EndLoop, store, locals, Ended
<1>4. CASE TaskStep(c) /\ g = Task(c)
  BY <1>1, <1>4 DEF TaskStep, UpdateKnown, loops, locals, Ended
<1>5. CASE Take(g)
  <2>1. \A f : AfterTake(g, f) \in {"nextKey", "done", "update", "readActive"}
    BY DEF AfterTake
  <2>2. pc[g] = "take" /\ UNCHANGED <<peerMap, currentActive, seen, key, idx, dst>>
    BY <1>5 DEF Take, locals
  <2>3. \A d \in Goroutine : d # g => found'[d] = found[d]
    BY <1>1, <1>5 DEF Take
  <2>4. CASE pos[g] < 2
    BY <1>1, <1>5, <2>2, <2>3, <2>4 DEF Take, Ended
  <2>5. CASE ~(pos[g] < 2)
    <3>1. \E f : pc' = [pc EXCEPT ![g] = AfterTake(g, f)]
      BY <1>5, <2>5 DEF Take
    <3>2. copy' = [copy EXCEPT ![g] = None] /\ pos' = [pos EXCEPT ![g] = 0]
      BY <1>5, <2>5 DEF Take, EndLoop
    <3>3. PICK l \in {"nextKey", "done", "update", "readActive"} : pc' = [pc EXCEPT ![g] = l]
      BY <2>1, <3>1
    <3> QED
      BY <1>1, <2>2, <2>3, <3>2, <3>3 DEF Ended
  <2> QED
    BY <2>4, <2>5
<1>6. CASE CopyForTake(g) \/ ReadActive(g) \/ ReadMap(g)
  BY <1>1, <1>6 DEF CopyForTake, ReadActive, ReadMap, store, locals, Ended
<1>7. CASE Put(g)
  BY <1>1, <1>7 DEF Put, locals, Ended
<1> QED
  BY <1>3, <1>4, <1>5, <1>6, <1>7 DEF AnyStep

LEMMA Slots ==
  ASSUME NEW s \in Slot
  PROVE  /\ NextSlot(s) \in Slot /\ NextSlot(NextSlot(s)) \in Slot
         /\ NextSlot(s) # s /\ NextSlot(NextSlot(s)) # s /\ NextSlot(NextSlot(s)) # NextSlot(s)
         /\ NextSlot(NextSlot(NextSlot(s))) = s
         /\ (s + 2) % 3 = NextSlot(NextSlot(s))
         /\ \A t \in Slot : t = s \/ t = NextSlot(s) \/ t = NextSlot(NextSlot(s))
BY DEF Slot, NextSlot

(* The three maps of a ring. *)
LEMMA RingMaps ==
  ASSUME SerialBase, NEW r \in Calls
  PROVE  /\ HeadMap(r) \in MapRef /\ NextMap(r) \in MapRef /\ PrevMap(r) \in MapRef
         /\ HeadMap(r) # NextMap(r) /\ HeadMap(r) # PrevMap(r) /\ NextMap(r) # PrevMap(r)
         /\ \A s \in Slot : peerMap[r][s] \in {HeadMap(r), NextMap(r), PrevMap(r)}
         /\ \A s \in Slot : peerMap[r][s] \in MapRef
<1>1. currentActive[r] \in Slot /\ peerMap[r] \in [Slot -> MapRef]
  BY DEF SerialBase, IndInv, TypeOK
<1>2. \A s, t \in Slot : s # t => peerMap[r][s] # peerMap[r][t]
  BY DEF SerialBase, RingInv, Apart
<1> QED
  BY <1>1, <1>2, Slots DEF HeadMap, NextMap, PrevMap

(* A call at rest has nothing to say of the ring. *)
LEMMA RestingHead ==
  ASSUME NEW c \in Calls, pc[Handler(c)] \in Ended, pc[Task(c)] \in Ended
  PROVE  CallHead(c)
BY DEF CallHead, TurnsOf, AimsOf, OpensOf, Ended, Storing

LEMMA RestingHeadNext ==
  ASSUME NEW c \in Calls, pc'[Handler(c)] \in Ended, pc'[Task(c)] \in Ended
  PROVE  CallHead(c)'
BY DEF CallHead, TurnsOf, AimsOf, OpensOf, Ended, Storing

(* Steps that leave the ring and at most take peers out. *)
LEMMA HeadFrame ==
  ASSUME SerialBase, HeadInv, NEW c \in Calls, InCall(c),
         UNCHANGED <<peerMap, currentActive>>,
         \A m \in MapRef : \A k \in PeerID : maps'[m][k] = maps[m][k] \/ maps'[m][k] = None,
         pc'[Handler(c)] = "empty" <=> pc[Handler(c)] = "empty",
         CallHead(c)'
  PROVE  HeadInv'
<1>1. /\ root' = root /\ req' = req /\ serving /\ serving' /\ Born(c) /\ BornAfter(c)
      /\ \A d \in Calls : d # c =>
              /\ pc[Handler(d)] \in Ended /\ pc[Task(d)] \in Ended
              /\ pc'[Handler(d)] = pc[Handler(d)] /\ pc'[Task(d)] = pc[Task(d)]
              /\ at'[d] = at[d] /\ counts'[d] = counts[d] /\ stale'[d] = stale[d]
  BY OthersRest
<1>2. Homed'
  BY <1>1 DEF HeadInv, Homed, Home
<1>3. Blank'
  BY <1>1 DEF HeadInv, Blank, Born, BornAfter
<1>4. Vacant'
  <2> SUFFICES ASSUME NEW r \in Calls
               PROVE  Empty(NextMap(r))' \/ \E d \in Calls : pc'[Handler(d)] = "empty" /\ root'[d] = r
    BY DEF Vacant
  <2>1. NextMap(r)' = NextMap(r) /\ NextMap(r) \in MapRef
    BY RingMaps DEF NextMap
  <2>2. Empty(NextMap(r)) \/ \E d \in Calls : pc[Handler(d)] = "empty" /\ root[d] = r
    BY DEF HeadInv, Vacant
  <2> QED
    BY <1>1, <2>1, <2>2 DEF Empty
<1>5. \A d \in Calls : CallHead(d)'
  <2> SUFFICES ASSUME NEW d \in Calls, d # c PROVE CallHead(d)'
    OBVIOUS
  <2> QED
    BY <1>1, RestingHeadNext
<1> QED
  BY <1>1, <1>2, <1>3, <1>4, <1>5 DEF HeadInv, Launch

(* Where the task aims at stays where it is. *)
LEMMA AimLasts ==
  ASSUME SerialBase, NEW c \in Calls, UNCHANGED <<peerMap, currentActive>>,
         root[c] \in Calls, root'[c] = root[c],
         \A m \in MapRef : \A k \in PeerID : maps'[m][k] = maps[m][k] \/ maps'[m][k] = None,
         pc[Handler(c)] \in {"empty", "done"} => pc'[Handler(c)] \in {"empty", "done"},
         NEW n, Aim(c, n)
  PROVE  Aim(c, n)'
<1>1. HeadMap(root[c])' = HeadMap(root[c]) /\ PrevMap(root[c])' = PrevMap(root[c])
  BY DEF HeadMap, PrevMap
<1>2. HeadMap(root[c]) \in MapRef
  BY RingMaps
<1> QED
  BY <1>1, <1>2 DEF Aim, Empty

LEMMA HeadLooks ==
  ASSUME SerialBase, HeadInv, NEW c \in Calls, Looking(c)
  PROVE  HeadInv'
<1>1. /\ UNCHANGED <<maps, peerMap, currentActive, idx, dst>>
      /\ pc'[Task(c)] = pc[Task(c)]
      /\ pc[Handler(c)] \in {"copyForRange", "range", "checkLen", "readCurrent", "nextKey", "drop"}
      /\ pc'[Handler(c)] \in {"range", "checkLen", "readCurrent", "swap", "nextKey", "drop",
                              "copyForTake", "done"}
      /\ pc'[Handler(c)] = "swap" => seen'[c] = currentActive[root[c]]
  BY LooksOnly
<1>2. InCall(c)
  BY DEF Looking, InCall, HandlerStep
<1>3. root' = root
  BY <1>2, OthersRest
<1>4. root[c] \in Calls
  BY <1>1, Names DEF SerialBase, IndInv, Scopes, Ended
<1>5. TurnsOf(c)'
  BY <1>1, <1>3 DEF TurnsOf
<1>6. AimsOf(c)'
  <2>1. AimsOf(c)
    BY DEF HeadInv, CallHead
  <2> QED
    BY <1>1, <1>3, <1>4, <2>1, AimLasts DEF AimsOf
<1>7. OpensOf(c)'
  BY <1>1 DEF OpensOf, Storing
<1> QED
  BY <1>1, <1>2, <1>5, <1>6, <1>7, HeadFrame DEF CallHead

LEMMA HeadShared ==
  ASSUME SerialBase, HeadInv, NEW c \in Calls, NEW g \in Goroutine, g[1] = c,
         (AnyStep(g) /\ ~Put(g)) \/ (g = Reaper(c) /\ ReaperStep(c)) \/ (g = Task(c) /\ TaskStep(c))
  PROVE  HeadInv'
<1>1. /\ UNCHANGED <<peerMap, currentActive, seen>>
      /\ \A d \in Goroutine : d # g => pc'[d] = pc[d] /\ idx'[d] = idx[d] /\ dst'[d] = dst[d]
      /\ pc[g] \notin Ended
      /\ pc'[g] \notin {"idle", "empty", "swap", "checkLen", "readCurrent"}
  BY SharedMoves
<1>2. InCall(c)
  BY DEF InCall
<1>3. root' = root
  BY <1>2, OthersRest
<1>4. root[c] \in Calls
  BY <1>1 DEF SerialBase, IndInv, Scopes, Ended
<1>5. /\ Handler(c) \in Goroutine /\ Task(c) \in Goroutine /\ Handler(c) # Task(c)
      /\ g \in {Handler(c), Task(c), Reaper(c)} /\ Reaper(c) # Task(c) /\ Reaper(c) # Handler(c)
  BY Names
<1>6. \A m \in MapRef : \A k \in PeerID : maps'[m][k] = maps[m][k] \/ maps'[m][k] = None
  <2>1. CASE Take(g) \/ (g = Reaper(c) /\ Remove(c))
    BY <2>1, TakesOne
  <2>2. CASE ~(Take(g) \/ (g = Reaper(c) /\ Remove(c)))
    BY <2>2 DEF AnyStep, CopyForTake, ReadActive, ReadMap, ReaperStep, NextExpired, TaskStep,
                UpdateKnown, store
  <2> QED
    BY <2>1, <2>2
<1>7. pc'[Handler(c)] = "empty" <=> pc[Handler(c)] = "empty"
  <2>1. CASE g = Handler(c)
    <3>1. pc[g] # "empty"
      BY <2>1, <1>5 DEF AnyStep, CopyForTake, Take, ReadActive, ReadMap
    <3> QED
      BY <1>1, <2>1, <3>1
  <2> QED
    BY <1>1, <1>5, <2>1
<1>8. pc[Handler(c)] \in {"empty", "done"} => pc'[Handler(c)] \in {"empty", "done"}
  <2>1. CASE g = Handler(c)
    BY <1>1, <1>7, <2>1 DEF Ended
  <2> QED
    BY <1>1, <1>5, <2>1
<1>9. CallHead(c)
  BY DEF HeadInv
<1>10. TurnsOf(c)'
  <2>1. pc'[Handler(c)] \in {"swap", "empty"} => pc'[Handler(c)] = pc[Handler(c)]
    BY <1>1, <1>5, <1>7
  <2> QED
    BY <1>1, <1>3, <1>9, <2>1 DEF CallHead, TurnsOf
<1>11. \A n : Aim(c, n) => Aim(c, n)'
  BY <1>1, <1>3, <1>4, <1>6, <1>8, AimLasts
<1>12. AimsOf(c)'
  <2>1. CASE g # Task(c)
    <3>1. pc'[Task(c)] = pc[Task(c)] /\ idx'[Task(c)] = idx[Task(c)] /\ dst'[Task(c)] = dst[Task(c)]
      BY <1>1, <1>5, <2>1
    <3> QED
      BY <1>1, <1>3, <1>9, <1>11, <3>1 DEF CallHead, AimsOf
  <2>2. CASE g = Task(c) /\ ReadActive(g)
    <3>1. idx'[g] = currentActive[root[c]] /\ pc'[g] = "readMap"
      BY <2>2 DEF ReadActive, SerialBase, IndInv, TypeOK
    <3> QED
      BY <1>1, <1>3, <2>2, <3>1 DEF AimsOf, Aim, HeadMap
  <2>3. CASE g = Task(c) /\ ReadMap(g)
    <3>1. pc[g] = "readMap" /\ pc'[g] = "put" /\ dst'[g] = peerMap[root[c]][idx[g]]
      BY <2>3 DEF ReadMap, SerialBase, IndInv, TypeOK
    <3> QED
      BY <1>9, <1>11, <2>3, <3>1 DEF CallHead, AimsOf
  <2>4. CASE g = Task(c) /\ ~ReadActive(g) /\ ~ReadMap(g)
    <3>1. pc'[g] \notin {"readMap", "put"}
      <4>1. \A f : AfterTake(g, f) \notin {"readMap", "put"}
        BY DEF AfterTake
      <4> QED
        BY <1>5, <2>4, <4>1 DEF AnyStep, CopyForTake, Take, TaskStep, UpdateKnown,
                                SerialBase, IndInv, TypeOK
    <3> QED
      BY <2>4, <3>1 DEF AimsOf
  <2> QED
    BY <2>1, <2>2, <2>3, <2>4
<1>13. OpensOf(c)'
  <2>1. CASE g # Handler(c)
    <3>1. /\ pc'[Handler(c)] = pc[Handler(c)] /\ idx'[Handler(c)] = idx[Handler(c)]
          /\ dst'[Handler(c)] = dst[Handler(c)]
      BY <1>1, <1>5, <2>1
    <3>2. \A s \in Slot : Empty(peerMap[c][s]) => Empty(peerMap[c][s])'
      BY <1>1, <1>6, RingMaps DEF Empty
    <3> QED
      BY <1>1, <1>3, <1>9, <3>1, <3>2 DEF CallHead, OpensOf, HeadMap
  <2>2. CASE g = Handler(c) /\ (ReadActive(g) \/ ReadMap(g))
    <3>1. /\ pc[g] \in Storing /\ UNCHANGED maps
          /\ ReadActive(g) => idx'[g] = currentActive[root[c]] /\ pc'[g] = "readMap"
          /\ ReadMap(g) => pc[g] = "readMap" /\ dst'[g] = peerMap[root[c]][idx[g]] /\ pc'[g] = "put"
      BY <2>2 DEF ReadActive, ReadMap, Storing, store, SerialBase, IndInv, TypeOK
    <3>2. \A s \in Slot : Empty(peerMap[c][s])' = Empty(peerMap[c][s])
      BY <1>1, <3>1 DEF Empty
    <3> QED
      BY <1>1, <1>3, <1>9, <2>2, <3>1, <3>2 DEF CallHead, OpensOf, HeadMap
  <2>3. CASE g = Handler(c) /\ ~ReadActive(g) /\ ~ReadMap(g)
    <3>1. pc'[g] \notin Storing
      <4>1. \A f : AfterTake(g, f) \notin Storing
        BY <1>5, <2>3, Names DEF AfterTake, Storing
      <4> QED
        BY <1>5, <2>3, <4>1 DEF AnyStep, CopyForTake, Take, Storing,
                                SerialBase, IndInv, TypeOK
    <3> QED
      BY <2>3, <3>1 DEF OpensOf
  <2> QED
    BY <2>1, <2>2, <2>3
<1> QED
  BY <1>1, <1>2, <1>6, <1>7, <1>10, <1>12, <1>13, HeadFrame DEF CallHead

(* No map is in two rings. *)
LEMMA OtherRings ==
  ASSUME HeadInv, NEW r \in Calls, NEW q \in Calls, r # q, NEW s \in Slot, NEW t \in Slot
  PROVE  peerMap[r][s] # peerMap[q][t]
BY DEF HeadInv, Homed

(* A store writes one key of one map. *)
Stores(o, m, k) ==
  /\ m \in MapRef /\ k \in PeerID /\ o \in Calls /\ peers[o].id = k
  /\ \A n \in MapRef : \A j \in PeerID : n # m \/ j # k => maps'[n][j] = maps[n][j]
  /\ maps'[m][k] # None /\ maps'[m][k] \in {o, maps[m][k]}
  /\ maps[m][k] = None => maps'[m][k] = o

LEMMA PutStores ==
  ASSUME SerialBase, NEW c \in Calls, NEW g \in Goroutine, g[1] = c, Put(g)
  PROVE  LET o == IF found[g] # None THEN found[g] ELSE c
         IN  /\ Stores(o, dst[g], peers[o].id) /\ peers[o] \in Peer
             /\ UNCHANGED <<peers, peerMap, currentActive, seen>>
             /\ pc[g] = "put" /\ pc'[g] = "done"
             /\ g = Handler(c) \/ g = Task(c)
<1> DEFINE o == IF found[g] # None THEN found[g] ELSE c
           k == peers[o].id
           m == dst[g]
<1>1. /\ pc \in [Goroutine -> Label] /\ maps \in [MapRef -> [PeerID -> Calls \cup {None}]]
      /\ found \in [Goroutine -> Calls \cup {None}] /\ peers \in [Calls -> Peer \cup {None}]
  BY DEF SerialBase, IndInv, TypeOK
<1>2. /\ pc[g] = "put" /\ pc'[g] = "done"
      /\ UNCHANGED <<peers, peerMap, currentActive, seen>>
      /\ maps' = IF found[g] # None \/ maps[m][k] = None
                 THEN [maps EXCEPT ![m] = [maps[m] EXCEPT ![k] = o]] ELSE maps
  BY <1>1 DEF Put, locals
<1>3. g = Handler(c) \/ g = Task(c)
  BY <1>2, Names DEF SerialBase, IndInv, Roles
<1>4. o \in Calls /\ peers[o] \in Peer
  <2>1. CASE found[g] # None
    BY <1>1, <2>1 DEF SerialBase, IndInv, Held, Admissible
  <2>2. CASE found[g] = None
    <3>1. peers[c] \in Peer
      BY <1>2, <1>3 DEF SerialBase, IndInv, Pending, Admissible, Storing, Ended
    <3> QED
      BY <2>2, <3>1
  <2> QED
    BY <2>1, <2>2
<1>5. k \in PeerID /\ m \in MapRef
  <2>1. m \in MapRef
    BY <1>2 DEF SerialBase, IndInv, Scopes
  <2> HIDE DEF o
  <2> QED
    BY <1>4, <2>1 DEF Peer
<1>6. o # None
  BY <1>4, LocalAssumption
<1> HIDE DEF o, k, m
<1>7. Stores(o, m, k)
  BY <1>1, <1>2, <1>4, <1>5, <1>6 DEF Stores, k
<1> QED
  BY <1>2, <1>3, <1>4, <1>7 DEF o, k, m

(* The map a store is for is the one that is written, or was just now. *)
LEMMA PutAim ==
  ASSUME SerialBase, HeadInv, NEW c \in Calls, NEW g \in Goroutine, g[1] = c, Put(g)
  PROVE  /\ root[c] \in Calls /\ dst[g] \in {HeadMap(root[c]), PrevMap(root[c])}
         /\ g = Task(c) => Aim(c, dst[g])
         /\ g = Handler(c) =>
              /\ pc[Task(c)] = "idle" /\ dst[g] = HeadMap(c) /\ root[c] = c
              /\ \A s \in Slot : Empty(peerMap[c][s])
<1>1. pc[g] = "put" /\ (g = Handler(c) \/ g = Task(c))
  BY PutStores
<1>2. CallHead(c)
  BY DEF HeadInv
<1>3. root[c] \in Calls
  BY <1>1 DEF SerialBase, IndInv, Scopes, Ended
<1>4. g = Handler(c) => pc[Task(c)] = "idle"
  BY <1>1 DEF SerialBase, IndInv, Roles, Storing
<1> QED
  BY <1>1, <1>2, <1>3, <1>4 DEF CallHead, AimsOf, OpensOf, Aim, Storing

LEMMA HeadPut ==
  ASSUME SerialBase, HeadInv, NEW c \in Calls, NEW g \in Goroutine, g[1] = c, Put(g)
  PROVE  HeadInv'
<1>1. PICK o, k :
         /\ Stores(o, dst[g], k)
         /\ UNCHANGED <<peers, peerMap, currentActive, seen>>
         /\ pc[g] = "put" /\ pc'[g] = "done"
         /\ g = Handler(c) \/ g = Task(c)
  BY PutStores
<1>2. /\ root[c] \in Calls /\ dst[g] \in {HeadMap(root[c]), PrevMap(root[c])}
      /\ g = Handler(c) => pc[Task(c)] = "idle"
  BY PutAim
<1>3. InCall(c)
  BY DEF InCall, AnyStep
<1>4. /\ root' = root /\ req' = req /\ serving /\ serving' /\ Born(c) /\ BornAfter(c)
      /\ \A d \in Calls : d # c =>
              /\ pc[Handler(d)] \in Ended /\ pc[Task(d)] \in Ended
              /\ pc'[Handler(d)] = pc[Handler(d)] /\ pc'[Task(d)] = pc[Task(d)]
              /\ at'[d] = at[d] /\ counts'[d] = counts[d] /\ stale'[d] = stale[d]
  BY <1>3, OthersRest
<1>5. Homed'
  BY <1>1, <1>4 DEF HeadInv, Homed, Home
<1>6. Blank'
  BY <1>4 DEF HeadInv, Blank, Born, BornAfter
<1>7. Handler(c) \in Goroutine /\ Task(c) \in Goroutine /\ Handler(c) # Task(c)
  BY Names
<1>8. \A d \in Goroutine : d # g => pc'[d] = pc[d]
  BY SharedMoves DEF AnyStep
<1>9. pc'[Handler(c)] = "empty" <=> pc[Handler(c)] = "empty"
  BY <1>1, <1>7, <1>8
<1>10. Vacant'
  <2> SUFFICES ASSUME NEW r \in Calls
               PROVE  Empty(NextMap(r))' \/ \E d \in Calls : pc'[Handler(d)] = "empty" /\ root'[d] = r
    BY DEF Vacant
  <2>1. NextMap(r)' = NextMap(r) /\ NextMap(r) \in MapRef
    BY <1>1, RingMaps DEF NextMap
  <2>2. NextMap(r) # dst[g]
    <3>1. CASE r = root[c]
      BY <1>2, <3>1, RingMaps
    <3>2. CASE r # root[c]
      <4>1. \A q \in Calls : currentActive[q] \in Slot
        BY DEF SerialBase, IndInv, TypeOK
      <4> QED
        BY <1>2, <3>2, <4>1, Slots, OtherRings DEF NextMap, HeadMap, PrevMap
    <3> QED
      BY <3>1, <3>2
  <2>3. Empty(NextMap(r)) \/ \E d \in Calls : pc[Handler(d)] = "empty" /\ root[d] = r
    BY DEF HeadInv, Vacant
  <2> QED
    BY <1>1, <1>4, <1>9, <2>1, <2>2, <2>3 DEF Empty, Stores
<1>11. CallHead(c)'
  <2>1. CASE g = Handler(c)
    <3>1. pc'[Handler(c)] \in Ended /\ pc'[Task(c)] \in Ended
      BY <1>1, <1>2, <1>7, <1>8, <2>1 DEF Ended
    <3> QED
      BY <3>1, RestingHeadNext
  <2>2. CASE g = Task(c)
    <3>1. pc'[Handler(c)] = pc[Handler(c)] /\ pc'[Task(c)] = "done"
      BY <1>1, <1>7, <1>8, <2>2
    <3>2. pc[Handler(c)] \notin Storing
      BY <1>1, <2>2 DEF SerialBase, IndInv, Roles
    <3>3. TurnsOf(c)
      BY DEF HeadInv, CallHead
    <3> QED
      BY <1>1, <1>4, <3>1, <3>2, <3>3 DEF CallHead, TurnsOf, AimsOf, OpensOf
  <2> QED
    BY <1>1, <2>1, <2>2
<1>12. \A d \in Calls : CallHead(d)'
  <2> SUFFICES ASSUME NEW d \in Calls, d # c PROVE CallHead(d)'
    BY <1>11
  <2> QED
    BY <1>4, RestingHeadNext
<1> QED
  BY <1>4, <1>5, <1>6, <1>10, <1>12 DEF HeadInv, Launch

(* The write head moves on. *)
LEMMA SwapMoves ==
  ASSUME SerialBase, HeadInv, NEW c \in Calls, CompareAndSwap(c)
  PROVE  /\ root[c] \in Calls /\ pc[Handler(c)] = "swap" /\ pc'[Handler(c)] = "empty"
         /\ \A g \in Goroutine : g # Handler(c) => pc'[g] = pc[g]
         /\ UNCHANGED <<maps, peerMap, peers, seen, loops>>
         /\ seen[c] = currentActive[root[c]]
         /\ currentActive'[root[c]] = NextSlot(currentActive[root[c]])
         /\ \A r \in Calls : r # root[c] => currentActive'[r] = currentActive[r]
         /\ HeadMap(root[c])' = NextMap(root[c]) /\ PrevMap(root[c])' = HeadMap(root[c])
         /\ NextMap(root[c])' = PrevMap(root[c])
         /\ \A r \in Calls : r # root[c] =>
              HeadMap(r)' = HeadMap(r) /\ PrevMap(r)' = PrevMap(r) /\ NextMap(r)' = NextMap(r)
         /\ Empty(NextMap(root[c]))
<1>1. /\ pc \in [Goroutine -> Label] /\ currentActive \in [Calls -> Slot] /\ Handler(c) \in Goroutine
  BY Names DEF SerialBase, IndInv, TypeOK
<1>2. pc[Handler(c)] = "swap" /\ UNCHANGED <<maps, peerMap, peers, seen, loops>>
  BY DEF CompareAndSwap, locals
<1>3. root[c] \in Calls
  BY <1>1, <1>2, Names DEF SerialBase, IndInv, Scopes, Ended
<1>4. seen[c] = currentActive[root[c]]
  BY <1>2 DEF HeadInv, CallHead, TurnsOf
<1>5. /\ currentActive' = [currentActive EXCEPT ![root[c]] = NextSlot(seen[c])]
      /\ pc' = [pc EXCEPT ![Handler(c)] = "empty"]
  BY <1>4 DEF CompareAndSwap
<1>6. Empty(NextMap(root[c]))
  <2>1. InCall(c)
    BY DEF InCall, HandlerStep
  <2>2. \A d \in Calls : pc[Handler(d)] # "empty"
    BY <1>2, <2>1, OthersRest DEF Ended
  <2> QED
    BY <1>3, <2>2 DEF HeadInv, Vacant
<1>7. /\ currentActive'[root[c]] = NextSlot(currentActive[root[c]]) /\ root' = root
      /\ \A r \in Calls : r # root[c] => currentActive'[r] = currentActive[r]
  BY <1>1, <1>3, <1>4, <1>5 DEF CompareAndSwap, locals
<1>8. /\ HeadMap(root[c])' = NextMap(root[c]) /\ PrevMap(root[c])' = HeadMap(root[c])
      /\ NextMap(root[c])' = PrevMap(root[c])
  BY <1>1, <1>2, <1>3, <1>7, Slots DEF HeadMap, NextMap, PrevMap
<1> QED
  BY <1>1, <1>2, <1>3, <1>4, <1>5, <1>6, <1>7, <1>8 DEF HeadMap, NextMap, PrevMap

LEMMA HeadSwap ==
  ASSUME SerialBase, HeadInv, NEW c \in Calls, CompareAndSwap(c)
  PROVE  HeadInv'
<1>1. /\ root[c] \in Calls /\ pc[Handler(c)] = "swap" /\ pc'[Handler(c)] = "empty"
      /\ \A g \in Goroutine : g # Handler(c) => pc'[g] = pc[g]
      /\ UNCHANGED <<maps, peerMap, peers, seen, loops>>
      /\ seen[c] = currentActive[root[c]]
      /\ currentActive'[root[c]] = NextSlot(currentActive[root[c]])
      /\ HeadMap(root[c])' = NextMap(root[c]) /\ PrevMap(root[c])' = HeadMap(root[c])
      /\ \A r \in Calls : r # root[c] => NextMap(r)' = NextMap(r)
      /\ Empty(NextMap(root[c]))
  BY SwapMoves
<1>2. InCall(c)
  BY DEF InCall, HandlerStep
<1>3. /\ root' = root /\ req' = req /\ serving /\ serving' /\ Born(c) /\ BornAfter(c)
      /\ \A d \in Calls : d # c =>
              /\ pc[Handler(d)] \in Ended /\ pc[Task(d)] \in Ended
              /\ pc'[Handler(d)] = pc[Handler(d)] /\ pc'[Task(d)] = pc[Task(d)]
              /\ at'[d] = at[d] /\ counts'[d] = counts[d] /\ stale'[d] = stale[d]
  BY <1>2, OthersRest
<1>4. Homed'
  BY <1>1, <1>3 DEF HeadInv, Homed, Home
<1>5. Blank'
  BY <1>3 DEF HeadInv, Blank, Born, BornAfter
<1>6. Vacant'
  <2> SUFFICES ASSUME NEW r \in Calls, r # root[c]
               PROVE  Empty(NextMap(r))'
    BY <1>1, <1>3 DEF Vacant
  <2>1. Empty(NextMap(r))
    BY <1>1, <1>3 DEF HeadInv, Vacant, Ended
  <2> QED
    BY <1>1, <2>1 DEF Empty
<1>7. CallHead(c)'
  <2>1. AimsOf(c)
    BY DEF HeadInv, CallHead
  <2>2. \A n : Aim(c, n) => Aim(c, n)'
    BY <1>1, <1>3 DEF Aim, Empty
  <2>3. Handler(c) \in Goroutine /\ Task(c) \in Goroutine /\ Handler(c) # Task(c)
    BY Names
  <2>4. AimsOf(c)'
    BY <1>1, <1>3, <2>1, <2>2, <2>3 DEF AimsOf, loops
  <2> QED
    BY <1>1, <1>3, <2>4 DEF CallHead, TurnsOf, OpensOf, Storing
<1>8. \A d \in Calls : CallHead(d)'
  <2> SUFFICES ASSUME NEW d \in Calls, d # c PROVE CallHead(d)'
    BY <1>7
  <2> QED
    BY <1>3, RestingHeadNext
<1> QED
  BY <1>3, <1>4, <1>5, <1>6, <1>8 DEF HeadInv, Launch

(* The oldest map is replaced. *)
LEMMA OldestGoes ==
  ASSUME SerialBase, HeadInv, NEW c \in Calls, EmptyOldest(c)
  PROVE  /\ root[c] \in Calls /\ pc[Handler(c)] = "empty" /\ pc'[Handler(c)] = "done"
         /\ \A g \in Goroutine : g # Handler(c) => pc'[g] = pc[g]
         /\ UNCHANGED <<maps, currentActive, peers, seen, loops>>
         /\ Oldest(c) = NextSlot(currentActive[root[c]])
         /\ peerMap'[root[c]][Oldest(c)] = <<c, 3>>
         /\ \A s \in Slot : s # Oldest(c) => peerMap'[root[c]][s] = peerMap[root[c]][s]
         /\ \A r \in Calls : r # root[c] => peerMap'[r] = peerMap[r]
         /\ HeadMap(root[c])' = HeadMap(root[c]) /\ PrevMap(root[c])' = PrevMap(root[c])
         /\ NextMap(root[c])' = <<c, 3>>
         /\ \A r \in Calls : r # root[c] =>
              HeadMap(r)' = HeadMap(r) /\ PrevMap(r)' = PrevMap(r) /\ NextMap(r)' = NextMap(r)
         /\ <<c, 3>> \in MapRef /\ Empty(<<c, 3>>)
         /\ \A r \in Calls : \A s \in Slot : peerMap[r][s] # <<c, 3>>
<1>1. /\ pc \in [Goroutine -> Label] /\ currentActive \in [Calls -> Slot] /\ Handler(c) \in Goroutine
      /\ peerMap \in [Calls -> [Slot -> MapRef]] /\ seen \in [Calls -> Slot]
  BY Names DEF SerialBase, IndInv, TypeOK
<1>2. pc[Handler(c)] = "empty" /\ UNCHANGED <<maps, currentActive, peers, seen, loops, root>>
  BY DEF EmptyOldest, locals
<1>3. root[c] \in Calls
  BY <1>1, <1>2, Names DEF SerialBase, IndInv, Scopes, Ended
<1>4. Oldest(c) = NextSlot(currentActive[root[c]]) /\ Oldest(c) \in Slot
  BY <1>1, <1>2, Slots DEF HeadInv, CallHead, TurnsOf, Oldest
<1>5. /\ pc'[Handler(c)] = "done" /\ \A g \in Goroutine : g # Handler(c) => pc'[g] = pc[g]
      /\ peerMap'[root[c]][Oldest(c)] = <<c, 3>>
      /\ \A s \in Slot : s # Oldest(c) => peerMap'[root[c]][s] = peerMap[root[c]][s]
      /\ \A r \in Calls : r # root[c] => peerMap'[r] = peerMap[r]
  BY <1>1, <1>3, <1>4 DEF EmptyOldest
<1>6. /\ \A k \in PeerID : maps[<<c, 3>>][k] = None
      /\ \A r \in Calls : \A s \in Slot : peerMap[r][s] # <<c, 3>>
  BY <1>2 DEF SerialBase, RingInv, Spare
<1>7. <<c, 3>> \in MapRef
  <2>1. 3 \in 0..3
    OBVIOUS
  <2> QED
    BY <2>1, Indices
<1>8. HeadMap(root[c])' = HeadMap(root[c]) /\ PrevMap(root[c])' = PrevMap(root[c])
      /\ NextMap(root[c])' = <<c, 3>>
  BY <1>1, <1>2, <1>3, <1>4, <1>5, Slots DEF HeadMap, PrevMap, NextMap
<1> QED
  BY <1>1, <1>2, <1>3, <1>4, <1>5, <1>6, <1>7, <1>8 DEF HeadMap, PrevMap, NextMap, Empty

LEMMA HeadEmpties ==
  ASSUME SerialBase, HeadInv, NEW c \in Calls, EmptyOldest(c)
  PROVE  HeadInv'
<1>1. /\ root[c] \in Calls /\ pc[Handler(c)] = "empty" /\ pc'[Handler(c)] = "done"
      /\ \A g \in Goroutine : g # Handler(c) => pc'[g] = pc[g]
      /\ UNCHANGED <<maps, currentActive, peers, seen, loops>>
      /\ peerMap'[root[c]][Oldest(c)] = <<c, 3>>
      /\ \A s \in Slot : s # Oldest(c) => peerMap'[root[c]][s] = peerMap[root[c]][s]
      /\ \A r \in Calls : r # root[c] => peerMap'[r] = peerMap[r]
      /\ HeadMap(root[c])' = HeadMap(root[c]) /\ PrevMap(root[c])' = PrevMap(root[c])
      /\ NextMap(root[c])' = <<c, 3>>
      /\ \A r \in Calls : r # root[c] => NextMap(r)' = NextMap(r)
      /\ Empty(<<c, 3>>)
  BY OldestGoes
<1>2. InCall(c)
  BY DEF InCall, HandlerStep
<1>3. /\ root' = root /\ req' = req /\ serving /\ serving' /\ Born(c) /\ BornAfter(c)
      /\ \A d \in Calls : d # c =>
              /\ pc[Handler(d)] \in Ended /\ pc[Task(d)] \in Ended
              /\ pc'[Handler(d)] = pc[Handler(d)] /\ pc'[Task(d)] = pc[Task(d)]
              /\ at'[d] = at[d] /\ counts'[d] = counts[d] /\ stale'[d] = stale[d]
  BY <1>2, OthersRest
<1>4. Homed'
  <2> SUFFICES ASSUME NEW r \in Calls, NEW s \in Slot PROVE Home(peerMap[r][s])' = r
    BY DEF Homed
  <2>1. CASE r = root[c] /\ s = Oldest(c)
    BY <1>1, <1>3, <2>1 DEF Home
  <2>2. CASE ~(r = root[c] /\ s = Oldest(c))
    <3>1. peerMap'[r][s] = peerMap[r][s]
      BY <1>1, <2>2
    <3> QED
      BY <1>3, <3>1 DEF HeadInv, Homed, Home
  <2> QED
    BY <2>1, <2>2
<1>5. Blank'
  BY <1>3 DEF HeadInv, Blank, Born, BornAfter
<1>6. Vacant'
  <2> SUFFICES ASSUME NEW r \in Calls PROVE Empty(NextMap(r))'
    BY DEF Vacant
  <2>1. CASE r = root[c]
    <3>1. NextMap(r)' = <<c, 3>>
      BY <1>1, <1>3, <2>1 DEF NextMap
    <3> QED
      BY <1>1, <3>1 DEF Empty
  <2>2. CASE r # root[c]
    <3>1. Empty(NextMap(r))
      BY <1>3, <2>2 DEF HeadInv, Vacant, Ended
    <3> QED
      BY <1>1, <2>2, <3>1 DEF Empty
  <2> QED
    BY <2>1, <2>2
<1>7. CallHead(c)'
  <2>1. AimsOf(c)
    BY DEF HeadInv, CallHead
  <2>2. \A n : Aim(c, n) => Aim(c, n)'
    BY <1>1, <1>3 DEF Aim, Empty
  <2>3. Handler(c) \in Goroutine /\ Task(c) \in Goroutine /\ Handler(c) # Task(c)
    BY Names
  <2>4. ASSUME pc[Task(c)] = "readMap"
        PROVE  peerMap'[root[c]][idx[Task(c)]] = peerMap[root[c]][idx[Task(c)]]
    <3>1. peerMap[root[c]][idx[Task(c)]] \in {HeadMap(root[c]), PrevMap(root[c])}
      BY <2>1, <2>4 DEF AimsOf, Aim
    <3>2. peerMap[root[c]][idx[Task(c)]] # NextMap(root[c])
      BY <1>1, <3>1, RingMaps
    <3>3. idx[Task(c)] # Oldest(c)
      BY <3>2, OldestGoes DEF NextMap
    <3>4. idx[Task(c)] \in Slot
      BY <2>3 DEF SerialBase, IndInv, TypeOK
    <3> QED
      BY <1>1, <3>3, <3>4
  <2>5. AimsOf(c)'
    BY <1>1, <1>3, <2>1, <2>2, <2>3, <2>4 DEF AimsOf, loops
  <2> QED
    BY <1>1, <2>5 DEF CallHead, TurnsOf, OpensOf, Storing
<1>8. \A d \in Calls : CallHead(d)'
  <2> SUFFICES ASSUME NEW d \in Calls, d # c PROVE CallHead(d)'
    BY <1>7
  <2> QED
    BY <1>3, RestingHeadNext
<1> QED
  BY <1>3, <1>4, <1>5, <1>6, <1>8 DEF HeadInv, Launch

(* The start of a call: nothing else runs, and the ring is left as it is. *)
LEMMA BeginMoves ==
  ASSUME MaxInflight = 1, SerialBase, NEW c \in Calls, BeginCall(c)
  PROVE  /\ \A g \in Goroutine : pc[g] \in Ended
         /\ pc[Handler(c)] = "idle" /\ pc[Task(c)] = "idle" /\ pc[Reaper(c)] = "idle"
         /\ \A d \in Calls : d # c =>
              /\ pc'[Handler(d)] = pc[Handler(d)] /\ pc'[Task(d)] = pc[Task(d)]
              /\ pc'[Reaper(d)] = pc[Reaper(d)]
              /\ req'[d] = req[d] /\ root'[d] = root[d] /\ peers'[d] = peers[d]
         /\ UNCHANGED <<now, maps, peerMap, currentActive, at, counts, stale, seen, found>>
         /\ last' = c /\ serving /\ serving'
         /\ req'[c] \in Requests /\ req'[c] \in Request /\ req'[c].op # "load"
         /\ pc'[Handler(c)] \in {"done", "readActive", "copyForTake", "copyForRange"}
         /\ pc'[Task(c)] \in {"idle", "copyForTake"} /\ pc'[Reaper(c)] = "idle"
         /\ found[Task(c)] = None /\ peers[c] = None
         /\ pc'[Task(c)] = "copyForTake" =>
              /\ key'[Task(c)] = req'[c].peerID /\ peers'[c] = NewPeer(req'[c])
              /\ req'[c].op = "announce" /\ pc'[Handler(c)] = "copyForRange"
         /\ pc'[Handler(c)] = "readActive" => root'[c] = c
         /\ peers'[c] \in {None, NewPeer(req'[c])} /\ NewPeer(req'[c]) \in Peer
<1>1. PICK r \in Requests :
        /\ Begin(c, r)
        /\ \/ AnnounceInvalid(c, r) \/ AnnounceFirst(c, r) \/ AnnounceStopped(c, r)
           \/ AnnounceKnown(c, r) \/ ScrapeWithoutRoot(c, r) \/ Scrape(c, r)
           \/ CleanUp(c, r) \/ DeleteInfoHash(c, r)
  BY DEF BeginCall, AnnounceInvalid, AnnounceFirst, AnnounceStopped, AnnounceKnown,
         ScrapeWithoutRoot, Scrape, CleanUp, DeleteInfoHash
<1>2. Running = {} /\ last' = c /\ serving /\ serving' /\ req'[c] = r
  BY <1>1, BeginsAlone DEF SerialBase
<1>3. /\ pc \in [Goroutine -> Label] /\ key \in [Goroutine -> PeerID \cup {None}]
      /\ root \in [Calls -> Calls \cup {None}] /\ req \in [Calls -> Request \cup {None}]
      /\ peers \in [Calls -> Peer \cup {None}]
  BY DEF SerialBase, IndInv, TypeOK
<1>4. /\ \A g \in Goroutine : g[1] = c => pc[g] = "idle" /\ found[g] = None
      /\ peers[c] = None /\ r \in Request /\ NewPeer(r) \in Peer
  BY <1>1, Starting DEF SerialBase
<1>5. \A g \in Goroutine : pc[g] \in Ended
  BY <1>2, AtWork DEF SerialBase
<1>6. r.op # "load"
  BY <1>1 DEF AnnounceInvalid, AnnounceFirst, AnnounceStopped, AnnounceKnown,
              ScrapeWithoutRoot, Scrape, CleanUp, DeleteInfoHash
<1>7. UNCHANGED <<now, maps, peerMap, currentActive, at, counts, stale, seen, found>>
  BY <1>1 DEF AnnounceInvalid, AnnounceFirst, AnnounceStopped, AnnounceKnown,
              ScrapeWithoutRoot, Scrape, CleanUp, DeleteInfoHash, Begin, clock, store, loops
<1>8. \A d \in Calls : d # c => req'[d] = req[d] /\ root'[d] = root[d] /\ peers'[d] = peers[d]
  <2>1. \A d \in Calls : d # c => req'[d] = req[d]
    BY <1>1, <1>3 DEF Begin
  <2>2. \A d \in Calls : d # c => root'[d] = root[d]
    BY <1>1, <1>3 DEF AnnounceInvalid, AnnounceFirst, AnnounceStopped, AnnounceKnown,
              ScrapeWithoutRoot, Scrape, CleanUp, DeleteInfoHash
  <2>3. \A d \in Calls : d # c => peers'[d] = peers[d]
    BY <1>1, <1>3 DEF AnnounceInvalid, AnnounceFirst, AnnounceStopped, AnnounceKnown,
              ScrapeWithoutRoot, Scrape, CleanUp, DeleteInfoHash, store
  <2> QED
    BY <2>1, <2>2, <2>3
<1>9. peers'[c] \in {None, NewPeer(r)}
  BY <1>1, <1>3, <1>4 DEF AnnounceInvalid, AnnounceFirst, AnnounceStopped, AnnounceKnown,
              ScrapeWithoutRoot, Scrape, CleanUp, DeleteInfoHash, store
<1>10. \/ \E l \in {"done", "copyForTake", "copyForRange"} : pc' = [pc EXCEPT ![Handler(c)] = l]
       \/ pc' = [pc EXCEPT ![Handler(c)] = "readActive"] /\ root'[c] = c
       \/ /\ pc' = [pc EXCEPT ![Handler(c)] = "copyForRange", ![Task(c)] = "copyForTake"]
          /\ key' = [key EXCEPT ![Task(c)] = r.peerID]
          /\ peers' = [peers EXCEPT ![c] = NewPeer(r)]
          /\ r.op = "announce"
  <2>1. CASE AnnounceFirst(c, r)
    BY <1>3, <2>1 DEF AnnounceFirst
  <2>2. CASE AnnounceKnown(c, r)
    BY <2>2 DEF AnnounceKnown
  <2>3. CASE ~AnnounceFirst(c, r) /\ ~AnnounceKnown(c, r)
    BY <1>1, <2>3 DEF AnnounceInvalid, AnnounceStopped, ScrapeWithoutRoot, Scrape, CleanUp,
                      DeleteInfoHash
  <2> QED
    BY <2>1, <2>2, <2>3
<1>11. /\ Handler(c) \in Goroutine /\ Task(c) \in Goroutine /\ Reaper(c) \in Goroutine
       /\ Handler(c) # Task(c) /\ Handler(c) # Reaper(c) /\ Task(c) # Reaper(c)
       /\ Handler(c)[1] = c /\ Task(c)[1] = c /\ Reaper(c)[1] = c
  BY Names
<1>12. /\ pc'[Handler(c)] \in {"done", "readActive", "copyForTake", "copyForRange"}
       /\ pc'[Task(c)] \in {"idle", "copyForTake"} /\ pc'[Reaper(c)] = "idle"
       /\ pc'[Task(c)] = "copyForTake" =>
              /\ key'[Task(c)] = r.peerID /\ peers'[c] = NewPeer(r)
              /\ r.op = "announce" /\ pc'[Handler(c)] = "copyForRange"
       /\ pc'[Handler(c)] = "readActive" => root'[c] = c
  BY <1>3, <1>4, <1>10, <1>11
<1>13. \A d \in Calls : d # c =>
              /\ pc'[Handler(d)] = pc[Handler(d)] /\ pc'[Task(d)] = pc[Task(d)]
              /\ pc'[Reaper(d)] = pc[Reaper(d)]
  BY <1>3, <1>10, Names
<1> QED
  BY <1>1, <1>2, <1>4, <1>5, <1>6, <1>7, <1>8, <1>9, <1>11, <1>12, <1>13

LEMMA HeadBegins ==
  ASSUME MaxInflight = 1, SerialBase, HeadInv, NEW c \in Calls, BeginCall(c)
  PROVE  HeadInv'
<1>1. /\ \A g \in Goroutine : pc[g] \in Ended
      /\ pc[Handler(c)] = "idle" /\ pc[Task(c)] = "idle"
      /\ \A d \in Calls : d # c =>
           /\ pc'[Handler(d)] = pc[Handler(d)] /\ pc'[Task(d)] = pc[Task(d)]
           /\ req'[d] = req[d] /\ root'[d] = root[d]
      /\ UNCHANGED <<maps, peerMap, currentActive, at, counts, stale>>
      /\ serving'
      /\ pc'[Handler(c)] \in {"done", "readActive", "copyForTake", "copyForRange"}
      /\ pc'[Task(c)] \in {"idle", "copyForTake"}
      /\ pc'[Handler(c)] = "readActive" => root'[c] = c
  BY BeginMoves
<1>2. \A d \in Calls : pc[Handler(d)] \in Ended /\ pc[Task(d)] \in Ended
  BY <1>1, Names
<1>3. Homed'
  <2> SUFFICES ASSUME NEW r \in Calls, NEW s \in Slot PROVE Home(peerMap[r][s])' = r
    BY DEF Homed
  <2>1. peerMap[r][s] \in MapRef /\ peerMap[r][s] # <<c, 3>>
    BY <1>1, RingMaps DEF SerialBase, RingInv, Spare
  <2>2. peerMap[r][s][1] \in Calls /\ (peerMap[r][s][2] = 3 => peerMap[r][s][1] # c)
    BY <2>1 DEF MapRef
  <2> QED
    BY <1>1, <2>2 DEF HeadInv, Homed, Home
<1>4. Blank'
  BY <1>1 DEF HeadInv, Blank, Born
<1>5. Vacant'
  <2> SUFFICES ASSUME NEW r \in Calls PROVE Empty(NextMap(r))'
    BY DEF Vacant
  <2>1. Empty(NextMap(r))
    BY <1>2 DEF HeadInv, Vacant, Ended
  <2> QED
    BY <1>1, <2>1 DEF Empty, NextMap
<1>6. CallHead(c)'
  <2>1. \A s \in Slot : Empty(peerMap[c][s])
    <3>1. \A s \in Slot : s \in 0..3
      BY DEF Slot
    <3>2. /\ \A s \in Slot : peerMap[c][s] = <<c, s>>
          /\ \A i \in 0..3 : \A k \in PeerID : maps[<<c, i>>][k] = None
      BY <1>1 DEF SerialBase, RingInv, Unborn, Born
    <3> QED
      BY <3>1, <3>2 DEF Empty
  <2> QED
    BY <1>1, <2>1 DEF CallHead, TurnsOf, AimsOf, OpensOf, Storing, Empty
<1>7. \A d \in Calls : CallHead(d)'
  <2> SUFFICES ASSUME NEW d \in Calls, d # c PROVE CallHead(d)'
    BY <1>6
  <2> QED
    BY <1>1, <1>2, RestingHeadNext
<1> QED
  BY <1>1, <1>3, <1>4, <1>5, <1>7 DEF HeadInv, Launch

(* DirectStore puts a record into the map that its torrent writes to. *)
LEMMA DirectMoves ==
  ASSUME SerialBase, HeadInv, NEW c \in Calls, NEW r \in Requests, NEW t \in 0..now,
         DirectStore(c, r, t)
  PROVE  /\ \A g \in Goroutine : pc[g] \in Ended
         /\ ~serving /\ ~serving' /\ last' = last /\ last = None /\ now' = now
         /\ \A g \in Goroutine : pc'[g] \in Ended
         /\ pc[Handler(c)] = "idle" /\ pc'[Handler(c)] = "done"
         /\ UNCHANGED <<peerMap, currentActive, at, counts, stale>>
         /\ \A d \in Calls : d # c =>
              /\ pc'[Handler(d)] = pc[Handler(d)] /\ req'[d] = req[d] /\ root'[d] = root[d]
              /\ peers'[d] = peers[d]
         /\ r \in Request /\ r.op = "load" /\ req'[c] = r /\ req[c] = None
         /\ peers[c] = None /\ peers'[c] \in Peer /\ peers'[c].lastSeen <= now
         /\ \E h \in Calls : \A m \in MapRef : \A k \in PeerID :
              maps'[m][k] = IF m = HeadMap(h) /\ k = r.peerID THEN c ELSE maps[m][k]
<1>1. /\ pc \in [Goroutine -> Label] /\ infoHashMap \in [InfoHash -> Calls \cup {None}]
      /\ root \in [Calls -> Calls \cup {None}] /\ req \in [Calls -> Request \cup {None}]
      /\ peers \in [Calls -> Peer \cup {None}] /\ now \in Nat
      /\ maps \in [MapRef -> [PeerID -> Calls \cup {None}]] /\ serving \in BOOLEAN
      /\ last \in Calls \cup {None}
  BY DEF SerialBase, IndInv, TypeOK
<1>2. /\ ~serving /\ ~serving' /\ last' = last /\ now' = now /\ pc[Handler(c)] = "idle"
      /\ r \in Request /\ r.op = "load" /\ req' = [req EXCEPT ![c] = r]
      /\ pc' = [pc EXCEPT ![Handler(c)] = "done"]
      /\ UNCHANGED <<peerMap, currentActive, at, counts, stale>>
      /\ peers' = [peers EXCEPT ![c] = [NewPeer(r) EXCEPT !.lastSeen = t]]
  BY LocalAssumption DEF DirectStore, clock, history
<1>3. last = None /\ Running = {}
  BY <1>2, LocalAssumption DEF SerialBase, Alone, Running
<1>4. \A g \in Goroutine : pc[g] \in Ended
  BY <1>3, AtWork DEF SerialBase
<1>5. Handler(c) \in Goroutine
  BY Names
<1>6. \A g \in Goroutine : pc'[g] = IF g = Handler(c) THEN "done" ELSE pc[g]
  BY <1>1, <1>2, <1>5
<1>7. peers[c] = None /\ req[c] = None
  BY <1>2 DEF SerialBase, IndInv, Roles, HeadInv, Blank, Born
<1>8. peers'[c] \in Peer /\ peers'[c].lastSeen <= now
  <2>1. t \in Nat /\ t <= now
    BY <1>1
  <2>2. /\ r.peerID \in PeerID /\ r.ep \in Endpoint /\ r.left \in Nat /\ r.event \in PeerEvent
    BY <1>2 DEF Request
  <2>3. NewPeer(r) \in Peer
    BY <1>1, <2>2 DEF NewPeer, Peer
  <2>4. peers'[c] = [NewPeer(r) EXCEPT !.lastSeen = t]
    BY <1>1, <1>2
  <2> QED
    BY <2>1, <2>3, <2>4 DEF Peer
<1>9. PICK h \in Calls :
        /\ maps' = [maps EXCEPT ![HeadMap(h)] = [maps[HeadMap(h)] EXCEPT ![r.peerID] = c]]
        /\ root' = [root EXCEPT ![c] = h]
  <2> DEFINE h == IF infoHashMap[r.infoHash] = None THEN c ELSE infoHashMap[r.infoHash]
  <2>1. h \in Calls
    BY <1>1, <1>2 DEF Request
  <2>2. /\ maps' = [maps EXCEPT ![HeadMap(h)] = [maps[HeadMap(h)] EXCEPT ![r.peerID] = c]]
        /\ root' = [root EXCEPT ![c] = h]
    BY DEF DirectStore, HeadMap
  <2> QED
    BY <2>1, <2>2
<1>10. \A m \in MapRef : \A k \in PeerID :
              maps'[m][k] = IF m = HeadMap(h) /\ k = r.peerID THEN c ELSE maps[m][k]
  BY <1>1, <1>9
<1>11. \A d \in Calls : d # c =>
              /\ pc'[Handler(d)] = pc[Handler(d)] /\ req'[d] = req[d] /\ root'[d] = root[d]
              /\ peers'[d] = peers[d]
  <2>1. \A d \in Calls : d # c => Handler(d) # Handler(c) /\ Handler(d) \in Goroutine
    BY Names
  <2> QED
    BY <1>1, <1>2, <1>6, <1>9, <2>1
<1> QED
  BY <1>1, <1>2, <1>3, <1>4, <1>5, <1>6, <1>7, <1>8, <1>10, <1>11 DEF Ended

LEMMA HeadDirect ==
  ASSUME SerialBase, HeadInv, NEW c \in Calls, NEW r \in Requests, NEW t \in 0..now,
         DirectStore(c, r, t)
  PROVE  HeadInv'
<1>1. /\ \A g \in Goroutine : pc[g] \in Ended /\ pc'[g] \in Ended
      /\ ~serving /\ pc[Handler(c)] = "idle" /\ pc'[Handler(c)] = "done"
      /\ UNCHANGED <<peerMap, currentActive, at, counts, stale>>
      /\ \A d \in Calls : d # c =>
           pc'[Handler(d)] = pc[Handler(d)] /\ req'[d] = req[d] /\ root'[d] = root[d]
  BY DirectMoves
<1>2. PICK h \in Calls : \A m \in MapRef : \A k \in PeerID :
              maps'[m][k] = IF m = HeadMap(h) /\ k = r.peerID THEN c ELSE maps[m][k]
  BY DirectMoves
<1>3. Homed'
  <2> SUFFICES ASSUME NEW q \in Calls, NEW s \in Slot PROVE Home(peerMap[q][s])' = q
    BY DEF Homed
  <2>1. peerMap[q][s] \in MapRef /\ peerMap[q][s] # <<c, 3>>
    BY <1>1, RingMaps DEF SerialBase, RingInv, Spare
  <2>2. peerMap[q][s][1] \in Calls /\ (peerMap[q][s][2] = 3 => peerMap[q][s][1] # c)
    BY <2>1 DEF MapRef
  <2> QED
    BY <1>1, <2>2 DEF HeadInv, Homed, Home
<1>4. Blank'
  BY <1>1 DEF HeadInv, Blank, Born
<1>5. \A q \in Calls : currentActive[q] = 0 /\ Empty(peerMap[q][1]) /\ Empty(peerMap[q][2])
  BY <1>1 DEF HeadInv, Launch
<1>6. \A q \in Calls : \A s \in {1, 2} : peerMap[q][s] # HeadMap(h) /\ peerMap[q][s] \in MapRef
  <2> SUFFICES ASSUME NEW q \in Calls, NEW s \in {1, 2}
               PROVE  peerMap[q][s] # HeadMap(h) /\ peerMap[q][s] \in MapRef
    OBVIOUS
  <2>1. s \in Slot /\ 0 \in Slot /\ s # 0
    BY DEF Slot
  <2>2. peerMap[q][s] \in MapRef
    BY <2>1, RingMaps
  <2>3. HeadMap(h) = peerMap[h][0]
    BY <1>5 DEF HeadMap
  <2>4. CASE q = h
    BY <2>1, <2>2, <2>3, <2>4 DEF SerialBase, RingInv, Apart
  <2>5. CASE q # h
    BY <2>1, <2>2, <2>3, <2>5, OtherRings
  <2> QED
    BY <2>4, <2>5
<1>7. \A q \in Calls : \A s \in {1, 2} : Empty(peerMap[q][s])'
  BY <1>1, <1>2, <1>5, <1>6 DEF Empty
<1>8. Launch'
  BY <1>1, <1>5, <1>7 DEF Launch
<1>9. Vacant'
  <2>1. NextSlot(0) = 1
    BY DEF NextSlot
  <2> QED
    BY <1>1, <1>5, <1>7, <2>1 DEF Vacant, NextMap
<1>10. \A d \in Calls : CallHead(d)'
  BY <1>1, Names, RestingHeadNext
<1> QED
  BY <1>3, <1>4, <1>8, <1>9, <1>10 DEF HeadInv

LEMMA HeadInit == Init => HeadInv
<1> SUFFICES ASSUME Init PROVE HeadInv
  OBVIOUS
<1>1. \A c \in Calls : pc[Handler(c)] = "idle" /\ pc[Task(c)] = "idle"
  BY Names DEF Init
<1>2. \A r \in Calls : \A s \in Slot : peerMap[r][s] = <<r, s>> /\ s # 3
  BY DEF Init, Slot
<1>3. Homed
  BY <1>2 DEF Homed, Home
<1>4. \A r \in Calls : \A s \in Slot : Empty(peerMap[r][s])
  <2>1. \A s \in Slot : s \in 0..3
    BY DEF Slot
  <2> QED
    BY <1>2, <2>1, Indices DEF Init, Empty
<1>5. Vacant /\ Launch
  <2>1. \A r \in Calls : currentActive[r] = 0
    BY DEF Init
  <2>2. NextSlot(0) = 1 /\ 1 \in Slot /\ 2 \in Slot
    BY DEF NextSlot, Slot
  <2> QED
    BY <1>4, <2>1, <2>2 DEF Vacant, Launch, NextMap
<1>6. Blank
  BY DEF Init, Blank
<1>7. \A c \in Calls : CallHead(c)
  BY <1>1, RestingHead DEF Ended
<1> QED
  BY <1>3, <1>5, <1>6, <1>7 DEF HeadInv

LEMMA HeadStep ==
  ASSUME MaxInflight = 1, SerialBase, HeadInv, [Next]_vars
  PROVE  HeadInv'
<1>1. CASE \E c \in Calls, r \in Requests, t \in 0..now : DirectStore(c, r, t)
  BY <1>1, HeadDirect
<1>2. CASE Serve \/ Tick \/ Finished \/ UNCHANGED vars
  <2>1. UNCHANGED <<store, locals, pc, loops>> /\ (serving => serving')
    BY <1>2 DEF Serve, Tick, Finished, vars, clock
  <2> QED
    BY <2>1 DEF HeadInv, Homed, Home, Blank, Born, Vacant, Launch, CallHead, TurnsOf, AimsOf, Aim,
                OpensOf, HeadMap, NextMap, PrevMap, Empty, store, locals, loops
<1>3. CASE \E c \in Calls : BeginCall(c)
  BY <1>3, HeadBegins
<1>4. CASE \E c \in Calls : HandlerStep(c)
  BY <1>4, HeadLooks, HeadSwap, HeadEmpties DEF HandlerStep, Looking
<1>5. CASE \E c \in Calls : TaskStep(c) \/ ReaperStep(c)
  BY <1>5, Names, HeadShared
<1>6. CASE \E g \in Goroutine : AnyStep(g)
  BY <1>6, Names, HeadShared, HeadPut
<1> QED
  BY <1>1, <1>2, <1>3, <1>4, <1>5, <1>6 DEF Next

LEMMA HeadInductive ==
  ASSUME MaxInflight = 1
  PROVE  Spec => []HeadInv
<1>1. SerialBase /\ HeadInv /\ [Next]_vars => HeadInv'
  BY HeadStep
<1> QED
  BY <1>1, HeadInit, SerialBaseInductive, PTL DEF Spec

-----------------------------------------------------------------------------
(* No peer is in two maps of a ring (Sole), because the task has taken it  *)
(* out of all three before it stores it (TakesOut).                        *)

Sole ==
  \A r \in Calls : \A s, t \in Slot : \A k \in PeerID :
    s # t => maps[peerMap[r][s]][k] = None \/ maps[peerMap[r][t]][k] = None
TakesOut(c) ==
  LET t == Task(c)
      R == peerMap[root[c]]
      k == req[c].peerID
  IN  /\ pc[t] \notin Ended => peers[c].id = k
      /\ pc[t] \in {"copyForTake", "take"} => key[t] = k
      /\ pc[t] # "idle" /\ found[t] # None => peers[found[t]].id = k
      /\ pc[t] = "take" => \A s \in Slot :
           /\ s < pos[t] => maps[copy[t][s]][k] = None
           /\ R[s] = copy[t][s] \/ maps[R[s]][k] = None
      /\ pc[t] \in {"update"} \cup Storing => Absent(root[c], k)
SoleInv == Sole /\ \A c \in Calls : TakesOut(c)

(* The steps of a call that at most take peers out of maps. *)
Shrinks == \A m \in MapRef : \A k \in PeerID : maps'[m][k] = maps[m][k] \/ maps'[m][k] = None

(* No step of a call changes the id of a record. *)
LEMMA IdsLast ==
  ASSUME SerialBase, NEW c \in Calls, InCall(c)
  PROVE  \A o \in Calls : peers'[o].id = peers[o].id
<1>1. CASE TaskStep(c)
  <2>1. /\ peers \in [Calls -> Peer \cup {None}] /\ found[Task(c)] \in Calls
        /\ peers[found[Task(c)]] \in Peer
    BY <1>1, Names, LocalAssumption DEF TaskStep, UpdateKnown, SerialBase, IndInv, TypeOK, Scopes, Held, Admissible
  <2>2. peers' = [peers EXCEPT ![found[Task(c)]] = Refreshed(peers[found[Task(c)]], peers[c])]
    BY <1>1, <2>1 DEF TaskStep, UpdateKnown
  <2>3. Refreshed(peers[found[Task(c)]], peers[c]).id = peers[found[Task(c)]].id
    BY <2>1 DEF Refreshed, Peer
  <2> QED
    BY <2>1, <2>2, <2>3
<1>2. CASE ~TaskStep(c)
  BY <1>2 DEF InCall, HandlerStep, CopyForRange, RangeSlot, CheckLen, ReadCurrent, CompareAndSwap,
              EmptyOldest, CleanNext, DropRoot, ReaperStep, NextExpired, Remove, AnyStep,
              CopyForTake, Take, ReadActive, ReadMap, Put, store
<1> QED
  BY <1>1, <1>2

LEMMA RestingTakesNext ==
  ASSUME SerialBase', NEW c \in Calls, pc'[Task(c)] \in Ended
  PROVE  TakesOut(c)'
<1>1. found'[Task(c)] = None
  BY Names DEF SerialBase, IndInv, Scopes, Ended, Storing
<1> QED
  BY <1>1 DEF TakesOut, Ended, Storing

(* What the task of a call has done lasts while others move. *)
LEMMA TakesLasts ==
  ASSUME SerialBase, NEW c \in Calls, InCall(c), TakesOut(c), Shrinks,
         pc'[Task(c)] = pc[Task(c)], key'[Task(c)] = key[Task(c)], copy'[Task(c)] = copy[Task(c)],
         pos'[Task(c)] = pos[Task(c)], found'[Task(c)] = found[Task(c)],
         root[c] \in Calls,
         \A s \in Slot : peerMap'[root[c]][s] = peerMap[root[c]][s]
                         \/ \A k \in PeerID : maps'[peerMap'[root[c]][s]][k] = None
  PROVE  TakesOut(c)'
<1> DEFINE t == Task(c)
           k == req[c].peerID
<1>1. root' = root /\ req' = req
  BY OthersRest
<1>2. found[t] \in Calls \cup {None} /\ t \in Goroutine
  BY Names DEF SerialBase, IndInv, TypeOK
<1>3. \A o \in Calls : peers'[o].id = peers[o].id
  BY IdsLast
<1>4. pc[t] \notin Ended => req[c] \in Request /\ k \in PeerID
  BY <1>2, Names DEF SerialBase, IndInv, Scopes, Request
<1>5. pc[t] = "take" => copy[t] \in [Slot -> MapRef]
  BY <1>2 DEF SerialBase, IndInv, Scopes
<1>6. \A s \in Slot : peerMap[root[c]][s] \in MapRef
  BY RingMaps
<1>7. \A s \in Slot : k \in PeerID /\ maps[peerMap[root[c]][s]][k] = None =>
         maps'[peerMap'[root[c]][s]][k] = None
  BY <1>6 DEF Shrinks
<1>8. pc[t] = "take" => \A s \in Slot :
           /\ s < pos[t] => maps'[copy[t][s]][k] = None
           /\ peerMap'[root[c]][s] = copy[t][s] \/ maps'[peerMap'[root[c]][s]][k] = None
  BY <1>4, <1>5, <1>7 DEF TakesOut, Shrinks, Ended
<1>9. pc[t] \in {"update"} \cup Storing => Absent(root[c], k)'
  BY <1>1, <1>4, <1>7 DEF TakesOut, Absent, Storing, Ended
<1>10. /\ pc[t] \notin Ended => peers'[c].id = k
       /\ pc[t] \in {"copyForTake", "take"} => key[t] = k
       /\ pc[t] # "idle" /\ found[t] # None => peers'[found[t]].id = k
  BY <1>2, <1>3 DEF TakesOut
<1> QED
  BY <1>1, <1>8, <1>9, <1>10 DEF TakesOut

(* No peer is in two maps of a ring when none is added. *)
LEMMA SoleShrinks ==
  ASSUME SerialBase, Sole, Shrinks,
         \A r \in Calls : \A s \in Slot : peerMap'[r][s] = peerMap[r][s]
           \/ \A k \in PeerID : maps'[peerMap'[r][s]][k] = None
  PROVE  Sole'
<1> SUFFICES ASSUME NEW r \in Calls, NEW s \in Slot, NEW t \in Slot, NEW k \in PeerID, s # t
             PROVE  maps'[peerMap'[r][s]][k] = None \/ maps'[peerMap'[r][t]][k] = None
  BY DEF Sole
<1>1. peerMap[r][s] \in MapRef /\ peerMap[r][t] \in MapRef
  BY RingMaps
<1> QED
  BY <1>1 DEF Sole, Shrinks

(* The task's own steps. *)
LEMMA TaskTakes ==
  ASSUME SerialBase, SerialBase', NEW c \in Calls, TakesOut(c),
         Take(Task(c))
  PROVE  TakesOut(c)'
<1> DEFINE t == Task(c)
           k == req[c].peerID
           R == peerMap[root[c]]
           m == copy[t][pos[t]]
           f == Newest(found[t], maps[m][key[t]])
<1>1. InCall(c) /\ t \in Goroutine /\ t[1] = c /\ t[2] = "task"
  BY Names DEF InCall, AnyStep
<1>2. root' = root /\ req' = req
  BY <1>1, OthersRest
<1>3. /\ pc \in [Goroutine -> Label] /\ copy \in [Goroutine -> [Slot -> MapRef] \cup {None}]
      /\ pos \in [Goroutine -> Slot] /\ found \in [Goroutine -> Calls \cup {None}]
  BY DEF SerialBase, IndInv, TypeOK
<1>4. /\ pc[t] = "take" /\ peerMap' = peerMap /\ peers' = peers /\ key' = key
      /\ found' = [found EXCEPT ![t] = f]
      /\ \/ pos[t] < 2 /\ pos' = [pos EXCEPT ![t] = pos[t] + 1] /\ UNCHANGED <<pc, copy>>
         \/ pos[t] = 2 /\ pc' = [pc EXCEPT ![t] = AfterTake(t, f)]
  <2>1. pos[t] \in Slot /\ (~(pos[t] < 2) => pos[t] = 2)
    BY <1>1, <1>3 DEF Slot
  <2> QED
    BY <1>1, <2>1 DEF Take
<1>5. root[c] \in Calls /\ k \in PeerID /\ copy[t] \in [Slot -> MapRef] /\ key[t] = k
  BY <1>1, <1>4 DEF SerialBase, IndInv, Scopes, Ended, Request, TakesOut
<1>6. PICK n \in MapRef, j \in PeerID :
           /\ n = m /\ j = key[t]
           /\ \A b \in MapRef : \A i \in PeerID :
                maps'[b][i] = IF b = n /\ i = j THEN None ELSE maps[b][i]
  BY <1>1, TakesOne
<1>7. f # None => peers[f].id = k
  <2>1. maps[m][k] # None => peers[maps[m][k]].id = k
    BY <1>5, <1>6 DEF SerialBase, IndInv, StoredAdmissible, Keys
  <2>2. found[t] # None => peers[found[t]].id = k
    BY <1>4 DEF TakesOut
  <2> QED
    BY <1>5, <2>1, <2>2 DEF Newest
<1>8. found'[t] = f /\ peers'[c].id = k
  BY <1>1, <1>3, <1>4 DEF TakesOut, Ended
<1>9. \A s \in Slot : R[s] \in MapRef /\ copy[t][s] \in MapRef
  BY <1>5, RingMaps
<1>10. \A s \in Slot :
         /\ s < pos[t] \/ s = pos[t] => maps'[copy[t][s]][k] = None
         /\ R[s] = copy[t][s] \/ maps'[R[s]][k] = None
  BY <1>4, <1>5, <1>6, <1>9 DEF TakesOut
<1> HIDE DEF f, m
<1>11. CASE pos[t] < 2 /\ pos' = [pos EXCEPT ![t] = pos[t] + 1] /\ UNCHANGED <<pc, copy>>
  <2>1. pos'[t] = pos[t] + 1 /\ pos[t] \in Slot
    BY <1>1, <1>3, <1>11
  <2>2. \A s \in Slot : s < pos'[t] => s < pos[t] \/ s = pos[t]
    BY <2>1 DEF Slot
  <2> QED
    BY <1>2, <1>4, <1>5, <1>7, <1>8, <1>10, <1>11, <2>2 DEF TakesOut, Storing
<1>12. CASE pos[t] = 2 /\ pc' = [pc EXCEPT ![t] = AfterTake(t, f)]
  <2>1. pc'[t] \in {"update", "readActive", "done"}
    <3>1. AfterTake(t, f) \in {"update", "readActive", "done"}
      BY <1>1 DEF AfterTake
    <3> QED
      BY <1>1, <1>3, <1>12, <3>1
  <2>2. Absent(root[c], k)'
    <3>1. \A s \in Slot : s < pos[t] \/ s = pos[t]
      BY <1>12 DEF Slot
    <3> QED
      BY <1>2, <1>4, <1>10, <3>1 DEF Absent
  <2> QED
    BY <1>2, <1>4, <1>7, <1>8, <2>1, <2>2 DEF TakesOut, Storing
<1> QED
  BY <1>4, <1>11, <1>12

LEMMA TaskOthers ==
  ASSUME SerialBase, SerialBase', NEW c \in Calls, TakesOut(c),
         CopyForTake(Task(c)) \/ ReadActive(Task(c)) \/ ReadMap(Task(c)) \/ UpdateKnown(c)
  PROVE  TakesOut(c)'
<1> DEFINE t == Task(c)
<1>1. InCall(c) /\ t \in Goroutine /\ t[1] = c
  BY Names DEF InCall, AnyStep, TaskStep
<1>2. root' = root /\ req' = req /\ \A o \in Calls : peers'[o].id = peers[o].id
  BY <1>1, OthersRest, IdsLast
<1>3. /\ pc \in [Goroutine -> Label] /\ copy \in [Goroutine -> [Slot -> MapRef] \cup {None}]
      /\ pos \in [Goroutine -> Slot] /\ found \in [Goroutine -> Calls \cup {None}]
  BY DEF SerialBase, IndInv, TypeOK
<1>4. /\ UNCHANGED <<maps, peerMap, found, key>>
      /\ pc[t] \in {"copyForTake", "update", "readActive", "readMap"}
  BY DEF CopyForTake, ReadActive, ReadMap, UpdateKnown, store, loops
<1>5. found[t] \in Calls \cup {None} /\ t \in Goroutine
  BY <1>1, <1>3
<1>6. /\ peers'[c].id = req[c].peerID
      /\ found[t] # None => peers'[found[t]].id = req[c].peerID
  BY <1>2, <1>4, <1>5 DEF TakesOut, Ended
<1>7. CASE CopyForTake(t)
  <2>1. /\ pc[t] = "copyForTake" /\ pc'[t] = "take" /\ pos'[t] = 0
        /\ copy'[t] = peerMap[root[c]]
    BY <1>1, <1>3, <1>7 DEF CopyForTake
  <2>2. \A s \in Slot : ~(s < 0)
    BY DEF Slot
  <2> QED
    BY <1>2, <1>4, <1>6, <2>1, <2>2 DEF TakesOut, Storing
<1>8. CASE ~CopyForTake(t)
  <2>1. pc[t] \in {"update"} \cup Storing /\ pc'[t] \in Storing
    BY <1>1, <1>3, <1>8 DEF ReadActive, ReadMap, UpdateKnown, Storing
  <2>2. Absent(root[c], req[c].peerID)'
    BY <1>2, <1>4, <2>1 DEF TakesOut, Absent
  <2> QED
    BY <1>2, <1>4, <1>6, <2>1, <2>2 DEF TakesOut, Storing
<1> QED
  BY <1>7, <1>8

(* A store leaves the peer in one map. *)
LEMMA SolePut ==
  ASSUME SerialBase, HeadInv, SoleInv, NEW c \in Calls, NEW g \in Goroutine, g[1] = c, Put(g)
  PROVE  Sole'
<1> DEFINE o == IF found[g] # None THEN found[g] ELSE c
           k == peers[o].id
<1>1. /\ Stores(o, dst[g], k) /\ peerMap' = peerMap /\ pc[g] = "put"
      /\ g = Handler(c) \/ g = Task(c)
  BY PutStores
<1>2. /\ root[c] \in Calls /\ dst[g] \in {HeadMap(root[c]), PrevMap(root[c])}
      /\ g = Handler(c) => root[c] = c /\ \A s \in Slot : Empty(peerMap[c][s])
  BY PutAim
<1>3. k \in PeerID
  BY <1>1 DEF Stores
<1>4. \A s \in Slot : maps[peerMap[root[c]][s]][k] = None
  <2>1. CASE g = Handler(c)
    BY <1>2, <1>3, <2>1 DEF Empty
  <2>2. CASE g = Task(c)
    <3>1. TakesOut(c)
      BY DEF SoleInv
    <3>2. k = req[c].peerID
      BY <1>1, <2>2, <3>1 DEF TakesOut, Ended
    <3> QED
      BY <1>1, <2>2, <3>1, <3>2 DEF TakesOut, Absent, Storing
  <2> QED
    BY <1>1, <2>1, <2>2
<1> HIDE DEF k, o
<1>5. \A r \in Calls : \A s \in Slot : peerMap[r][s] = dst[g] => r = root[c]
  <2>1. PICK t \in Slot : dst[g] = peerMap[root[c]][t]
    <3>1. currentActive[root[c]] \in Slot
      BY <1>2 DEF SerialBase, IndInv, TypeOK
    <3> QED
      BY <1>2, <3>1, Slots DEF HeadMap, PrevMap
  <2> QED
    BY <1>2, <2>1, OtherRings
<1> SUFFICES ASSUME NEW r \in Calls, NEW s \in Slot, NEW t \in Slot, NEW j \in PeerID, s # t
             PROVE  maps'[peerMap[r][s]][j] = None \/ maps'[peerMap[r][t]][j] = None
  BY <1>1 DEF Sole
<1>6. peerMap[r][s] \in MapRef /\ peerMap[r][t] \in MapRef /\ peerMap[r][s] # peerMap[r][t]
  BY RingMaps DEF SerialBase, RingInv, Apart
<1>7. maps[peerMap[r][s]][j] = None \/ maps[peerMap[r][t]][j] = None
  BY DEF SoleInv, Sole
<1> QED
  BY <1>1, <1>2, <1>4, <1>5, <1>6, <1>7 DEF Stores

LEMMA SoleDirect ==
  ASSUME SerialBase, HeadInv, SoleInv, SerialBase', HeadInv',
         NEW c \in Calls, NEW r \in Requests, NEW t \in 0..now, DirectStore(c, r, t)
  PROVE  SoleInv'
<1>1. /\ \A g \in Goroutine : pc'[g] \in Ended
      /\ ~serving'
  BY DirectMoves
<1>2. \A q \in Calls : \A s \in Slot : s # 0 => Empty(peerMap[q][s])'
  BY <1>1 DEF HeadInv, Launch, Slot
<1>3. Sole'
  BY <1>2 DEF Sole, Empty
<1> QED
  BY <1>1, <1>3, Names, RestingTakesNext DEF SoleInv

LEMMA SoleBegins ==
  ASSUME MaxInflight = 1, SerialBase, HeadInv, SoleInv, SerialBase', NEW c \in Calls, BeginCall(c)
  PROVE  SoleInv'
<1>1. /\ \A g \in Goroutine : pc[g] \in Ended
      /\ \A d \in Calls : d # c => pc'[Task(d)] = pc[Task(d)]
      /\ UNCHANGED <<maps, peerMap, found>>
      /\ req'[c] \in Request
      /\ pc'[Task(c)] \in {"idle", "copyForTake"}
      /\ found[Task(c)] = None
      /\ pc'[Task(c)] = "copyForTake" =>
              key'[Task(c)] = req'[c].peerID /\ peers'[c] = NewPeer(req'[c])
  BY BeginMoves
<1>2. Sole'
  BY <1>1 DEF SoleInv, Sole
<1>3. TakesOut(c)'
  <2>1. pc'[Task(c)] = "copyForTake" => peers'[c].id = req'[c].peerID
    BY <1>1 DEF NewPeer
  <2> QED
    BY <1>1, <2>1 DEF TakesOut, Storing, Ended
<1>4. \A d \in Calls : d # c => TakesOut(d)'
  BY <1>1, Names, RestingTakesNext
<1> QED
  BY <1>2, <1>3, <1>4 DEF SoleInv

LEMMA SoleInCall ==
  ASSUME SerialBase, HeadInv, SoleInv, SerialBase', NEW c \in Calls, InCall(c)
  PROVE  SoleInv'
<1>1. \A d \in Calls : d # c => TakesOut(d)'
  BY OthersRest, RestingTakesNext
<1>2. TakesOut(c) /\ Sole
  BY DEF SoleInv
<1>3. CASE Looking(c)
  <2>1. root[c] \in Calls
    BY <1>3, Names, LooksOnly DEF SerialBase, IndInv, Scopes, Ended
  <2>2. Shrinks
    BY <1>3, LooksOnly DEF Shrinks
  <2>3. Sole' /\ TakesOut(c)'
    BY <1>2, <1>3, <2>1, <2>2, LooksOnly, SoleShrinks, TakesLasts
  <2> QED
    BY <1>1, <2>3 DEF SoleInv
<1>4. CASE CompareAndSwap(c) \/ EmptyOldest(c)
  <2>1. Shrinks
    BY <1>4, SwapMoves, OldestGoes DEF Shrinks
  <2>2. root[c] \in Calls /\ UNCHANGED loops /\ pc'[Task(c)] = pc[Task(c)]
    <3>1. Task(c) \in Goroutine /\ Task(c) # Handler(c)
      BY Names
    <3>2. CASE CompareAndSwap(c)
      BY <3>1, <3>2, SwapMoves
    <3>3. CASE EmptyOldest(c)
      BY <3>1, <3>3, OldestGoes
    <3> QED
      BY <1>4, <3>2, <3>3
  <2>3. \A r \in Calls : \A s \in Slot : peerMap'[r][s] = peerMap[r][s]
           \/ \A k \in PeerID : maps'[peerMap'[r][s]][k] = None
    <3>1. CASE CompareAndSwap(c)
      BY <3>1, SwapMoves
    <3>2. CASE EmptyOldest(c)
      <4>1. /\ peerMap'[root[c]][Oldest(c)] = <<c, 3>> /\ maps' = maps
            /\ \A s \in Slot : s # Oldest(c) => peerMap'[root[c]][s] = peerMap[root[c]][s]
            /\ \A r \in Calls : r # root[c] => peerMap'[r] = peerMap[r]
            /\ \A k \in PeerID : maps[<<c, 3>>][k] = None
        BY <3>2, OldestGoes DEF Empty
      <4> QED
        BY <4>1
    <3> QED
      BY <1>4, <3>1, <3>2
  <2>4. Sole' /\ TakesOut(c)'
    BY <1>2, <2>1, <2>2, <2>3, SoleShrinks, TakesLasts DEF loops
  <2> QED
    BY <1>1, <2>4 DEF SoleInv
<1>5. ASSUME NEW g \in Goroutine, g[1] = c,
             AnyStep(g) \/ (g = Reaper(c) /\ ReaperStep(c)) \/ (g = Task(c) /\ TaskStep(c))
      PROVE  SoleInv'
  <2>1. CASE Put(g)
    <3>1. pc'[Task(c)] \in Ended
      <4>1. /\ pc'[g] = "done" /\ (g = Handler(c) \/ g = Task(c))
            /\ \A d \in Goroutine : d # g => pc'[d] = pc[d]
        BY <1>5, <2>1, PutStores, SharedMoves
      <4>2. g = Handler(c) => pc[Task(c)] = "idle"
        BY <1>5, <2>1, PutAim
      <4> QED
        BY <4>1, <4>2, Names DEF Ended
    <3> QED
      BY <1>1, <1>5, <2>1, <3>1, SolePut, RestingTakesNext DEF SoleInv
  <2>2. CASE ~Put(g)
    <3>1. /\ peerMap' = peerMap /\ pc[g] \notin Ended
          /\ \A d \in Goroutine : d # g =>
               /\ pc'[d] = pc[d] /\ key'[d] = key[d] /\ copy'[d] = copy[d] /\ pos'[d] = pos[d]
               /\ found'[d] = found[d]
      BY <1>5, SharedMoves
    <3>2. Shrinks
      <4>1. CASE Take(g) \/ (g = Reaper(c) /\ Remove(c))
        BY <1>5, <4>1, TakesOne DEF Shrinks
      <4>2. CASE ~(Take(g) \/ (g = Reaper(c) /\ Remove(c)))
        BY <1>5, <2>2, <4>2 DEF AnyStep, CopyForTake, ReadActive, ReadMap, ReaperStep,
                                NextExpired, TaskStep, UpdateKnown, store, Shrinks
      <4> QED
        BY <4>1, <4>2
    <3>3. root[c] \in Calls
      BY <1>5, <3>1 DEF SerialBase, IndInv, Scopes
    <3>4. Sole'
      BY <1>2, <3>1, <3>2, SoleShrinks
    <3>5. CASE g # Task(c)
      <4>1. TakesOut(c)'
        BY <1>2, <3>1, <3>2, <3>3, <3>5, Names, TakesLasts
      <4> QED
        BY <1>1, <3>4, <4>1 DEF SoleInv
    <3>6. CASE g = Task(c)
      <4>1. TakesOut(c)'
        BY <1>2, <1>5, <2>2, <3>6, Names, TaskTakes, TaskOthers DEF AnyStep, TaskStep
      <4> QED
        BY <1>1, <3>4, <4>1 DEF SoleInv
    <3> QED
      BY <3>5, <3>6
  <2> QED
    BY <2>1, <2>2
<1> QED
  BY <1>3, <1>4, <1>5, Names DEF InCall, HandlerStep, Looking

LEMMA SoleStep ==
  ASSUME MaxInflight = 1, SerialBase, HeadInv, SerialBase', HeadInv', SoleInv, [Next]_vars
  PROVE  SoleInv'
<1>1. CASE \E c \in Calls, r \in Requests, t \in 0..now : DirectStore(c, r, t)
  BY <1>1, SoleDirect
<1>2. CASE Serve \/ Tick \/ Finished \/ UNCHANGED vars
  <2>1. UNCHANGED <<store, locals, pc, loops>>
    BY <1>2 DEF Serve, Tick, Finished, vars
  <2> QED
    BY <2>1 DEF SoleInv, Sole, TakesOut, Absent, store, locals, loops
<1>3. CASE \E c \in Calls : BeginCall(c)
  BY <1>3, SoleBegins
<1>4. CASE \E c \in Calls : HandlerStep(c) \/ TaskStep(c) \/ ReaperStep(c)
  BY <1>4, SoleInCall DEF InCall
<1>5. CASE \E g \in Goroutine : AnyStep(g)
  BY <1>5, Names, SoleInCall DEF InCall
<1> QED
  BY <1>1, <1>2, <1>3, <1>4, <1>5 DEF Next

LEMMA SoleInductive ==
  ASSUME MaxInflight = 1
  PROVE  Spec => []SoleInv
<1>1. SerialBase /\ HeadInv /\ SerialBase' /\ HeadInv' /\ SoleInv /\ [Next]_vars => SoleInv'
  BY SoleStep
<1>2. Init => SoleInv
  <2> SUFFICES ASSUME Init PROVE SoleInv
    OBVIOUS
  <2>1. \A c \in Calls : pc[Task(c)] = "idle" /\ found[Task(c)] = None
    BY Names DEF Init
  <2>2. \A c \in Calls : TakesOut(c)
    BY <2>1 DEF TakesOut, Ended, Storing
  <2>3. \A r \in Calls : \A s \in Slot : \A k \in PeerID : maps[peerMap[r][s]][k] = None
    <3>1. \A s \in Slot : s \in 0..3
      BY DEF Slot
    <3> QED
      BY <3>1, Indices DEF Init
  <2> QED
    BY <2>2, <2>3 DEF SoleInv, Sole
<1> QED
  BY <1>1, <1>2, SerialBaseInductive, HeadInductive, PTL DEF Spec

-----------------------------------------------------------------------------
(* The sizes of the maps.  A map overshoots the rotation threshold by one  *)
(* peer while it is written and by another when the task of the rotating   *)
(* announce stores before the head moves; what was loaded at launch counts *)
(* by itself.                                                              *)

Half == MaxPeersPerTorrent \div 2
Loads == {c \in Calls : req[c] # None /\ req[c].op = "load"}
AtMost(n, x) == n <= Half + 1 + x \/ n <= Cardinality(Loads) + x

(* The handler has yet to see what its task has stored. *)
Swelling(c) ==
  pc[Task(c)] = "done"
  /\ pc[Handler(c)] \in {"copyForRange", "range", "checkLen", "readCurrent", "swap"}
Small == \A r \in Calls : \A s \in Slot : AtMost(MapLen(peerMap[r][s]), 1)
HeadRoom ==
  \A r \in Calls : AtMost(MapLen(HeadMap(r)), 0) \/ \E c \in Calls : root[c] = r /\ Swelling(c)
RoomOf(c) ==
  pc[Task(c)] \notin Ended =>
    /\ pc[Handler(c)] \in {"empty", "done"} => MapLen(HeadMap(root[c])) <= Half
    /\ pc[Task(c)] = "readMap" => AtMost(MapLen(peerMap[root[c]][idx[Task(c)]]), 0)
    /\ pc[Task(c)] = "put" => AtMost(MapLen(dst[Task(c)]), 0)
LaunchRoom ==
  /\ IsFiniteSet(Loads)
  /\ ~serving => \A r \in Calls : MapLen(HeadMap(r)) <= Cardinality(Loads)
SizeInv == Small /\ HeadRoom /\ LaunchRoom /\ \A c \in Calls : RoomOf(c)

(* The handler of an announce that has a task collects the answer and then *)
(* turns the ring.                                                         *)
Walk == {"copyForRange", "range", "checkLen", "readCurrent", "swap", "empty", "done"}
Answering ==
  \A c \in Calls : pc[Task(c)] # "idle" => req[c].op = "announce" /\ pc[Handler(c)] \in Walk

LEMMA AnsweringInCall ==
  ASSUME SerialBase, HeadInv, Answering, NEW c \in Calls, InCall(c)
  PROVE  Answering'
<1>1. /\ req' = req
      /\ \A d \in Calls : d # c => pc'[Handler(d)] = pc[Handler(d)] /\ pc'[Task(d)] = pc[Task(d)]
  BY OthersRest
<1> SUFFICES ASSUME pc'[Task(c)] # "idle"
             PROVE  req[c].op = "announce" /\ pc'[Handler(c)] \in Walk
  BY <1>1 DEF Answering
<1>2. /\ Handler(c) \in Goroutine /\ Task(c) \in Goroutine /\ Handler(c) # Task(c)
      /\ pc \in [Goroutine -> Label] /\ Handler(c) # Reaper(c) /\ Reaper(c) \in Goroutine
  BY Names DEF SerialBase, IndInv, TypeOK
<1>3. CASE Looking(c)
  <2>1. req[c].op = "announce" /\ pc[Handler(c)] \in Walk
    BY <1>3, LooksOnly DEF Answering
  <2>2. CASE RangeSlot(c)
    <3>1. CASE pos[Handler(c)] < 2
      BY <2>1, <2>2, <3>1 DEF RangeSlot
    <3>2. CASE ~(pos[Handler(c)] < 2)
      <4>1. \E lr : pc' = [pc EXCEPT ![Handler(c)] = "checkLen", ![Reaper(c)] = lr]
        BY <2>1, <2>2, <3>2 DEF RangeSlot
      <4> QED
        BY <1>2, <2>1, <4>1 DEF Walk
    <3> QED
      BY <3>1, <3>2
  <2>3. CASE ~RangeSlot(c)
    BY <1>2, <1>3, <2>1, <2>3 DEF Looking, CopyForRange, CheckLen, ReadCurrent, CleanNext,
                                  DropRoot, Walk
  <2> QED
    BY <2>1, <2>2, <2>3
<1>4. CASE CompareAndSwap(c) \/ EmptyOldest(c)
  <2>1. pc'[Task(c)] = pc[Task(c)] /\ pc'[Handler(c)] \in {"empty", "done"}
    BY <1>2, <1>4 DEF CompareAndSwap, EmptyOldest
  <2> QED
    BY <2>1 DEF Answering, Walk
<1>5. ASSUME NEW g \in Goroutine, g[1] = c,
             AnyStep(g) \/ (g = Reaper(c) /\ ReaperStep(c)) \/ (g = Task(c) /\ TaskStep(c))
      PROVE  req[c].op = "announce" /\ pc'[Handler(c)] \in Walk
  <2>1. /\ \A d \in Goroutine : d # g => pc'[d] = pc[d]
        /\ pc[g] \notin Ended
    BY <1>5, SharedMoves
  <2>2. pc[Task(c)] # "idle"
    BY <1>2, <2>1 DEF Ended
  <2>3. req[c].op = "announce" /\ pc[Handler(c)] \in Walk
    BY <2>2 DEF Answering
  <2>4. g # Handler(c)
    BY <1>2, <1>5, <2>3, Names DEF AnyStep, CopyForTake, Take, ReadActive, ReadMap, Put, Walk
  <2> QED
    BY <1>2, <2>1, <2>3, <2>4
<1> QED
  BY <1>3, <1>4, <1>5, <1>2, Names DEF InCall, HandlerStep, Looking

LEMMA AnsweringInductive ==
  ASSUME MaxInflight = 1
  PROVE  Spec => []Answering
<1>1. Init => Answering
  BY Names DEF Init, Answering
<1>2. ASSUME SerialBase, HeadInv, Answering, [Next]_vars PROVE Answering'
  <2>1. CASE \E c \in Calls, r \in Requests, t \in 0..now : DirectStore(c, r, t)
    <3>1. PICK c \in Calls, r \in Requests, t \in 0..now : DirectStore(c, r, t)
      BY <2>1
    <3>2. /\ pc[Handler(c)] = "idle" /\ pc' = [pc EXCEPT ![Handler(c)] = "done"]
          /\ req' = [req EXCEPT ![c] = r]
      BY <3>1 DEF DirectStore
    <3>3. pc \in [Goroutine -> Label] /\ req \in [Calls -> Request \cup {None}]
      BY <1>2 DEF SerialBase, IndInv, TypeOK
    <3>4. pc[Task(c)] = "idle"
      BY <1>2, <3>2 DEF SerialBase, IndInv, Roles
    <3>5. \A d \in Calls : d # c => Handler(d) # Handler(c)
      BY Names
    <3> QED
      BY <1>2, <3>2, <3>3, <3>4, <3>5, Names DEF Answering
  <2>2. CASE Serve \/ Tick \/ Finished \/ UNCHANGED vars
    BY <1>2, <2>2 DEF Serve, Tick, Finished, vars, locals, Answering
  <2>3. CASE \E c \in Calls : BeginCall(c)
    BY <1>2, <2>3, BeginMoves DEF Answering, Walk
  <2>4. CASE \E c \in Calls : HandlerStep(c) \/ TaskStep(c) \/ ReaperStep(c)
    BY <1>2, <2>4, AnsweringInCall DEF InCall
  <2>5. CASE \E g \in Goroutine : AnyStep(g)
    BY <1>2, <2>5, Names, AnsweringInCall DEF InCall
  <2> QED
    BY <1>2, <2>1, <2>2, <2>3, <2>4, <2>5 DEF Next
<1>3. SerialBase /\ HeadInv /\ Answering /\ [Next]_vars => Answering'
  BY <1>2
<1> QED
  BY <1>1, <1>3, SerialBaseInductive, HeadInductive, PTL DEF Spec

-----------------------------------------------------------------------------
(* How many peers the maps hold.                                           *)

LEMMA SubsetCount ==
  ASSUME NEW S, NEW T, S \subseteq T, T \subseteq PeerID
  PROVE  /\ Cardinality(S) \in Nat /\ Cardinality(T) \in Nat
         /\ Cardinality(S) <= Cardinality(T)
<1>1. IsFiniteSet(T)
  BY LocalAssumption, FS_Subset
<1>2. S \in SUBSET T
  OBVIOUS
<1> QED
  BY <1>1, <1>2, FS_Subset, FS_CardinalityType

LEMMA LenType ==
  ASSUME NEW m
  PROVE  MapLen(m) \in Nat /\ (Empty(m) => MapLen(m) = 0)
<1>1. Keys(m) \subseteq PeerID
  BY DEF Keys
<1>2. Empty(m) => Keys(m) = {}
  BY DEF Empty, Keys
<1> QED
  BY <1>1, <1>2, KeyCount, FS_EmptySet DEF MapLen

(* The length of a map after a step. *)
LenAfter(m) == Cardinality({k \in PeerID : maps'[m][k] # None})

LEMMA LenTypeAfter ==
  ASSUME NEW m
  PROVE  /\ LenAfter(m) \in Nat
         /\ (\A k \in PeerID : maps'[m][k] = None) => LenAfter(m) = 0
<1> DEFINE S == {k \in PeerID : maps'[m][k] # None}
<1>1. S \subseteq PeerID /\ ((\A k \in PeerID : maps'[m][k] = None) => S = {})
  OBVIOUS
<1> HIDE DEF S
<1>2. Cardinality(S) \in Nat /\ ((\A k \in PeerID : maps'[m][k] = None) => Cardinality(S) = 0)
  BY <1>1, KeyCount, FS_EmptySet
<1> QED
  BY <1>2 DEF LenAfter, S

LEMMA LenShrinks ==
  ASSUME Shrinks, NEW m \in MapRef
  PROVE  LenAfter(m) <= MapLen(m)
<1> DEFINE S == {k \in PeerID : maps'[m][k] # None}
<1>1. S \subseteq Keys(m) /\ Keys(m) \subseteq PeerID
  BY DEF Keys, Shrinks
<1>2. Cardinality(S) <= Cardinality(Keys(m))
  <2> HIDE DEF S
  <2> QED
    BY <1>1, SubsetCount
<1> QED
  BY <1>2 DEF MapLen, LenAfter

LEMMA LenGrows ==
  ASSUME NEW m \in MapRef, NEW k \in PeerID,
         \A j \in PeerID : j # k => maps'[m][j] = maps[m][j]
  PROVE  LenAfter(m) <= MapLen(m) + 1
<1> DEFINE S == {j \in PeerID : maps'[m][j] # None}
<1>1. S \subseteq Keys(m) \cup {k} /\ Keys(m) \cup {k} \subseteq PeerID /\ Keys(m) \subseteq PeerID
  BY DEF Keys
<1> HIDE DEF S
<1>2. /\ Cardinality(S) <= Cardinality(Keys(m) \cup {k}) /\ Cardinality(S) \in Nat
      /\ Cardinality(Keys(m) \cup {k}) \in Nat
  BY <1>1, SubsetCount
<1>3. IsFiniteSet(Keys(m))
  BY <1>1, LocalAssumption, FS_Subset
<1>4. Cardinality(Keys(m) \cup {k}) = IF k \in Keys(m) THEN Cardinality(Keys(m))
                                      ELSE Cardinality(Keys(m)) + 1
  BY <1>3, FS_AddElement
<1>5. Cardinality(Keys(m)) \in Nat
  BY <1>3, FS_CardinalityType
<1>6. Cardinality(S) <= Cardinality(Keys(m)) + 1
  BY <1>2, <1>4, <1>5
<1> QED
  BY <1>6 DEF MapLen, LenAfter, S

LEMMA LenSame ==
  ASSUME NEW m, \A j \in PeerID : maps'[m][j] = maps[m][j]
  PROVE  LenAfter(m) = MapLen(m)
<1>1. {k \in PeerID : maps'[m][k] # None} = Keys(m)
  BY DEF Keys
<1> QED
  BY <1>1 DEF MapLen, LenAfter

LEMMA HalfType == Half \in Nat
BY LocalAssumption DEF Half

(* The bounds on the lengths as a step leaves them. *)
AtMostAfter(n, x) == n <= Half + 1 + x \/ n <= Cardinality(Loads') + x

LEMMA RoomLasts ==
  ASSUME NEW n \in Nat, NEW m \in Nat, NEW x \in Nat, m <= n, AtMost(n, x),
         Cardinality(Loads) \in Nat, Cardinality(Loads') \in Nat,
         Cardinality(Loads) <= Cardinality(Loads')
  PROVE  AtMostAfter(m, x)
BY HalfType DEF AtMost, AtMostAfter

LEMMA SizeAfter ==
  ASSUME /\ \A r \in Calls : \A s \in Slot : AtMostAfter(LenAfter(peerMap'[r][s]), 1)
         /\ \A r \in Calls :
              \/ AtMostAfter(LenAfter(HeadMap(r)'), 0)
              \/ \E c \in Calls : root'[c] = r /\ Swelling(c)'
         /\ LaunchRoom'
         /\ \A c \in Calls : RoomOf(c)'
  PROVE  SizeInv'
<1>1. Small'
  BY DEF Small, AtMost, AtMostAfter, LenAfter, MapLen, Keys
<1>2. HeadRoom'
  BY DEF HeadRoom, AtMost, AtMostAfter, LenAfter, MapLen, Keys
<1> QED
  BY <1>1, <1>2 DEF SizeInv

LEMMA RoomAfter ==
  ASSUME NEW c \in Calls,
         pc'[Task(c)] \notin Ended =>
           /\ pc'[Handler(c)] \in {"empty", "done"} => LenAfter(HeadMap(root[c])') <= Half
           /\ pc'[Task(c)] = "readMap" =>
                AtMostAfter(LenAfter(peerMap'[root'[c]][idx'[Task(c)]]), 0)
           /\ pc'[Task(c)] = "put" => AtMostAfter(LenAfter(dst'[Task(c)]), 0)
  PROVE  RoomOf(c)'
BY DEF RoomOf, AtMost, AtMostAfter, LenAfter, MapLen, Keys

(* The loads are those made at launch. *)
LEMMA LoadsLast ==
  ASSUME SerialBase, SizeInv, NEW c \in Calls, InCall(c)
  PROVE  /\ Cardinality(Loads) \in Nat /\ Cardinality(Loads') \in Nat
         /\ Cardinality(Loads) <= Cardinality(Loads') /\ LaunchRoom'
<1>1. req' = req /\ serving'
  BY OthersRest
<1>2. Loads' = Loads
  BY <1>1 DEF Loads
<1>3. IsFiniteSet(Loads) /\ Cardinality(Loads) \in Nat
  BY FS_CardinalityType DEF SizeInv, LaunchRoom
<1> QED
  BY <1>1, <1>2, <1>3 DEF LaunchRoom

(* Only the running call can have a map swell. *)
LEMMA SwellingRuns ==
  ASSUME SerialBase, NEW c \in Calls, InCall(c), NEW d \in Calls, Swelling(d)
  PROVE  d = c
<1>1. pc[Handler(d)] \notin Ended
  BY DEF Swelling, Ended
<1> QED
  BY <1>1, OthersRest

(* A handler with a task ends after it found the map not full. *)
LEMMA LooksDone ==
  ASSUME SerialBase, Answering, NEW c \in Calls, Looking(c), pc[Task(c)] # "idle",
         pc'[Handler(c)] = "done"
  PROVE  pc[Handler(c)] = "checkLen" /\ ~Full(root[c])
<1>1. req[c].op = "announce" /\ pc[Handler(c)] \in Walk
  BY DEF Answering
<1>2. /\ Handler(c) \in Goroutine /\ pc \in [Goroutine -> Label] /\ Handler(c) # Reaper(c)
      /\ Reaper(c) \in Goroutine
  BY Names DEF SerialBase, IndInv, TypeOK
<1>3. ~RangeSlot(c)
  <2> SUFFICES ASSUME RangeSlot(c) PROVE FALSE
    OBVIOUS
  <2>1. CASE pos[Handler(c)] < 2
    BY <2>1 DEF RangeSlot
  <2>2. CASE ~(pos[Handler(c)] < 2)
    <3>1. \E lr : pc' = [pc EXCEPT ![Handler(c)] = "checkLen", ![Reaper(c)] = lr]
      BY <1>1, <2>2 DEF RangeSlot
    <3> QED
      BY <1>2, <3>1
  <2> QED
    BY <2>1, <2>2
<1> QED
  BY <1>1, <1>2, <1>3, LooksOnly DEF Looking, CopyForRange, CheckLen, ReadCurrent, CleanNext,
                                     DropRoot, Walk

LEMMA SizeLooks ==
  ASSUME SerialBase, HeadInv, Answering, Answering', SizeInv, NEW c \in Calls, Looking(c)
  PROVE  SizeInv'
<1>1. /\ UNCHANGED <<maps, peerMap, currentActive, idx, dst>>
      /\ pc'[Task(c)] = pc[Task(c)]
      /\ pc[Handler(c)] \in {"copyForRange", "range", "checkLen", "readCurrent", "nextKey", "drop"}
      /\ pc'[Handler(c)] \in {"range", "checkLen", "readCurrent", "swap", "nextKey", "drop",
                              "copyForTake", "done"}
  BY LooksOnly
<1>2. InCall(c)
  BY DEF Looking, InCall, HandlerStep
<1>3. /\ root' = root
      /\ \A d \in Calls : d # c => pc'[Task(d)] \in Ended
  BY <1>2, OthersRest
<1>4. /\ Cardinality(Loads) \in Nat /\ Cardinality(Loads') \in Nat
      /\ Cardinality(Loads) <= Cardinality(Loads') /\ LaunchRoom'
  BY <1>2, LoadsLast
<1>5. \A m : LenAfter(m) = MapLen(m) /\ MapLen(m) \in Nat
  BY <1>1, LenSame, LenType
<1>6. \A m : \A x \in Nat : AtMost(MapLen(m), x) => AtMostAfter(LenAfter(m), x)
  BY <1>4, <1>5, RoomLasts
<1>7. pc[Task(c)] # "idle" /\ pc'[Handler(c)] = "done" => MapLen(HeadMap(root[c])) <= Half
  <2>1. pc[Task(c)] # "idle" /\ pc'[Handler(c)] = "done" => ~Full(root[c])
    BY LooksDone
  <2>2. MapLen(HeadMap(root[c])) \in Nat /\ Half \in Nat
    BY LenType, HalfType
  <2> QED
    BY <2>1, <2>2 DEF Full, ActiveLen, HeadMap, Half
<1>8. \A r \in Calls : HeadMap(r)' = HeadMap(r)
  BY <1>1 DEF HeadMap
<1>9. \A r \in Calls : \A s \in Slot : AtMostAfter(LenAfter(peerMap'[r][s]), 1)
  BY <1>1, <1>6 DEF SizeInv, Small
<1>10. ASSUME NEW r \in Calls
       PROVE  \/ AtMostAfter(LenAfter(HeadMap(r)'), 0)
              \/ \E d \in Calls : root'[d] = r /\ Swelling(d)'
  <2>1. CASE AtMost(MapLen(HeadMap(r)), 0)
    BY <1>6, <1>8, <2>1
  <2>2. CASE \E d \in Calls : root[d] = r /\ Swelling(d)
    <3>1. root[c] = r /\ Swelling(c)
      BY <1>2, <2>2, SwellingRuns
    <3>2. pc'[Handler(c)] \in Walk
      BY <1>1, <3>1 DEF Answering, Swelling
    <3>3. CASE pc'[Handler(c)] = "done"
      <4>1. MapLen(HeadMap(r)) <= Half
        BY <1>7, <3>1, <3>3 DEF Swelling
      <4>2. MapLen(HeadMap(r)) \in Nat /\ Half \in Nat
        BY LenType, HalfType
      <4>3. AtMost(MapLen(HeadMap(r)), 0)
        BY <4>1, <4>2 DEF AtMost
      <4> QED
        BY <1>6, <1>8, <4>3
    <3>4. CASE pc'[Handler(c)] # "done"
      BY <1>1, <1>3, <3>1, <3>2, <3>4 DEF Swelling, Walk
    <3> QED
      BY <3>3, <3>4
  <2> QED
    BY <2>1, <2>2 DEF SizeInv, HeadRoom
<1>11. RoomOf(c)'
  <2> SUFFICES ASSUME pc'[Task(c)] \notin Ended
               PROVE  /\ pc'[Handler(c)] \in {"empty", "done"} => LenAfter(HeadMap(root[c])') <= Half
                      /\ pc'[Task(c)] = "readMap" =>
                           AtMostAfter(LenAfter(peerMap'[root'[c]][idx'[Task(c)]]), 0)
                      /\ pc'[Task(c)] = "put" => AtMostAfter(LenAfter(dst'[Task(c)]), 0)
    BY RoomAfter
  <2>1. RoomOf(c) /\ pc[Task(c)] \notin Ended
    BY <1>1 DEF SizeInv
  <2>2. HeadMap(root[c])' = HeadMap(root[c])
    BY <1>1, <1>3 DEF HeadMap
  <2> QED
    BY <1>1, <1>3, <1>5, <1>6, <1>7, <2>1, <2>2 DEF RoomOf, Ended
<1>12. \A d \in Calls : RoomOf(d)'
  BY <1>3, <1>11 DEF RoomOf
<1> QED
  BY <1>4, <1>9, <1>10, <1>12, SizeAfter

LEMMA SizeSwap ==
  ASSUME SerialBase, HeadInv, SizeInv, NEW c \in Calls, CompareAndSwap(c)
  PROVE  SizeInv'
<1>1. /\ root[c] \in Calls /\ pc[Handler(c)] = "swap" /\ pc'[Handler(c)] = "empty"
      /\ \A g \in Goroutine : g # Handler(c) => pc'[g] = pc[g]
      /\ UNCHANGED <<maps, peerMap, loops>>
      /\ HeadMap(root[c])' = NextMap(root[c])
      /\ \A r \in Calls : r # root[c] => HeadMap(r)' = HeadMap(r)
      /\ Empty(NextMap(root[c]))
  BY SwapMoves
<1>2. InCall(c)
  BY DEF InCall, HandlerStep
<1>3. /\ root' = root
      /\ \A d \in Calls : d # c => pc'[Task(d)] \in Ended
  BY <1>2, OthersRest
<1>4. /\ Cardinality(Loads) \in Nat /\ Cardinality(Loads') \in Nat
      /\ Cardinality(Loads) <= Cardinality(Loads') /\ LaunchRoom'
  BY <1>2, LoadsLast
<1>5. \A m : LenAfter(m) = MapLen(m) /\ MapLen(m) \in Nat
  BY <1>1, LenSame, LenType
<1>6. \A m : \A x \in Nat : AtMost(MapLen(m), x) => AtMostAfter(LenAfter(m), x)
  BY <1>4, <1>5, RoomLasts
<1>7. LenAfter(NextMap(root[c])) = 0 /\ Half \in Nat
  BY <1>1, <1>5, LenType, HalfType
<1>8. \A r \in Calls : \A s \in Slot : AtMostAfter(LenAfter(peerMap'[r][s]), 1)
  BY <1>1, <1>6 DEF SizeInv, Small
<1>9. ASSUME NEW r \in Calls
      PROVE  AtMostAfter(LenAfter(HeadMap(r)'), 0)
  <2>1. CASE r = root[c]
    <3>1. HeadMap(r)' = NextMap(root[c])
      BY <1>1, <1>3, <2>1 DEF HeadMap
    <3> QED
      BY <1>7, <3>1 DEF AtMostAfter
  <2>2. CASE r # root[c]
    <3>1. AtMost(MapLen(HeadMap(r)), 0)
      BY <1>2, <2>2, SwellingRuns DEF SizeInv, HeadRoom
    <3> QED
      BY <1>1, <1>6, <2>2, <3>1
  <2> QED
    BY <2>1, <2>2
<1>10. RoomOf(c)'
  <2> SUFFICES ASSUME pc'[Task(c)] \notin Ended
               PROVE  /\ pc'[Handler(c)] \in {"empty", "done"} => LenAfter(HeadMap(root[c])') <= Half
                      /\ pc'[Task(c)] = "readMap" =>
                           AtMostAfter(LenAfter(peerMap'[root'[c]][idx'[Task(c)]]), 0)
                      /\ pc'[Task(c)] = "put" => AtMostAfter(LenAfter(dst'[Task(c)]), 0)
    BY RoomAfter
  <2>1. RoomOf(c) /\ pc'[Task(c)] = pc[Task(c)]
    BY <1>1, Names DEF SizeInv
  <2>2. LenAfter(HeadMap(root[c])') <= Half
    BY <1>1, <1>7
  <2> QED
    BY <1>1, <1>3, <1>6, <2>1, <2>2 DEF RoomOf, loops
<1>11. \A d \in Calls : RoomOf(d)'
  BY <1>3, <1>10 DEF RoomOf
<1> QED
  BY <1>4, <1>8, <1>9, <1>11, SizeAfter

LEMMA SizeEmpties ==
  ASSUME SerialBase, HeadInv, SizeInv, NEW c \in Calls, EmptyOldest(c)
  PROVE  SizeInv'
<1>1. /\ root[c] \in Calls /\ pc[Handler(c)] = "empty"
      /\ \A g \in Goroutine : g # Handler(c) => pc'[g] = pc[g]
      /\ UNCHANGED <<maps, loops>>
      /\ peerMap'[root[c]][Oldest(c)] = <<c, 3>>
      /\ \A s \in Slot : s # Oldest(c) => peerMap'[root[c]][s] = peerMap[root[c]][s]
      /\ \A r \in Calls : r # root[c] => peerMap'[r] = peerMap[r]
      /\ HeadMap(root[c])' = HeadMap(root[c])
      /\ \A r \in Calls : r # root[c] => HeadMap(r)' = HeadMap(r)
      /\ Empty(<<c, 3>>)
  BY OldestGoes
<1>2. InCall(c)
  BY DEF InCall, HandlerStep
<1>3. /\ root' = root
      /\ \A d \in Calls : d # c => pc'[Task(d)] \in Ended
  BY <1>2, OthersRest
<1>4. /\ Cardinality(Loads) \in Nat /\ Cardinality(Loads') \in Nat
      /\ Cardinality(Loads) <= Cardinality(Loads') /\ LaunchRoom'
  BY <1>2, LoadsLast
<1>5. \A m : LenAfter(m) = MapLen(m) /\ MapLen(m) \in Nat
  BY <1>1, LenSame, LenType
<1>6. \A m : \A x \in Nat : AtMost(MapLen(m), x) => AtMostAfter(LenAfter(m), x)
  BY <1>4, <1>5, RoomLasts
<1>7. \A x \in Nat : AtMostAfter(LenAfter(<<c, 3>>), x)
  <2>1. LenAfter(<<c, 3>>) = 0
    BY <1>1, <1>5, LenType
  <2> QED
    BY <2>1, HalfType DEF AtMostAfter
<1>8. \A r \in Calls : \A s \in Slot :
        peerMap'[r][s] = peerMap[r][s] \/ peerMap'[r][s] = <<c, 3>>
  BY <1>1
<1>9. \A r \in Calls : \A s \in Slot : AtMostAfter(LenAfter(peerMap'[r][s]), 1)
  BY <1>6, <1>7, <1>8 DEF SizeInv, Small
<1>10. \A r \in Calls : HeadMap(r)' = HeadMap(r)
  <2> SUFFICES ASSUME NEW r \in Calls PROVE HeadMap(r)' = HeadMap(r)
    OBVIOUS
  <2>1. CASE r = root[c]
    BY <1>1, <1>3, <2>1 DEF HeadMap
  <2> QED
    BY <1>1, <2>1
<1>11. ASSUME NEW r \in Calls
       PROVE  AtMostAfter(LenAfter(HeadMap(r)'), 0)
  <2>1. ~Swelling(c)
    BY <1>1 DEF Swelling
  <2>2. AtMost(MapLen(HeadMap(r)), 0)
    BY <1>2, <2>1, SwellingRuns DEF SizeInv, HeadRoom
  <2> QED
    BY <1>6, <1>10, <2>2
<1>12. RoomOf(c)'
  <2> SUFFICES ASSUME pc'[Task(c)] \notin Ended
               PROVE  /\ pc'[Handler(c)] \in {"empty", "done"} => LenAfter(HeadMap(root[c])') <= Half
                      /\ pc'[Task(c)] = "readMap" =>
                           AtMostAfter(LenAfter(peerMap'[root'[c]][idx'[Task(c)]]), 0)
                      /\ pc'[Task(c)] = "put" => AtMostAfter(LenAfter(dst'[Task(c)]), 0)
    BY RoomAfter
  <2>1. RoomOf(c) /\ pc'[Task(c)] = pc[Task(c)]
    BY <1>1, Names DEF SizeInv
  <2>2. LenAfter(HeadMap(root[c])') <= Half
    BY <1>1, <1>5, <2>1 DEF RoomOf
  <2>3. idx[Task(c)] \in Slot
    BY Names DEF SerialBase, IndInv, TypeOK
  <2>4. pc'[Task(c)] = "readMap" => AtMostAfter(LenAfter(peerMap'[root'[c]][idx'[Task(c)]]), 0)
    BY <1>1, <1>3, <1>6, <1>7, <1>8, <2>1, <2>3 DEF RoomOf, loops
  <2>5. pc'[Task(c)] = "put" => AtMostAfter(LenAfter(dst'[Task(c)]), 0)
    BY <1>1, <1>6, <2>1 DEF RoomOf, loops
  <2> QED
    BY <2>2, <2>4, <2>5
<1>13. \A d \in Calls : RoomOf(d)'
  BY <1>3, <1>12 DEF RoomOf
<1> QED
  BY <1>4, <1>9, <1>11, <1>13, SizeAfter

LEMMA SizeShared ==
  ASSUME SerialBase, HeadInv, Answering, SizeInv, SerialBase',
         NEW c \in Calls, NEW g \in Goroutine, g[1] = c,
         (AnyStep(g) /\ ~Put(g)) \/ (g = Reaper(c) /\ ReaperStep(c)) \/ (g = Task(c) /\ TaskStep(c))
  PROVE  SizeInv'
<1>1. /\ UNCHANGED <<peerMap, currentActive>>
      /\ \A d \in Goroutine : d # g => pc'[d] = pc[d] /\ idx'[d] = idx[d] /\ dst'[d] = dst[d]
      /\ pc[g] \notin Ended
  BY SharedMoves
<1>2. InCall(c)
  BY DEF InCall
<1>3. /\ root' = root
      /\ \A d \in Calls : d # c => pc'[Task(d)] \in Ended
  BY <1>2, OthersRest
<1>4. /\ Cardinality(Loads) \in Nat /\ Cardinality(Loads') \in Nat
      /\ Cardinality(Loads) <= Cardinality(Loads') /\ LaunchRoom'
  BY <1>2, LoadsLast
<1>5. Shrinks
  <2>1. CASE Take(g) \/ (g = Reaper(c) /\ Remove(c))
    BY <2>1, TakesOne DEF Shrinks
  <2>2. CASE ~(Take(g) \/ (g = Reaper(c) /\ Remove(c)))
    BY <2>2 DEF AnyStep, CopyForTake, ReadActive, ReadMap, ReaperStep, NextExpired, TaskStep,
                UpdateKnown, store, Shrinks
  <2> QED
    BY <2>1, <2>2
<1>6. \A m \in MapRef : LenAfter(m) <= MapLen(m) /\ LenAfter(m) \in Nat /\ MapLen(m) \in Nat
  BY <1>5, LenShrinks, LenType, LenTypeAfter
<1>7. \A m \in MapRef : \A x \in Nat : AtMost(MapLen(m), x) => AtMostAfter(LenAfter(m), x)
  BY <1>4, <1>6, RoomLasts
<1>8. \A r \in Calls : HeadMap(r)' = HeadMap(r) /\ HeadMap(r) \in MapRef
  BY <1>1, RingMaps DEF HeadMap
<1>9. \A r \in Calls : \A s \in Slot : AtMostAfter(LenAfter(peerMap'[r][s]), 1)
  BY <1>1, <1>7, RingMaps DEF SizeInv, Small
<1>10. /\ g \in {Handler(c), Task(c), Reaper(c)} /\ Handler(c) # Task(c)
       /\ Reaper(c) # Task(c) /\ Reaper(c) # Handler(c)
       /\ Handler(c) \in Goroutine /\ Task(c) \in Goroutine
  BY Names
<1>11. pc[Task(c)] # "idle" => g # Handler(c)
  BY <1>10 DEF Answering, Walk, AnyStep, CopyForTake, Take, ReadActive, ReadMap
<1>12. root[c] \in Calls
  BY <1>1 DEF SerialBase, IndInv, Scopes
<1>13. ASSUME NEW r \in Calls
       PROVE  \/ AtMostAfter(LenAfter(HeadMap(r)'), 0)
              \/ \E d \in Calls : root'[d] = r /\ Swelling(d)'
  <2>1. CASE AtMost(MapLen(HeadMap(r)), 0)
    BY <1>7, <1>8, <2>1
  <2>2. CASE \E d \in Calls : root[d] = r /\ Swelling(d)
    <3>1. root[c] = r /\ Swelling(c)
      BY <1>2, <2>2, SwellingRuns
    <3>2. g # Handler(c) /\ g # Task(c)
      BY <1>1, <1>11, <3>1 DEF Swelling, Ended
    <3> QED
      BY <1>1, <1>3, <1>10, <3>1, <3>2 DEF Swelling
  <2> QED
    BY <2>1, <2>2 DEF SizeInv, HeadRoom
<1>14. RoomOf(c)'
  <2> SUFFICES ASSUME pc'[Task(c)] \notin Ended
               PROVE  /\ pc'[Handler(c)] \in {"empty", "done"} => LenAfter(HeadMap(root[c])') <= Half
                      /\ pc'[Task(c)] = "readMap" =>
                           AtMostAfter(LenAfter(peerMap'[root'[c]][idx'[Task(c)]]), 0)
                      /\ pc'[Task(c)] = "put" => AtMostAfter(LenAfter(dst'[Task(c)]), 0)
    BY RoomAfter
  <2>1. pc[Task(c)] \notin Ended
    BY <1>1, <1>10
  <2>2. RoomOf(c) /\ g # Handler(c)
    BY <1>11, <2>1 DEF SizeInv, Ended
  <2>3. pc'[Handler(c)] = pc[Handler(c)]
    BY <1>1, <1>10, <2>2
  <2>4. pc'[Handler(c)] \in {"empty", "done"} => LenAfter(HeadMap(root[c])') <= Half
    <3>1. LenAfter(HeadMap(root[c])) <= MapLen(HeadMap(root[c]))
          /\ LenAfter(HeadMap(root[c])) \in Nat /\ MapLen(HeadMap(root[c])) \in Nat
      BY <1>6, <1>8, <1>12
    <3>2. HeadMap(root[c])' = HeadMap(root[c])
      BY <1>1, <1>3 DEF HeadMap
    <3> QED
      BY <2>1, <2>2, <2>3, <3>1, <3>2, HalfType DEF RoomOf
  <2>5. ASSUME pc[Task(c)] = "readMap"
        PROVE  AtMostAfter(LenAfter(peerMap[root[c]][idx[Task(c)]]), 0)
    <3>1. idx[Task(c)] \in Slot
      BY <1>10 DEF SerialBase, IndInv, TypeOK
    <3>2. AtMost(MapLen(peerMap[root[c]][idx[Task(c)]]), 0)
      BY <2>1, <2>2, <2>5 DEF RoomOf
    <3> QED
      BY <1>7, <1>12, <3>1, <3>2, RingMaps
  <2>6. ASSUME pc[Task(c)] = "put"
        PROVE  AtMostAfter(LenAfter(dst[Task(c)]), 0)
    <3>1. dst[Task(c)] \in MapRef
      BY <1>10, <2>6 DEF SerialBase, IndInv, Scopes
    <3> QED
      BY <1>7, <2>1, <2>2, <2>6, <3>1 DEF RoomOf
  <2>7. CASE g # Task(c)
    <3>1. pc'[Task(c)] = pc[Task(c)] /\ idx'[Task(c)] = idx[Task(c)] /\ dst'[Task(c)] = dst[Task(c)]
      BY <1>1, <1>10, <2>7
    <3> QED
      BY <1>1, <1>3, <2>4, <2>5, <2>6, <3>1
  <2>8. CASE g = Task(c) /\ ReadActive(g)
    <3>1. idx'[g] = currentActive[root[c]] /\ pc'[g] = "readMap"
      BY <2>8 DEF ReadActive, SerialBase, IndInv, TypeOK
    <3>2. ~Swelling(c)
      BY <2>1 DEF Swelling, Ended
    <3>3. AtMost(MapLen(HeadMap(root[c])), 0)
      BY <1>2, <1>12, <3>2, SwellingRuns DEF SizeInv, HeadRoom
    <3>4. AtMostAfter(LenAfter(HeadMap(root[c])), 0)
      BY <1>7, <1>8, <1>12, <3>3
    <3> QED
      BY <1>1, <1>3, <2>4, <2>8, <3>1, <3>4 DEF HeadMap
  <2>9. CASE g = Task(c) /\ ReadMap(g)
    <3>1. pc[g] = "readMap" /\ pc'[g] = "put" /\ dst'[g] = peerMap[root[c]][idx[g]]
      BY <2>9 DEF ReadMap, SerialBase, IndInv, TypeOK
    <3> QED
      BY <2>4, <2>5, <2>9, <3>1
  <2>10. CASE g = Task(c) /\ ~ReadActive(g) /\ ~ReadMap(g)
    <3>1. pc'[g] \notin {"readMap", "put"}
      <4>1. \A f : AfterTake(g, f) \notin {"readMap", "put"}
        BY DEF AfterTake
      <4> QED
        BY <1>10, <2>10, <4>1 DEF AnyStep, CopyForTake, Take, TaskStep, UpdateKnown,
                                  SerialBase, IndInv, TypeOK
    <3> QED
      BY <2>4, <2>10, <3>1
  <2> QED
    BY <2>7, <2>8, <2>9, <2>10
<1>15. \A d \in Calls : RoomOf(d)'
  BY <1>3, <1>14 DEF RoomOf
<1> QED
  BY <1>4, <1>9, <1>13, <1>15, SizeAfter

LEMMA SizePut ==
  ASSUME SerialBase, HeadInv, Answering, SizeInv,
         NEW c \in Calls, NEW g \in Goroutine, g[1] = c, Put(g)
  PROVE  SizeInv'
<1>1. PICK o, k :
         /\ Stores(o, dst[g], k)
         /\ UNCHANGED <<peers, peerMap, currentActive, seen>>
         /\ pc[g] = "put" /\ pc'[g] = "done"
         /\ g = Handler(c) \/ g = Task(c)
  BY PutStores
<1>2. /\ root[c] \in Calls /\ dst[g] \in {HeadMap(root[c]), PrevMap(root[c])}
      /\ g = Handler(c) =>
           /\ pc[Task(c)] = "idle" /\ dst[g] = HeadMap(c) /\ root[c] = c
           /\ \A s \in Slot : Empty(peerMap[c][s])
  BY PutAim
<1>3. InCall(c)
  BY DEF InCall, AnyStep
<1>4. /\ root' = root
      /\ \A d \in Calls : d # c => pc'[Task(d)] \in Ended
  BY <1>3, OthersRest
<1>5. /\ Cardinality(Loads) \in Nat /\ Cardinality(Loads') \in Nat
      /\ Cardinality(Loads) <= Cardinality(Loads') /\ LaunchRoom' /\ Loads' = Loads
  <2>1. req' = req
    BY <1>3, OthersRest
  <2> QED
    BY <1>3, <2>1, LoadsLast DEF Loads
<1>6. \A m \in MapRef : m # dst[g] => LenAfter(m) = MapLen(m)
  BY <1>1, LenSame DEF Stores
<1>7. /\ LenAfter(dst[g]) <= MapLen(dst[g]) + 1
      /\ LenAfter(dst[g]) \in Nat /\ MapLen(dst[g]) \in Nat
  BY <1>1, LenGrows, LenType, LenTypeAfter DEF Stores
<1>8. \A m \in MapRef : m # dst[g] =>
        \A x \in Nat : AtMost(MapLen(m), x) => AtMostAfter(LenAfter(m), x)
  BY <1>5, <1>6, LenType, RoomLasts
<1>9. g = Handler(c) => MapLen(dst[g]) = 0
  <2> SUFFICES ASSUME g = Handler(c) PROVE MapLen(dst[g]) = 0
    OBVIOUS
  <2>1. currentActive[c] \in Slot
    BY DEF SerialBase, IndInv, TypeOK
  <2>2. Empty(dst[g])
    BY <1>2, <2>1 DEF HeadMap
  <2> QED
    BY <2>2, LenType
<1>10. AtMost(MapLen(dst[g]), 0)
  <2>1. CASE g = Handler(c)
    BY <1>9, <2>1, HalfType DEF AtMost
  <2>2. CASE g = Task(c)
    BY <1>1, <2>2 DEF SizeInv, RoomOf, Ended
  <2> QED
    BY <1>1, <2>1, <2>2
<1>11. AtMostAfter(LenAfter(dst[g]), 1)
  BY <1>5, <1>7, <1>10, HalfType DEF AtMost, AtMostAfter
<1>12. \A r \in Calls : \A s \in Slot : AtMostAfter(LenAfter(peerMap'[r][s]), 1)
  <2> SUFFICES ASSUME NEW r \in Calls, NEW s \in Slot
               PROVE  AtMostAfter(LenAfter(peerMap[r][s]), 1)
    BY <1>1
  <2>1. peerMap[r][s] \in MapRef /\ AtMost(MapLen(peerMap[r][s]), 1)
    BY RingMaps DEF SizeInv, Small
  <2> QED
    BY <1>8, <1>11, <2>1
<1>13. \A r \in Calls : HeadMap(r)' = HeadMap(r) /\ HeadMap(r) \in MapRef
  BY <1>1, RingMaps DEF HeadMap
<1>14. /\ Handler(c) \in Goroutine /\ Task(c) \in Goroutine /\ Handler(c) # Task(c)
       /\ \A d \in Goroutine : d # g => pc'[d] = pc[d]
  BY Names, SharedMoves DEF AnyStep
<1>15. ASSUME NEW r \in Calls
       PROVE  \/ AtMostAfter(LenAfter(HeadMap(r)'), 0)
              \/ \E d \in Calls : root'[d] = r /\ Swelling(d)'
  <2>1. ~Swelling(c)
    BY <1>1, <1>2 DEF Swelling
  <2>2. AtMost(MapLen(HeadMap(r)), 0)
    BY <1>3, <2>1, SwellingRuns DEF SizeInv, HeadRoom
  <2>3. CASE HeadMap(r) # dst[g]
    BY <1>8, <1>13, <2>2, <2>3
  <2>4. CASE HeadMap(r) = dst[g]
    <3>1. r = root[c]
      <4>1. \A q \in Calls : currentActive[q] \in Slot
        BY DEF SerialBase, IndInv, TypeOK
      <4> QED
        BY <1>2, <2>4, <4>1, Slots, OtherRings DEF HeadMap, PrevMap
    <3>2. CASE g = Handler(c)
      BY <1>7, <1>9, <1>13, <2>4, <3>2, HalfType DEF AtMostAfter
    <3>3. CASE g = Task(c)
      <4>1. pc'[Handler(c)] = pc[Handler(c)] /\ pc'[Task(c)] = "done"
        BY <1>1, <1>14, <3>3
      <4>2. pc[Handler(c)] \in Walk
        BY <1>1, <3>3 DEF Answering
      <4>3. CASE pc[Handler(c)] \in {"empty", "done"}
        <5>1. MapLen(dst[g]) <= Half
          BY <1>1, <2>4, <3>1, <3>3, <4>3 DEF SizeInv, RoomOf, Ended
        <5> QED
          BY <1>7, <1>13, <2>4, <5>1, HalfType DEF AtMostAfter
      <4>4. CASE pc[Handler(c)] \notin {"empty", "done"}
        BY <1>4, <3>1, <4>1, <4>2, <4>4 DEF Swelling, Walk
      <4> QED
        BY <4>3, <4>4
    <3> QED
      BY <1>1, <3>2, <3>3
  <2> QED
    BY <2>3, <2>4
<1>16. pc'[Task(c)] \in Ended
  BY <1>1, <1>2, <1>14 DEF Ended
<1>17. \A d \in Calls : RoomOf(d)'
  BY <1>4, <1>16 DEF RoomOf
<1> QED
  BY <1>5, <1>12, <1>15, <1>17, SizeAfter

LEMMA SizeBegins ==
  ASSUME MaxInflight = 1, SerialBase, HeadInv, SizeInv, NEW c \in Calls, BeginCall(c)
  PROVE  SizeInv'
<1>1. /\ \A g \in Goroutine : pc[g] \in Ended
      /\ pc[Handler(c)] = "idle"
      /\ \A d \in Calls : d # c => pc'[Task(d)] = pc[Task(d)] /\ req'[d] = req[d]
      /\ UNCHANGED <<maps, peerMap, currentActive>>
      /\ serving' /\ req'[c].op # "load"
      /\ pc'[Task(c)] \in {"idle", "copyForTake"}
      /\ pc'[Task(c)] = "copyForTake" => pc'[Handler(c)] = "copyForRange"
  BY BeginMoves
<1>2. Loads' = Loads
  <2>1. req[c] = None
    BY <1>1 DEF HeadInv, Blank, Born
  <2> QED
    BY <1>1, <2>1 DEF Loads
<1>3. Cardinality(Loads) \in Nat /\ LaunchRoom'
  BY <1>1, <1>2, FS_CardinalityType DEF SizeInv, LaunchRoom
<1>4. \A m : LenAfter(m) = MapLen(m) /\ MapLen(m) \in Nat
  BY <1>1, LenSame, LenType
<1>5. \A m : \A x \in Nat : AtMost(MapLen(m), x) => AtMostAfter(LenAfter(m), x)
  BY <1>2, <1>3, <1>4, RoomLasts
<1>6. \A r \in Calls : \A s \in Slot : AtMostAfter(LenAfter(peerMap'[r][s]), 1)
  BY <1>1, <1>5 DEF SizeInv, Small
<1>7. \A r \in Calls : AtMostAfter(LenAfter(HeadMap(r)'), 0)
  <2>1. \A d \in Calls : ~Swelling(d)
    BY <1>1, Names DEF Swelling, Ended
  <2>2. \A r \in Calls : HeadMap(r)' = HeadMap(r) /\ AtMost(MapLen(HeadMap(r)), 0)
    BY <1>1, <2>1 DEF SizeInv, HeadRoom, HeadMap
  <2> QED
    BY <1>5, <2>2
<1>8. \A d \in Calls : RoomOf(d)'
  BY <1>1, Names DEF RoomOf, Ended
<1> QED
  BY <1>3, <1>6, <1>7, <1>8, SizeAfter

LEMMA SizeDirect ==
  ASSUME SerialBase, HeadInv, SizeInv, NEW c \in Calls, NEW r \in Requests, NEW t \in 0..now,
         DirectStore(c, r, t)
  PROVE  SizeInv'
<1>1. /\ \A g \in Goroutine : pc[g] \in Ended /\ pc'[g] \in Ended
      /\ ~serving /\ ~serving'
      /\ UNCHANGED <<peerMap, currentActive>>
      /\ \A d \in Calls : d # c => req'[d] = req[d]
      /\ r \in Request /\ r.op = "load" /\ req'[c] = r /\ req[c] = None
  BY DirectMoves
<1>2. PICK h \in Calls : \A m \in MapRef : \A k \in PeerID :
              maps'[m][k] = IF m = HeadMap(h) /\ k = r.peerID THEN c ELSE maps[m][k]
  BY DirectMoves
<1>3. Loads' = Loads \cup {c} /\ c \notin Loads
  <2>1. r # None
    BY LocalAssumption
  <2> QED
    BY <1>1, <2>1 DEF Loads
<1>4. /\ Cardinality(Loads') = Cardinality(Loads) + 1 /\ IsFiniteSet(Loads')
      /\ Cardinality(Loads) \in Nat
  BY <1>3, FS_AddElement, FS_CardinalityType DEF SizeInv, LaunchRoom
<1>5. r.peerID \in PeerID
  BY <1>1 DEF Request
<1>6. \A q \in Calls : HeadMap(q)' = HeadMap(q) /\ HeadMap(q) \in MapRef
  BY <1>1, RingMaps DEF HeadMap
<1>7. \A m \in MapRef : LenAfter(m) <= MapLen(m) + 1 /\ LenAfter(m) \in Nat /\ MapLen(m) \in Nat
  BY <1>2, <1>5, LenGrows, LenType, LenTypeAfter
<1>8. \A q \in Calls : LenAfter(HeadMap(q)) <= Cardinality(Loads')
  <2>1. \A q \in Calls : MapLen(HeadMap(q)) <= Cardinality(Loads)
    BY <1>1 DEF SizeInv, LaunchRoom
  <2> QED
    BY <1>4, <1>6, <1>7, <2>1
<1>9. ASSUME NEW q \in Calls, NEW s \in Slot
      PROVE  AtMostAfter(LenAfter(peerMap'[q][s]), 1)
  <2>1. currentActive[q] = 0 /\ Empty(peerMap[q][1]) /\ Empty(peerMap[q][2])
    BY <1>1 DEF HeadInv, Launch
  <2>2. CASE s = 0
    <3>1. peerMap'[q][s] = HeadMap(q) /\ LenAfter(HeadMap(q)) \in Nat
      BY <1>1, <1>6, <1>7, <2>1, <2>2 DEF HeadMap
    <3> QED
      BY <1>4, <1>8, <3>1 DEF AtMostAfter
  <2>3. CASE s # 0
    <3>1. Empty(peerMap[q][s]) /\ peerMap[q][s] \in MapRef
      BY <2>1, <2>3, RingMaps DEF Slot
    <3>2. MapLen(peerMap[q][s]) = 0
      BY <3>1, LenType
    <3> QED
      BY <1>1, <1>7, <3>1, <3>2, HalfType DEF AtMostAfter
  <2> QED
    BY <2>2, <2>3
<1>10. \A q \in Calls : AtMostAfter(LenAfter(HeadMap(q)'), 0)
  BY <1>4, <1>6, <1>7, <1>8 DEF AtMostAfter
<1>11. LaunchRoom'
  BY <1>4, <1>6, <1>8 DEF LaunchRoom, LenAfter, MapLen, Keys
<1>12. \A d \in Calls : RoomOf(d)'
  BY <1>1, Names DEF RoomOf
<1> QED
  BY <1>9, <1>10, <1>11, <1>12, SizeAfter

LEMMA SizeStep ==
  ASSUME MaxInflight = 1, SerialBase, HeadInv, Answering, SerialBase', Answering',
         SizeInv, [Next]_vars
  PROVE  SizeInv'
<1>1. CASE \E c \in Calls, r \in Requests, t \in 0..now : DirectStore(c, r, t)
  BY <1>1, SizeDirect
<1>2. CASE Serve \/ Tick \/ Finished \/ UNCHANGED vars
  <2>1. UNCHANGED <<store, locals, pc, loops>> /\ (serving => serving')
    BY <1>2 DEF Serve, Tick, Finished, vars, clock
  <2> QED
    <3>1. UNCHANGED <<maps, peerMap, currentActive, req, root, pc, idx, dst>>
      BY <2>1 DEF store, locals, loops
    <3>2. Small'
      BY <3>1 DEF SizeInv, Small, AtMost, MapLen, Keys, Loads
    <3>3. HeadRoom'
      BY <3>1 DEF SizeInv, HeadRoom, AtMost, MapLen, Keys, Loads, HeadMap, Swelling
    <3>4. LaunchRoom'
      BY <2>1, <3>1 DEF SizeInv, LaunchRoom, MapLen, Keys, Loads, HeadMap
    <3>5. \A c \in Calls : RoomOf(c)'
      BY <3>1 DEF SizeInv, RoomOf, AtMost, MapLen, Keys, Loads, HeadMap
    <3> QED
      BY <3>2, <3>3, <3>4, <3>5 DEF SizeInv
<1>3. CASE \E c \in Calls : BeginCall(c)
  BY <1>3, SizeBegins
<1>4. CASE \E c \in Calls : HandlerStep(c)
  BY <1>4, SizeLooks, SizeSwap, SizeEmpties DEF HandlerStep, Looking
<1>5. CASE \E c \in Calls : TaskStep(c) \/ ReaperStep(c)
  BY <1>5, Names, SizeShared
<1>6. CASE \E g \in Goroutine : AnyStep(g)
  BY <1>6, Names, SizeShared, SizePut
<1> QED
  BY <1>1, <1>2, <1>3, <1>4, <1>5, <1>6 DEF Next

LEMMA SizeInductive ==
  ASSUME MaxInflight = 1
  PROVE  Spec => []SizeInv
<1>1. SerialBase /\ HeadInv /\ Answering /\ SerialBase' /\ Answering' /\ SizeInv /\ [Next]_vars
      => SizeInv'
  BY SizeStep
<1>2. Init => SizeInv
  <2> SUFFICES ASSUME Init PROVE SizeInv
    OBVIOUS
  <2>1. Loads = {}
    BY DEF Init, Loads
  <2>2. IsFiniteSet(Loads) /\ Cardinality(Loads) = 0
    BY <2>1, FS_EmptySet
  <2>3. \A r \in Calls : \A s \in Slot : MapLen(peerMap[r][s]) = 0
    <3>1. \A s \in Slot : s \in 0..3
      BY DEF Slot
    <3>2. \A r \in Calls : \A s \in Slot : Empty(peerMap[r][s])
      BY <3>1, Indices DEF Init, Empty
    <3> QED
      BY <3>2, LenType
  <2>4. \A r \in Calls : MapLen(HeadMap(r)) = 0
    BY <2>3, Indices DEF HeadMap, Init
  <2>5. \A c \in Calls : RoomOf(c)
    BY Names DEF RoomOf, Init, Ended
  <2> QED
    BY <2>2, <2>3, <2>4, <2>5, HalfType DEF SizeInv, Small, HeadRoom, LaunchRoom, AtMost
<1> QED
  BY <1>1, <1>2, SerialBaseInductive, HeadInductive, AnsweringInductive, PTL DEF Spec

(* i.peerMap, "one for write, one for readonly and one keeps empty": when  *)
(* calls do not overlap and all work has ended, no peer of a torrent is in *)
(* two of its maps, the map the head moves to next is empty, and no map    *)
(* holds more than two peers above the rotation threshold (one above what  *)
(* was loaded at launch), however the task's store falls between the steps *)
(* of the rotation.                                                        *)
THEOREM RingIsDisciplined ==
  ASSUME MaxInflight = 1
  PROVE  Spec => []RingDiscipline
<1>1. SerialBase /\ HeadInv /\ SoleInv /\ SizeInv => RingDiscipline
  <2> SUFFICES ASSUME SerialBase, HeadInv, SoleInv, SizeInv, Quiescent,
                      NEW h \in InfoHash, infoHashMap[h] # None
               PROVE  LET r == infoHashMap[h]
                      IN  /\ \A k \in PeerID : Cardinality(Holders(r, k)) <= 1
                          /\ Keys(peerMap[r][(currentActive[r] + 1) % 3]) = {}
                          /\ SlotBound(r)
    BY DEF RingDiscipline
  <2> DEFINE r == infoHashMap[h]
  <2>1. r \in Calls
    BY DEF SerialBase, IndInv, TypeOK
  <2> HIDE DEF r
  <2>2. ASSUME NEW k \in PeerID PROVE Cardinality(Holders(r, k)) <= 1
    <3>1. CASE Holders(r, k) = {}
      BY <3>1, FS_EmptySet
    <3>2. CASE Holders(r, k) # {}
      <4>1. PICK s \in Slot : s \in Holders(r, k)
        BY <3>2 DEF Holders
      <4>2. Holders(r, k) = {s}
        BY <2>1, <4>1 DEF Holders, SoleInv, Sole
      <4> QED
        BY <4>2, FS_Singleton
    <3> QED
      BY <3>1, <3>2
  <2>3. Keys(peerMap[r][(currentActive[r] + 1) % 3]) = {}
    <3>1. \A c \in Calls : pc[Handler(c)] # "empty"
      BY Names, AtWork DEF SerialBase, Quiescent, Ended
    <3>2. Empty(NextMap(r))
      BY <2>1, <3>1 DEF HeadInv, Vacant
    <3> QED
      BY <3>2 DEF Empty, NextMap, NextSlot, Keys
  <2>4. SlotBound(r)
    <3> SUFFICES ASSUME NEW s \in Slot
                 PROVE  \/ MapLen(peerMap[r][s]) <= Half + 2
                        \/ MapLen(peerMap[r][s]) <= Cardinality(Loads) + 1
      BY DEF SlotBound, Half, Loads
    <3>1. AtMost(MapLen(peerMap[r][s]), 1)
      BY <2>1 DEF SizeInv, Small
    <3>2. MapLen(peerMap[r][s]) \in Nat /\ Half \in Nat
      BY LenType, HalfType
    <3> QED
      BY <3>1, <3>2 DEF AtMost
  <2> QED
    BY <2>2, <2>3, <2>4 DEF r
<1> QED
  BY <1>1, SerialBaseInductive, HeadInductive, SoleInductive, SizeInductive, PTL

-----------------------------------------------------------------------------
(* The ages of the records.  The maps of a ring are ordered in time, from  *)
(* the one about to be emptied to the one that is written: a task stores   *)
(* the latest record there is, and where it may still store into the map   *)
(* just left, the new one is empty.                                        *)

Before(m, n) ==
  \A j, k \in PeerID : maps[m][j] # None /\ maps[n][k] # None =>
    peers[maps[m][j]].lastSeen <= peers[maps[n][k]].lastSeen
Aged ==
  \A r \in Calls : /\ Before(PrevMap(r), HeadMap(r))
                   /\ Before(NextMap(r), PrevMap(r)) /\ Before(NextMap(r), HeadMap(r))
Past == \A o \in Calls : peers[o] # None => peers[o].lastSeen <= now
LatestOf(c) ==
  pc[Task(c)] \notin Ended =>
    /\ \A o \in Calls : peers[o] # None => peers[o].lastSeen <= peers[c].lastSeen
    /\ pc[Task(c)] \in Storing /\ found[Task(c)] # None =>
         peers[found[Task(c)]].lastSeen = peers[c].lastSeen
AgeInv == Aged /\ Past /\ \A c \in Calls : LatestOf(c)

(* The times of the records as a step leaves them. *)
BeforeAfter(m, n) ==
  \A j, k \in PeerID : maps'[m][j] # None /\ maps'[n][k] # None =>
    peers'[maps'[m][j]].lastSeen <= peers'[maps'[n][k]].lastSeen

LEMMA AgedAfter ==
  ASSUME \A r \in Calls : /\ BeforeAfter(PrevMap(r)', HeadMap(r)')
                          /\ BeforeAfter(NextMap(r)', PrevMap(r)')
                          /\ BeforeAfter(NextMap(r)', HeadMap(r)')
  PROVE  Aged'
BY DEF Aged, Before, BeforeAfter

(* The one record whose time a step of a call may change is the one that   *)
(* its task has in hand.                                                   *)
LEMMA SeenMoves ==
  ASSUME SerialBase, NEW c \in Calls, InCall(c)
  PROVE  \A o \in Calls :
           \/ peers'[o] = peers[o]
           \/ /\ UpdateKnown(c) /\ pc[Task(c)] = "update" /\ o = found[Task(c)] /\ peers[c] \in Peer
              /\ peers'[o].lastSeen = peers[c].lastSeen
<1>1. CASE TaskStep(c)
  <2>1. /\ peers \in [Calls -> Peer \cup {None}] /\ found[Task(c)] \in Calls
        /\ peers[found[Task(c)]] \in Peer /\ pc[Task(c)] = "update"
    BY <1>1, Names, LocalAssumption DEF TaskStep, UpdateKnown, SerialBase, IndInv, TypeOK, Scopes,
                                        Held, Admissible
  <2>2. peers' = [peers EXCEPT ![found[Task(c)]] = Refreshed(peers[found[Task(c)]], peers[c])]
    BY <1>1, <2>1 DEF TaskStep, UpdateKnown
  <2>3. Refreshed(peers[found[Task(c)]], peers[c]).lastSeen = peers[c].lastSeen
    BY <2>1 DEF Refreshed, Peer
  <2>4. peers[c] \in Peer
    BY <2>1 DEF SerialBase, IndInv, Pending, Ended
  <2> QED
    BY <1>1, <2>1, <2>2, <2>3, <2>4 DEF TaskStep
<1>2. CASE ~TaskStep(c)
  BY <1>2 DEF InCall, HandlerStep, CopyForRange, RangeSlot, CheckLen, ReadCurrent, CompareAndSwap,
              EmptyOldest, CleanNext, DropRoot, ReaperStep, NextExpired, Remove, AnyStep,
              CopyForTake, Take, ReadActive, ReadMap, Put, store
<1> QED
  BY <1>1, <1>2

(* It is in no map. *)
LEMMA StoredSeenLast ==
  ASSUME SerialBase, NEW c \in Calls, InCall(c), NEW m \in MapRef, NEW k \in PeerID, maps[m][k] # None
  PROVE  /\ maps[m][k] \in Calls /\ peers[maps[m][k]] # None /\ peers[maps[m][k]] \in Peer
         /\ peers'[maps[m][k]] = peers[maps[m][k]]
<1>1. maps[m][k] \in Calls /\ k \in Keys(m)
  BY DEF SerialBase, IndInv, TypeOK, Keys
<1>2. peers[maps[m][k]] \in Peer
  BY <1>1 DEF SerialBase, IndInv, Stored
<1>3. found[Task(c)] # None => maps[m][k] # found[Task(c)]
  BY Names DEF SerialBase, IndInv, Exclusive
<1>4. UpdateKnown(c) => found[Task(c)] # None
  BY Names, LocalAssumption DEF UpdateKnown, SerialBase, IndInv, Scopes
<1> QED
  BY <1>1, <1>2, <1>3, <1>4, SeenMoves, LocalAssumption

LEMMA BeforeLasts ==
  ASSUME SerialBase, NEW c \in Calls, InCall(c), Shrinks, NEW m \in MapRef, NEW n \in MapRef,
         Before(m, n)
  PROVE  BeforeAfter(m, n)
<1> SUFFICES ASSUME NEW j \in PeerID, NEW k \in PeerID, maps'[m][j] # None, maps'[n][k] # None
             PROVE  peers'[maps'[m][j]].lastSeen <= peers'[maps'[n][k]].lastSeen
  BY DEF BeforeAfter
<1>1. maps'[m][j] = maps[m][j] /\ maps'[n][k] = maps[n][k]
  BY DEF Shrinks
<1> QED
  BY <1>1, StoredSeenLast DEF Before

(* A map with nothing in it is before and after every other. *)
LEMMA EmptyBefore ==
  ASSUME NEW m, NEW n, (\A k \in PeerID : maps'[m][k] = None) \/ (\A k \in PeerID : maps'[n][k] = None)
  PROVE  BeforeAfter(m, n)
BY DEF BeforeAfter

LEMMA PastInCall ==
  ASSUME SerialBase, AgeInv, NEW c \in Calls, InCall(c)
  PROVE  Past'
<1>1. now' = now
  BY OthersRest
<1> SUFFICES ASSUME NEW o \in Calls, peers'[o] # None PROVE peers'[o].lastSeen <= now
  BY <1>1 DEF Past
<1>2. CASE peers'[o] = peers[o]
  BY <1>2 DEF AgeInv, Past
<1>3. CASE peers[c] \in Peer /\ peers'[o].lastSeen = peers[c].lastSeen
  BY <1>3, LocalAssumption DEF AgeInv, Past
<1> QED
  BY <1>2, <1>3, SeenMoves

LEMMA LatestInCall ==
  ASSUME SerialBase, AgeInv, NEW c \in Calls, InCall(c)
  PROVE  \A d \in Calls : LatestOf(d)'
<1>1. \A d \in Calls : d # c => pc'[Task(d)] \in Ended
  BY OthersRest
<1> SUFFICES ASSUME pc'[Task(c)] \notin Ended PROVE LatestOf(c)'
  BY <1>1 DEF LatestOf
<1>2. /\ Task(c) \in Goroutine /\ Handler(c) # Task(c) /\ Reaper(c) # Task(c)
      /\ Handler(c) \in Goroutine /\ Task(c)[2] = "task"
      /\ pc \in [Goroutine -> Label] /\ found \in [Goroutine -> Calls \cup {None}]
  BY Names DEF SerialBase, IndInv, TypeOK
<1>3. CASE \/ HandlerStep(c) \/ ReaperStep(c)
           \/ \E g \in Goroutine : g[1] = c /\ g # Task(c) /\ AnyStep(g)
  <2>1. pc'[Task(c)] = pc[Task(c)] /\ found'[Task(c)] = found[Task(c)]
    <3>1. CASE HandlerStep(c)
      <4>1. CASE Looking(c)
        BY <4>1, LooksOnly
      <4>2. CASE CompareAndSwap(c) \/ EmptyOldest(c)
        BY <1>2, <4>2 DEF CompareAndSwap, EmptyOldest, loops
      <4> QED
        BY <3>1, <4>1, <4>2 DEF HandlerStep, Looking
    <3>2. CASE ReaperStep(c)
      BY <1>2, <3>2, Names, SharedMoves
    <3>3. CASE \E g \in Goroutine : g[1] = c /\ g # Task(c) /\ AnyStep(g)
      BY <1>2, <3>3, SharedMoves
    <3> QED
      BY <1>3, <3>1, <3>2, <3>3
  <2>2. peers' = peers
    BY <1>3 DEF HandlerStep, CopyForRange, RangeSlot, CheckLen, ReadCurrent, CompareAndSwap,
              EmptyOldest, CleanNext, DropRoot, ReaperStep, NextExpired, Remove, AnyStep,
              CopyForTake, Take, ReadActive, ReadMap, Put, store
  <2> QED
    BY <2>1, <2>2 DEF AgeInv, LatestOf
<1>4. CASE AnyStep(Task(c))
  <2>1. peers' = peers /\ pc[Task(c)] \notin Ended
    BY <1>4 DEF AnyStep, CopyForTake, Take, ReadActive, ReadMap, Put, store, Ended
  <2>2. pc'[Task(c)] \in Storing /\ found'[Task(c)] # None =>
          pc[Task(c)] \in Storing /\ found'[Task(c)] = found[Task(c)]
    <3>1. CASE Take(Task(c))
      <4> DEFINE m == copy[Task(c)][pos[Task(c)]]
                 f == Newest(found[Task(c)], maps[m][key[Task(c)]])
      <4>1. /\ pc[Task(c)] = "take" /\ found'[Task(c)] = f
            /\ pc' = pc \/ pc' = [pc EXCEPT ![Task(c)] = AfterTake(Task(c), f)]
        BY <1>2, <3>1 DEF Take
      <4>2. AfterTake(Task(c), f) \in Storing => f = None
        BY <1>2 DEF AfterTake, Storing
      <4> HIDE DEF f
      <4> QED
        BY <1>2, <4>1, <4>2 DEF Storing
    <3>2. CASE Put(Task(c))
      BY <1>2, <3>2 DEF Put, Storing
    <3>3. CASE CopyForTake(Task(c)) \/ ReadActive(Task(c)) \/ ReadMap(Task(c))
      BY <1>2, <3>3 DEF CopyForTake, ReadActive, ReadMap, Storing
    <3> QED
      BY <1>4, <3>1, <3>2, <3>3 DEF AnyStep
  <2> QED
    BY <2>1, <2>2 DEF AgeInv, LatestOf
<1>5. CASE TaskStep(c)
  <2>1. /\ pc[Task(c)] = "update" /\ found' = found /\ found[Task(c)] \in Calls
        /\ peers' = [peers EXCEPT ![found[Task(c)]] = Refreshed(@, peers[c])]
    BY <1>2, <1>5 DEF TaskStep, UpdateKnown, loops, SerialBase, IndInv, Scopes
  <2>2. /\ peers[c] \in Peer /\ peers[found[Task(c)]] \in Peer
        /\ peers \in [Calls -> Peer \cup {None}]
    BY <1>2, <2>1, LocalAssumption DEF SerialBase, IndInv, Pending, Ended, Held, Admissible, TypeOK
  <2>3. Refreshed(peers[found[Task(c)]], peers[c]).lastSeen = peers[c].lastSeen
    BY <2>2 DEF Refreshed, Peer
  <2>4. peers'[found[Task(c)]].lastSeen = peers[c].lastSeen /\ peers'[c].lastSeen = peers[c].lastSeen
    BY <2>1, <2>2, <2>3
  <2>5. peers[c].lastSeen \in Nat
    BY <2>2 DEF Peer
  <2>6. \A o \in Calls : peers'[o] # None => peers'[o].lastSeen <= peers[c].lastSeen
    BY <2>1, <2>2, <2>4, <2>5 DEF AgeInv, LatestOf, Ended
  <2> QED
    BY <2>1, <2>4, <2>6 DEF LatestOf
<1> QED
  BY <1>3, <1>4, <1>5, Names DEF InCall

(* A store puts the latest record into the map written, or into the one    *)
(* just left while the new one is still empty.                             *)
LEMMA AgedPut ==
  ASSUME SerialBase, HeadInv, AgeInv, NEW c \in Calls, NEW g \in Goroutine, g[1] = c, Put(g)
  PROVE  Aged'
<1> DEFINE o == IF found[g] # None THEN found[g] ELSE c
           k == peers[o].id
<1>1. /\ Stores(o, dst[g], k) /\ pc[g] = "put" /\ peers[o] \in Peer
      /\ UNCHANGED <<peers, peerMap, currentActive>>
      /\ g = Handler(c) \/ g = Task(c)
  BY PutStores
<1>2. /\ root[c] \in Calls /\ dst[g] \in {HeadMap(root[c]), PrevMap(root[c])}
      /\ g = Task(c) => Aim(c, dst[g])
      /\ g = Handler(c) => dst[g] = HeadMap(c) /\ root[c] = c /\ \A s \in Slot : Empty(peerMap[c][s])
  BY PutAim
<1>3. g = Task(c) =>
        /\ peers[o].lastSeen = peers[c].lastSeen
        /\ \A x \in Calls : peers[x] # None => peers[x].lastSeen <= peers[o].lastSeen
  BY <1>1 DEF AgeInv, LatestOf, Ended, Storing
<1> HIDE DEF o, k
<1>4. InCall(c)
  BY DEF InCall, AnyStep
<1>5. \A m \in MapRef : \A j \in PeerID : maps[m][j] # None =>
        maps[m][j] \in Calls /\ peers[maps[m][j]] # None
  BY <1>4, StoredSeenLast
<1>6. \A r \in Calls : HeadMap(r)' = HeadMap(r) /\ PrevMap(r)' = PrevMap(r) /\ NextMap(r)' = NextMap(r)
  BY <1>1 DEF HeadMap, PrevMap, NextMap
<1>7. peers[o].lastSeen \in Nat
  BY <1>1 DEF Peer
<1>8. \A m, n \in MapRef : m # dst[g] /\ n # dst[g] /\ Before(m, n) => BeforeAfter(m, n)
  BY <1>1 DEF Stores, Before, BeforeAfter
<1>9. ASSUME g = Task(c), NEW m \in MapRef, m # dst[g], Before(m, dst[g])
      PROVE  BeforeAfter(m, dst[g])
  <2> SUFFICES ASSUME NEW i \in PeerID, NEW j \in PeerID, maps'[m][i] # None, maps'[dst[g]][j] # None
               PROVE  peers[maps'[m][i]].lastSeen <= peers[maps'[dst[g]][j]].lastSeen
    BY <1>1 DEF BeforeAfter
  <2>1. maps'[m][i] = maps[m][i] /\ dst[g] \in MapRef
    BY <1>1, <1>9 DEF Stores
  <2>2. CASE maps'[dst[g]][j] = o
    BY <1>3, <1>5, <1>9, <2>1, <2>2
  <2>3. CASE maps'[dst[g]][j] = maps[dst[g]][j]
    BY <1>9, <2>1, <2>3 DEF Before
  <2> QED
    BY <1>1, <2>1, <2>2, <2>3 DEF Stores
<1> SUFFICES ASSUME NEW r \in Calls
             PROVE  /\ BeforeAfter(PrevMap(r), HeadMap(r))
                    /\ BeforeAfter(NextMap(r), PrevMap(r))
                    /\ BeforeAfter(NextMap(r), HeadMap(r))
  BY <1>6, AgedAfter
<1>10. /\ HeadMap(r) \in MapRef /\ NextMap(r) \in MapRef /\ PrevMap(r) \in MapRef
       /\ HeadMap(r) # NextMap(r) /\ HeadMap(r) # PrevMap(r) /\ NextMap(r) # PrevMap(r)
  BY RingMaps
<1>11. /\ Before(PrevMap(r), HeadMap(r)) /\ Before(NextMap(r), PrevMap(r))
       /\ Before(NextMap(r), HeadMap(r))
  BY DEF AgeInv, Aged
<1>12. CASE r # root[c]
  <2>1. HeadMap(r) # dst[g] /\ PrevMap(r) # dst[g] /\ NextMap(r) # dst[g]
    <3>1. \A q \in Calls : currentActive[q] \in Slot
      BY DEF SerialBase, IndInv, TypeOK
    <3>2. PICK s \in Slot : dst[g] = peerMap[root[c]][s]
      BY <1>2, <3>1, Slots DEF HeadMap, PrevMap
    <3> QED
      BY <1>2, <1>12, <3>1, <3>2, Slots, OtherRings DEF HeadMap, PrevMap, NextMap
  <2> QED
    BY <1>8, <1>10, <1>11, <2>1
<1>13. CASE r = root[c] /\ g = Handler(c)
  <2>1. currentActive[c] \in Slot
    BY DEF SerialBase, IndInv, TypeOK
  <2>2. Empty(PrevMap(r)) /\ Empty(NextMap(r)) /\ dst[g] = HeadMap(r)
    BY <1>2, <1>13, <2>1, Slots DEF PrevMap, NextMap
  <2>3. \A j \in PeerID : maps'[PrevMap(r)][j] = None /\ maps'[NextMap(r)][j] = None
    BY <1>1, <1>10, <2>2 DEF Empty, Stores
  <2> QED
    BY <2>3, EmptyBefore
<1>14. CASE r = root[c] /\ g = Task(c) /\ dst[g] = HeadMap(r)
  BY <1>8, <1>9, <1>10, <1>11, <1>14
<1>15. CASE r = root[c] /\ g = Task(c) /\ dst[g] # HeadMap(r)
  <2>1. dst[g] = PrevMap(r) /\ Empty(HeadMap(r))
    BY <1>2, <1>15 DEF Aim
  <2>2. \A j \in PeerID : maps'[HeadMap(r)][j] = None
    BY <1>1, <1>10, <2>1 DEF Empty, Stores
  <2>3. BeforeAfter(NextMap(r), PrevMap(r))
    BY <1>9, <1>10, <1>11, <1>15, <2>1
  <2> QED
    BY <2>2, <2>3, EmptyBefore
<1> QED
  BY <1>1, <1>12, <1>13, <1>14, <1>15

LEMMA AgedInCall ==
  ASSUME SerialBase, HeadInv, AgeInv, NEW c \in Calls, InCall(c)
  PROVE  Aged'
<1>1. CASE \E g \in Goroutine : g[1] = c /\ Put(g)
  BY <1>1, AgedPut
<1>2. CASE CompareAndSwap(c)
  <2>1. Shrinks
    BY <1>2, SwapMoves DEF Shrinks
  <2> SUFFICES ASSUME NEW r \in Calls
               PROVE  /\ BeforeAfter(PrevMap(r)', HeadMap(r)')
                      /\ BeforeAfter(NextMap(r)', PrevMap(r)')
                      /\ BeforeAfter(NextMap(r)', HeadMap(r)')
    BY AgedAfter
  <2>2. /\ Before(PrevMap(r), HeadMap(r)) /\ Before(NextMap(r), PrevMap(r))
        /\ Before(NextMap(r), HeadMap(r))
        /\ HeadMap(r) \in MapRef /\ NextMap(r) \in MapRef /\ PrevMap(r) \in MapRef
    BY RingMaps DEF AgeInv, Aged
  <2>3. CASE r # root[c]
    <3>1. HeadMap(r)' = HeadMap(r) /\ PrevMap(r)' = PrevMap(r) /\ NextMap(r)' = NextMap(r)
      BY <1>2, <2>3, SwapMoves
    <3> QED
      BY <2>1, <2>2, <3>1, BeforeLasts
  <2>4. CASE r = root[c]
    <3>1. root' = root
      BY OthersRest
    <3>2. HeadMap(r)' = NextMap(r) /\ PrevMap(r)' = HeadMap(r) /\ NextMap(r)' = PrevMap(r)
      <4>1. currentActive'[r] = NextSlot(currentActive[r]) /\ peerMap' = peerMap
            /\ currentActive[r] \in Slot
        BY <1>2, <2>4, SwapMoves DEF SerialBase, IndInv, TypeOK
      <4> QED
        BY <4>1, Slots DEF HeadMap, PrevMap, NextMap
    <3>3. \A k \in PeerID : maps'[NextMap(r)][k] = None
      BY <1>2, <2>4, SwapMoves DEF Empty
    <3>4. BeforeAfter(PrevMap(r), HeadMap(r))
      BY <2>1, <2>2, BeforeLasts
    <3> QED
      BY <3>2, <3>3, <3>4, EmptyBefore
  <2> QED
    BY <2>3, <2>4
<1>3. CASE EmptyOldest(c)
  <2>1. Shrinks
    BY <1>3, OldestGoes DEF Shrinks
  <2> SUFFICES ASSUME NEW r \in Calls
               PROVE  /\ BeforeAfter(PrevMap(r)', HeadMap(r)')
                      /\ BeforeAfter(NextMap(r)', PrevMap(r)')
                      /\ BeforeAfter(NextMap(r)', HeadMap(r)')
    BY AgedAfter
  <2>2. /\ Before(PrevMap(r), HeadMap(r)) /\ Before(NextMap(r), PrevMap(r))
        /\ Before(NextMap(r), HeadMap(r))
        /\ HeadMap(r) \in MapRef /\ NextMap(r) \in MapRef /\ PrevMap(r) \in MapRef
    BY RingMaps DEF AgeInv, Aged
  <2>3. CASE r # root[c]
    <3>1. HeadMap(r)' = HeadMap(r) /\ PrevMap(r)' = PrevMap(r) /\ NextMap(r)' = NextMap(r)
      BY <1>3, <2>3, OldestGoes
    <3> QED
      BY <2>1, <2>2, <3>1, BeforeLasts
  <2>4. CASE r = root[c]
    <3>1. HeadMap(r)' = HeadMap(r) /\ PrevMap(r)' = PrevMap(r) /\ NextMap(r)' = <<c, 3>>
      <4>1. /\ currentActive' = currentActive /\ Oldest(c) = NextSlot(currentActive[r])
            /\ peerMap'[r][Oldest(c)] = <<c, 3>>
            /\ \A s \in Slot : s # Oldest(c) => peerMap'[r][s] = peerMap[r][s]
            /\ currentActive[r] \in Slot
        BY <1>3, <2>4, OldestGoes DEF SerialBase, IndInv, TypeOK
      <4> QED
        BY <4>1, Slots DEF HeadMap, PrevMap, NextMap
    <3>2. \A k \in PeerID : maps'[<<c, 3>>][k] = None
      BY <1>3, OldestGoes DEF Empty
    <3>3. BeforeAfter(PrevMap(r), HeadMap(r))
      BY <2>1, <2>2, BeforeLasts
    <3> QED
      BY <3>1, <3>2, <3>3, EmptyBefore
  <2> QED
    BY <2>3, <2>4
<1>4. CASE /\ ~\E g \in Goroutine : g[1] = c /\ Put(g)
           /\ ~CompareAndSwap(c) /\ ~EmptyOldest(c)
  <2>1. Shrinks /\ UNCHANGED <<peerMap, currentActive>>
    <3>1. CASE Looking(c)
      BY <3>1, LooksOnly DEF Shrinks
    <3>2. ASSUME NEW g \in Goroutine, g[1] = c, ~Put(g),
                 AnyStep(g) \/ (g = Reaper(c) /\ ReaperStep(c)) \/ (g = Task(c) /\ TaskStep(c))
          PROVE  Shrinks /\ UNCHANGED <<peerMap, currentActive>>
      <4>1. CASE Take(g) \/ (g = Reaper(c) /\ Remove(c))
        BY <3>2, <4>1, TakesOne, SharedMoves DEF Shrinks
      <4>2. CASE ~(Take(g) \/ (g = Reaper(c) /\ Remove(c)))
        BY <3>2, <4>2, SharedMoves DEF AnyStep, CopyForTake, ReadActive, ReadMap, ReaperStep,
                       NextExpired, TaskStep, UpdateKnown, store, Shrinks
      <4> QED
        BY <4>1, <4>2
    <3> QED
      BY <1>4, <3>1, <3>2, Names DEF InCall, HandlerStep, Looking
  <2>2. \A r \in Calls : HeadMap(r)' = HeadMap(r) /\ PrevMap(r)' = PrevMap(r) /\ NextMap(r)' = NextMap(r)
    BY <2>1 DEF HeadMap, PrevMap, NextMap
  <2>3. \A r \in Calls : /\ BeforeAfter(PrevMap(r), HeadMap(r))
                         /\ BeforeAfter(NextMap(r), PrevMap(r))
                         /\ BeforeAfter(NextMap(r), HeadMap(r))
    BY <2>1, RingMaps, BeforeLasts DEF AgeInv, Aged
  <2> QED
    BY <2>2, <2>3, AgedAfter
<1> QED
  BY <1>1, <1>2, <1>3, <1>4

LEMMA AgeBegins ==
  ASSUME MaxInflight = 1, SerialBase, HeadInv, AgeInv, NEW c \in Calls, BeginCall(c)
  PROVE  AgeInv'
<1>1. /\ \A g \in Goroutine : pc[g] \in Ended
      /\ \A d \in Calls : d # c => pc'[Task(d)] = pc[Task(d)] /\ peers'[d] = peers[d]
      /\ UNCHANGED <<now, maps, peerMap, currentActive, found>>
      /\ req'[c] \in Request /\ pc[Handler(c)] = "idle"
      /\ pc'[Task(c)] \in {"idle", "copyForTake"}
      /\ pc'[Task(c)] = "copyForTake" => peers'[c] = NewPeer(req'[c])
      /\ peers'[c] \in {None, NewPeer(req'[c])} /\ NewPeer(req'[c]) \in Peer
  BY BeginMoves
<1>2. NewPeer(req'[c]).lastSeen = now /\ now \in Nat
  BY DEF NewPeer, SerialBase, IndInv, TypeOK
<1>3. \A o \in Calls : peers'[o] # None => peers'[o].lastSeen <= now
  BY <1>1, <1>2 DEF AgeInv, Past
<1>4. Past'
  BY <1>1, <1>3 DEF Past
<1>5. \A m \in MapRef : \A k \in PeerID : maps[m][k] # c
  BY <1>1 DEF SerialBase, IndInv, Fresh
<1>6. Aged'
  <2>1. \A m \in MapRef : \A k \in PeerID :
          maps[m][k] # None => peers'[maps[m][k]] = peers[maps[m][k]]
    BY <1>1, <1>5 DEF SerialBase, IndInv, TypeOK
  <2>2. \A m, n \in MapRef : Before(m, n) => BeforeAfter(m, n)
    BY <1>1, <2>1 DEF Before, BeforeAfter
  <2>3. \A r \in Calls : HeadMap(r)' = HeadMap(r) /\ PrevMap(r)' = PrevMap(r) /\ NextMap(r)' = NextMap(r)
    BY <1>1 DEF HeadMap, PrevMap, NextMap
  <2> QED
    BY <2>2, <2>3, RingMaps, AgedAfter DEF AgeInv, Aged
<1>7. LatestOf(c)'
  BY <1>1, <1>2, <1>3 DEF LatestOf, Storing, Ended
<1>8. \A d \in Calls : LatestOf(d)'
  BY <1>1, <1>7, Names DEF LatestOf
<1> QED
  BY <1>4, <1>6, <1>8 DEF AgeInv

LEMMA AgeDirect ==
  ASSUME SerialBase, HeadInv, HeadInv', SerialBase', AgeInv,
         NEW c \in Calls, NEW r \in Requests, NEW t \in 0..now, DirectStore(c, r, t)
  PROVE  AgeInv'
<1>1. /\ \A g \in Goroutine : pc'[g] \in Ended
      /\ ~serving' /\ now' = now
      /\ \A d \in Calls : d # c => peers'[d] = peers[d]
      /\ peers'[c].lastSeen <= now
  BY DirectMoves
<1>2. Past'
  BY <1>1 DEF AgeInv, Past
<1>3. \A d \in Calls : LatestOf(d)'
  BY <1>1, Names DEF LatestOf
<1>4. Aged'
  <2> SUFFICES ASSUME NEW q \in Calls
               PROVE  /\ BeforeAfter(PrevMap(q)', HeadMap(q)')
                      /\ BeforeAfter(NextMap(q)', PrevMap(q)')
                      /\ BeforeAfter(NextMap(q)', HeadMap(q)')
    BY AgedAfter
  <2>1. currentActive'[q] = 0 /\ Empty(peerMap[q][1])' /\ Empty(peerMap[q][2])'
    BY <1>1 DEF HeadInv, Launch
  <2>2. NextSlot(0) = 1 /\ NextSlot(1) = 2
    BY DEF NextSlot
  <2>3. \A k \in PeerID : maps'[PrevMap(q)'][k] = None /\ maps'[NextMap(q)'][k] = None
    BY <2>1, <2>2 DEF PrevMap, NextMap, Empty
  <2> QED
    BY <2>3, EmptyBefore
<1> QED
  BY <1>2, <1>3, <1>4 DEF AgeInv

LEMMA AgeStep ==
  ASSUME MaxInflight = 1, SerialBase, HeadInv, SerialBase', HeadInv', AgeInv, [Next]_vars
  PROVE  AgeInv'
<1>1. CASE \E c \in Calls, r \in Requests, t \in 0..now : DirectStore(c, r, t)
  BY <1>1, AgeDirect
<1>2. CASE Serve \/ Tick \/ Finished \/ UNCHANGED vars
  <2>1. UNCHANGED <<maps, peerMap, currentActive, peers, pc, found>>
    BY <1>2 DEF Serve, Tick, Finished, vars, store, loops
  <2>2. now' \in {now, now + 1}
    BY <1>2 DEF Serve, Tick, Finished, vars, clock
  <2>3. Past'
    <3> SUFFICES ASSUME NEW o \in Calls, peers[o] # None PROVE peers[o].lastSeen <= now'
      BY <2>1 DEF Past
    <3>1. peers[o] \in Peer /\ now \in Nat
      BY DEF SerialBase, IndInv, TypeOK
    <3>2. peers[o].lastSeen \in Nat
      BY <3>1 DEF Peer
    <3> QED
      BY <2>2, <3>1, <3>2 DEF AgeInv, Past
  <2>4. Aged' /\ \A c \in Calls : LatestOf(c)'
    BY <2>1 DEF AgeInv, Aged, Before, HeadMap, PrevMap, NextMap, LatestOf
  <2> QED
    BY <2>3, <2>4 DEF AgeInv
<1>3. CASE \E c \in Calls : BeginCall(c)
  BY <1>3, AgeBegins
<1>4. CASE \E c \in Calls : InCall(c)
  BY <1>4, PastInCall, LatestInCall, AgedInCall DEF AgeInv
<1> QED
  BY <1>1, <1>2, <1>3, <1>4, Names DEF Next, InCall

LEMMA AgeInductive ==
  ASSUME MaxInflight = 1
  PROVE  Spec => []AgeInv
<1>1. SerialBase /\ HeadInv /\ SerialBase' /\ HeadInv' /\ AgeInv /\ [Next]_vars => AgeInv'
  BY AgeStep
<1>2. Init => AgeInv
  <2> SUFFICES ASSUME Init PROVE AgeInv
    OBVIOUS
  <2>1. \A c \in Calls : peers[c] = None /\ pc[Task(c)] = "idle"
    BY Names DEF Init
  <2>2. \A r \in Calls : \A s \in Slot : \A k \in PeerID : maps[peerMap[r][s]][k] = None
    <3>1. \A s \in Slot : s \in 0..3
      BY DEF Slot
    <3> QED
      BY <3>1, Indices DEF Init
  <2>3. \A r \in Calls : currentActive[r] \in Slot
    BY Indices DEF Init
  <2>4. Aged
    BY <2>2, <2>3, Slots DEF Aged, Before, HeadMap, NextMap, PrevMap
  <2> QED
    BY <2>1, <2>4 DEF AgeInv, Past, LatestOf, Ended
<1> QED
  BY <1>1, <1>2, SerialBaseInductive, HeadInductive, PTL DEF Spec

-----------------------------------------------------------------------------
(* What a rotation leaves.  The map that was found full holds half of      *)
(* MaxPeersPerTorrent besides the announcing peer, which its own task may  *)
(* be taking out.                                                          *)

Besides(c, m) == Keys(m) \ {req[c].peerID}
HalfOf(c) ==
  pc[Reaper(c)] = "idle" =>
    /\ pc[Handler(c)] \in {"readCurrent", "swap"} =>
         Cardinality(Besides(c, HeadMap(root[c]))) >= Half
    /\ pc[Handler(c)] = "empty" => Cardinality(Besides(c, PrevMap(root[c]))) >= Half
HalfKept == \A c \in Calls : HalfOf(c)

(* The peers of a map other than the announcing one, after a step. *)
BesidesAfter(c, m) == {k \in PeerID : maps'[m][k] # None} \ {req[c].peerID}

LEMMA BesidesGrow ==
  ASSUME NEW c \in Calls, NEW m,
         \A k \in PeerID : k # req[c].peerID /\ maps[m][k] # None => maps'[m][k] # None
  PROVE  /\ Cardinality(Besides(c, m)) <= Cardinality(BesidesAfter(c, m))
         /\ Cardinality(Besides(c, m)) \in Nat /\ Cardinality(BesidesAfter(c, m)) \in Nat
<1>1. Besides(c, m) \subseteq BesidesAfter(c, m) /\ BesidesAfter(c, m) \subseteq PeerID
  BY DEF Besides, BesidesAfter, Keys
<1> QED
  BY <1>1, SubsetCount

LEMMA HalfAfter ==
  ASSUME NEW c \in Calls, req' = req,
         pc'[Reaper(c)] = "idle" =>
           /\ pc'[Handler(c)] \in {"readCurrent", "swap"} =>
                Cardinality(BesidesAfter(c, HeadMap(root[c])')) >= Half
           /\ pc'[Handler(c)] = "empty" => Cardinality(BesidesAfter(c, PrevMap(root[c])')) >= Half
  PROVE  HalfOf(c)'
BY DEF HalfOf, Besides, BesidesAfter, Keys, Half

LEMMA HalfInCall ==
  ASSUME SerialBase, HeadInv, SoleInv, HalfKept, NEW c \in Calls, InCall(c)
  PROVE  HalfKept'
<1>1. /\ root' = root /\ req' = req
      /\ \A d \in Calls : d # c => pc'[Handler(d)] \in Ended
  BY OthersRest
<1>2. \A d \in Calls : d # c => HalfOf(d)'
  BY <1>1 DEF HalfOf, Ended
<1> SUFFICES ASSUME pc'[Reaper(c)] = "idle",
                    pc'[Handler(c)] \in {"readCurrent", "swap", "empty"}
             PROVE  HalfOf(c)'
  BY <1>2 DEF HalfKept, HalfOf
<1>3. /\ Handler(c) \in Goroutine /\ Task(c) \in Goroutine /\ Reaper(c) \in Goroutine
      /\ Handler(c) # Task(c) /\ Handler(c) # Reaper(c) /\ Task(c) # Reaper(c)
      /\ pc \in [Goroutine -> Label]
  BY Names DEF SerialBase, IndInv, TypeOK
<1>4. HalfOf(c)
  BY DEF HalfKept
<1>5. CASE Looking(c)
  <2>1. /\ UNCHANGED <<maps, peerMap, currentActive>>
        /\ pc[Handler(c)] \in {"copyForRange", "range", "checkLen", "readCurrent", "nextKey", "drop"}
        /\ pc'[Handler(c)] \in {"range", "checkLen", "readCurrent", "swap", "nextKey", "drop",
                                "copyForTake", "done"}
        /\ pc'[Handler(c)] = "swap" => pc[Handler(c)] = "readCurrent"
        /\ pc'[Handler(c)] = "readCurrent" => Full(root[c])
        /\ pc[Reaper(c)] = "idle"
    BY <1>5, LooksOnly
  <2>2. HeadMap(root[c])' = HeadMap(root[c])
    BY <1>1, <2>1 DEF HeadMap
  <2>3. /\ Cardinality(Besides(c, HeadMap(root[c]))) <= Cardinality(BesidesAfter(c, HeadMap(root[c])))
        /\ Cardinality(Besides(c, HeadMap(root[c]))) \in Nat
        /\ Cardinality(BesidesAfter(c, HeadMap(root[c]))) \in Nat
    BY <2>1, BesidesGrow
  <2>4. Cardinality(Besides(c, HeadMap(root[c]))) >= Half
    <3>1. CASE pc'[Handler(c)] = "swap"
      BY <1>4, <2>1, <3>1 DEF HalfOf
    <3>2. CASE pc'[Handler(c)] = "readCurrent"
      <4> DEFINE S == Keys(HeadMap(root[c]))
      <4>1. Cardinality(S) > Half
        BY <2>1, <3>2 DEF Full, ActiveLen, MapLen, HeadMap, Half
      <4>2. S \subseteq PeerID
        BY DEF Keys
      <4> HIDE DEF S
      <4>3. IsFiniteSet(S) /\ Cardinality(S) \in Nat
        BY <4>2, LocalAssumption, FS_Subset, FS_CardinalityType
      <4>4. Cardinality(S \ {req[c].peerID}) =
              IF req[c].peerID \in S THEN Cardinality(S) - 1 ELSE Cardinality(S)
        BY <4>3, FS_RemoveElement
      <4>5. Cardinality(S \ {req[c].peerID}) >= Half
        BY <4>1, <4>3, <4>4, HalfType
      <4> QED
        BY <4>5 DEF Besides, S
    <3> QED
      BY <2>1, <3>1, <3>2
  <2>5. Cardinality(BesidesAfter(c, HeadMap(root[c])')) >= Half
    BY <2>2, <2>3, <2>4, HalfType
  <2>6. pc'[Handler(c)] # "empty"
    BY <2>1
  <2> QED
    BY <1>1, <2>5, <2>6, HalfAfter
<1>6. CASE CompareAndSwap(c)
  <2>1. /\ pc[Handler(c)] = "swap" /\ pc'[Handler(c)] = "empty" /\ maps' = maps
        /\ PrevMap(root[c])' = HeadMap(root[c]) /\ pc[Reaper(c)] = "idle"
    BY <1>3, <1>6, SwapMoves
  <2>2. Cardinality(Besides(c, HeadMap(root[c]))) >= Half
    BY <1>4, <2>1 DEF HalfOf
  <2>3. /\ Cardinality(Besides(c, HeadMap(root[c]))) <= Cardinality(BesidesAfter(c, HeadMap(root[c])))
        /\ Cardinality(Besides(c, HeadMap(root[c]))) \in Nat
        /\ Cardinality(BesidesAfter(c, HeadMap(root[c]))) \in Nat
    BY <2>1, BesidesGrow
  <2>4. Cardinality(BesidesAfter(c, PrevMap(root[c])')) >= Half
    BY <2>1, <2>2, <2>3, HalfType
  <2> QED
    BY <1>1, <2>1, <2>4, HalfAfter
<1>7. CASE EmptyOldest(c)
  BY <1>7, OldestGoes
<1>8. ASSUME NEW g \in Goroutine, g[1] = c,
             AnyStep(g) \/ (g = Reaper(c) /\ ReaperStep(c)) \/ (g = Task(c) /\ TaskStep(c))
      PROVE  HalfOf(c)'
  <2>1. /\ UNCHANGED <<peerMap, currentActive>>
        /\ \A d \in Goroutine : d # g => pc'[d] = pc[d]
        /\ pc[g] \notin Ended
        /\ pc'[g] \notin {"idle", "empty", "swap", "checkLen", "readCurrent"}
    BY <1>8, SharedMoves
  <2>2. g = Task(c)
    BY <1>3, <1>8, <2>1, Names
  <2>3. pc'[Handler(c)] = pc[Handler(c)] /\ pc[Reaper(c)] = "idle"
    BY <1>3, <2>1, <2>2
  <2>4. \A m \in MapRef : \A k \in PeerID :
          k # req[c].peerID /\ maps[m][k] # None => maps'[m][k] # None
    <3>1. CASE Take(g)
      <4>1. key[g] = req[c].peerID
        BY <2>2, <3>1 DEF SoleInv, TakesOut, Take
      <4> QED
        BY <1>8, <3>1, <4>1, TakesOne
    <3>2. CASE Put(g)
      <4>1. PICK o, k : Stores(o, dst[g], k)
        BY <1>8, <3>2, PutStores
      <4> QED
        BY <4>1 DEF Stores
    <3>3. CASE ~Take(g) /\ ~Put(g)
      BY <1>3, <1>8, <2>2, <3>3 DEF AnyStep, CopyForTake, ReadActive, ReadMap, TaskStep,
                                    UpdateKnown, store
    <3> QED
      BY <3>1, <3>2, <3>3
  <2>5. root[c] \in Calls
    BY <1>8, <2>1 DEF SerialBase, IndInv, Scopes
  <2>6. /\ HeadMap(root[c])' = HeadMap(root[c]) /\ PrevMap(root[c])' = PrevMap(root[c])
        /\ HeadMap(root[c]) \in MapRef /\ PrevMap(root[c]) \in MapRef
    BY <1>1, <2>1, <2>5, RingMaps DEF HeadMap, PrevMap
  <2>7. \A m \in MapRef :
          /\ Cardinality(Besides(c, m)) <= Cardinality(BesidesAfter(c, m))
          /\ Cardinality(Besides(c, m)) \in Nat /\ Cardinality(BesidesAfter(c, m)) \in Nat
    BY <2>4, BesidesGrow
  <2>8. pc'[Handler(c)] \in {"readCurrent", "swap"} =>
          Cardinality(BesidesAfter(c, HeadMap(root[c])')) >= Half
    BY <1>4, <2>3, <2>6, <2>7, HalfType DEF HalfOf
  <2>9. pc'[Handler(c)] = "empty" => Cardinality(BesidesAfter(c, PrevMap(root[c])')) >= Half
    BY <1>4, <2>3, <2>6, <2>7, HalfType DEF HalfOf
  <2> QED
    BY <1>1, <2>8, <2>9, HalfAfter
<1> QED
  BY <1>3, <1>5, <1>6, <1>7, <1>8, Names DEF InCall, HandlerStep, Looking

LEMMA HalfInductive ==
  ASSUME MaxInflight = 1
  PROVE  Spec => []HalfKept
<1>1. Init => HalfKept
  BY Names DEF Init, HalfKept, HalfOf
<1>2. ASSUME SerialBase, HeadInv, SoleInv, HalfKept, [Next]_vars PROVE HalfKept'
  <2>1. CASE \E c \in Calls, r \in Requests, t \in 0..now : DirectStore(c, r, t)
    <3>1. \A g \in Goroutine : pc'[g] \in Ended
      BY <1>2, <2>1, DirectMoves
    <3> QED
      BY <3>1, Names DEF HalfKept, HalfOf, Ended
  <2>2. CASE Serve \/ Tick \/ Finished \/ UNCHANGED vars
    <3>1. UNCHANGED <<maps, peerMap, currentActive, pc, req, root>>
      BY <2>2 DEF Serve, Tick, Finished, vars, store, locals
    <3> QED
      BY <1>2, <3>1 DEF HalfKept, HalfOf, Besides, Keys, HeadMap, PrevMap
  <2>3. CASE \E c \in Calls : BeginCall(c)
    <3>1. \A c \in Calls : pc'[Handler(c)] \in Ended \cup {"readActive", "copyForTake", "copyForRange"}
      BY <1>2, <2>3, BeginMoves, Names DEF Ended
    <3> QED
      BY <3>1 DEF HalfKept, HalfOf, Ended
  <2>4. CASE \E c \in Calls : InCall(c)
    BY <1>2, <2>4, HalfInCall
  <2> QED
    BY <1>2, <2>1, <2>2, <2>3, <2>4, Names DEF Next, InCall
<1>3. SerialBase /\ HeadInv /\ SoleInv /\ HalfKept /\ [Next]_vars => HalfKept'
  BY <1>2
<1> QED
  BY <1>1, <1>3, SerialBaseInductive, HeadInductive, SoleInductive, PTL DEF Spec

(* The rotation of HandleAnnouncePeer, "reach max, start to eject" and     *)
(* "empty the oldest map", when calls do not overlap: the map it replaces  *)
(* is not the one being written, every record in it was seen no later than *)
(* any record that stays, and, unless expired peers were met, at least     *)
(* half of MaxPeersPerTorrent stays.                                       *)
THEOREM RotationEvictsOldest ==
  ASSUME MaxInflight = 1
  PROVE  Spec => EvictsOldest
<1>1. ASSUME SerialBase, HeadInv, AgeInv, HalfKept, NEW c \in Calls, EmptyOldest(c)
      PROVE  LosesOnlyOldest(c) /\ KeepsHalf(c)
  <2> DEFINE r == root[c]
             a == currentActive[r]
  <2>1. /\ r \in Calls /\ pc[Handler(c)] = "empty" /\ Oldest(c) = NextSlot(a)
    BY <1>1, OldestGoes
  <2>2. a \in Slot
    BY <1>1, <2>1 DEF SerialBase, IndInv, TypeOK
  <2>3. Oldest(c) # a /\ Oldest(c) \in Slot
    BY <2>1, <2>2, Slots
  <2>4. peerMap[r][Oldest(c)] = NextMap(r)
    BY <2>1 DEF NextMap
  <2>5. ASSUME NEW s \in Slot, s # Oldest(c) PROVE Before(NextMap(r), peerMap[r][s])
    <3>1. peerMap[r][s] \in {HeadMap(r), PrevMap(r)}
      BY <2>1, <2>2, <2>5, Slots DEF HeadMap, PrevMap
    <3> QED
      BY <1>1, <2>1, <3>1 DEF AgeInv, Aged
  <2>6. LosesOnlyOldest(c)
    BY <2>3, <2>4, <2>5 DEF LosesOnlyOldest, Before
  <2>7. ASSUME pc[Reaper(c)] = "idle"
        PROVE  Size(r) - MapLen(peerMap[r][Oldest(c)]) >= Half
    <3>1. Cardinality(Besides(c, PrevMap(r))) >= Half
      BY <1>1, <2>1, <2>7 DEF HalfKept, HalfOf
    <3>2. /\ Cardinality(Besides(c, PrevMap(r))) <= MapLen(PrevMap(r))
          /\ Cardinality(Besides(c, PrevMap(r))) \in Nat
      <4>1. Besides(c, PrevMap(r)) \subseteq Keys(PrevMap(r)) /\ Keys(PrevMap(r)) \subseteq PeerID
        BY DEF Besides, Keys
      <4> QED
        BY <4>1, SubsetCount DEF MapLen
    <3>3. MapLen(HeadMap(r)) \in Nat /\ MapLen(PrevMap(r)) \in Nat /\ MapLen(NextMap(r)) \in Nat
      BY LenType
    <3>4. Size(r) = MapLen(HeadMap(r)) + MapLen(NextMap(r)) + MapLen(PrevMap(r))
      <4>1. \A s \in Slot : MapLen(peerMap[r][s]) \in Nat
        BY LenType
      <4>2. CASE a = 0
        BY <4>1, <4>2 DEF Size, HeadMap, NextMap, PrevMap, NextSlot, Slot
      <4>3. CASE a = 1
        BY <4>1, <4>3 DEF Size, HeadMap, NextMap, PrevMap, NextSlot, Slot
      <4>4. CASE a = 2
        BY <4>1, <4>4 DEF Size, HeadMap, NextMap, PrevMap, NextSlot, Slot
      <4> QED
        BY <2>2, <4>2, <4>3, <4>4 DEF Slot
    <3> QED
      BY <2>4, <3>1, <3>2, <3>3, <3>4, HalfType
  <2>8. KeepsHalf(c)
    BY <2>7 DEF KeepsHalf, Half
  <2> QED
    BY <2>6, <2>8
<1>2. SerialBase /\ HeadInv /\ AgeInv /\ HalfKept /\ [Next]_vars
      => [\A c \in Calls : EmptyOldest(c) => LosesOnlyOldest(c) /\ KeepsHalf(c)]_vars
  BY <1>1
<1> QED
  BY <1>2, SerialBaseInductive, HeadInductive, AgeInductive, HalfInductive, PTL DEF Spec, EvictsOldest

-----------------------------------------------------------------------------
(* cleanUp.  Until it ends, every peer that was expired when it started    *)
(* (Due) is in a slot its Range has yet to visit, or marked in toClean, or *)
(* the one it is taking out, in a slot it has not reached.                 *)

Due(c, s, k) ==
  /\ maps[peerMap[root[c]][s]][k] # None
  /\ Expired(maps[peerMap[root[c]][s]][k], at[c])
Marked(c, k) == \E e \in stale[c] : e[2] = k
CleanOf(c) ==
  LET g == Handler(c)
      r == root[c]
  IN  /\ pc[Task(c)] = "idle" /\ pc[Reaper(c)] = "idle" /\ r \in Calls
      /\ pc[g] \in {"copyForRange", "range", "nextKey", "copyForTake", "take", "drop", "done"}
      /\ pc[g] = "copyForRange" => at[c] = 0
      /\ pc[g] # "done" => infoHashMap[req[c].infoHash] = r
      /\ pc[g] \in {"range", "take"} => copy[g] = peerMap[r]
      /\ pc[g] = "range" =>
           \A s \in Slot : \A k \in PeerID : Due(c, s, k) => s >= pos[g] \/ Marked(c, k)
      /\ pc[g] \in {"nextKey", "copyForTake", "take"} =>
           \A s \in Slot : \A k \in PeerID : Due(c, s, k) =>
             \/ Marked(c, k)
             \/ pc[g] = "copyForTake" /\ k = key[g]
             \/ pc[g] = "take" /\ k = key[g] /\ s >= pos[g]
      /\ pc[g] = "drop" => \A s \in Slot : Empty(peerMap[r][s])
      /\ pc[g] = "done" /\ at[c] > 0 =>
           /\ \A s \in Slot : \A k \in PeerID : ~Due(c, s, k)
           /\ infoHashMap[req[c].infoHash] = r <=> \E s \in Slot : ~Empty(peerMap[r][s])
CleanInv == \A c \in Calls : last = c /\ req[c].op = "clean" => CleanOf(c)

(* A peer that is due for removal was due before a step that only removes. *)
LEMMA DueLasts ==
  ASSUME SerialBase, NEW c \in Calls, root[c] \in Calls, Shrinks,
         UNCHANGED <<peerMap, peers, root>>, at'[c] = at[c],
         NEW s \in Slot, NEW k \in PeerID, Due(c, s, k)'
  PROVE  Due(c, s, k)
<1>1. peerMap[root[c]][s] \in MapRef
  BY RingMaps
<1> QED
  BY <1>1 DEF Due, Shrinks, Expired

LEMMA CleanBegins ==
  ASSUME MaxInflight = 1, SerialBase, HeadInv, NEW c \in Calls, BeginCall(c)
  PROVE  CleanInv'
<1>1. /\ last' = c /\ pc[Handler(c)] = "idle" /\ UNCHANGED <<at, stale>>
      /\ pc[Task(c)] = "idle" /\ pc[Reaper(c)] = "idle"
  BY BeginMoves
<1> SUFFICES ASSUME req'[c].op = "clean" PROVE CleanOf(c)'
  BY <1>1 DEF CleanInv
<1>2. PICK r \in Requests : CleanUp(c, r) /\ req'[c] = r
  <2>1. req \in [Calls -> Request \cup {None}]
    BY DEF SerialBase, IndInv, TypeOK
  <2> QED
    BY <2>1 DEF BeginCall, AnnounceInvalid, AnnounceFirst, AnnounceStopped, AnnounceKnown,
                ScrapeWithoutRoot, Scrape, CleanUp, DeleteInfoHash, Begin
<1>3. /\ pc \in [Goroutine -> Label] /\ root \in [Calls -> Calls \cup {None}]
      /\ infoHashMap \in [InfoHash -> Calls \cup {None}]
  BY DEF SerialBase, IndInv, TypeOK
<1>4. r.infoHash \in InfoHash
  BY LocalAssumption DEF Request
<1>5. /\ root'[c] = infoHashMap[r.infoHash] /\ root'[c] \in Calls
      /\ infoHashMap' = infoHashMap
      /\ \E l \in {"done", "copyForRange"} : pc' = [pc EXCEPT ![Handler(c)] = l]
  BY <1>2, <1>3, <1>4 DEF CleanUp, store
<1>6. /\ pc'[Handler(c)] \in {"done", "copyForRange"} /\ pc'[Task(c)] = "idle"
      /\ pc'[Reaper(c)] = "idle"
  BY <1>1, <1>3, <1>5, Names
<1>7. at'[c] = 0
  BY <1>1 DEF HeadInv, Blank, Born
<1> QED
  BY <1>2, <1>5, <1>6, <1>7 DEF CleanOf

(* The goroutines of a cleanUp: only its handler moves. *)
LEMMA CleanMoves ==
  ASSUME SerialBase, NEW c \in Calls, CleanOf(c), InCall(c)
  PROVE  \/ CopyForRange(c) \/ RangeSlot(c) \/ CleanNext(c) \/ DropRoot(c)
         \/ CopyForTake(Handler(c)) \/ Take(Handler(c))
<1>1. /\ pc[Handler(c)] \in {"copyForRange", "range", "nextKey", "copyForTake", "take", "drop", "done"}
      /\ pc[Task(c)] = "idle" /\ pc[Reaper(c)] = "idle"
  BY DEF CleanOf
<1>2. CASE HandlerStep(c)
  BY <1>1, <1>2 DEF HandlerStep, CheckLen, ReadCurrent, CompareAndSwap, EmptyOldest
<1>3. CASE TaskStep(c) \/ ReaperStep(c)
  BY <1>1, <1>3 DEF TaskStep, UpdateKnown, ReaperStep, NextExpired, Remove
<1>4. CASE \E g \in Goroutine : g[1] = c /\ AnyStep(g)
  BY <1>1, <1>4, Names DEF AnyStep, CopyForTake, Take, ReadActive, ReadMap, Put
<1> QED
  BY <1>2, <1>3, <1>4 DEF InCall

LEMMA CleanRanges ==
  ASSUME SerialBase, NEW c \in Calls, CleanOf(c), InCall(c), req[c].op = "clean",
         CopyForRange(c) \/ RangeSlot(c)
  PROVE  CleanOf(c)'
<1> DEFINE g == Handler(c)
           r == root[c]
<1>1. /\ pc \in [Goroutine -> Label] /\ copy \in [Goroutine -> [Slot -> MapRef] \cup {None}]
      /\ pos \in [Goroutine -> Slot] /\ at \in [Calls -> Nat]
      /\ stale \in [Calls -> SUBSET (Slot \X PeerID)]
  BY DEF SerialBase, IndInv, TypeOK
<1>2. /\ g \in Goroutine /\ Task(c) \in Goroutine /\ Reaper(c) \in Goroutine
      /\ g # Task(c) /\ g # Reaper(c) /\ pos[g] \in Slot
  BY <1>1, Names
<1>3. /\ UNCHANGED <<infoHashMap, maps, peerMap, peers, req, root>>
      /\ pc[Task(c)] = "idle" /\ pc[Reaper(c)] = "idle" /\ r \in Calls
      /\ infoHashMap[req[c].infoHash] = r
  BY DEF CopyForRange, RangeSlot, store, CleanOf
<1>4. CASE CopyForRange(c)
  <2>1. /\ pc'[g] = "range" /\ pc'[Task(c)] = "idle" /\ pc'[Reaper(c)] = "idle"
        /\ copy'[g] = peerMap[r] /\ pos'[g] = 0
    BY <1>1, <1>2, <1>3, <1>4 DEF CopyForRange
  <2>2. \A s \in Slot : s >= 0
    BY DEF Slot
  <2> QED
    BY <1>3, <2>1, <2>2 DEF CleanOf
<1>5. CASE RangeSlot(c)
  <2> DEFINE m == copy[g][pos[g]]
             late == {<<pos[g], k>> : k \in ExpiredKeys(c, m)}
  <2>1. /\ pc[g] = "range" /\ copy[g] = peerMap[r] /\ at' = at
        /\ stale'[c] = stale[c] \cup late
        /\ \/ pos[g] < 2 /\ pos' = [pos EXCEPT ![g] = pos[g] + 1] /\ UNCHANGED <<pc, copy>>
           \/ pos[g] = 2 /\ pc' = [pc EXCEPT ![g] = "nextKey"]
    <3>1. ~(pos[g] < 2) => pos[g] = 2
      BY <1>2 DEF Slot
    <3>2. ~(pos[g] < 2) => pc' = [pc EXCEPT ![g] = "nextKey"]
      <4>1. ~(pos[g] < 2) => pc' = [pc EXCEPT ![g] = "nextKey", ![Reaper(c)] = pc[Reaper(c)]]
        BY <1>1, <1>2, <1>5 DEF RangeSlot
      <4> QED
        BY <1>1, <1>2, <4>1
    <3>3. pc[g] = "range" /\ copy[g] = peerMap[r] /\ at' = at
      BY <1>5 DEF RangeSlot, CleanOf
    <3>4. stale'[c] = stale[c] \cup late
      BY <1>1, <1>5 DEF RangeSlot
    <3>5. pos[g] < 2 => pos' = [pos EXCEPT ![g] = pos[g] + 1] /\ UNCHANGED <<pc, copy>>
      BY <1>5 DEF RangeSlot
    <3> QED
      BY <3>1, <3>2, <3>3, <3>4, <3>5
  <2>2. \A s \in Slot : \A k \in PeerID : Due(c, s, k)' <=> Due(c, s, k)
    BY <1>3, <2>1 DEF Due, Expired
  <2>3. \A k \in PeerID : Due(c, pos[g], k) => <<pos[g], k>> \in stale'[c]
    <3>1. \A k \in PeerID : Due(c, pos[g], k) => k \in ExpiredKeys(c, m)
      BY <1>2, <2>1 DEF Due, ExpiredKeys, Keys
    <3> QED
      BY <2>1, <3>1
  <2>4. \A k \in PeerID : Marked(c, k) \/ Due(c, pos[g], k) => Marked(c, k)'
    <3>1. \A k \in PeerID : <<pos[g], k>>[2] = k
      OBVIOUS
    <3> QED
      BY <2>1, <2>3, <3>1 DEF Marked
  <2>5. \A s \in Slot : \A k \in PeerID : Due(c, s, k) => s >= pos[g] \/ Marked(c, k)
    BY <2>1 DEF CleanOf
  <2>6. CASE pos[g] < 2 /\ pos' = [pos EXCEPT ![g] = pos[g] + 1] /\ UNCHANGED <<pc, copy>>
    <3>1. pos'[g] = pos[g] + 1
      BY <1>1, <1>2, <2>6
    <3>2. \A s \in Slot : s >= pos[g] => s = pos[g] \/ s >= pos[g] + 1
      BY <1>2 DEF Slot
    <3>3. \A s \in Slot : \A k \in PeerID : Due(c, s, k)' => s >= pos'[g] \/ Marked(c, k)'
      BY <2>2, <2>4, <2>5, <3>1, <3>2
    <3> QED
      BY <1>3, <2>1, <2>6, <3>3 DEF CleanOf
  <2>7. CASE pos[g] = 2 /\ pc' = [pc EXCEPT ![g] = "nextKey"]
    <3>1. pc'[g] = "nextKey" /\ pc'[Task(c)] = "idle" /\ pc'[Reaper(c)] = "idle"
      BY <1>1, <1>2, <1>3, <2>7
    <3>2. \A s \in Slot : s >= pos[g] => s = pos[g]
      BY <2>7 DEF Slot
    <3>3. \A s \in Slot : \A k \in PeerID : Due(c, s, k)' => Marked(c, k)'
      BY <2>2, <2>4, <2>5, <3>2
    <3> QED
      BY <1>3, <3>1, <3>3 DEF CleanOf
  <2> QED
    BY <2>1, <2>6, <2>7
<1> QED
  BY <1>4, <1>5

(* A torrent counts no peer exactly when its three maps are empty. *)
LEMMA SizeZero ==
  ASSUME NEW r
  PROVE  Size(r) = 0 <=> \A s \in Slot : Empty(peerMap[r][s])
<1>1. \A m : MapLen(m) \in Nat /\ (MapLen(m) = 0 <=> Empty(m))
  <2> SUFFICES ASSUME NEW m PROVE MapLen(m) \in Nat /\ (MapLen(m) = 0 <=> Empty(m))
    OBVIOUS
  <2>1. Keys(m) \subseteq PeerID /\ (Keys(m) = {} <=> Empty(m))
    BY DEF Keys, Empty
  <2>2. IsFiniteSet(Keys(m))
    BY <2>1, LocalAssumption, FS_Subset
  <2> QED
    BY <2>1, <2>2, FS_EmptySet, FS_CardinalityType DEF MapLen
<1>2. Size(r) = 0 <=> MapLen(peerMap[r][0]) = 0 /\ MapLen(peerMap[r][1]) = 0 /\ MapLen(peerMap[r][2]) = 0
  <2> DEFINE a == MapLen(peerMap[r][0])
             b == MapLen(peerMap[r][1])
             d == MapLen(peerMap[r][2])
  <2>1. a \in Nat /\ b \in Nat /\ d \in Nat
    BY <1>1
  <2> HIDE DEF a, b, d
  <2>2. a + b + d = 0 <=> a = 0 /\ b = 0 /\ d = 0
    BY <2>1
  <2> QED
    BY <2>2 DEF Size, a, b, d
<1> QED
  BY <1>1, <1>2 DEF Slot

LEMMA CleanEnds ==
  ASSUME SerialBase, NEW c \in Calls, CleanOf(c), InCall(c), req[c].op = "clean",
         CleanNext(c) \/ DropRoot(c)
  PROVE  CleanOf(c)'
<1> DEFINE g == Handler(c)
           r == root[c]
<1>1. /\ pc \in [Goroutine -> Label] /\ key \in [Goroutine -> PeerID \cup {None}]
      /\ stale \in [Calls -> SUBSET (Slot \X PeerID)]
      /\ infoHashMap \in [InfoHash -> Calls \cup {None}]
  BY DEF SerialBase, IndInv, TypeOK
<1>2. /\ g \in Goroutine /\ Task(c) \in Goroutine /\ Reaper(c) \in Goroutine
      /\ g # Task(c) /\ g # Reaper(c)
  BY <1>1, Names
<1>3. /\ UNCHANGED <<maps, peerMap, peers, req, root, at>>
      /\ pc[Task(c)] = "idle" /\ pc[Reaper(c)] = "idle" /\ r \in Calls
      /\ infoHashMap[req[c].infoHash] = r
      /\ pc[g] \in {"nextKey", "drop"}
  BY DEF CleanNext, DropRoot, CleanOf, locals
<1>4. \A s \in Slot : \A k \in PeerID : Due(c, s, k)' <=> Due(c, s, k)
  BY <1>3 DEF Due, Expired
<1>5. \A s \in Slot : Empty(peerMap[r][s])' <=> Empty(peerMap[r][s])
  BY <1>3 DEF Empty
<1>6. CASE CleanNext(c)
  <2>1. pc[g] = "nextKey" /\ infoHashMap' = infoHashMap
    BY <1>6 DEF CleanNext
  <2>2. \A s \in Slot : \A k \in PeerID : Due(c, s, k) => Marked(c, k)
    BY <2>1 DEF CleanOf
  <2>3. CASE /\ stale[c] = {} /\ stale' = stale
             /\ pc' = [pc EXCEPT ![g] = IF Size(r) = 0 THEN "drop" ELSE "done"]
    <3>1. \A s \in Slot : \A k \in PeerID : ~Due(c, s, k)
      BY <2>2, <2>3 DEF Marked
    <3>2. /\ pc'[g] = IF Size(r) = 0 THEN "drop" ELSE "done"
          /\ pc'[Task(c)] = "idle" /\ pc'[Reaper(c)] = "idle"
      BY <1>1, <1>2, <1>3, <2>3
    <3>3. Size(r) = 0 <=> \A s \in Slot : Empty(peerMap[r][s])
      BY SizeZero
    <3>4. CASE Size(r) = 0
      <4>1. pc'[g] = "drop" /\ \A s \in Slot : Empty(peerMap[r][s])'
        BY <1>5, <3>2, <3>3, <3>4
      <4> QED
        BY <1>3, <2>1, <3>2, <4>1 DEF CleanOf
    <3>5. CASE Size(r) # 0
      <4>1. pc'[g] = "done" /\ \E s \in Slot : ~Empty(peerMap[r][s])'
        BY <1>5, <3>2, <3>3, <3>5
      <4>2. \A s \in Slot : \A k \in PeerID : ~Due(c, s, k)'
        BY <1>4, <3>1
      <4> QED
        BY <1>3, <2>1, <3>2, <4>1, <4>2 DEF CleanOf
    <3> QED
      BY <3>4, <3>5
  <2>4. CASE \E e \in stale[c] :
               /\ stale' = [stale EXCEPT ![c] = @ \ {e}]
               /\ key' = [key EXCEPT ![g] = e[2]]
               /\ pc' = [pc EXCEPT ![g] = "copyForTake"]
    <3>1. PICK e \in stale[c] :
               /\ stale' = [stale EXCEPT ![c] = @ \ {e}]
               /\ key' = [key EXCEPT ![g] = e[2]]
               /\ pc' = [pc EXCEPT ![g] = "copyForTake"]
      BY <2>4
    <3>2. /\ stale'[c] = stale[c] \ {e} /\ key'[g] = e[2]
          /\ pc'[g] = "copyForTake" /\ pc'[Task(c)] = "idle" /\ pc'[Reaper(c)] = "idle"
      BY <1>1, <1>2, <1>3, <3>1
    <3>3. \A k \in PeerID : Marked(c, k) => Marked(c, k)' \/ k = key'[g]
      BY <3>2 DEF Marked
    <3>4. \A s \in Slot : \A k \in PeerID : Due(c, s, k)' => Marked(c, k)' \/ k = key'[g]
      BY <1>4, <2>2, <3>3
    <3> QED
      BY <1>3, <2>1, <3>2, <3>4 DEF CleanOf
  <2> QED
    BY <1>6, <2>3, <2>4 DEF CleanNext
<1>7. CASE DropRoot(c)
  <2>1. /\ pc[g] = "drop" /\ pc'[g] = "done"
        /\ pc'[Task(c)] = "idle" /\ pc'[Reaper(c)] = "idle"
        /\ infoHashMap' = [infoHashMap EXCEPT ![req[c].infoHash] = None]
    BY <1>1, <1>2, <1>3, <1>7 DEF DropRoot
  <2>2. \A s \in Slot : Empty(peerMap[r][s])
    BY <2>1 DEF CleanOf
  <2>3. req[c].infoHash \in InfoHash
    BY <1>2, <2>1, Names DEF SerialBase, IndInv, Scopes, Ended, Request
  <2>4. infoHashMap'[req[c].infoHash] = None /\ None # r
    BY <1>1, <1>3, <2>1, <2>3, LocalAssumption
  <2>5. \A s \in Slot : \A k \in PeerID : ~Due(c, s, k)'
    BY <1>4, <2>2 DEF Due, Empty
  <2>6. ~\E s \in Slot : ~Empty(peerMap[r][s])'
    BY <1>5, <2>2
  <2> QED
    BY <1>3, <2>1, <2>4, <2>5, <2>6 DEF CleanOf
<1> QED
  BY <1>6, <1>7

LEMMA CleanTakes ==
  ASSUME SerialBase, NEW c \in Calls, CleanOf(c), InCall(c), req[c].op = "clean",
         CopyForTake(Handler(c)) \/ Take(Handler(c))
  PROVE  CleanOf(c)'
<1> DEFINE g == Handler(c)
           r == root[c]
<1>1. /\ pc \in [Goroutine -> Label] /\ copy \in [Goroutine -> [Slot -> MapRef] \cup {None}]
      /\ pos \in [Goroutine -> Slot]
  BY DEF SerialBase, IndInv, TypeOK
<1>2. /\ g \in Goroutine /\ Task(c) \in Goroutine /\ Reaper(c) \in Goroutine
      /\ g # Task(c) /\ g # Reaper(c) /\ pos[g] \in Slot /\ g[1] = c /\ g[2] = "handler"
  BY <1>1, Names
<1>3. /\ UNCHANGED <<infoHashMap, peerMap, peers, req, root, at, stale, key>>
      /\ pc[Task(c)] = "idle" /\ pc[Reaper(c)] = "idle" /\ r \in Calls
      /\ infoHashMap[req[c].infoHash] = r
  BY DEF CopyForTake, Take, store, locals, CleanOf
<1>4. \A k \in PeerID : Marked(c, k) => Marked(c, k)'
  BY <1>3 DEF Marked
<1>5. CASE CopyForTake(g)
  <2>1. /\ pc[g] = "copyForTake" /\ pc'[g] = "take"
        /\ pc'[Task(c)] = "idle" /\ pc'[Reaper(c)] = "idle"
        /\ copy'[g] = peerMap[r] /\ pos'[g] = 0 /\ maps' = maps
    BY <1>1, <1>2, <1>3, <1>5 DEF CopyForTake, store
  <2>2. \A s \in Slot : \A k \in PeerID : Due(c, s, k)' <=> Due(c, s, k)
    BY <1>3, <2>1 DEF Due, Expired
  <2>3. \A s \in Slot : s >= 0
    BY DEF Slot
  <2>4. \A s \in Slot : \A k \in PeerID : Due(c, s, k) => Marked(c, k) \/ k = key[g]
    BY <2>1 DEF CleanOf
  <2>5. \A s \in Slot : \A k \in PeerID :
          Due(c, s, k)' => Marked(c, k)' \/ (k = key'[g] /\ s >= pos'[g])
    BY <1>3, <1>4, <2>1, <2>2, <2>3, <2>4
  <2> QED
    BY <1>3, <2>1, <2>5 DEF CleanOf
<1>6. CASE Take(g)
  <2>1. /\ pc[g] = "take" /\ copy[g] = peerMap[r]
        /\ \/ pos[g] < 2 /\ pos' = [pos EXCEPT ![g] = pos[g] + 1] /\ UNCHANGED <<pc, copy>>
           \/ pos[g] = 2 /\ pc' = [pc EXCEPT ![g] = "nextKey"]
    <3>1. ~(pos[g] < 2) => pos[g] = 2
      BY <1>2 DEF Slot
    <3>2. pc[g] = "take" /\ copy[g] = peerMap[r]
      BY <1>6 DEF Take, CleanOf
    <3>3. \A f : AfterTake(g, f) = "nextKey"
      BY <1>2 DEF AfterTake
    <3> QED
      BY <1>6, <3>1, <3>2, <3>3 DEF Take
  <2>2. PICK n \in MapRef, j \in PeerID :
           /\ n = copy[g][pos[g]] /\ j = key[g]
           /\ \A m \in MapRef : \A k \in PeerID :
                maps'[m][k] = IF m = n /\ k = j THEN None ELSE maps[m][k]
    BY <1>2, <1>6, TakesOne
  <2>3. Shrinks
    BY <2>2 DEF Shrinks
  <2>4. \A s \in Slot : \A k \in PeerID : Due(c, s, k)' => Due(c, s, k)
    BY <1>3, <2>3, DueLasts
  <2>5. \A s \in Slot : \A k \in PeerID : s = pos[g] /\ k = key[g] => ~Due(c, s, k)'
    <3>1. maps'[peerMap[r][pos[g]]][key[g]] = None
      BY <2>1, <2>2
    <3> QED
      BY <1>3, <3>1 DEF Due
  <2>6. \A s \in Slot : \A k \in PeerID :
          Due(c, s, k) => Marked(c, k) \/ (k = key[g] /\ s >= pos[g])
    BY <2>1 DEF CleanOf
  <2>7. CASE pos[g] < 2 /\ pos' = [pos EXCEPT ![g] = pos[g] + 1] /\ UNCHANGED <<pc, copy>>
    <3>1. pos'[g] = pos[g] + 1
      BY <1>1, <1>2, <2>7
    <3>2. \A s \in Slot : s >= pos[g] => s = pos[g] \/ s >= pos[g] + 1
      BY <1>2 DEF Slot
    <3>3. \A s \in Slot : \A k \in PeerID :
            Due(c, s, k)' => Marked(c, k)' \/ (k = key'[g] /\ s >= pos'[g])
      BY <1>3, <1>4, <2>4, <2>5, <2>6, <3>1, <3>2
    <3> QED
      BY <1>3, <2>1, <2>7, <3>3 DEF CleanOf
  <2>8. CASE pos[g] = 2 /\ pc' = [pc EXCEPT ![g] = "nextKey"]
    <3>1. pc'[g] = "nextKey" /\ pc'[Task(c)] = "idle" /\ pc'[Reaper(c)] = "idle"
      BY <1>1, <1>2, <1>3, <2>8
    <3>2. \A s \in Slot : s >= pos[g] => s = pos[g]
      BY <2>8 DEF Slot
    <3>3. \A s \in Slot : \A k \in PeerID : Due(c, s, k)' => Marked(c, k)'
      BY <1>4, <2>4, <2>5, <2>6, <3>2
    <3> QED
      BY <1>3, <3>1, <3>3 DEF CleanOf
  <2> QED
    BY <2>1, <2>7, <2>8
<1> QED
  BY <1>5, <1>6

LEMMA CleanStep ==
  ASSUME MaxInflight = 1, SerialBase, HeadInv, CleanInv, [Next]_vars
  PROVE  CleanInv'
<1>1. CASE \E c \in Calls, r \in Requests, t \in 0..now : DirectStore(c, r, t)
  <2>1. last' = last /\ ~serving
    BY <1>1 DEF DirectStore, history
  <2> QED
    BY <2>1, LocalAssumption DEF SerialBase, Alone, CleanInv
<1>2. CASE Serve \/ Tick \/ Finished \/ UNCHANGED vars
  <2>1. UNCHANGED <<last, infoHashMap, peerMap, maps, peers, req, root, at, stale, pc, copy, pos, key>>
    BY <1>2 DEF Serve, Tick, Finished, vars, history, store, locals, loops
  <2> SUFFICES ASSUME NEW c \in Calls, CleanOf(c) PROVE CleanOf(c)'
    BY <2>1 DEF CleanInv
  <2>2. /\ \A s \in Slot : \A k \in PeerID : Due(c, s, k)' <=> Due(c, s, k)
        /\ \A k \in PeerID : Marked(c, k)' <=> Marked(c, k)
        /\ \A s \in Slot : Empty(peerMap[root[c]][s])' <=> Empty(peerMap[root[c]][s])
    BY <2>1 DEF Due, Expired, Marked, Empty
  <2> QED
    BY <2>1, <2>2 DEF CleanOf
<1>3. CASE \E c \in Calls : BeginCall(c)
  BY <1>3, CleanBegins
<1>4. ASSUME NEW c \in Calls, InCall(c) PROVE CleanInv'
  <2>1. last = c /\ last' = c /\ req' = req
    BY <1>4, OthersRest
  <2> SUFFICES ASSUME req[c].op = "clean" PROVE CleanOf(c)'
    BY <2>1 DEF CleanInv
  <2>2. CleanOf(c)
    BY <2>1 DEF CleanInv
  <2> QED
    BY <1>4, <2>2, CleanMoves, CleanRanges, CleanEnds, CleanTakes
<1> QED
  BY <1>1, <1>2, <1>3, <1>4, Names DEF Next, InCall

(* cleanUp of one root, when calls do not overlap: once it has ended, no   *)
(* peer that was expired when its Range began is left in any slot, and the *)
(* torrent is still published exactly when a peer is left in it.           *)
THEOREM CleanUpSweeps ==
  ASSUME MaxInflight = 1
  PROVE  Spec => []CleanSweeps
<1>1. Init => CleanInv
  BY LocalAssumption DEF Init, CleanInv
<1>2. SerialBase /\ HeadInv /\ CleanInv /\ [Next]_vars => CleanInv'
  BY CleanStep
<1>3. SerialBase /\ CleanInv => CleanSweeps
  <2> SUFFICES ASSUME SerialBase, CleanInv, Quiescent, last # None, req[last].op = "clean",
                      at[last] > 0
               PROVE  LET r == root[last]
                      IN  /\ \A k \in Listed(r) : ~(at[last] - TTL > Record(r, k).lastSeen)
                          /\ infoHashMap[req[last].infoHash] = r <=> Listed(r) # {}
    BY DEF CleanSweeps
  <2> DEFINE r == root[last]
  <2>1. last \in Calls /\ CleanOf(last)
    BY DEF SerialBase, IndInv, TypeOK, CleanInv
  <2>2. pc[Handler(last)] = "done"
    <3>1. pc[Handler(last)] \in Ended
      BY <2>1, Names, AtWork DEF SerialBase, Quiescent
    <3> QED
      BY <2>1, <3>1 DEF CleanOf, Ended
  <2>3. /\ \A s \in Slot : \A k \in PeerID : ~Due(last, s, k)
        /\ infoHashMap[req[last].infoHash] = r <=> \E s \in Slot : ~Empty(peerMap[r][s])
    BY <2>1, <2>2 DEF CleanOf
  <2>4. Listed(r) # {} <=> \E s \in Slot : ~Empty(peerMap[r][s])
    BY DEF Listed, Holders, Empty
  <2>5. ASSUME NEW k \in Listed(r) PROVE ~(at[last] - TTL > Record(r, k).lastSeen)
    <3>1. PICK s \in Slot : s = CHOOSE i \in Holders(r, k) : TRUE
      BY <2>5 DEF Listed, Holders
    <3>2. k \in PeerID /\ s \in Holders(r, k)
      BY <2>5, <3>1 DEF Listed
    <3>3. maps[peerMap[r][s]][k] # None
      BY <3>2 DEF Holders
    <3>4. ~Expired(maps[peerMap[r][s]][k], at[last])
      BY <2>3, <3>2, <3>3 DEF Due
    <3>5. Record(r, k) = peers[maps[peerMap[r][s]][k]]
      BY <3>1 DEF Record
    <3> QED
      BY <3>4, <3>5 DEF Expired
  <2> QED
    BY <2>3, <2>4, <2>5
<1> QED
  BY <1>1, <1>2, <1>3, SerialBaseInductive, HeadInductive, PTL DEF Spec

-----------------------------------------------------------------------------
(* Scrape.  The counts are those of the slots its Range has visited; a peer*)
(* its reaper is to remove (Doomed) is one it has not counted.             *)

LiveIn(c, s) ==
  {k \in PeerID : /\ maps[peerMap[root[c]][s]][k] # None
                  /\ ~Expired(maps[peerMap[root[c]][s]][k], at[c])}
Kind(c, s, k) ==
  LET p == peers[maps[peerMap[root[c]][s]][k]]
  IN  IF p.left = 0 THEN "whole" ELSE IF p.event = "completed" THEN "finished" ELSE "rest"
Met(c, n, w) == {k \in PeerID : \E s \in Slot : s < n /\ k \in LiveIn(c, s) /\ Kind(c, s, k) = w}
Counted(c, n) ==
  LET whole == Cardinality(Met(c, n, "whole"))
  IN  counts[c] = [seeder |-> whole, downloaded |-> whole,
                   complete |-> whole + Cardinality(Met(c, n, "finished")),
                   incomplete |-> Cardinality(Met(c, n, "rest"))]
Doomed(c, k) == \A s \in Slot : k \notin LiveIn(c, s)
ScrapeOf(c) ==
  LET g == Handler(c)
  IN  /\ pc[Task(c)] = "idle" /\ root[c] \in Calls
      /\ pc[g] \in {"copyForRange", "range", "done"}
      /\ pc[g] = "copyForRange" => stale[c] = {} /\ counts[c] = NoCounts
      /\ pc[g] = "range" => copy[g] = peerMap[root[c]] /\ Counted(c, pos[g])
      /\ pc[g] = "done" => Counted(c, 3)
      /\ \A e \in stale[c] : Doomed(c, e[2])
      /\ pc[Reaper(c)] # "idle" => pc[g] = "done"
      /\ pc[Reaper(c)] = "remove" => Doomed(c, key[Reaper(c)])
ScrapeInv ==
  \A c \in Calls : last = c /\ req[c].op = "scrape" /\ root[c] # None => ScrapeOf(c)

(* The peers of one slot that a scrape counts under w. *)
MetAt(c, s, w) == {k \in LiveIn(c, s) : Kind(c, s, k) = w}

LEMMA DisjointCount ==
  ASSUME NEW S, NEW T, S \subseteq PeerID, T \subseteq PeerID, S \cap T = {}
  PROVE  /\ Cardinality(S) \in Nat /\ Cardinality(T) \in Nat
         /\ Cardinality(S \cup T) = Cardinality(S) + Cardinality(T)
<1>1. IsFiniteSet(S) /\ IsFiniteSet(T)
  BY LocalAssumption, FS_Subset
<1>2. Cardinality(S \cap T) = 0 /\ Cardinality(S) \in Nat /\ Cardinality(T) \in Nat
  BY <1>1, FS_EmptySet, FS_CardinalityType
<1>3. Cardinality(S \cup T) = Cardinality(S) + Cardinality(T) - Cardinality(S \cap T)
  BY <1>1, FS_Union
<1> QED
  BY <1>2, <1>3

(* A slot adds its peers to those met before: no peer is in two. *)
LEMMA MetNext ==
  ASSUME SerialBase, Sole, NEW c \in Calls, root[c] \in Calls, NEW s \in Slot, NEW w
  PROVE  /\ Cardinality(Met(c, s, w)) \in Nat /\ Cardinality(MetAt(c, s, w)) \in Nat
         /\ Cardinality(Met(c, s + 1, w)) = Cardinality(Met(c, s, w)) + Cardinality(MetAt(c, s, w))
<1>1. \A i \in Slot : i < s + 1 <=> i < s \/ i = s
  BY DEF Slot
<1>2. Met(c, s + 1, w) = Met(c, s, w) \cup MetAt(c, s, w)
  <2>1. \A k : k \in MetAt(c, s, w) => k \in PeerID
    BY DEF MetAt, LiveIn
  <2> QED
    BY <1>1, <2>1 DEF Met, MetAt
<1>3. Met(c, s, w) \cap MetAt(c, s, w) = {}
  <2> SUFFICES ASSUME NEW k \in Met(c, s, w), k \in MetAt(c, s, w) PROVE FALSE
    OBVIOUS
  <2>1. PICK i \in Slot : i < s /\ k \in LiveIn(c, i)
    BY DEF Met
  <2>2. i # s
    BY <2>1 DEF Slot
  <2>3. /\ k \in PeerID /\ maps[peerMap[root[c]][i]][k] # None
        /\ maps[peerMap[root[c]][s]][k] # None
    BY <2>1 DEF MetAt, LiveIn
  <2> QED
    BY <2>2, <2>3 DEF Sole
<1>4. Met(c, s, w) \subseteq PeerID /\ MetAt(c, s, w) \subseteq PeerID
  BY DEF Met, MetAt, LiveIn
<1> QED
  BY <1>2, <1>3, <1>4, DisjointCount

(* What the Range of a scrape adds at one slot. *)
LEMMA TallyAt ==
  ASSUME SerialBase, NEW c \in Calls, root[c] \in Calls, NEW s \in Slot
  PROVE  Tally(c, peerMap[root[c]][s]) =
           [seeder |-> counts[c].seeder + Cardinality(MetAt(c, s, "whole")),
            complete |-> counts[c].complete + Cardinality(MetAt(c, s, "whole"))
                           + Cardinality(MetAt(c, s, "finished")),
            incomplete |-> counts[c].incomplete + Cardinality(MetAt(c, s, "rest")),
            downloaded |-> counts[c].downloaded + Cardinality(MetAt(c, s, "whole"))]
<1> DEFINE m == peerMap[root[c]][s]
           whole == {k \in Live(c, m) : peers[maps[m][k]].left = 0}
           rest == Live(c, m) \ whole
           finished == {k \in rest : peers[maps[m][k]].event = "completed"}
           running == {k \in whole : peers[maps[m][k]].event # "stopped"}
<1>1. m \in MapRef
  BY RingMaps
<1>2. Live(c, m) = LiveIn(c, s)
  BY DEF Live, LiveIn, Keys
<1>3. whole = MetAt(c, s, "whole")
  BY <1>2 DEF MetAt, Kind
<1>4. finished = MetAt(c, s, "finished")
  BY <1>2 DEF MetAt, Kind
<1>5. rest \ finished = MetAt(c, s, "rest")
  BY <1>2 DEF MetAt, Kind
<1>6. running = whole
  <2>1. \A k \in Keys(m) : peers[maps[m][k]].event # "stopped"
    <3> HIDE DEF m
    <3> QED
      BY <1>1 DEF SerialBase, IndInv, StoredAdmissible
  <2>2. \A k \in whole : k \in Keys(m)
    BY DEF Live
  <2> QED
    BY <2>1, <2>2
<1>7. Tally(c, m) =
        [seeder |-> counts[c].seeder + Cardinality(running),
         complete |-> counts[c].complete + Cardinality(whole) + Cardinality(finished),
         incomplete |-> counts[c].incomplete + Cardinality(rest \ finished),
         downloaded |-> counts[c].downloaded + Cardinality(whole)]
  BY DEF Tally
<1> HIDE DEF whole, rest, finished, running, m
<1>8. Tally(c, m) =
           [seeder |-> counts[c].seeder + Cardinality(MetAt(c, s, "whole")),
            complete |-> counts[c].complete + Cardinality(MetAt(c, s, "whole"))
                           + Cardinality(MetAt(c, s, "finished")),
            incomplete |-> counts[c].incomplete + Cardinality(MetAt(c, s, "rest")),
            downloaded |-> counts[c].downloaded + Cardinality(MetAt(c, s, "whole"))]
  BY <1>3, <1>4, <1>5, <1>6, <1>7
<1> QED
  BY <1>8 DEF m

LEMMA TallyCounts ==
  ASSUME SerialBase, Sole, NEW c \in Calls, root[c] \in Calls, NEW s \in Slot, Counted(c, s)
  PROVE  LET whole == Cardinality(Met(c, s + 1, "whole"))
         IN  Tally(c, peerMap[root[c]][s]) =
               [seeder |-> whole, downloaded |-> whole,
                complete |-> whole + Cardinality(Met(c, s + 1, "finished")),
                incomplete |-> Cardinality(Met(c, s + 1, "rest"))]
<1> DEFINE w == Cardinality(Met(c, s, "whole"))
           f == Cardinality(Met(c, s, "finished"))
           n == Cardinality(Met(c, s, "rest"))
           wa == Cardinality(MetAt(c, s, "whole"))
           fa == Cardinality(MetAt(c, s, "finished"))
           na == Cardinality(MetAt(c, s, "rest"))
<1>1. w \in Nat /\ wa \in Nat /\ Cardinality(Met(c, s + 1, "whole")) = w + wa
  BY MetNext
<1>2. f \in Nat /\ fa \in Nat /\ Cardinality(Met(c, s + 1, "finished")) = f + fa
  BY MetNext
<1>3. n \in Nat /\ na \in Nat /\ Cardinality(Met(c, s + 1, "rest")) = n + na
  BY MetNext
<1>4. /\ counts[c].seeder = w /\ counts[c].downloaded = w /\ counts[c].complete = w + f
      /\ counts[c].incomplete = n
  BY DEF Counted
<1>5. Tally(c, peerMap[root[c]][s]) =
        [seeder |-> w + wa, complete |-> (w + f) + wa + fa, incomplete |-> n + na,
         downloaded |-> w + wa]
  BY <1>4, TallyAt
<1> HIDE DEF w, f, n, wa, fa, na
<1>6. (w + f) + wa + fa = (w + wa) + (f + fa)
  BY <1>1, <1>2
<1> QED
  BY <1>1, <1>2, <1>3, <1>5, <1>6

(* What a scrape has met so far stays as it is while nothing live moves. *)
LEMMA MetLasts ==
  ASSUME NEW c \in Calls,
         \A s \in Slot : LiveIn(c, s)' = LiveIn(c, s),
         \A s \in Slot : \A k \in LiveIn(c, s) : Kind(c, s, k)' = Kind(c, s, k)
  PROVE  /\ \A n, w : Met(c, n, w)' = Met(c, n, w)
         /\ \A k : Doomed(c, k)' <=> Doomed(c, k)
BY DEF Met, Doomed

LEMMA CountedLasts ==
  ASSUME NEW c \in Calls, NEW n, \A w : Met(c, n, w)' = Met(c, n, w), counts'[c] = counts[c],
         Counted(c, n)
  PROVE  Counted(c, n)'
BY DEF Counted

LEMMA ScrapeBegins ==
  ASSUME MaxInflight = 1, SerialBase, HeadInv, NEW c \in Calls, BeginCall(c)
  PROVE  ScrapeInv'
<1>1. /\ last' = c /\ pc[Handler(c)] = "idle" /\ UNCHANGED <<at, stale, counts>>
      /\ pc[Task(c)] = "idle" /\ pc[Reaper(c)] = "idle"
  BY BeginMoves
<1> SUFFICES ASSUME req'[c].op = "scrape", root'[c] # None PROVE ScrapeOf(c)'
  BY <1>1 DEF ScrapeInv
<1>2. /\ pc \in [Goroutine -> Label] /\ root \in [Calls -> Calls \cup {None}]
      /\ infoHashMap \in [InfoHash -> Calls \cup {None}]
      /\ req \in [Calls -> Request \cup {None}]
  BY DEF SerialBase, IndInv, TypeOK
<1>3. root[c] = None /\ stale[c] = {} /\ counts[c] = NoCounts
  BY <1>1 DEF HeadInv, Blank, Born
<1>4. PICK r \in Requests : Scrape(c, r)
  <2>1. PICK r \in Requests : Scrape(c, r) \/ ScrapeWithoutRoot(c, r)
    BY <1>2 DEF BeginCall, AnnounceInvalid, AnnounceFirst, AnnounceStopped, AnnounceKnown,
                ScrapeWithoutRoot, Scrape, CleanUp, DeleteInfoHash, Begin
  <2>2. ~ScrapeWithoutRoot(c, r)
    BY <1>3 DEF ScrapeWithoutRoot
  <2> QED
    BY <2>1, <2>2
<1>5. r.infoHash \in InfoHash
  BY LocalAssumption DEF Request
<1>6. root'[c] \in Calls /\ pc' = [pc EXCEPT ![Handler(c)] = "copyForRange"]
  BY <1>2, <1>4, <1>5 DEF Scrape
<1>7. pc'[Handler(c)] = "copyForRange" /\ pc'[Task(c)] = "idle" /\ pc'[Reaper(c)] = "idle"
  BY <1>1, <1>2, <1>6, Names
<1> QED
  BY <1>1, <1>3, <1>6, <1>7 DEF ScrapeOf

LEMMA ScrapeMoves ==
  ASSUME SerialBase, NEW c \in Calls, ScrapeOf(c), InCall(c)
  PROVE  CopyForRange(c) \/ RangeSlot(c) \/ NextExpired(c) \/ Remove(c)
<1>1. /\ pc[Handler(c)] \in {"copyForRange", "range", "done"} /\ pc[Task(c)] = "idle"
      /\ pc[Reaper(c)] \in {"idle", "nextKey", "remove", "done"}
  BY DEF ScrapeOf, SerialBase, IndInv, Roles
<1>2. CASE HandlerStep(c)
  BY <1>1, <1>2 DEF HandlerStep, CheckLen, ReadCurrent, CompareAndSwap, EmptyOldest, CleanNext,
                    DropRoot
<1>3. ~TaskStep(c)
  BY <1>1 DEF TaskStep, UpdateKnown
<1>4. ~\E g \in Goroutine : g[1] = c /\ AnyStep(g)
  <2> SUFFICES ASSUME NEW g \in Goroutine, g[1] = c, AnyStep(g) PROVE FALSE
    OBVIOUS
  <2>1. pc[g] \in {"copyForTake", "take", "readActive", "readMap", "put"}
    BY DEF AnyStep, CopyForTake, Take, ReadActive, ReadMap, Put
  <2>2. g = Handler(c) \/ g = Task(c) \/ g = Reaper(c)
    BY Names
  <2> QED
    BY <1>1, <2>1, <2>2
<1> QED
  BY <1>2, <1>3, <1>4 DEF InCall, ReaperStep

LEMMA ScrapeRanges ==
  ASSUME SerialBase, SoleInv, NEW c \in Calls, ScrapeOf(c), InCall(c), req[c].op = "scrape",
         CopyForRange(c) \/ RangeSlot(c)
  PROVE  ScrapeOf(c)'
<1> DEFINE g == Handler(c)
           r == root[c]
<1>1. /\ pc \in [Goroutine -> Label] /\ copy \in [Goroutine -> [Slot -> MapRef] \cup {None}]
      /\ pos \in [Goroutine -> Slot] /\ stale \in [Calls -> SUBSET (Slot \X PeerID)]
      /\ counts \in [Calls -> [seeder : Nat, complete : Nat, incomplete : Nat, downloaded : Nat]]
  BY DEF SerialBase, IndInv, TypeOK
<1>2. /\ g \in Goroutine /\ Task(c) \in Goroutine /\ Reaper(c) \in Goroutine
      /\ g # Task(c) /\ g # Reaper(c) /\ Task(c) # Reaper(c) /\ pos[g] \in Slot
  BY <1>1, Names
<1>3. /\ UNCHANGED <<maps, peerMap, peers, req, root>>
      /\ pc[Task(c)] = "idle" /\ pc[Reaper(c)] = "idle" /\ r \in Calls
  BY DEF CopyForRange, RangeSlot, store, ScrapeOf
<1>4. CASE CopyForRange(c)
  <2>1. /\ pc'[g] = "range" /\ pc'[Task(c)] = "idle" /\ pc'[Reaper(c)] = "idle"
        /\ copy'[g] = peerMap[r] /\ pos'[g] = 0 /\ stale'[c] = {} /\ counts'[c] = NoCounts
    BY <1>1, <1>2, <1>3, <1>4 DEF CopyForRange, ScrapeOf
  <2>2. \A w : Met(c, 0, w)' = {}
    <3>1. \A s \in Slot : ~(s < 0)
      BY DEF Slot
    <3> QED
      BY <3>1 DEF Met
  <2>3. Counted(c, 0)'
    <3>1. \A w : Cardinality(Met(c, 0, w)') = 0
      BY <2>2, FS_EmptySet
    <3> QED
      BY <2>1, <3>1 DEF Counted, NoCounts
  <2>4. Counted(c, pos[g])'
    BY <2>1, <2>3 DEF Counted
  <2> QED
    BY <1>3, <2>1, <2>4 DEF ScrapeOf
<1>5. CASE RangeSlot(c)
  <2> DEFINE m == copy[g][pos[g]]
             late == {<<pos[g], k>> : k \in ExpiredKeys(c, m)}
             n == pos[g] + 1
  <2>1. /\ pc[g] = "range" /\ m = peerMap[r][pos[g]] /\ copy[g] = peerMap[r] /\ at' = at
        /\ stale'[c] = stale[c] \cup late /\ counts'[c] = Tally(c, m)
    <3>1. pc[g] = "range" /\ copy[g] = peerMap[r] /\ at' = at
      BY <1>5 DEF RangeSlot, ScrapeOf
    <3>2. stale'[c] = stale[c] \cup late /\ counts'[c] = Tally(c, m)
      BY <1>1, <1>5 DEF RangeSlot
    <3> QED
      BY <3>1, <3>2
  <2>2. /\ \A s \in Slot : LiveIn(c, s)' = LiveIn(c, s)
        /\ \A s \in Slot : \A k \in LiveIn(c, s) : Kind(c, s, k)' = Kind(c, s, k)
    BY <1>3, <2>1 DEF LiveIn, Kind, Expired
  <2>3. /\ \A i, w : Met(c, i, w)' = Met(c, i, w)
        /\ \A k : Doomed(c, k)' <=> Doomed(c, k)
    BY <2>2, MetLasts
  <2>4. ASSUME NEW i, i = n PROVE Counted(c, i)'
    <3>1. Counted(c, pos[g])
      BY <2>1 DEF ScrapeOf
    <3>2. LET whole == Cardinality(Met(c, n, "whole"))
          IN  Tally(c, peerMap[r][pos[g]]) =
               [seeder |-> whole, downloaded |-> whole,
                complete |-> whole + Cardinality(Met(c, n, "finished")),
                incomplete |-> Cardinality(Met(c, n, "rest"))]
      BY <1>2, <1>3, <3>1, TallyCounts DEF SoleInv
    <3> QED
      BY <2>1, <2>3, <2>4, <3>2 DEF Counted
  <2>5. \A e \in stale'[c] : Doomed(c, e[2])'
    <3>1. \A e \in stale[c] : Doomed(c, e[2])
      BY DEF ScrapeOf
    <3>2. ASSUME NEW k \in ExpiredKeys(c, m) PROVE Doomed(c, k)
      <4>1. /\ k \in PeerID /\ maps[peerMap[r][pos[g]]][k] # None
            /\ Expired(maps[peerMap[r][pos[g]]][k], at[c])
        BY <2>1, <3>2 DEF ExpiredKeys, Keys
      <4>2. \A s \in Slot : s = pos[g] \/ maps[peerMap[r][s]][k] = None
        BY <1>2, <1>3, <4>1 DEF SoleInv, Sole
      <4> QED
        BY <4>1, <4>2 DEF Doomed, LiveIn
    <3>3. \A e \in late : Doomed(c, e[2])
      BY <3>2
    <3>4. \A e \in stale'[c] : Doomed(c, e[2])
      BY <2>1, <3>1, <3>3
    <3> HIDE DEF late
    <3> QED
      BY <2>3, <3>4
  <2>6. CASE pos[g] < 2
    <3>1. UNCHANGED <<pc, copy>> /\ pos'[g] = n
      BY <1>1, <1>2, <1>5, <2>6 DEF RangeSlot
    <3>2. Counted(c, pos[g])'
      BY <2>4, <3>1 DEF Counted
    <3> QED
      BY <1>3, <2>1, <2>5, <3>1, <3>2 DEF ScrapeOf
  <2>7. CASE ~(pos[g] < 2)
    <3>1. n = 3
      BY <1>2, <2>7 DEF Slot
    <3>2. \E l \in {"nextKey", "idle"} : pc' = [pc EXCEPT ![g] = "done", ![Reaper(c)] = l]
      <4> DEFINE l == IF stale[c] \cup late # {} THEN "nextKey" ELSE pc[Reaper(c)]
      <4>1. pc' = [pc EXCEPT ![g] = "done", ![Reaper(c)] = l]
        BY <1>1, <1>2, <1>5, <2>7 DEF RangeSlot
      <4>2. l \in {"nextKey", "idle"}
        BY <1>3
      <4> HIDE DEF l
      <4> QED
        BY <4>1, <4>2
    <3>3. /\ pc'[g] = "done" /\ pc'[Task(c)] = "idle" /\ pc'[Reaper(c)] \in {"nextKey", "idle"}
      BY <1>1, <1>2, <1>3, <3>2
    <3>4. Counted(c, 3)'
      BY <2>4, <3>1
    <3> QED
      BY <1>3, <2>5, <3>3, <3>4 DEF ScrapeOf
  <2> QED
    BY <2>6, <2>7
<1> QED
  BY <1>4, <1>5

(* The reaper takes out only peers the scrape did not count. *)
LEMMA ScrapeReaps ==
  ASSUME SerialBase, NEW c \in Calls, ScrapeOf(c), InCall(c), NextExpired(c) \/ Remove(c)
  PROVE  ScrapeOf(c)'
<1> DEFINE g == Reaper(c)
           r == root[c]
<1>1. /\ pc \in [Goroutine -> Label] /\ key \in [Goroutine -> PeerID \cup {None}]
      /\ stale \in [Calls -> SUBSET (Slot \X PeerID)]
  BY DEF SerialBase, IndInv, TypeOK
<1>2. /\ g \in Goroutine /\ Handler(c) \in Goroutine /\ Task(c) \in Goroutine
      /\ g # Handler(c) /\ g # Task(c) /\ g[1] = c
  BY Names
<1>3. /\ UNCHANGED <<peerMap, peers, req, root, at, counts>>
      /\ pc[Task(c)] = "idle" /\ r \in Calls /\ pc[g] # "idle"
  BY DEF NextExpired, Remove, store, locals, ScrapeOf
<1>4. pc[Handler(c)] = "done" /\ Counted(c, 3)
  BY <1>3 DEF ScrapeOf
<1>5. pc'[Handler(c)] = "done" /\ pc'[Task(c)] = "idle"
  <2>1. \A d \in Goroutine : d # g => pc'[d] = pc[d]
    BY <1>2, SharedMoves DEF ReaperStep
  <2> QED
    BY <1>2, <1>3, <1>4, <2>1
<1>6. /\ \A s \in Slot : LiveIn(c, s)' = LiveIn(c, s)
      /\ \A s \in Slot : \A k \in LiveIn(c, s) : Kind(c, s, k)' = Kind(c, s, k)
  <2>1. CASE NextExpired(c)
    <3>1. maps' = maps
      BY <2>1 DEF NextExpired, store
    <3> QED
      BY <1>3, <3>1 DEF LiveIn, Kind, Expired
  <2>2. CASE Remove(c)
    <3>1. PICK n \in MapRef, j \in PeerID :
            /\ j = key[g]
            /\ \A m \in MapRef : \A k \in PeerID :
                 maps'[m][k] = IF m = n /\ k = j THEN None ELSE maps[m][k]
      BY <1>2, <2>2, TakesOne
    <3>2. \A s \in Slot : j \notin LiveIn(c, s)
      BY <2>2, <3>1 DEF Remove, ScrapeOf, Doomed
    <3>3. \A s \in Slot : peerMap[r][s] \in MapRef
      BY <1>3, RingMaps
    <3>4. \A s \in Slot : \A k \in PeerID : k # j => maps'[peerMap[r][s]][k] = maps[peerMap[r][s]][k]
      BY <3>1, <3>3
    <3>5. \A s \in Slot : maps'[peerMap[r][s]][j] = maps[peerMap[r][s]][j] \/ maps'[peerMap[r][s]][j] = None
      BY <3>1, <3>3
    <3>6. ASSUME NEW s \in Slot PROVE LiveIn(c, s)' = LiveIn(c, s)
      BY <1>3, <3>2, <3>4, <3>5 DEF LiveIn, Expired
    <3>7. ASSUME NEW s \in Slot, NEW k \in LiveIn(c, s) PROVE Kind(c, s, k)' = Kind(c, s, k)
      <4>1. k \in PeerID /\ k # j
        BY <3>2, <3>7 DEF LiveIn
      <4> QED
        BY <1>3, <3>4, <4>1 DEF Kind
    <3> QED
      BY <3>6, <3>7
  <2> QED
    BY <2>1, <2>2
<1>7. /\ \A i, w : Met(c, i, w)' = Met(c, i, w)
      /\ \A k : Doomed(c, k)' <=> Doomed(c, k)
  BY <1>6, MetLasts
<1>8. Counted(c, 3)'
  BY <1>3, <1>4, <1>7, CountedLasts
<1>9. \A e \in stale[c] : Doomed(c, e[2])
  BY DEF ScrapeOf
<1>10. stale'[c] \subseteq stale[c]
  BY <1>1 DEF NextExpired, Remove, locals
<1>11. \A e \in stale'[c] : Doomed(c, e[2])'
  BY <1>7, <1>9, <1>10
<1>12. pc'[g] = "remove" => Doomed(c, key'[g])
  <2>1. CASE NextExpired(c)
    BY <1>1, <1>2, <1>9, <2>1 DEF NextExpired
  <2>2. CASE Remove(c)
    BY <2>2 DEF Remove, ScrapeOf
  <2> QED
    BY <2>1, <2>2
<1>13. pc'[g] = "remove" => Doomed(c, key[g])'
  <2>1. ASSUME NEW k, k = key'[g], pc'[g] = "remove" PROVE Doomed(c, k)'
    BY <1>7, <1>12, <2>1
  <2> QED
    BY <2>1 DEF Doomed
<1> QED
  BY <1>3, <1>5, <1>8, <1>11, <1>13 DEF ScrapeOf

LEMMA ScrapeInvStep ==
  ASSUME MaxInflight = 1, SerialBase, HeadInv, SoleInv, ScrapeInv, [Next]_vars
  PROVE  ScrapeInv'
<1>1. CASE \E c \in Calls, r \in Requests, t \in 0..now : DirectStore(c, r, t)
  <2>1. last' = last /\ ~serving
    BY <1>1 DEF DirectStore, history
  <2> QED
    BY <2>1, LocalAssumption DEF SerialBase, Alone, ScrapeInv
<1>2. CASE Serve \/ Tick \/ Finished \/ UNCHANGED vars
  <2>1. UNCHANGED <<last, peerMap, maps, peers, req, root, at, stale, counts, pc, copy, pos, key>>
    BY <1>2 DEF Serve, Tick, Finished, vars, history, store, locals, loops
  <2> SUFFICES ASSUME NEW c \in Calls, ScrapeOf(c) PROVE ScrapeOf(c)'
    BY <2>1 DEF ScrapeInv
  <2>2. /\ \A s \in Slot : LiveIn(c, s)' = LiveIn(c, s)
        /\ \A s \in Slot : \A k \in LiveIn(c, s) : Kind(c, s, k)' = Kind(c, s, k)
    BY <2>1 DEF LiveIn, Kind, Expired
  <2>3. /\ \A i, w : Met(c, i, w)' = Met(c, i, w)
        /\ \A k : Doomed(c, k)' <=> Doomed(c, k)
    BY <2>2, MetLasts
  <2>4. \A n : Counted(c, n) => Counted(c, n)'
    BY <2>1, <2>3, CountedLasts
  <2>5. pc[Handler(c)] = "range" => Counted(c, pos[Handler(c)])'
    <3>1. pc[Handler(c)] = "range" => Counted(c, pos[Handler(c)])
      BY DEF ScrapeOf
    <3>2. ASSUME NEW n, n = pos[Handler(c)], Counted(c, n) PROVE Counted(c, pos[Handler(c)])'
      <4>1. Counted(c, n)'
        BY <2>4, <3>2
      <4>2. n = pos'[Handler(c)]
        BY <2>1, <3>2
      <4> QED
        BY <4>1, <4>2 DEF Counted
    <3> QED
      BY <3>1, <3>2
  <2>6. \A e \in stale'[c] : Doomed(c, e[2])'
    BY <2>1, <2>3 DEF ScrapeOf
  <2>7. pc[Reaper(c)] = "remove" => Doomed(c, key[Reaper(c)])'
    <3>1. ASSUME NEW k, k = key[Reaper(c)], Doomed(c, k) PROVE Doomed(c, key[Reaper(c)])'
      <4>1. Doomed(c, k)' /\ k = key'[Reaper(c)]
        BY <2>1, <2>3, <3>1
      <4> QED
        BY <4>1 DEF Doomed
    <3> QED
      BY <3>1 DEF ScrapeOf
  <2> QED
    BY <2>1, <2>4, <2>5, <2>6, <2>7 DEF ScrapeOf
<1>3. CASE \E c \in Calls : BeginCall(c)
  BY <1>3, ScrapeBegins
<1>4. ASSUME NEW c \in Calls, InCall(c) PROVE ScrapeInv'
  <2>1. last = c /\ last' = c /\ req' = req /\ root' = root
    BY <1>4, OthersRest
  <2> SUFFICES ASSUME req[c].op = "scrape", root[c] # None PROVE ScrapeOf(c)'
    BY <2>1 DEF ScrapeInv
  <2>2. ScrapeOf(c)
    BY <2>1 DEF ScrapeInv
  <2> QED
    BY <1>4, <2>2, ScrapeMoves, ScrapeRanges, ScrapeReaps
<1> QED
  BY <1>1, <1>2, <1>3, <1>4, Names DEF Next, InCall

(* Scrape, when calls do not overlap: the answer counts every unexpired    *)
(* peer of the torrent once, as complete when it has nothing left or has   *)
(* completed, and stays exact while the reaper it started removes the      *)
(* expired ones.                                                           *)
THEOREM ScrapeCountsExactly ==
  ASSUME MaxInflight = 1
  PROVE  Spec => []ScrapeExact
<1>1. Init => ScrapeInv
  BY LocalAssumption DEF Init, ScrapeInv
<1>2. SerialBase /\ HeadInv /\ SoleInv /\ ScrapeInv /\ [Next]_vars => ScrapeInv'
  BY ScrapeInvStep
<1>3. SerialBase /\ SoleInv /\ ScrapeInv => ScrapeExact
  <2> SUFFICES ASSUME SerialBase, SoleInv, ScrapeInv, last # None, root[last] # None,
                      pc[Handler(last)] = "done", req[last].op = "scrape"
               PROVE  ScrapeExact
    BY DEF ScrapeExact
  <2> DEFINE c == last
             r == root[c]
             live == {k \in Listed(r) : ~(at[c] - TTL > Record(r, k).lastSeen)}
             whole == {k \in live : Record(r, k).left = 0}
             finished == {k \in live : Record(r, k).event = "completed"}
  <2>1. c \in Calls /\ ScrapeOf(c)
    BY DEF SerialBase, IndInv, TypeOK, ScrapeInv
  <2>2. r \in Calls /\ Counted(c, 3)
    BY <2>1 DEF ScrapeOf
  <2>3. ASSUME NEW k \in PeerID, NEW s \in Slot, maps[peerMap[r][s]][k] # None
        PROVE  k \in Listed(r) /\ Record(r, k) = peers[maps[peerMap[r][s]][k]]
    <3>1. Holders(r, k) = {s}
      BY <2>2, <2>3 DEF Holders, SoleInv, Sole
    <3>2. (CHOOSE i \in Holders(r, k) : TRUE) = s
      BY <3>1
    <3> QED
      BY <3>1, <3>2 DEF Listed, Record
  <2>4. ASSUME NEW k, NEW s \in Slot
        PROVE  /\ k \in LiveIn(c, s) => k \in live
               /\ k \in LiveIn(c, s) =>
                    /\ Kind(c, s, k) = "whole" <=> k \in whole
                    /\ Kind(c, s, k) = "finished" <=> k \in finished /\ k \notin whole
                    /\ Kind(c, s, k) = "rest" <=> k \notin finished /\ k \notin whole
    BY <2>3 DEF LiveIn, Expired, Kind
  <2>5. ASSUME NEW k \in live PROVE k \in PeerID /\ \E s \in Slot : s < 3 /\ k \in LiveIn(c, s)
    <3>1. k \in PeerID /\ Holders(r, k) # {}
      BY <2>5 DEF Listed
    <3>2. PICK s \in Slot : maps[peerMap[r][s]][k] # None
      BY <3>1 DEF Holders
    <3>3. Record(r, k) = peers[maps[peerMap[r][s]][k]]
      BY <2>3, <3>1, <3>2
    <3>4. s < 3
      BY DEF Slot
    <3> QED
      BY <2>5, <3>1, <3>2, <3>3, <3>4 DEF LiveIn, Expired
  <2>6. whole \subseteq live /\ finished \subseteq live
    OBVIOUS
  <2>7. live \subseteq PeerID
    BY <2>5
  <2>8. /\ whole = Met(c, 3, "whole")
        /\ finished \ whole = Met(c, 3, "finished")
        /\ live \ (whole \cup finished) = Met(c, 3, "rest")
    <3> HIDE DEF whole, finished, live
    <3>1. whole = Met(c, 3, "whole")
      BY <2>4, <2>5, <2>6 DEF Met
    <3>2. finished \ whole = Met(c, 3, "finished")
      BY <2>4, <2>5, <2>6 DEF Met
    <3>3. live \ (whole \cup finished) = Met(c, 3, "rest")
      BY <2>4, <2>5, <2>6 DEF Met
    <3> QED
      BY <3>1, <3>2, <3>3
  <2>9. Cardinality(whole \cup finished) = Cardinality(whole) + Cardinality(finished \ whole)
    <3> HIDE DEF whole, finished, live
    <3>1. whole \cup finished = whole \cup (finished \ whole)
      OBVIOUS
    <3>2. Cardinality(whole \cup (finished \ whole)) = Cardinality(whole) + Cardinality(finished \ whole)
      <4>1. whole \subseteq PeerID /\ finished \ whole \subseteq PeerID /\ whole \cap (finished \ whole) = {}
        BY <2>6, <2>7
      <4> QED
        BY <4>1, DisjointCount
    <3> QED
      BY <3>1, <3>2
  <2>10. counts[c] = [seeder |-> Cardinality(whole), downloaded |-> Cardinality(whole),
                      complete |-> Cardinality(whole \cup finished),
                      incomplete |-> Cardinality(live \ (whole \cup finished))]
    <3> HIDE DEF whole, finished, live
    <3> QED
      BY <2>2, <2>8, <2>9 DEF Counted
  <2> QED
    BY <2>10 DEF ScrapeExact
<1> QED
  BY <1>1, <1>2, <1>3, SerialBaseInductive, HeadInductive, SoleInductive, PTL DEF Spec
=============================================================================
