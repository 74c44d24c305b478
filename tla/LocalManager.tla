---------------------------- MODULE LocalManager ----------------------------
(***************************************************************************)
(* The in-memory peer store, biz/services/peer/local: a map from info hash *)
(* to InfoHashRoot, each a ring of three concurrent maps of peers.         *)
(*                                                                         *)
(* Nothing in the package takes a lock.  A call runs in its own goroutine  *)
(* ("handler"), an announce hands its update to a pool goroutine ("task")  *)
(* and a call that met expired peers hands their removal to another        *)
(* ("reaper").  What one operation of a concurrent map, or one access to a *)
(* shared field, does is one step here; everything between two such steps  *)
(* may be interleaved with the other goroutines.                           *)
(*                                                                         *)
(* Go's `for _, m := range i.peerMap` ranges over a COPY of the array, so  *)
(* a loop keeps working on the three maps it found at its start even when  *)
(* a rotation has replaced one: maps are heap objects with identity.       *)
(*                                                                         *)
(* Identities need no allocator: call c creates at most one peer record    *)
(* (c), one InfoHashRoot (c, with the maps <<c,0>>..<<c,2>>) and, when it  *)
(* rotates the ring, one fresh map (<<c,3>>).                              *)
(***************************************************************************)
EXTENDS PeerCommon, FiniteSets

CONSTANTS
  Calls,                \* calls into the manager, each made at most once
  InfoHash,             \* torrents
  PeerID,               \* peer ids, the keys of a map; iterated in key order
  Requests,             \* the requests clients and tasks may make
  None,
  TTL,                  \* config Tracker.TTL
  MaxPeersPerTorrent,   \* config Tracker.Memory.MaxPeersPerTorrent
  MaxTime,              \* bound: the clock stops here
  MaxInflight           \* bound: calls with a live goroutine at any time

Op == {"load", "announce", "scrape", "clean", "delete"}

Request == [op : Op, infoHash : InfoHash, peerID : PeerID, ep : Endpoint,
            left : Nat, event : PeerEvent, numWant : Int]

(* The record of common.Peer; its fields in ep are fixed at creation. *)
Peer == [id : PeerID, ep : Endpoint, left : Nat, event : PeerEvent, lastSeen : Nat]

(* A record on disk is one the store held: see StoredAdmissible. *)
ASSUME LocalAssumption ==
  /\ PeerID \subseteq Nat
  /\ IsFiniteSet(PeerID)
  /\ Requests \subseteq Request
  /\ \A r \in Requests : r.op = "load" => r.event # "stopped" /\ IsPeerConnectable(r.ep)
  /\ None \notin Calls /\ None \notin Requests /\ None \notin Peer
  /\ TTL \in Nat
  /\ MaxPeersPerTorrent \in Nat
  /\ MaxTime \in Nat
  /\ MaxInflight \in Nat

Goroutine == Calls \X {"handler", "task", "reaper"}
Slot == 0..2
MapRef == Calls \X (0..3)

VARIABLES
  now,            \* the wall clock
  serving,        \* FALSE while LoadFromPersist runs, before the listeners start
  infoHashMap,    \* Manager.infoHashMap
  currentActive,  \* InfoHashRoot.currentActive, of every root
  peerMap,        \* InfoHashRoot.peerMap: the map each slot refers to
  lastClean,      \* InfoHashRoot.lastClean
  maps,           \* the contents of every map
  peers,          \* the peer records, by the call that created them
  req,            \* the request of a call
  root,           \* the InfoHashRoot a call works on
  at,             \* the time a call took its expireTime from
  resp,           \* the answer of an announce: <<slot, peer record>>
  counts,         \* the answer of a scrape
  stale,          \* expiredPeer / toClean of a call: <<slot, key>>
  seen,           \* `current` of the rotation, per call
  pc,             \* where a goroutine is
  copy,           \* the array of maps its current loop ranges over
  pos,            \* the slot that loop is at
  key,            \* the key it works on
  found,          \* foundPeer / knownPeer: a record it has taken out
  idx,            \* the active slot it has read for a store
  dst,            \* the map its store goes to
  last,           \* history: the call most recently begun
  answered        \* history: no call was made before the answers to all others

store == <<infoHashMap, currentActive, peerMap, lastClean, maps, peers>>
locals == <<req, root, at, resp, counts, stale, seen>>
loops == <<copy, pos, key, found, idx, dst>>
clock == <<now, serving>>
history == <<last, answered>>
vars == <<clock, store, locals, pc, loops, history>>

NoCounts == [seeder |-> 0, complete |-> 0, incomplete |-> 0, downloaded |-> 0]

Init ==
  /\ now = TTL
  /\ serving = FALSE
  /\ infoHashMap = [h \in InfoHash |-> None]
  /\ currentActive = [r \in Calls |-> 0]
  /\ peerMap = [r \in Calls |-> [s \in Slot |-> <<r, s>>]]
  /\ lastClean = [r \in Calls |-> 0]
  /\ maps = [m \in MapRef |-> [k \in PeerID |-> None]]
  /\ peers = [c \in Calls |-> None]
  /\ req = [c \in Calls |-> None]
  /\ root = [c \in Calls |-> None]
  /\ at = [c \in Calls |-> 0]
  /\ resp = [c \in Calls |-> {}]
  /\ counts = [c \in Calls |-> NoCounts]
  /\ stale = [c \in Calls |-> {}]
  /\ seen = [c \in Calls |-> 0]
  /\ pc = [g \in Goroutine |-> "idle"]
  /\ copy = [g \in Goroutine |-> None]
  /\ pos = [g \in Goroutine |-> 0]
  /\ key = [g \in Goroutine |-> None]
  /\ found = [g \in Goroutine |-> None]
  /\ idx = [g \in Goroutine |-> 0]
  /\ dst = [g \in Goroutine |-> None]
  /\ last = None
  /\ answered = TRUE

Handler(c) == <<c, "handler">>
Task(c) == <<c, "task">>
Reaper(c) == <<c, "reaper">>

Running == {c \in Calls : \E w \in {"handler", "task", "reaper"} :
                             pc[<<c, w>>] \notin {"idle", "done"}}
Quiescent == Running = {}

Expired(o, t) == t - TTL > peers[o].lastSeen

(* The keys of a map, how many it holds, and the maps without one key. *)
Keys(m) == {k \in PeerID : maps[m][k] # None}
MapLen(m) == Cardinality(Keys(m))
WithoutMutant(m, k) == maps     \* mutant: Load in place of LoadAndDelete
Without(m, k) == [maps EXCEPT ![m] = [@ EXCEPT ![k] = None]]

-----------------------------------------------------------------------------
(* Start of a call.                                                        *)

(* A call starts once the listeners run and MaxInflight allows it. *)
Begin(c, r) ==
  /\ serving
  /\ pc[Handler(c)] = "idle"
  /\ Cardinality(Running) < MaxInflight
  /\ r \in Requests
  /\ req' = [req EXCEPT ![c] = r]
  /\ last' = c
  /\ answered' = (answered /\ \A d \in Calls : pc[Handler(d)] \in {"idle", "done"})
  /\ UNCHANGED clock

(* The record HandleAnnouncePeer builds from a request. *)
NewPeer(r) == [id |-> r.peerID, ep |-> r.ep, left |-> r.left,
               event |-> r.event, lastSeen |-> now]

(* A contradictory ipv4 or ipv6 parameter: an error, and nothing changes. *)
AnnounceInvalid(c, r) ==
  /\ r.op = "announce"
  /\ ~ValidAddress(r.ep)
  /\ Begin(c, r)
  /\ pc' = [pc EXCEPT ![Handler(c)] = "done"]
  /\ UNCHANGED <<store, root, at, resp, counts, stale, seen, loops>>

(* The torrent is unknown: its root is created and published, then the     *)
(* peer is stored into it unless it cannot be reached or is stopping.      *)
AnnounceFirst(c, r) ==
  /\ r.op = "announce"
  /\ ValidAddress(r.ep)
  /\ infoHashMap[r.infoHash] = None
  /\ Begin(c, r)
  /\ infoHashMap' = [infoHashMap EXCEPT ![r.infoHash] = c]
  /\ lastClean' = [lastClean EXCEPT ![c] = now]
  /\ peers' = [peers EXCEPT ![c] = NewPeer(r)]
  /\ root' = [root EXCEPT ![c] = c]
  /\ pc' = [pc EXCEPT ![Handler(c)] =
              IF IsPeerConnectable(r.ep) /\ r.event # "stopped"
              THEN "readActive" ELSE "done"]
  /\ UNCHANGED <<currentActive, peerMap, maps, at, resp, counts, stale, seen, loops>>

(* A stopped peer of a known torrent is taken out by the handler itself. *)
AnnounceStopped(c, r) ==
  /\ r.op = "announce"
  /\ ValidAddress(r.ep)
  /\ infoHashMap[r.infoHash] # None
  /\ r.event = "stopped"
  /\ Begin(c, r)
  /\ peers' = [peers EXCEPT ![c] = NewPeer(r)]
  /\ root' = [root EXCEPT ![c] = infoHashMap[r.infoHash]]
  /\ key' = [key EXCEPT ![Handler(c)] = r.peerID]
  /\ pc' = [pc EXCEPT ![Handler(c)] = "copyForTake"]
  /\ UNCHANGED <<infoHashMap, currentActive, peerMap, lastClean, maps,
                 at, resp, counts, stale, seen, copy, pos, found, idx, dst>>

(* Any other announce for a known torrent: the update goes to the pool and *)
(* the handler goes on to collect the answer.                              *)
AnnounceKnown(c, r) ==
  /\ r.op = "announce"
  /\ ValidAddress(r.ep)
  /\ infoHashMap[r.infoHash] # None
  /\ r.event # "stopped"
  /\ Begin(c, r)
  /\ peers' = [peers EXCEPT ![c] = NewPeer(r)]
  /\ root' = [root EXCEPT ![c] = infoHashMap[r.infoHash]]
  /\ key' = [key EXCEPT ![Task(c)] = r.peerID]
  /\ pc' = [pc EXCEPT ![Handler(c)] = "copyForRange", ![Task(c)] = "copyForTake"]
  /\ UNCHANGED <<infoHashMap, currentActive, peerMap, lastClean, maps,
                 at, resp, counts, stale, seen, copy, pos, found, idx, dst>>

(* Scrape of an unknown torrent: all counts are zero. *)
ScrapeWithoutRoot(c, r) ==
  /\ r.op = "scrape"
  /\ Begin(c, r)
  /\ infoHashMap[r.infoHash] = None
  /\ pc' = [pc EXCEPT ![Handler(c)] = "done"]
  /\ UNCHANGED <<store, root, at, resp, counts, stale, seen, loops>>

Scrape(c, r) ==
  /\ r.op = "scrape"
  /\ infoHashMap[r.infoHash] # None
  /\ Begin(c, r)
  /\ root' = [root EXCEPT ![c] = infoHashMap[r.infoHash]]
  /\ pc' = [pc EXCEPT ![Handler(c)] = "copyForRange"]
  /\ UNCHANGED <<store, at, resp, counts, stale, seen, loops>>

(* cleanUp of one root by the interval task, which never overlaps itself;  *)
(* a root cleaned less than TTL ago is left alone.                         *)
CleanUp(c, r) ==
  /\ r.op = "clean"
  /\ \A d \in Running : req[d].op # "clean"
  /\ infoHashMap[r.infoHash] # None
  /\ Begin(c, r)
  /\ root' = [root EXCEPT ![c] = infoHashMap[r.infoHash]]
  /\ pc' = [pc EXCEPT ![Handler(c)] =
              IF lastClean[infoHashMap[r.infoHash]] + TTL > now
              THEN "done" ELSE "copyForRange"]
  /\ UNCHANGED <<store, at, resp, counts, stale, seen, loops>>

(* BanInfoHash and DeleteInfoHash drop the root; goroutines that hold it   *)
(* keep working on the orphan.                                             *)
DeleteInfoHash(c, r) ==
  /\ r.op = "delete"
  /\ Begin(c, r)
  /\ infoHashMap' = [infoHashMap EXCEPT ![r.infoHash] = None]
  /\ pc' = [pc EXCEPT ![Handler(c)] = "done"]
  /\ UNCHANGED <<currentActive, peerMap, lastClean, maps, peers,
                 root, at, resp, counts, stale, seen, loops>>

-----------------------------------------------------------------------------
(* Loops over the ring.                                                    *)

(* `range i.peerMap` copies the array before the first iteration; Range's  *)
(* callers compute their expireTime just before.                           *)
CopyForTake(g) ==
  /\ pc[g] = "copyForTake"
  /\ copy' = [copy EXCEPT ![g] = peerMap[root[g[1]]]]
  /\ pos' = [pos EXCEPT ![g] = 0]
  /\ pc' = [pc EXCEPT ![g] = "take"]
  /\ UNCHANGED <<clock, store, locals, key, found, idx, dst, history>>

CopyForRange(c) ==
  /\ pc[Handler(c)] = "copyForRange"
  /\ at' = [at EXCEPT ![c] = now]
  /\ copy' = [copy EXCEPT ![Handler(c)] = peerMap[root[c]]]
  /\ pos' = [pos EXCEPT ![Handler(c)] = 0]
  /\ pc' = [pc EXCEPT ![Handler(c)] = "range"]
  /\ UNCHANGED <<clock, store, req, root, resp, counts, stale, seen,
                 key, found, idx, dst, history>>

(* The locals of a loop go out of scope with it. *)
EndLoop(g) ==
  /\ copy' = [copy EXCEPT ![g] = None]
  /\ pos' = [pos EXCEPT ![g] = 0]

(* Mutants: the task stores an unreachable peer; it looks for the known     *)
(* record until it finds one.                                              *)
AfterTakeUnchecked(g, f) ==
  CASE g[2] = "handler" /\ req[g[1]].op = "clean" -> "nextKey"
    [] g[2] = "task" -> IF f # None THEN "update" ELSE "readActive"
    [] OTHER -> "done"
AfterTakeRetries(g, f) ==
  CASE g[2] = "handler" /\ req[g[1]].op = "clean" -> "nextKey"
    [] g[2] = "task" -> IF f # None THEN "update" ELSE "copyForTake"
    [] OTHER -> "done"

(* Where a goroutine goes when its LoadAndDelete returns with record f. *)
AfterTake(g, f) ==
  CASE g[2] = "handler" /\ req[g[1]].op = "clean" -> "nextKey"
    [] g[2] = "handler" /\ req[g[1]].op # "clean" -> "done"
    [] g[2] = "task" /\ f # None -> "update"
    [] g[2] = "task" /\ f = None /\ IsPeerConnectable(req[g[1]].ep) -> "readActive"
    [] OTHER -> "done"

(* LoadAndDelete keeps the most recently seen of the records it takes out. *)
Newest(f, o) ==
  IF o = None THEN f
  ELSE IF f = None \/ peers[o].lastSeen > peers[f].lastSeen THEN o ELSE f

(* LoadAndDelete at one slot; only the task uses what it returns. *)
Take(g) ==
  LET m == copy[g][pos[g]]
      f == Newest(found[g], maps[m][key[g]])
  IN  /\ pc[g] = "take"
      /\ maps' = Without(m, key[g])
      /\ found' = [found EXCEPT ![g] = IF pos[g] = 2 /\ g[2] = "handler" THEN None ELSE f]
      /\ IF pos[g] < 2
         THEN /\ pos' = [pos EXCEPT ![g] = pos[g] + 1]
              /\ UNCHANGED <<pc, copy>>
         ELSE /\ pc' = [pc EXCEPT ![g] = AfterTake(g, f)]
              /\ EndLoop(g)
      /\ UNCHANGED <<clock, infoHashMap, currentActive, peerMap, lastClean, peers,
                     locals, key, idx, dst, history>>

(* The callback of an announce's Range, over one map.  A candidate passes  *)
(* every filter up to the NumWant test; a web peer never does, because no  *)
(* peer of this manager has a connection.  The first candidate met when    *)
(* the answer is full ends the iteration of this map.                      *)
Candidates(c, m) ==
  {k \in Keys(m) : /\ ~Expired(maps[m][k], at[c])
                   /\ peers[maps[m][k]].ep.type = req[c].ep.type
                   /\ peers[maps[m][k]].ep.type # "webtorrent"
                   /\ peers[maps[m][k]].event # "stopped"}
Others(c, m) == Candidates(c, m) \ {req[c].peerID}
FullBeforeMutant(c, m, k) ==    \* mutant: the limit is off by one
  Cardinality(resp[c]) + Cardinality({j \in Others(c, m) : j < k}) > req[c].numWant
FullBefore(c, m, k) ==
  Cardinality(resp[c]) + Cardinality({j \in Others(c, m) : j < k}) >= req[c].numWant
Visited(c, m) ==
  {k \in Keys(m) : \A j \in Candidates(c, m) : j < k => ~FullBefore(c, m, j)}
Answer(c, m) == {k \in Others(c, m) : ~FullBefore(c, m, k)}

(* A scrape's tally over one map: a peer with nothing left is complete. *)
LiveMutant(c, m) == Keys(m)     \* mutant: the expiry test is left out
Live(c, m) == {k \in Keys(m) : ~Expired(maps[m][k], at[c])}
Tally(c, m) ==
  LET whole == {k \in Live(c, m) : peers[maps[m][k]].left = 0}
      rest == Live(c, m) \ whole
      finished == {k \in rest : peers[maps[m][k]].event = "completed"}
  IN  [seeder |-> counts[c].seeder +
                    Cardinality({k \in whole : peers[maps[m][k]].event # "stopped"}),
       complete |-> counts[c].complete + Cardinality(whole) + Cardinality(finished),
       incomplete |-> counts[c].incomplete + Cardinality(rest \ finished),
       downloaded |-> counts[c].downloaded + Cardinality(whole)]

(* The keys of expired records that the Range of call c meets in map m. *)
ExpiredKeys(c, m) ==
  {k \in (IF req[c].op = "announce" THEN Visited(c, m) ELSE Keys(m)) :
     Expired(maps[m][k], at[c])}

(* Range at one slot.  After the last one the expired keys go to a reaper, *)
(* or are deleted by cleanUp itself.                                       *)
RangeSlot(c) ==
  LET g == Handler(c)
      m == copy[g][pos[g]]
      late == stale[c] \cup {<<pos[g], k>> : k \in ExpiredKeys(c, m)}
  IN  /\ pc[g] = "range"
      /\ stale' = [stale EXCEPT ![c] = late]
      /\ resp' = IF req[c].op = "announce"
                 THEN [resp EXCEPT ![c] = @ \cup {<<pos[g], maps[m][k]>> : k \in Answer(c, m)}]
                 ELSE resp
      /\ counts' = IF req[c].op = "scrape" THEN [counts EXCEPT ![c] = Tally(c, m)] ELSE counts
      /\ IF pos[g] < 2
         THEN /\ pos' = [pos EXCEPT ![g] = pos[g] + 1]
              /\ UNCHANGED <<pc, copy>>
         ELSE /\ EndLoop(g)
              /\ pc' = [pc EXCEPT
                   ![g] = CASE req[c].op = "announce" -> "checkLen"
                            [] req[c].op = "clean" -> "nextKey"
                            [] OTHER -> "done",
                   ![Reaper(c)] = IF req[c].op # "clean" /\ late # {} THEN "nextKey" ELSE @]
      /\ UNCHANGED <<clock, store, req, root, at, seen, key, found, idx, dst, history>>

-----------------------------------------------------------------------------
(* The task: refresh the known record, or store the new one.               *)

(* Mutants: the record takes over the address; the time is forgotten. *)
RefreshedAddress(o, p) == p
RefreshedNoTime(o, p) == [o EXCEPT !.left = p.left, !.event = p.event]

(* The record taken out gets the new counters, time and event; its address *)
(* and its type stay those of the announce that created it.                *)
Refreshed(o, p) ==
  [o EXCEPT !.left = p.left, !.event = p.event, !.lastSeen = p.lastSeen]
UpdateKnown(c) ==
  LET g == Task(c)
  IN  /\ pc[g] = "update"
      /\ peers' = [peers EXCEPT ![found[g]] = Refreshed(@, peers[c])]
      /\ pc' = [pc EXCEPT ![g] = "readActive"]
      /\ UNCHANGED <<clock, infoHashMap, currentActive, peerMap, lastClean, maps,
                     locals, loops, history>>

(* Mutant: the store goes to the map that is to be kept empty. *)
ReadActiveNext(g) ==
  /\ pc[g] = "readActive"
  /\ idx' = [idx EXCEPT ![g] = (currentActive[root[g[1]]] + 1) % 3]
  /\ pc' = [pc EXCEPT ![g] = "readMap"]
  /\ UNCHANGED <<clock, store, locals, copy, pos, key, found, dst, history>>

(* i.peerMap[i.currentActive].Store: the index is read, then the map of    *)
(* that slot, then the record goes into that map.                          *)
ReadActive(g) ==
  /\ pc[g] = "readActive"
  /\ idx' = [idx EXCEPT ![g] = currentActive[root[g[1]]]]
  /\ pc' = [pc EXCEPT ![g] = "readMap"]
  /\ UNCHANGED <<clock, store, locals, copy, pos, key, found, dst, history>>

ReadMap(g) ==
  /\ pc[g] = "readMap"
  /\ dst' = [dst EXCEPT ![g] = peerMap[root[g[1]]][idx[g]]]
  /\ idx' = [idx EXCEPT ![g] = 0]
  /\ pc' = [pc EXCEPT ![g] = "put"]
  /\ UNCHANGED <<clock, store, locals, copy, pos, key, found, history>>

(* A known record is stored over whatever is there (Store), a new one only *)
(* where the key is absent (LoadOrStore).                                  *)
Put(g) ==
  LET o == IF found[g] # None THEN found[g] ELSE g[1]
      k == peers[o].id
      m == dst[g]
  IN  /\ pc[g] = "put"
      /\ maps' = IF found[g] # None \/ maps[m][k] = None
                 THEN [maps EXCEPT ![m] = [@ EXCEPT ![k] = o]]
                 ELSE maps
      /\ found' = [found EXCEPT ![g] = None]
      /\ dst' = [dst EXCEPT ![g] = None]
      /\ pc' = [pc EXCEPT ![g] = "done"]
      /\ UNCHANGED <<clock, infoHashMap, currentActive, peerMap, lastClean, peers,
                     locals, copy, pos, key, idx, history>>

-----------------------------------------------------------------------------
(* The reaper: root.Delete for each expired key.                           *)

NextExpired(c) ==
  LET g == Reaper(c)
  IN  /\ pc[g] = "nextKey"
      /\ \/ /\ stale[c] = {}
            /\ pc' = [pc EXCEPT ![g] = "done"]
            /\ UNCHANGED <<stale, copy, pos, key>>
         \/ \E e \in stale[c] :
              /\ stale' = [stale EXCEPT ![c] = @ \ {e}]
              /\ key' = [key EXCEPT ![g] = e[2]]
              /\ copy' = [copy EXCEPT ![g] = peerMap[root[c]]]
              /\ pos' = [pos EXCEPT ![g] = 0]
              /\ pc' = [pc EXCEPT ![g] = "remove"]
      /\ UNCHANGED <<clock, store, req, root, at, resp, counts, seen, found, idx, dst, history>>

(* Delete at one slot: `result || peerMap.Delete(key)` stops deleting at   *)
(* the first map that held the key.                                        *)
Remove(c) ==
  LET g == Reaper(c)
      m == copy[g][pos[g]]
  IN  /\ pc[g] = "remove"
      /\ maps' = Without(m, key[g])
      /\ IF maps[m][key[g]] # None \/ pos[g] = 2
         THEN /\ pc' = [pc EXCEPT ![g] = "nextKey"]
              /\ EndLoop(g)
         ELSE /\ pos' = [pos EXCEPT ![g] = pos[g] + 1]
              /\ UNCHANGED <<pc, copy>>
      /\ UNCHANGED <<clock, infoHashMap, currentActive, peerMap, lastClean, peers,
                     locals, key, found, idx, dst, history>>

-----------------------------------------------------------------------------
(* The end of an announce: the write head moves on when its map is half    *)
(* of MaxPeersPerTorrent full.                                             *)

ActiveLen(r) == MapLen(peerMap[r][currentActive[r]])
FullMutant(r) == ActiveLen(r) > MaxPeersPerTorrent      \* mutant: not halved
Full(r) == ActiveLen(r) > MaxPeersPerTorrent \div 2

CheckLen(c) ==
  /\ pc[Handler(c)] = "checkLen"
  /\ pc' = [pc EXCEPT ![Handler(c)] = IF Full(root[c]) THEN "readCurrent" ELSE "done"]
  /\ UNCHANGED <<clock, store, locals, loops, history>>

ReadCurrent(c) ==
  /\ pc[Handler(c)] = "readCurrent"
  /\ seen' = [seen EXCEPT ![c] = currentActive[root[c]]]
  /\ pc' = [pc EXCEPT ![Handler(c)] = "swap"]
  /\ UNCHANGED <<clock, store, req, root, at, resp, counts, stale, loops, history>>

NextSlotMutant(s) == s - 1  \* mutant: the ring turns back, and Go's % keeps the sign
NextSlot(s) == (s + 1) % 3

CompareAndSwap(c) ==
  /\ pc[Handler(c)] = "swap"
  /\ IF currentActive[root[c]] = seen[c]
     THEN /\ currentActive' = [currentActive EXCEPT ![root[c]] = NextSlot(seen[c])]
          /\ pc' = [pc EXCEPT ![Handler(c)] = "empty"]
     ELSE /\ pc' = [pc EXCEPT ![Handler(c)] = "done"]
          /\ UNCHANGED currentActive
  /\ UNCHANGED <<clock, infoHashMap, peerMap, lastClean, maps, peers, locals, loops, history>>

(* Mutants: the new write head is emptied; the full map is. *)
OldestIsHead(c) == (seen[c] + 1) % 3
OldestIsFull(c) == seen[c]

(* The slot after the new write head gets a fresh map. *)
Oldest(c) == (seen[c] + 2) % 3
EmptyOldest(c) ==
  /\ pc[Handler(c)] = "empty"
  /\ peerMap' = [peerMap EXCEPT ![root[c]] = [@ EXCEPT ![Oldest(c)] = <<c, 3>>]]
  /\ pc' = [pc EXCEPT ![Handler(c)] = "done"]
  /\ UNCHANGED <<clock, infoHashMap, currentActive, lastClean, maps, peers,
                 locals, loops, history>>

-----------------------------------------------------------------------------
(* The rest of cleanUp.                                                    *)

SizeMutant(r) == ActiveLen(r)       \* mutant: Len counts the map written to
Size(r) == MapLen(peerMap[r][0]) + MapLen(peerMap[r][1]) + MapLen(peerMap[r][2])

CleanNext(c) ==
  LET g == Handler(c)
  IN  /\ pc[g] = "nextKey"
      /\ \/ /\ stale[c] = {}
            /\ lastClean' = [lastClean EXCEPT ![root[c]] = now]
            /\ pc' = [pc EXCEPT ![g] = IF Size(root[c]) = 0 THEN "drop" ELSE "done"]
            /\ UNCHANGED <<stale, key>>
         \/ \E e \in stale[c] :
              /\ stale' = [stale EXCEPT ![c] = @ \ {e}]
              /\ key' = [key EXCEPT ![g] = e[2]]
              /\ pc' = [pc EXCEPT ![g] = "copyForTake"]
              /\ UNCHANGED lastClean
      /\ UNCHANGED <<clock, infoHashMap, currentActive, peerMap, maps, peers,
                     req, root, at, resp, counts, seen, copy, pos, found, idx, dst, history>>

(* The entry is deleted by name, whatever root it refers to by now. *)
DropRoot(c) ==
  /\ pc[Handler(c)] = "drop"
  /\ infoHashMap' = [infoHashMap EXCEPT ![req[c].infoHash] = None]
  /\ pc' = [pc EXCEPT ![Handler(c)] = "done"]
  /\ UNCHANGED <<clock, currentActive, peerMap, lastClean, maps, peers, locals, loops, history>>

-----------------------------------------------------------------------------
(* Start-up and time.                                                      *)

(* DirectStore of one unexpired persisted record, before serving starts. *)
DirectStore(c, r, t) ==
  /\ ~serving
  /\ pc[Handler(c)] = "idle"
  /\ r \in Requests /\ r.op = "load"
  /\ t \in 0..now /\ t + TTL >= now
  /\ req' = [req EXCEPT ![c] = r]
  /\ peers' = [peers EXCEPT ![c] = [NewPeer(r) EXCEPT !.lastSeen = t]]
  /\ LET h == IF infoHashMap[r.infoHash] = None THEN c ELSE infoHashMap[r.infoHash]
         m == peerMap[h][currentActive[h]]
     IN  /\ infoHashMap' = [infoHashMap EXCEPT ![r.infoHash] = h]
         /\ lastClean' = [lastClean EXCEPT ![h] = IF h = c THEN now ELSE @]
         /\ root' = [root EXCEPT ![c] = h]
         /\ maps' = [maps EXCEPT ![m] = [@ EXCEPT ![r.peerID] = c]]
  /\ pc' = [pc EXCEPT ![Handler(c)] = "done"]
  /\ UNCHANGED <<clock, currentActive, peerMap, at, resp, counts, stale, seen, loops, history>>

Serve ==
  /\ ~serving
  /\ serving' = TRUE
  /\ UNCHANGED <<now, store, locals, pc, loops, history>>

Tick ==
  /\ serving
  /\ now < MaxTime
  /\ now' = now + 1
  /\ UNCHANGED <<serving, store, locals, pc, loops, history>>

(* Every call has been made and every goroutine has returned. *)
Finished ==
  /\ serving
  /\ \A c \in Calls : pc[Handler(c)] = "done"
  /\ Quiescent
  /\ UNCHANGED vars

BeginCall(c) ==
  \E r \in Requests :
    \/ AnnounceInvalid(c, r)
    \/ AnnounceFirst(c, r)
    \/ AnnounceStopped(c, r)
    \/ AnnounceKnown(c, r)
    \/ ScrapeWithoutRoot(c, r)
    \/ Scrape(c, r)
    \/ CleanUp(c, r)
    \/ DeleteInfoHash(c, r)

(* The steps of goroutines that are under way. *)
HandlerStep(c) ==
  \/ CopyForRange(c)
  \/ RangeSlot(c)
  \/ CheckLen(c)
  \/ ReadCurrent(c)
  \/ CompareAndSwap(c)
  \/ EmptyOldest(c)
  \/ CleanNext(c)
  \/ DropRoot(c)
TaskStep(c) == UpdateKnown(c)
ReaperStep(c) == NextExpired(c) \/ Remove(c)
AnyStep(g) ==
  \/ CopyForTake(g)
  \/ Take(g)
  \/ ReadActive(g)
  \/ ReadMap(g)
  \/ Put(g)

Next ==
  \/ \E c \in Calls, r \in Requests, t \in 0..now : DirectStore(c, r, t)
  \/ Serve
  \/ Tick
  \/ \E c \in Calls : BeginCall(c)
  \/ \E c \in Calls : HandlerStep(c) \/ TaskStep(c) \/ ReaperStep(c)
  \/ \E g \in Goroutine : AnyStep(g)
  \/ Finished

Spec == Init /\ [][Next]_vars

(* The Go scheduler runs every runnable goroutine in the end. *)
Fairness ==
  /\ \A c \in Calls : WF_vars(HandlerStep(c)) /\ WF_vars(TaskStep(c)) /\ WF_vars(ReaperStep(c))
  /\ \A g \in Goroutine : WF_vars(AnyStep(g))
  /\ WF_vars(Serve)

FairSpec == Spec /\ Fairness

-----------------------------------------------------------------------------
(* Properties of every interleaving.                                       *)

Label == {"idle", "copyForTake", "take", "copyForRange", "range", "update",
          "readActive", "readMap", "put", "nextKey", "remove", "checkLen",
          "readCurrent", "swap", "empty", "drop", "done"}

(* Every variable holds a value of the kind its Go counterpart can hold;   *)
(* a reference is to an object that exists.                                *)
TypeOK ==
  /\ now \in Nat
  /\ serving \in BOOLEAN
  /\ infoHashMap \in [InfoHash -> Calls \cup {None}]
  /\ currentActive \in [Calls -> Slot]
  /\ peerMap \in [Calls -> [Slot -> MapRef]]
  /\ lastClean \in [Calls -> Nat]
  /\ maps \in [MapRef -> [PeerID -> Calls \cup {None}]]
  /\ peers \in [Calls -> Peer \cup {None}]
  /\ req \in [Calls -> Request \cup {None}]
  /\ root \in [Calls -> Calls \cup {None}]
  /\ at \in [Calls -> Nat]
  /\ resp \in [Calls -> SUBSET (Slot \X Calls)]
  /\ counts \in [Calls -> [seeder : Nat, complete : Nat, incomplete : Nat, downloaded : Nat]]
  /\ stale \in [Calls -> SUBSET (Slot \X PeerID)]
  /\ seen \in [Calls -> Slot]
  /\ pc \in [Goroutine -> Label]
  /\ copy \in [Goroutine -> [Slot -> MapRef] \cup {None}]
  /\ pos \in [Goroutine -> Slot]
  /\ key \in [Goroutine -> PeerID \cup {None}]
  /\ found \in [Goroutine -> Calls \cup {None}]
  /\ idx \in [Goroutine -> Slot]
  /\ dst \in [Goroutine -> MapRef \cup {None}]
  /\ last \in Calls \cup {None}
  /\ answered \in BOOLEAN

(* A peer record is in one map under one key, or in the hands of the one   *)
(* goroutine that took it out, never both: this is what lets the task      *)
(* write the fields of knownPeer without a lock.                           *)
Exclusive ==
  /\ \A m1, m2 \in MapRef : \A k1, k2 \in PeerID :
       maps[m1][k1] # None /\ maps[m1][k1] = maps[m2][k2] => m1 = m2 /\ k1 = k2
  /\ \A g \in Goroutine : found[g] # None =>
       /\ \A m \in MapRef : \A k \in PeerID : maps[m][k] # found[g]
       /\ \A g2 \in Goroutine : found[g2] = found[g] => g2 = g

(* No interleaving stores a stopped peer, an unreachable one or one under  *)
(* another peer's key.                                                     *)
StoredAdmissible ==
  \A m \in MapRef : \A k \in Keys(m) :
    /\ peers[maps[m][k]].id = k
    /\ peers[maps[m][k]].event # "stopped"
    /\ IsPeerConnectable(peers[maps[m][k]].ep)

(* The records an announce returns are still written by later tasks while  *)
(* the answer is serialised without a lock; the fields it is made of       *)
(* (id, addresses, port) never change once the record exists.              *)
AddressStable ==
  [][\A c \in Calls : peers[c] # None =>
       peers'[c].id = peers[c].id /\ peers'[c].ep = peers[c].ep]_vars

(* An answer holds at most numWant peers, all of the asker's type and none *)
(* the asker itself, and stays so while it waits to be sent: every record  *)
(* in it remains one of a reachable peer that has not stopped.             *)
ResponseSound ==
  \A c \in Calls : req[c] # None =>
    /\ Cardinality(resp[c]) <= IF req[c].numWant > 0 THEN req[c].numWant ELSE 0
    /\ \A e \in resp[c] :
         /\ peers[e[2]].ep.type = req[c].ep.type
         /\ peers[e[2]].id # req[c].peerID
         /\ peers[e[2]].event # "stopped"
         /\ IsPeerConnectable(peers[e[2]].ep)

(* Every call, the task and the reaper it started included, comes to its   *)
(* end: no loop over the ring or over expired keys can go on for ever.     *)
EveryCallEnds == \A c \in Calls : c \in Running ~> c \notin Running

-----------------------------------------------------------------------------
(* Properties of calls that do not overlap (MaxInflight = 1).  Some of     *)
(* them fail when calls overlap: see the known deviations in the README.   *)

Holders(r, k) == {s \in Slot : maps[peerMap[r][s]][k] # None}
Listed(r) == {k \in PeerID : Holders(r, k) # {}}
Record(r, k) == peers[maps[peerMap[r][CHOOSE s \in Holders(r, k) : TRUE]][k]]

(* "always keep 3 map, one for write, one for readonly and one keeps empty":*)
(* between calls no peer is in two maps and the slot the write head moves  *)
(* to next is empty.  A map overshoots the rotation threshold by at most   *)
(* two peers: one the task of an earlier announce added after its check,   *)
(* one the task of the rotating announce adds before the head moves.  No   *)
(* check sees what is loaded at launch, which may overshoot by itself, and *)
(* then by one more.                                                       *)
SlotBound(r) ==
  \A s \in Slot :
    LET len == MapLen(peerMap[r][s])
    IN  \/ len <= MaxPeersPerTorrent \div 2 + 2
        \/ len <= Cardinality({c \in Calls : req[c] # None /\ req[c].op = "load"}) + 1
RingDiscipline ==
  Quiescent => \A h \in InfoHash : infoHashMap[h] # None =>
    LET r == infoHashMap[h]
    IN  /\ \A k \in PeerID : Cardinality(Holders(r, k)) <= 1
        /\ Keys(peerMap[r][(currentActive[r] + 1) % 3]) = {}
        /\ SlotBound(r)

(* "reach max, start to eject" and "empty the oldest map": a rotation      *)
(* never throws away the map that is being written, nor a record that was  *)
(* seen later than one that stays, and what it leaves is at least half of  *)
(* MaxPeersPerTorrent, unless expired peers went as well.                  *)
LosesOnlyOldest(c) ==
  LET r == root[c]
      gone == maps[peerMap[r][Oldest(c)]]
  IN  /\ Oldest(c) # currentActive[r]
      /\ \A k \in PeerID, s \in Slot \ {Oldest(c)}, k2 \in PeerID :
           gone[k] # None /\ maps[peerMap[r][s]][k2] # None =>
             peers[gone[k]].lastSeen <= peers[maps[peerMap[r][s]][k2]].lastSeen
KeepsHalf(c) ==
  LET r == root[c]
  IN  pc[Reaper(c)] = "idle" /\ Keys(peerMap[r][Oldest(c)]) # {}
      => Size(r) - MapLen(peerMap[r][Oldest(c)]) >= MaxPeersPerTorrent \div 2
EvictsOldest ==
  [][\A c \in Calls : EmptyOldest(c) => LosesOnlyOldest(c) /\ KeepsHalf(c)]_vars

(* After an announce that met no expired peer, the announcing peer is      *)
(* listed once, with the time, event and left of this announce.            *)
AnnouncedIsListed ==
  Quiescent /\ last # None =>
    LET q == req[last]
        r == infoHashMap[q.infoHash]
    IN  /\ q.op = "announce" /\ ValidAddress(q.ep) /\ q.event # "stopped"
        /\ IsPeerConnectable(q.ep)
        /\ pc[Reaper(last)] = "idle"
        => /\ r # None
           /\ Cardinality(Holders(r, q.peerID)) = 1
           /\ Record(r, q.peerID).lastSeen = peers[last].lastSeen
           /\ Record(r, q.peerID).event = q.event
           /\ Record(r, q.peerID).left = q.left

(* "stopped peer must remove and return nothing": when the last call made  *)
(* was a peer's stop, every call was made after the answers to the ones    *)
(* before it, and all work has ended, the peer is not listed.              *)
StoppedIsGone ==
  Quiescent /\ last # None /\ answered =>
    LET q == req[last]
        r == infoHashMap[q.infoHash]
    IN  q.op = "announce" /\ ValidAddress(q.ep) /\ q.event = "stopped" /\ r # None
        => q.peerID \notin Listed(r) /\ resp[last] = {}

(* A cleanUp that was due leaves no peer that was expired when it started, *)
(* and a torrent survives it only with a peer in it.                       *)
CleanSweeps ==
  Quiescent /\ last # None =>
    LET q == req[last]
        r == root[last]
    IN  q.op = "clean" /\ at[last] > 0
        => /\ \A k \in Listed(r) : ~(at[last] - TTL > Record(r, k).lastSeen)
           /\ infoHashMap[q.infoHash] = r <=> Listed(r) # {}

(* A scrape counts every unexpired peer of the torrent exactly once, and   *)
(* as a seeder exactly when it has nothing left.                           *)
ScrapeExact ==
  last # None /\ root[last] # None /\ pc[Handler(last)] = "done" =>
    LET r == root[last]
        live == {k \in Listed(r) : ~(at[last] - TTL > Record(r, k).lastSeen)}
        whole == {k \in live : Record(r, k).left = 0}
        finished == {k \in live : Record(r, k).event = "completed"}
    IN  req[last].op = "scrape" =>
          counts[last] = [seeder |-> Cardinality(whole), downloaded |-> Cardinality(whole),
                          complete |-> Cardinality(whole \cup finished),
                          incomplete |-> Cardinality(live \ (whole \cup finished))]

-----------------------------------------------------------------------------
(* The inductive invariant behind TypeOK, Exclusive and StoredAdmissible.  *)

Ended == {"idle", "done"}
Storing == {"readActive", "readMap", "put"}
Admissible(p) == p \in Peer /\ p.event # "stopped" /\ IsPeerConnectable(p.ep)

(* Which goroutine may be where. *)
Roles ==
  \A c \in Calls :
    /\ pc[Handler(c)] \notin {"update", "remove"}
    /\ pc[Task(c)] \in {"idle", "copyForTake", "take", "update", "done"} \cup Storing
    /\ pc[Reaper(c)] \in {"idle", "nextKey", "remove", "done"}
    /\ pc[Handler(c)] = "idle" =>
         pc[Task(c)] = "idle" /\ pc[Reaper(c)] = "idle" /\ peers[c] = None
    /\ pc[Handler(c)] \in Storing => pc[Task(c)] = "idle"

(* The locals a goroutine is about to use are set. *)
Scopes ==
  \A g \in Goroutine :
    /\ pc[g] \notin Ended => root[g[1]] \in Calls /\ req[g[1]] \in Request
    /\ pc[g] \in {"take", "range", "remove"} => copy[g] \in [Slot -> MapRef]
    /\ pc[g] \in {"copyForTake", "take", "remove"} => key[g] \in PeerID
    /\ pc[g] = "put" => dst[g] \in MapRef
    /\ pc[g] = "update" => found[g] \in Calls
    /\ pc[g] \notin {"take", "update"} \cup Storing => found[g] = None

(* What a goroutine is about to store is fit to be stored. *)
Pending ==
  \A c \in Calls :
    /\ pc[Handler(c)] \in Storing => Admissible(peers[c]) /\ found[Handler(c)] = None
    /\ pc[Task(c)] \notin Ended =>
         peers[c] \in Peer /\ peers[c].event # "stopped" /\ peers[c].ep = req[c].ep
    /\ pc[Task(c)] \in Storing /\ found[Task(c)] = None => IsPeerConnectable(peers[c].ep)
Stored == \A m \in MapRef : \A k \in Keys(m) : peers[maps[m][k]] \in Peer
Held == \A g \in Goroutine : found[g] # None => Admissible(peers[found[g]])

(* A record its own call has yet to store is nowhere else. *)
Fresh ==
  \A c \in Calls :
    pc[Handler(c)] \in {"idle"} \cup Storing \/ pc[Task(c)] \notin Ended =>
      /\ \A m \in MapRef : \A k \in PeerID : maps[m][k] # c
      /\ \A g \in Goroutine : found[g] # c

IndInv ==
  /\ TypeOK /\ Roles /\ Scopes /\ Pending /\ Stored /\ Held /\ Fresh
  /\ Exclusive /\ StoredAdmissible
=============================================================================
