# Trunker in TLA+

Trunker is a BitTorrent tracker written in Go. Clients announce themselves over
HTTP, UDP or websockets and are given other peers of the same torrent. This
directory models the tracker's *memory mode*, in which the program itself keeps
the peers: the sharded in-memory store, the block lists in front of it, the UDP
server, and the files peers and bans are kept in between two runs; the WebTorrent
server beside it; and *database mode*, in which peers and bans are in MySQL.

Every module is a translation of the Go (or eBPF C) source; `PROJECT.json` maps
each definition to the lines it stands for, each property to a mutation of the
code that breaks it, and each hazard of the code to the properties that watch it.

    tlc -workers 2 -config local_serial.cfg MCLocal     # one run
    tlapm LocalManagerProofs.tla                        # one module of proofs

## 1. Inventory

| Component | State | Operations | Hard behaviour | What makes it correct |
|---|---|---|---|---|
| Local store, `peer/local` | per torrent a ring of three maps from peer id to peer record, a write head, the time of the last cleaning | announce, scrape, clean, delete, direct store | no lock at all: handlers, pool tasks and reapers work on the ring and write shared records concurrently; rotation in four steps; deletes by key | a record has one holder; no stopped or unreachable peer is stored; answers are sound while they wait; the oldest peers are evicted first; stopped peers go |
| Memory-mode manager, `peer/mux_local/mux_manager.go`, with `handler/announce.go`, `handler/admin.go` | the shards, the ban manager | check the lists and forward; ban, unban, clear, delete | three separate checks before the shard is called; a ban is two steps | a ban that has returned holds |
| Ban lists, `ban/item.go` | a bloom filter, its capacity and count, an append-only file | test, add (with growth), clear, reopen | failed and torn writes, crashes, rebuilding the filter from the file | an acknowledged ban is never lost, a cleared one never returns |
| IP filter, `ban/ip_filter*.go`, `ban/xdp` | eBPF maps and counts, or a plain map | add, remove, test, clear; the kernel program | the kernel reads while user space clears; full maps; batches that fail in the middle | both implementations are one set of addresses, and packets agree with it |
| UDP server, `udp_server` | connection ids, to whom and when they were issued | connect, announce, scrape, sweep | several event loops; sweeps in goroutines of their own; arbitrary datagrams | ids prove a round trip; fresh ids are honoured, old ones forgotten; one answer each |
| Persistence, `mux_local/persist.go`, `interval` | one file per shard, file locks | load at launch, store at intervals and at shutdown | kills, changed shard counts, overlapping processes, overlapping stores, removed names with open files | every peer of the last complete store returns, to the right shard, and nothing older |
| WebTorrent server, `peer/websocket`, `handler/webtorrent.go`, `model/ws.go` | connections with a mutex and a close callback, records that refer to them | announce with offers, answer, scrape, stop, close | handlers write to each other's connections; callbacks replaced by later announces; records outlive connections and are written by late tasks | signalling reaches its addressee and nobody else; closed connections are unlisted, live ones are not; clients that leave are noticed |
| Database mode, `peer/database` | tables of peers and bans, two bloom filters | announce, save, pick, ban, clear, delete, restore | saves in any order; filter and table written in two steps; failing queries, restarts | an acknowledged ban survives; answers are fresh; the last announce wins |
| RPC mode, `peer/rpc`, `services/rpc` | none | forwards calls | – | not modelled: each call is one remote call whose error is returned |
| Collections, metrics, scrape cache, event producer | counted `sync.Map`, cached gauge, redis, message queue | – | length drift; refresh counter | not modelled |
| Configuration, router, middleware, bencode, HTTP helpers | none | conversions | – | not modelled: pure I/O and encoding |

How they interact: `handler.Announce` and `UDPServer.handleAnnounce` call the `PeerManager` interface; in memory mode that
is the mux manager, which asks the ban manager and then a shard
(`local.Manager`), in database mode `DBManager`, which asks its filters and then
the database. The websocket handler has a manager of its own, with a second ban
manager over the same files. The administrator's requests call the same manager. The
interval task calls `Clean` and then `StoreToPersist` on it; hertz's shutdown
hook calls `StoreToPersist`; `InitPeerManager` calls `LoadFromPersist` before
any listener starts. The only shared state between components is behind these
calls and in the files.

## 2. Modules

    PeerCommon ─┬─ LocalManager ── MCLocal         IPFilter (abstract)
                │       └── LocalManagerProofs         ▲ refinement
                ├─ UdpServer ── MCUdp              XdpFilter ── MCXdp
                │       └── UdpServerProofs            └── XdpFilterProofs
                └─ DbManager ── MCDb               WsServer ── MCWs
                        └── DbManagerProofs            └── WsServerProofs
    BanItem ── MCBan          MuxManager ── MCMux        Persist ── MCPersist
       └── BanItemProofs         └── MuxManagerProofs       └── PersistProofs

**PeerCommon** – the peer record and its predicates (`common/peer.go`): which of
four addresses is given out, who counts as connectable, which event strings are
known. An address is its family and its kind (public, private, loopback): all
that the code ever tells apart.

**LocalManager** – `local.go` and `clean.go`. A call is made of up to three
goroutines: the handler, the pool task that stores or refreshes the announcing
peer, and the reaper that deletes expired keys. Every operation on one map, every
read or write of `currentActive` and of a slot of the ring is a step, and
everything in between may be interleaved. Two details of Go decide what can
happen and are modelled: `for _, m := range i.peerMap` ranges over a *copy* of
the array, so a loop keeps working on maps a rotation has replaced (maps are heap
objects with an identity); and `result || Delete(key)` stops deleting at the
first map that held the key. Actions carry the names of the code's functions;
the steps of a goroutine are labelled by `pc`.

**MuxManager** – `HandleAnnouncePeer`'s three checks as three steps, then the
shard; bans as two steps (list, then shard), in batches that stop at the first
failure. The lists are sets, which is what BanItem and IPFilter show of them; a
shard is the set of peers it lists, and whether an accepted announce lists its
peer is left open (LocalManager decides).

**BanItem** – a list and its file. The item's mutex covers each operation, so an
operation is an action; crashes and faults (`Faults`) split them where the file
system can. A torn write leaves an unfinished line, which the next write
continues: into one that decodes to nothing, or to any target at all. The scan at
launch does not look at `scanner.Err()`: with `"read"` in `Faults` it yields the
bans of any first lines of the file, and the history variable `missed` holds the
others until the filter is next built from the file.

**IPFilter / XdpFilter** – the promise of the interface as an abstract
specification, and both implementations in one module with the packets the
kernel program sees. `Implements == Promise!Spec` is the refinement, with
`blocked` mapped to the addresses for which `TestIP` answers true. `Clear` of
the eBPF maps is one step per key, in two loops (`loop`); a delete that fails
ends it there (`ClearFails`), and a loop ends when its map is empty or when its
iteration fails, which the code does not tell apart (`Ends`). `cut` remembers the
maps whose loop ended so; the abstract filter is told (`MayLeave`) that a Clear
may then leave addresses.

**UdpServer** – the datagram handler, split where `handleAnnounce` calls the
manager, and the sweeps. Any datagram, with any id, may arrive at any moment:
lost, repeated, reordered and forged datagrams need no actions of their own.

**Persist** – launches of two processes with different shard counts over one set
of files, with `flock` semantics: a lock belongs to an open file, and removing a
name leaves its holder with a file nobody finds (`linked`). The task's save and
the shutdown's store run the same code (`Store == Proc \X {"save", "exit"}`).
A store meets the keys of a shard in any order (`left`). A renewing task takes a
record out of one map of the ring and stores it in another: that is `Leave` and
then `Announce`, and whether a store that ranges over the maps meets the record
there again, has missed it or has it twice is left open (`ahead` keeps it to once
more). Opening, locking, reading, writing and removing a file may fail
(`Faults`), at the point where the code logs the error and goes on. A record of
`Huge` ends the launch that reads it, one of `Long` ends its file.
History variables record what a store has to keep (`promised`: the keys that were
in memory all through it, minus those whose file a failure hit), the records that
were in memory during it (`fresh`, `held`), those of files that could not be
rewritten or removed (`stuck`) and whether it is complete (`whole`).

**WsServer** – one handler goroutine per connection, which reads a message and
then takes a step at every access to the store and at every wait: for a
connection's mutex (`Lock`) and for the network (`Write`, `WriteFails`). A
handler in the middle of an announce writes its reply and then one offer per peer
to other clients' connections; `pc` says where it is, `phase` what its next write
is for, `AfterWrite` what follows. Records are heap objects (`rec`), because
ranges, tasks and callbacks hold pointers to them while others take them out of
the map or set their `Conn` to nil. Clients leave and stop reading at any moment.
Closing is three steps, since the tasks of the pool take no mutex: the callback
under the connection's mutex (`Callback`), the flag and the socket (`Close`), and
the early return of a second call (`CloseAgain`). An offer is two (`NextOffer`
tests `target.Conn`, `SendOffer` reads it again). `late` and `announced` are
history: which records a task stored after the callback of their connection had
run, and which peers each connection announced.

**DbManager** – an announce is its two filter tests, the task that saves and the
query that picks, in three steps and a task; a ban is the filter and then the
table. A query may fail (`MayFail`), a write that fails may have been executed,
and `Restart` is the end of the process followed by `NewDBManager` and
`restoreBlockList`, whose queries may fail one by one. History: `acked` and
`doomed` say which bans an announce has to meet, `void` which acknowledged ones
are without force although no request named them (the peer bans that
`ClearBanInfoHash` clears, and a list that a launch could not read), `lifted`
which bans under way a clear has met, `last` and `spoiled` which announce of a
peer the table has to show.

## 3. Runs

All bounds are constants; each `MC` module explains the inputs of its runs.

| Run | Shows |
|---|---|
| `local_concurrent` | 3 calls in any interleaving, 2 peer ids, a ring that rotates at one peer, a deletion: TypeOK, Exclusive, StoredAdmissible, ResponseSound, AddressStable |
| `local_serial` | 5 calls one after the other, a full turn of the ring: RingDiscipline (a peer in one map, maps within their bound), EvictsOldest (only the oldest map is lost, only by a full turn), AnnouncedIsListed, StoppedIsGone |
| `local_aging` | 3 calls over 3 instants, `FairSpec`: CleanSweeps, ScrapeExact, EveryCallEnds, with cleaning, deletion, expiry and reapers |
| `ban_durable` | AckedIsBanned and OnlyAskedIsBanned under failed reads (the scan at launch included), writes and truncations, without torn writes |
| `xdp_filter` | the refinement, AnswerTrue, CountCovers, with updates, deletes and iterations that fail |
| `udp_sessions` | two loops, one port per address, one sweep at a time with any delay, `FairSpec`: RoundTrip, OneReply, FreshIsHonoured, EventuallyForgotten |
| `mux_bans` | BansHold |
| `persist_reload` | Reachable, NoStaleShard, NothingForgotten, with interval saves, renewals, and one kill or failed read, write or removal anywhere |
| `persist_shutdown` | ShutdownEnds under `FairSpec`, with overlapping saves and launches, and launches that panic |
| `ws_server` | 2 clients, 3 announces, one slow reader, `FairSpec`: SignalsSound, ClosedIsUnlisted, LiveIsListed, GoneIsClosed |
| `db_mode` | 2 announces of 2 peers, 3 orders of 2 administrators, two failed queries or restarts (with or without the queries at launch): BansHold, AnswerFresh, LatestWins |
| `udp_events` | violated: the UDP event numbers are not those the comment in `parse.go` gives, and a client that announces "stopped" stays listed; the finding in `PROJECT.json` |

**Known deviations.** The model also shows these: by a small change of a
configuration, the passing runs being confined to the cases without them, or as
the exception that a property names.

| What happens | How to see it |
|---|---|
| a stop overtakes the task of the announce it follows, which lists the peer again (`local.go:149`) | StoppedIsGone in `local_concurrent` |
| two rotations interleave: the map thrown away is not the oldest, or nothing was full (`local.go:207-211`) | EvictsOldest with `MaxInflight = 2` in `local_serial` |
| a reaper deletes a record that was renewed between its test and its delete (`local.go:203`) | `Remove` after `Put` of one call in `local_aging`; AnnouncedIsListed leaves announces out that met an expired peer |
| a torrent exceeds `maxPeersPerTorrent`, since two maps may each exceed half of it (`local.go:207`) | `SlotBound`, in RingDiscipline, is the bound that holds |
| `cleanUp` finds a torrent empty, an announce stores a peer in it, and `cleanUp` then deletes the torrent with the peer (`clean.go:40`) | `DropRoot` after `Put` of another call, with `MaxInflight = 2` in `local_aging`; CleanSweeps is about calls that do not overlap |
| a ban acknowledged after a torn write is lost at the next scan (`item.go:93`) | AckedIsBanned with `"torn"` in `Faults` of `ban_durable` |
| parts of two lines, of torn writes, join to 40 digits that decode to a target nobody asked for (`item.go:93-113`) | OnlyAskedIsBanned with `"torn"` in `Faults` of `ban_durable` |
| the scan at launch ignores `scanner.Err()`: after a read error the tracker serves with a part of the bans (`item.go:32-45`; `readBan` does check, `item.go:121`) | `missed` in AckedIsBanned |
| an iteration of `Clear` that fails counts as finished, `iter.Err()` is not looked at: the request is answered with success, addresses stay blocked and the counts are 0 (`xdp/filter.go:219-235`) | `cut` in AnswerTrue and CountCovers, `MayLeave` in IPFilter |
| the count of blocked addresses counts repeated bans (`xdp/filter.go:104`) | CountCovers is an inequality |
| an announce past the checks recreates a torrent that was banned meanwhile (`mux_manager.go:96`) | BansHold speaks of announces that begin after the ban has returned |
| a file skipped because it is being written is removed (`persist.go:131`) | NoStaleShard, NothingForgotten with `Overlaps = {"launch"}` in `persist_reload` |
| an interval save truncates what the shutdown has just stored, and is cut off (`persist.go:164`) | NoStaleShard, NothingForgotten with `Overlaps = {"save"}` in `persist_reload` |
| one record of more than 400 bytes loses the rest of its shard (`persist.go:107`) | NothingForgotten with `Long = {"a"}` in `persist_reload` |
| one record that takes more than 512 bytes compressed ends this launch and every later one in a panic: no file has been removed yet (`persist.go:89`) | `ReadPanics` with `Huge = {"a"}` in `persist_shutdown` |
| a store that ranges over the maps of a ring in turn misses a live peer that is renewed meanwhile, or writes it twice (`persist.go:171`, `local.go:150-161`) | `Leave` takes a key out of `promised`; without that NothingForgotten fails |
| a file that cannot be locked, opened or read to its end is removed with the others (`persist.go:47-62`, `78-106`, `131`) | `ReadBreaks` takes the rest of the file out of `promised` |
| a file that could not be removed, or not be opened for the next store, is loaded again, however old (`persist.go:131-134`, `157-168`) | `stuck` in NoStaleShard |
| a record stored by a task that runs after the callback of its connection, before or after the connection counts as closed, or after the stop that follows it, stays listed for ever: this store has no expiry (`websocket/local.go:89`, `model/ws.go:60-63`) | the set `late` in ClosedIsUnlisted |
| a handler that writes to a client which does not read, but whose system answers TCP's window probes, waits for ever, since no write has a deadline; its own client's departure is then never noticed (`model/ws.go:33-35`) | GoneIsClosed without its premise |
| a second peer or torrent on a websocket replaces the callback of the first, which is never taken out (`websocket/local.go:73`) | the last disjunct of ClosedIsUnlisted |
| a peer that comes back on a new connection keeps the old record with the old connection, and the old connection's close unlists it (`websocket/local.go:90`, `:74`) | the third line of LiveIsListed |
| the first announce of a torrent is stored even if it says "stopped" (`websocket/local.go:78`) | `StoreFirst` after a stopped announce of `h2` |
| with fewer offers than peers one offer goes to several of them, of which only one can use it (`webtorrent.go:179`) | `even` in SignalsSound |
| the connection of an answer's addressee, or of the peer an offer is for, is nil when it is read again: a panic (`websocket/local.go:199`, `webtorrent.go:239-240`) | `Decoded`, `SendOffer` to `"close"` |
| bans made after the launch never reach the websocket server (`websocket/manager.go:29`) | `Banned` is a constant |
| in database mode an older announce overwrites a later one, a stop too, when their saves overlap; a stop from an unconnectable address is not saved (`db_manager.go:72-73`) | `spoiled` in LatestWins; `task` in `TestPeer` |
| a clear of the info hashes clears the filter of peer ids and leaves its own (`database/admin.go:39-43`), where `docs/admin.adoc:29` says "Clear all info_hash ban list": acknowledged peer bans are without force until the next launch | `void` in `ClearBan`, the exception of BansHold; with `void' = void` there BansHold fails |
| cleared bans are back after a restart (`database/admin.go:39-49`) | `Restored` reads the table, which `ClearBan` leaves alone |
| a clear between a ban's filter and its table leaves an acknowledged ban without force (`database/admin.go:15-25`) | `lifted` in `AddToBlockList` |
| a launch that cannot read the block list serves without bans (`database/admin.go:74`) | `void` in `Restart`, the exception of BansHold |

**Bounds.** In LocalManager a property can be violated by the interplay of two
calls' goroutines on one torrent; three calls leave one to set the scene. The
rotation threshold is one peer, so that every second announce rotates, and the
serial run has the five calls a full turn of the ring takes. Expiry happens in
`local_aging`, where a reaper runs beside the task of its own call; reapers beside
other calls are beyond TLC's reach in five minutes, and are covered by the proofs
of Exclusive, StoredAdmissible, AddressStable and ResponseSound. Torrents do not interact (one name), but roots of one name
do, and are distinct objects. UDP: two ids and two addresses, of both
families, each with one port; time reaches the timeout, beyond it, and a second
sweep, which may be delayed but does not overlap the first (one cleaner). Two
ports behind one address and overlapping sweeps are covered only by the theorems
ListedCompletedRoundTrip and FreshIdsAreHonoured. Persist: one and two shards and two
hashes, one above the word, make records move between files in both directions
and leave a file behind; three launches are a store, a crash and a later launch
that could see stale files; two stores, of the task or of a shutdown, are one
whose files may be stale and the one after it. Three joins or renewals let two peers
join and one be renewed during a store (two in `persist_shutdown`). One kill or failure anywhere is
what one run has room for; the theorems are for any number. During a store a key
that is renewed is met once more at most, where the three maps of the ring would
allow it twice; no property counts them. Filter: a Clear of two and one addresses can
fail or break off in either loop, before and after a delete. Bans: capacity 2 makes growth happen at the second
add and again later; lines are bounded, not the number of clears and restarts. Websockets: a client
that answers and offers and one that announces two peers in one torrent and one
in another, so that callbacks are replaced, an announce has two peers to offer
to, and a stop names another's peer; three announces leave one after the two that
make a pair. Database: two announces are two of one peer,
with saves that may overlap, or one of a peer and one of another who asks; three
orders of two administrators make a ban, what puts it out of force and a second
ban, with the bans overlapping; two faults are a launch that cannot read its
lists and the launch after it, or a failed query and a restart. A peer whose two
saves overlap and another who asks are covered by AnswersAlwaysFresh only.
`EveryCallEnds` is checked with one call in flight at a time, with its task and
its reaper; no goroutine of the store waits for another.
Symmetry is used only over calls or targets that no property distinguishes, and
never in liveness runs. Deadlock is checked except in Persist, where a system
with no launches left is simply off.

**Fairness.** LocalManager and UdpServer: weak fairness of each goroutine's
steps, which Go's preemptive scheduler gives, of the clock and of gnet's ticker.
Nobody is obliged to make calls or to send datagrams. Persist: weak fairness of
a running process's goroutines only; locks are granted when free (with at most
two waiting stores and finitely many launches nobody starves). WsServer: strong
fairness of each handler, because Go's mutex is handed to a goroutine that has
waited for it, so that a handler which may go on again and again does. No task is
obliged to run and no client to send, to read or to leave: `ws.go` sets no write
deadline, and TCP keeps a connection up whose client acknowledges the probes of
its closed window, so that nothing ends a write to one that never reads.
GoneIsClosed therefore has a premise, that the handler of the client that left is
not blocked for ever by such a write of its own (`[]<>~Blocked(c)`). It says
nothing of the other clients: a handler that waits for a mutex which a write to
a slow client holds goes on as soon as that client has left or read.

**Abstractions.** Iteration over one skip map is one step (between maps others
may run), and so is adding up the three lengths in `Len`; the map itself is a
library with linearizable operations. Peers in `local` never have a websocket
connection (`Conn` is set only by the websocket server, which has a manager of
its own), so web peers are never answered there. Event messages to the queue are
left out, as is the optional redis cache of scrapes (`Cache.Enable` off). The
HTTP announce's scrape before it calls the manager only reads and reaps and is
covered by LocalManager's own scrape. False positives of the bloom filter are
left out, and with them its size. A clear whose truncation fails empties the
filter only; `OnlyAskedIsBanned` then goes on counting from the clear before it. XdpFilter runs one administrator's request at a time and takes from the
eBPF library that an iteration which does not fail visits every key, though each
is deleted while the iteration stands at it. In WsServer the ban checks and the lookup of the torrent are one step (the lists
are constant there), an iteration of a torrent is one step, shards are left out (a torrent has one), and counts of
bytes with them: `Left` is computed from the wrong field there
(`websocket/local.go:49`), which only a scrape shows. In DbManager a filter that
is not empty may answer true of anything, a query is one step of the database,
and the widths of columns are left out (`ipv4` has four bytes in `peers.sql`,
`net.ParseIP` yields sixteen). The
contents of UDP answers are those of LocalManager's `ResponseSound`; writes to a
socket do not fail. In Persist a directory that cannot be made is a file that
cannot be opened, for each shard by itself; a peer stored after a store began is not promised
to be in it; a store truncates in place, so a crash during a save costs the
previous save of that shard, and a process killed after a launch and before its
first save has lost what it loaded: `NothingForgotten` says nothing in these
cases (`whole` is FALSE), because the format cannot do better.

## 4. Proofs

Proved with TLAPS for every value of the constants that satisfies the named
assumptions (`LocalAssumption`, `BanAssumption`, ...; TLC evaluates them in the
runs). They say what the code's types and configuration guarantee; the one worth
noting is that a record loaded from disk is connectable and not stopped, because
the store it was saved from held it (`StoredAdmissible`) under the same
configuration.

* **LocalManagerProofs** – TypeCorrect, RecordsAreExclusive,
  OnlyAdmissibleStored, AddressesAreStable. None is inductive alone. `IndInv`
  adds which goroutine can be at which label (`Roles`), that the locals a step
  uses are set (`Scopes`), that what a goroutine is about to store is fit to be
  stored (`Pending`), that records in maps and in hands exist (`Stored`, `Held`)
  and that a record its own call has yet to store is nowhere else (`Fresh`): the
  last is why a Put cannot create a second holder. One lemma per action.
  AnswersAreSound, again for every interleaving: what an answer already holds
  fits the request it is for (`AnswerInv`), and goes on fitting because a record's
  address never changes and only admissible events are written to it.

  StoppedPeerIsGone and AnnouncedPeerIsListed are about calls that do not overlap
  (`MaxInflight = 1`: the next call comes when handler, task and reaper of the one
  before have ended); without that the first is false and the second need not
  hold, see the known deviations. `RingInv`, which holds in any interleaving, says
  that the slots of a ring are different maps, and that the map a rotation is
  about to put in is empty and in no slot. `SerialBase` adds that only one
  call is at work. On top of it `StopInv` follows a stop through the three slots,
  those already visited being free of the peer, and `JoinInv` an announce whose task
  stores the peer while its handler turns the ring: the slot the task writes to is
  not the one the rotation empties, however the two interleave.

  The other properties of calls that do not overlap rest on a chain of
  invariants of the ring, each proved from the ones before it:
  - `HeadInv`: where the write head is. No map is in two rings; the slot after
    the head is empty but between moving the head and replacing the oldest map;
    the compare-and-swap of a lone call succeeds; the task stores into the map
    that is written or, when the handler has turned the ring since it read the
    index, into the one just left, and then the new one is still empty.
  - `SoleInv`: no peer is in two maps of a ring, because the task has taken it out
    of all three before it stores it, a map replaced under its loop included.
  - `SizeInv`: how far each map may overshoot, by where handler and task are; a map
    overshoots by its second peer only while the handler is still to see what
    its task has stored (`Swelling`). Gives RingIsDisciplined.
  - `AgeInv`: the three maps are ordered in time, since what a task stores is as
    late as any record there is. `HalfKept`: the map found full holds half of
    MaxPeersPerTorrent besides the announcing peer, which its own task may be taking
    out. Together they give RotationEvictsOldest.
  - `CleanInv`: until cleanUp ends, a peer that was expired when it started is in a
    slot still to be visited, or in `toClean`, or the one being taken out, in a slot
    not reached yet. Gives CleanUpSweeps.
  - `ScrapeInv`: the counts are those of the slots visited, which `SoleInv` makes
    disjoint, and the reaper removes only peers that were not counted. Gives
    ScrapeCountsExactly.

  `MapLen` is a cardinality, so the proofs use that peer ids are finitely many;
  and `None` is assumed to be neither a call, a request nor a record: Go's nil.
* **BanItemProofs** – BanTypeCorrect; BansAreDurable, by `DurableInv`: the file
  has whole lines and holds every acknowledged ban; ClearedStaysCleared, by
  `ClearedInv`: what the file decodes to was asked for since it was last emptied.
  Both assume that no write is torn (`"torn" \notin Faults`) and are false
  otherwise, see the known deviations; every other fault may happen, a scan at
  launch that breaks off included. Both rest on what a scan of a file yields after one
  more line (`DecodedAppend`, `DecodedAfter`).
* **XdpFilterProofs** – XdpTypeCorrect; FilterKeepsItsPromise, a step
  simulation; CountsCoverMaps, with finiteness of the maps as the strengthening;
  AnswersAreTrue: every address of a request is as asked for or still to be
  processed (`Progress`), and the second loop of a Clear finds the first map
  empty unless its iteration broke off (`SecondLoop`). Failing updates, deletes
  and iterations are among the steps of all four.
* **UdpServerProofs** – UdpTypeCorrect; FreshIdsAreHonoured: every entry of the
  list is the one issued, and a sweep compares with a time that has passed;
  ListedCompletedRoundTrip: the announce a loop is handling came from an address
  that was issued an id. EveryDatagramAnsweredOnce: a loop has answered nothing
  of the datagram it is handling, whichever label it is at.
* **MuxManagerProofs** – MuxTypeCorrect; BansHoldAlways: acknowledged targets
  are on their lists, and a call has passed none of the lists that a target
  doomed for it is on.
* **DbManagerProofs** – BansHoldAlways: acknowledged bans are in the table and,
  unless they are void, in the filter, a ban under way
  that no clear has met is in the filter, and a doomed announce has not passed
  the test of its torrent (`BanInv`). AnswersAlwaysFresh: every row has an
  announce of its peer behind it with that time, event and endpoint, and so has
  every answer (`RowInv`). LatestAlwaysWins: at most one save of an unspoiled
  peer is pending, it is that of its last announce, and otherwise the row is
  that announce's (`LastInv`). DbTypeCorrect. None needs a bound on announces,
  administrators, faults or time.
* **PersistProofs** – PersistTypeCorrect and AlwaysReachable without further
  assumptions. NeverStale assumes `Overlaps = {}`: a launch waits for the process
  before it and the shutdown's store for the interval's; without it the property
  is false, see the known deviations. `StaleInv` says where the records on disk
  come from: from the last complete store, or from the one under way, and from
  that one alone in the files it has reached, but for the records of files that
  could not be rewritten or removed.
  NothingIsForgotten also assumes `Long = {}`: every record decompresses into its
  buffer. Kills and failures of any kind and number are among the steps of both. `KeepInv` says where each promised peer is: in a file, in the memory
  of the process that loads, or expired; what was read from a file is in memory
  before the file goes; and during a store it is in memory, and written or still
  to be written to its shard's file.
* **WsServerProofs** – WsTypeCorrect, SignalsArrive, ClosedNotGivenOut,
  LivePeerListed, for any interleaving. All rest on `WsInv`: a listed record is of
  its torrent and peer id (`Listed`), the locals each label uses are set
  (`Handlers`), and a record's connection and a connection's callback are of a
  peer it announced (`Owners`). SignalsArrive adds what an announce has sent so
  far and has still to send (`GotInv`), LivePeerListed that a peer announced by
  one connection only is in the map or a task is bringing it (`LiveInv`).

Model-checked only: everything under fairness (`EveryCallEnds`,
`EventuallyForgotten`, `ShutdownEnds`, `GoneIsClosed`), which is out of the
prover's reach. Every invariant and every action property that a passing run
checks is also stated by a theorem.

## 5. Plan

Done: the store, the mux manager, the ban lists, the IP filter, the UDP server,
persistence, the websocket server, database mode; the proofs above. Left:

**TorrentStore** – an abstract specification of one torrent as a set of peers,
and LocalManager with non-overlapping calls shown to implement it. The facts a
step simulation needs (one map per peer, what a rotation drops, what a task
stores) are the ring invariants above.

## 6. Not modelled

* RPC mode: a method is one remote call whose answer or error is returned. The
  remote side calls the same managers as the handlers. (`ClearBanInfoHash` and
  `ClearBanPeer` do nothing in this mode, and the request is answered as done.)
* The event producer and the metrics: messages and numbers for others; no state
  of the tracker depends on them. (Concurrent scrapes share the gauge's refresh
  counter without a lock and may step over the value that triggers a refresh.)
* The scrape cache: an optional redis cache of answers that age by its TTL.
* The collections: the skip map is a library, and of the counted `sync.Map` the
  program never calls `Store` or `Len`, whose interplay is its only logic.
* Configuration, routing, middleware, bencode and HTTP helpers: conversions and
  I/O without state.
* Scrapes and statistics of database mode: queries, each of its own instant.
