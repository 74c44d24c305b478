------------------------------ MODULE WsServer ------------------------------
(***************************************************************************)
(* The WebTorrent server: the handler of biz/handler/webtorrent.go, the    *)
(* peer store of biz/services/peer/websocket and the connection wrapper of *)
(* biz/model/ws.go.  Clients of a torrent exchange WebRTC offers and       *)
(* answers through the tracker, which forwards them over the websockets    *)
(* the clients have open.                                                  *)
(*                                                                         *)
(* Each connection has a handler goroutine that reads one message after    *)
(* the other and writes to any connection; only the handler closes its own *)
(* connection.  A connection's mutex covers writes and Close.  An announce *)
(* stores its peer in a task of the goroutine pool, which may run at any   *)
(* later moment.  Peer records are heap objects that several goroutines    *)
(* hold: they have an identity here.                                       *)
(***************************************************************************)
EXTENDS Integers, FiniteSets

CONSTANTS
  Conn,             \* connections, each upgraded once
  InfoHash, PeerID,
  Messages,         \* per connection: what its client may send
  Slow,             \* the clients that may stop reading for a while
  Banned,           \* info hashes and peer ids on the lists when it launched
  MaxAnnounces,     \* bound: announces that are accepted
  None

Event == {"unknown", "started", "stopped", "completed"}

(* good: it decodes, validAnnounceReq accepts it and its addresses are     *)
(* valid.  offers: how many it carries.  to: to_peer_id of an answer.      *)
Message == [kind : {"announce", "answer", "scrape", "other"}, good : BOOLEAN,
            hash : InfoHash, id : PeerID, event : Event, numWant : Int,
            offers : Nat, to : PeerID]

Rec == 1..MaxAnnounces
Record == [hash : InfoHash, id : PeerID, event : Event, conn : Conn \cup {None}]

ASSUME WsAssumption ==
  /\ Messages \in [Conn -> SUBSET Message]
  /\ MaxAnnounces \in Nat
  /\ Slow \subseteq Conn
  /\ None \notin Conn /\ None \notin Rec /\ None \notin Message
  /\ None \notin Record /\ None \notin InfoHash \X PeerID

VARIABLES
  gone,         \* the client has left; the server may not know
  stalled,      \* the client does not read
  closed,       \* Conn.closed
  mutex,        \* Conn.m: the handler that holds it
  callback,     \* Conn.CloseCallback: what it takes out, <<root, key>>
  roots,        \* infoHashMap: the torrents seen
  peerMap,      \* per torrent: from peer ids to records
  rec,          \* the records
  task,         \* per record: the pool task that is to store it
  pc,           \* per handler: where it is
  phase,        \* what its next write is for
  msg,          \* the message it handles
  mine,         \* the record its announce made
  todo,         \* the peers it has yet to send offers to
  sent,         \* how many it has dealt with
  pick,         \* the offer it sends next
  target,       \* the record it is about to write to
  to,           \* the connection it writes to
  announced,    \* history: per connection, the peers it announced
  late,         \* history: records stored after their connection's callback
  got           \* history: what was delivered for the handler's last message

net == <<gone, stalled>>
wrap == <<closed, mutex, callback>>
store == <<roots, peerMap, rec, task>>
locals == <<phase, msg, mine, todo, sent, pick, target, to>>
history == <<announced, late, got>>
vars == <<net, wrap, store, pc, locals, history>>

Init ==
  /\ gone = [c \in Conn |-> FALSE]
  /\ stalled = [c \in Conn |-> FALSE]
  /\ closed = [c \in Conn |-> FALSE]
  /\ mutex = [c \in Conn |-> None]
  /\ callback = [c \in Conn |-> None]
  /\ roots = {}
  /\ peerMap = [h \in InfoHash |-> [i \in PeerID |-> None]]
  /\ rec = [r \in Rec |-> None]
  /\ task = [r \in Rec |-> "none"]
  /\ pc = [c \in Conn |-> "read"]
  /\ phase = [c \in Conn |-> "none"]
  /\ msg = [c \in Conn |-> None]
  /\ mine = [c \in Conn |-> None]
  /\ todo = [c \in Conn |-> {}]
  /\ sent = [c \in Conn |-> 0]
  /\ pick = [c \in Conn |-> 0]
  /\ target = [c \in Conn |-> None]
  /\ to = [c \in Conn |-> None]
  /\ announced = [c \in Conn |-> {}]
  /\ late = {}
  /\ got = [c \in Conn |-> {}]

Goto(c, l) == pc' = [pc EXCEPT ![c] = l]

(* Begin a WriteJSON to connection d. *)
Send(c, d, what) ==
  /\ Goto(c, "send")
  /\ to' = [to EXCEPT ![c] = d]
  /\ phase' = [phase EXCEPT ![c] = what]

(* The handler of a message returns: to the loop, or for good. *)
Return(c, l) ==
  /\ Goto(c, l)
  /\ phase' = [phase EXCEPT ![c] = "none"]
  /\ msg' = [msg EXCEPT ![c] = None]
  /\ mine' = [mine EXCEPT ![c] = None]
  /\ todo' = [todo EXCEPT ![c] = {}]
  /\ sent' = [sent EXCEPT ![c] = 0]
  /\ pick' = [pick EXCEPT ![c] = 0]
  /\ target' = [target EXCEPT ![c] = None]
  /\ to' = [to EXCEPT ![c] = None]

At(h, i) == peerMap[h][i]
Put(h, i, r) == peerMap' = [peerMap EXCEPT ![h][i] = r]

-----------------------------------------------------------------------------
(* The clients and the network.                                            *)

Leave(c) ==
  /\ ~gone[c]
  /\ gone' = [gone EXCEPT ![c] = TRUE]
  /\ stalled' = [stalled EXCEPT ![c] = FALSE]
  /\ UNCHANGED <<wrap, store, pc, locals, history>>

(* A client's receive window is full for a while. *)
Stall(c) ==
  /\ c \in Slow /\ ~gone[c] /\ ~stalled[c]
  /\ stalled' = [stalled EXCEPT ![c] = TRUE]
  /\ UNCHANGED <<gone, wrap, store, pc, locals, history>>
Resume(c) ==
  /\ stalled[c]
  /\ stalled' = [stalled EXCEPT ![c] = FALSE]
  /\ UNCHANGED <<gone, wrap, store, pc, locals, history>>

-----------------------------------------------------------------------------
(* The loop of HandleWebTorrent: ReadMessage and the switch on the action. *)

(* The three checks of the mux manager; c stands for its client's address. *)
Refused(c, m) == ~m.good \/ {m.hash, m.id, c} \cap Banned # {}

Reads(c, m) ==
  /\ pc[c] = "read" /\ ~gone[c] /\ ~closed[c] /\ m \in Messages[c]
  /\ got' = [got EXCEPT ![c] = {}]

(* A message that cannot be handled: the error is written, then the        *)
(* connection is closed.                                                   *)
Reject(c, m) ==
  /\ Reads(c, m)
  /\ \/ m.kind = "other"
     \/ m.kind = "scrape" /\ ~m.good
     \/ m.kind = "announce" /\ Refused(c, m)
  /\ Send(c, c, "error")
  /\ UNCHANGED <<net, wrap, store, msg, mine, todo, sent, pick, target, announced, late>>

(* handleWSScrape only reads the store before it writes. *)
Scrape(c, m) ==
  /\ Reads(c, m)
  /\ m.kind = "scrape" /\ m.good
  /\ Send(c, c, "reply")
  /\ UNCHANGED <<net, wrap, store, msg, mine, todo, sent, pick, target, announced, late>>

(* HandleAnnouncePeer up to its first access to the peers of the torrent.  *)
(* Every announce replaces the callback of its connection, and each makes  *)
(* a record; a first-seen torrent's peer is stored by the handler, a       *)
(* stopped one is not stored, any other by a task.                         *)
Announce(c, m) ==
  /\ Reads(c, m)
  /\ msg' = [msg EXCEPT ![c] = m]
  /\ m.kind = "announce" /\ ~Refused(c, m)
  /\ \E r \in Rec :
       LET way == CASE m.hash \notin roots -> "first"
                    [] m.hash \in roots /\ m.event = "stopped" -> "stop"
                    [] OTHER -> "range"
       IN  /\ rec[r] = None /\ \A s \in Rec : s < r => rec[s] # None
           /\ rec' = [rec EXCEPT ![r] = [hash |-> m.hash, id |-> m.id, event |-> m.event, conn |-> c]]
           /\ mine' = [mine EXCEPT ![c] = r]
           /\ task' = [task EXCEPT ![r] = IF way = "range" THEN "look" ELSE "none"]
           /\ Goto(c, way)
  /\ roots' = roots \cup {m.hash}
  /\ callback' = [callback EXCEPT ![c] = <<m.hash, m.id>>]
  /\ announced' = [announced EXCEPT ![c] = @ \cup {<<m.hash, m.id>>}]
  /\ UNCHANGED <<net, closed, mutex, peerMap, phase, todo, sent, pick, target, to,
                 late>>

StoreFirst(c) ==
  /\ pc[c] = "first"
  /\ IF At(msg[c].hash, msg[c].id) = None THEN Put(msg[c].hash, msg[c].id, mine[c])
     ELSE UNCHANGED peerMap
  /\ Send(c, c, "reply")
  /\ UNCHANGED <<net, wrap, roots, rec, task, msg, mine, todo, sent, pick, target, history>>

(* The Delete that follows the Close of a stopped peer. *)
DeleteStopped(c) ==
  /\ pc[c] = "delete"
  /\ Put(msg[c].hash, msg[c].id, None)
  /\ Send(c, c, "reply")
  /\ UNCHANGED <<net, wrap, roots, rec, task, msg, mine, todo, sent, pick, target, history>>

(* How many peers are given out: a negative number asks for none. *)
NumWant(n) == IF n < 0 THEN 0 ELSE IF n = 0 \/ n > 500 THEN 50 ELSE n

CandidatesMutant(m) ==       \* mutant: the asking peer is not left out
  {r \in Rec : /\ rec[r] # None /\ At(m.hash, rec[r].id) = r
               /\ rec[r].conn # None /\ rec[r].event # "stopped"}

(* Who may be given to the peer of message m. *)
Candidates(m) ==
  {r \in Rec : /\ rec[r] # None /\ At(m.hash, rec[r].id) = r
               /\ rec[r].conn # None /\ rec[r].event # "stopped"
               /\ rec[r].id # m.id}

(* The range over the torrent's map, in the map's own order. *)
RangePeers(c) ==
  LET m == msg[c]
      few == {S \in SUBSET Candidates(m) : Cardinality(S) <= NumWant(m.numWant)}
  IN  /\ pc[c] = "range"
      /\ \E S \in few :
           /\ \A T \in few : Cardinality(T) <= Cardinality(S)
           /\ todo' = [todo EXCEPT ![c] = S]
      /\ Send(c, c, "reply")
      /\ UNCHANGED <<net, wrap, store, msg, mine, sent, pick, target, history>>

(* The loops over the peers of the answer.  Each peer gets one offer: the  *)
(* i-th when there are as many offers as peers, else one picked at random. *)
(* sendOffer leaves out a peer whose connection has been taken away.  The  *)
(* connection is read once more for the write; nil, it is a panic, which   *)
(* the deferred Close of the handler outlives.                             *)
Even(c) == msg[c].offers = sent[c] + Cardinality(todo[c])
(* Mutant: the index is taken after it was incremented. *)
OfferForMutant(c) == IF Even(c) THEN {sent[c] + 2} ELSE 1..msg[c].offers
OfferFor(c) == IF Even(c) THEN {sent[c] + 1} ELSE 1..msg[c].offers
NextOffer(c) ==
  /\ pc[c] = "offers"
  /\ \E r \in todo[c], n \in OfferFor(c) :
       IF rec[r].conn = None /\ todo[c] = {r} THEN Return(c, "read")
       ELSE /\ IF rec[r].conn = None THEN UNCHANGED pc ELSE Goto(c, "offer")
            /\ target' = [target EXCEPT ![c] = r]
            /\ pick' = [pick EXCEPT ![c] = n]
            /\ todo' = [todo EXCEPT ![c] = @ \ {r}]
            /\ sent' = [sent EXCEPT ![c] = @ + 1]
            /\ UNCHANGED <<phase, msg, mine, to>>
  /\ UNCHANGED <<net, wrap, store, history>>
SendOffer(c) ==
  /\ pc[c] = "offer"
  /\ IF rec[target[c]].conn = None
     THEN Return(c, "close")
     ELSE Send(c, rec[target[c]].conn, "offer") /\ UNCHANGED <<msg, mine, todo, sent, pick, target>>
  /\ UNCHANGED <<net, wrap, store, history>>

(* handleWSAnswer and AnswerToPeer.  An answer to nobody is only logged:   *)
(* it changes nothing.                                                     *)
Answer(c, m) ==
  /\ Reads(c, m)
  /\ msg' = [msg EXCEPT ![c] = m]
  /\ m.kind = "answer"
  /\ m.good /\ m.hash \in roots
  /\ At(m.hash, m.to) # None /\ rec[At(m.hash, m.to)].conn # None
  /\ Goto(c, "decode")
  /\ target' = [target EXCEPT ![c] = At(m.hash, m.to)]
  /\ UNCHANGED <<net, wrap, store, phase, mine, todo, sent, pick, to, announced, late>>

(* The connection is read again once the answer has been decoded. *)
Decoded(c) ==
  /\ pc[c] = "decode"
  /\ IF rec[target[c]].conn = None
     THEN Return(c, "close")
     ELSE Send(c, rec[target[c]].conn, "answer") /\ UNCHANGED <<msg, mine, todo, sent, pick, target>>
  /\ UNCHANGED <<net, wrap, store, history>>

-----------------------------------------------------------------------------
(* Conn.WriteJSON.  A handler that waits for the mutex while the           *)
(* connection is closed writes to a closed socket, which is no error.      *)

Lock(c) ==
  /\ pc[c] = "send" /\ ~closed[to[c]] /\ mutex[to[c]] = None
  /\ mutex' = [mutex EXCEPT ![to[c]] = c]
  /\ Goto(c, "write")
  /\ UNCHANGED <<net, closed, callback, store, locals, history>>

(* What a handler does when its write has returned. *)
AfterWrite(c, ok) ==
  CASE phase[c] = "error" -> Return(c, "close")
    [] phase[c] = "reply" /\ ~ok -> Send(c, c, "error") /\ UNCHANGED <<msg, mine, todo, sent, pick, target>>
    [] phase[c] \in {"reply", "offer"} /\ (ok \/ phase[c] = "offer") /\ todo[c] # {} /\ msg[c].offers > 0
         -> Goto(c, "offers") /\ UNCHANGED locals
    [] OTHER -> Return(c, "read")

WriteClosed(c) ==
  /\ pc[c] = "send" /\ closed[to[c]]
  /\ AfterWrite(c, TRUE)
  /\ UNCHANGED <<net, wrap, store, history>>

Delivery(c) ==
  CASE phase[c] = "offer" -> {[kind |-> "offer", even |-> Even(c), n |-> pick[c], via |-> to[c],
                               hash |-> msg[c].hash, from |-> msg[c].id, id |-> rec[target[c]].id]}
    [] phase[c] = "answer" -> {[kind |-> "answer", via |-> to[c], hash |-> msg[c].hash, id |-> msg[c].to]}
    [] OTHER -> {}
Write(c) ==
  /\ pc[c] = "write" /\ ~gone[to[c]] /\ ~stalled[to[c]]
  /\ got' = [got EXCEPT ![c] = @ \cup Delivery(c)]
  /\ mutex' = [mutex EXCEPT ![to[c]] = None]
  /\ AfterWrite(c, TRUE)
  /\ UNCHANGED <<net, closed, callback, store, announced, late>>

(* The client has gone.  A broken pipe is no error either; what other      *)
(* errors say decides whether AnswerToPeer takes the connection away.      *)
WriteFails(c) ==
  /\ pc[c] = "write" /\ gone[to[c]]
  /\ mutex' = [mutex EXCEPT ![to[c]] = None]
  /\ \E err \in {"nil", "close", "other"} :
       /\ AfterWrite(c, err = "nil")
       /\ rec' = IF phase[c] = "answer" /\ err = "close" THEN [rec EXCEPT ![target[c]].conn = None] ELSE rec
  /\ UNCHANGED <<net, closed, callback, roots, peerMap, task, history>>

-----------------------------------------------------------------------------
(* Conn.Close, by the connection's handler.                                *)

ReadAgain(c) ==              \* mutant: the loop goes on after an error
  /\ pc[c] = "read" /\ (gone[c] \/ closed[c])
  /\ UNCHANGED vars

(* ReadMessage fails once the client has gone or the socket is closed. *)
ReadFails(c) ==
  /\ pc[c] = "read" /\ (gone[c] \/ closed[c])
  /\ Goto(c, "close")
  /\ UNCHANGED <<net, wrap, store, locals, history>>

UnlinkTorrent(k) ==          \* mutant: the whole torrent is taken out
  IF k = None THEN UNCHANGED <<peerMap, rec>>
  ELSE /\ peerMap' = [peerMap EXCEPT ![k[1]] = [i \in PeerID |-> None]]
       /\ UNCHANGED rec
UnlinkMarks(k) ==            \* mutant: the peer is marked as stopped, and stays
  IF k = None \/ At(k[1], k[2]) = None THEN UNCHANGED <<peerMap, rec>>
  ELSE /\ rec' = [rec EXCEPT ![At(k[1], k[2])].event = "stopped"]
       /\ UNCHANGED peerMap

(* The callback takes out whatever record is under the key, and its        *)
(* connection away from it.                                                *)
Unlink(k) ==
  IF k = None \/ At(k[1], k[2]) = None THEN UNCHANGED <<peerMap, rec>>
  ELSE /\ rec' = [rec EXCEPT ![At(k[1], k[2])].conn = None]
       /\ Put(k[1], k[2], None)

(* Close: nothing for a closed connection, else the callback under the     *)
(* mutex; then the flag is set, the socket closed and the mutex released.  *)
(* Tasks take no mutex: they run between the two.                          *)
CloseAgain(c) ==
  /\ pc[c] = "close" /\ closed[c]
  /\ Goto(c, "end")
  /\ UNCHANGED <<net, wrap, store, locals, history>>
Callback(c) ==
  /\ pc[c] \in {"close", "stop"} /\ ~closed[c] /\ mutex[c] = None
  /\ mutex' = [mutex EXCEPT ![c] = c]
  /\ Unlink(callback[c])
  /\ Goto(c, IF pc[c] = "stop" THEN "stopping" ELSE "closing")
  /\ UNCHANGED <<net, closed, callback, roots, task, locals, history>>
Close(c) ==
  /\ pc[c] \in {"closing", "stopping"}
  /\ closed' = [closed EXCEPT ![c] = TRUE]
  /\ mutex' = [mutex EXCEPT ![c] = None]
  /\ Goto(c, IF pc[c] = "stopping" THEN "delete" ELSE "end")
  /\ UNCHANGED <<net, callback, store, locals, history>>

(* The callback of the connection has run. *)
Shut(c) == closed[c] \/ pc[c] \in {"closing", "stopping"}

-----------------------------------------------------------------------------
(* The task that stores a peer.  A peer that is known keeps its record,    *)
(* and with it its connection.                                             *)

TaskLook(r) ==
  /\ task[r] = "look"
  /\ LET known == At(rec[r].hash, rec[r].id)
     IN  IF known # None
         THEN /\ rec' = [rec EXCEPT ![known].event = rec[r].event]
              /\ task' = [task EXCEPT ![r] = "none"]
         ELSE /\ task' = [task EXCEPT ![r] = "store"]
              /\ UNCHANGED rec
  /\ UNCHANGED <<net, wrap, roots, peerMap, pc, locals, history>>
TaskStore(r) ==
  /\ task[r] = "store"
  /\ task' = [task EXCEPT ![r] = "none"]
  /\ IF At(rec[r].hash, rec[r].id) # None THEN UNCHANGED <<peerMap, late>>
     ELSE /\ Put(rec[r].hash, rec[r].id, r)
          /\ late' = IF Shut(rec[r].conn) THEN late \cup {r} ELSE late
  /\ UNCHANGED <<net, wrap, roots, rec, pc, locals, announced, got>>

-----------------------------------------------------------------------------
Receive(c) ==
  \E m \in Messages[c] : Reject(c, m) \/ Scrape(c, m) \/ Announce(c, m) \/ Answer(c, m)

Proceed(c) ==
  \/ StoreFirst(c) \/ DeleteStopped(c) \/ RangePeers(c)
  \/ NextOffer(c) \/ SendOffer(c) \/ Decoded(c)
  \/ ReadFails(c) \/ CloseAgain(c) \/ Callback(c) \/ Close(c)
  \/ Lock(c) \/ WriteClosed(c) \/ Write(c) \/ WriteFails(c)

(* Every connection has ended and nothing is left to do. *)
Idle ==
  /\ \A c \in Conn : pc[c] = "end"
  /\ \A r \in Rec : task[r] = "none"
  /\ UNCHANGED vars

Next ==
  \/ \E c \in Conn : Leave(c) \/ Stall(c) \/ Resume(c)
  \/ \E c \in Conn : Receive(c) \/ Proceed(c)
  \/ \E r \in Rec : TaskLook(r) \/ TaskStore(r)
  \/ Idle

Spec == Init /\ [][Next]_vars

(* Handlers are scheduled; Go's mutex is handed to those who have waited   *)
(* for it, so a handler that can go on again and again does.  Nobody is    *)
(* obliged to send, to read again or to leave, and no task to run: writes  *)
(* have no deadline.                                                       *)
FairSpec ==
  /\ Spec
  /\ \A c \in Conn : SF_vars(Proceed(c))

-----------------------------------------------------------------------------
(* Types, and two facts about pointers and indexes: a listed record is one *)
(* of its own torrent and id, and an offer is picked by an index that the  *)
(* announce's offers have.                                                 *)
TypeOK ==
  /\ gone \in [Conn -> BOOLEAN] /\ stalled \in [Conn -> BOOLEAN]
  /\ closed \in [Conn -> BOOLEAN]
  /\ mutex \in [Conn -> Conn \cup {None}]
  /\ callback \in [Conn -> (InfoHash \X PeerID) \cup {None}]
  /\ roots \subseteq InfoHash
  /\ peerMap \in [InfoHash -> [PeerID -> Rec \cup {None}]]
  /\ rec \in [Rec -> Record \cup {None}]
  /\ task \in [Rec -> {"none", "look", "store"}]
  /\ pc \in [Conn -> {"read", "first", "stop", "stopping", "delete", "range", "offers",
                      "offer", "decode", "send", "write", "close", "closing", "end"}]
  /\ phase \in [Conn -> {"none", "error", "reply", "offer", "answer"}]
  /\ msg \in [Conn -> Message \cup {None}]
  /\ mine \in [Conn -> Rec \cup {None}]
  /\ todo \in [Conn -> SUBSET Rec] /\ sent \in [Conn -> 0..MaxAnnounces]
  /\ target \in [Conn -> Rec \cup {None}] /\ to \in [Conn -> Conn \cup {None}]
  /\ announced \in [Conn -> SUBSET (InfoHash \X PeerID)]
  /\ late \subseteq Rec
  /\ pick \in [Conn -> Nat]
  /\ \A c \in Conn : pick[c] > 0 => msg[c] # None /\ pick[c] <= msg[c].offers
  /\ \A h \in InfoHash, i \in PeerID :
       At(h, i) # None => rec[At(h, i)] # None /\ rec[At(h, i)].hash = h /\ rec[At(h, i)].id = i

(* Signalling goes where it should (sendOffer, AnswerToPeer): what is      *)
(* written for a peer arrives on a connection that announced this peer in  *)
(* this torrent, whoever closed, stopped or joined between the range that  *)
(* found the record and the write.  No offer comes back to the peer that   *)
(* made it, an announce sends a peer one offer at most, and when there are *)
(* as many offers as peers no offer goes to two of them.                   *)
SignalsSound ==
  \A c \in Conn :
    LET offers == {g \in got[c] : g.kind = "offer"}
    IN  /\ \A g \in got[c] : <<g.hash, g.id>> \in announced[g.via]
        /\ \A g \in offers : g.id # g.from
        /\ \A g, k \in offers : g # k => g.id # k.id /\ (g.even => g.n # k.n)

(* A closed connection is not given out (Close and its callback): a record *)
(* that is listed with a connection whose callback has run was stored by a *)
(* task that came after the callback, be it between the callback and the   *)
(* flag or later, or a later announce of another peer on the same          *)
(* connection had replaced the callback.                                   *)
ClosedIsUnlisted ==
  \A h \in InfoHash, i \in PeerID :
    LET r == At(h, i)
    IN  r # None /\ rec[r].conn # None /\ Shut(rec[r].conn)
          => r \in late \/ callback[rec[r].conn] # <<h, i>>

(* A peer whose connection is open is in its torrent once its tasks have   *)
(* run, as the only connection that ever announced it: the closing, the    *)
(* stops and the late tasks of the others take nothing of it away.         *)
LiveIsListed ==
  \A c \in Conn : \A k \in announced[c] :
    /\ ~Shut(c) /\ ~gone[c] /\ pc[c] \notin {"first", "stop"}
    /\ \A d \in Conn : k \in announced[d] => d = c
    /\ \A r \in Rec : task[r] # "none" => <<rec[r].hash, rec[r].id>> # k
    => At(k[1], k[2]) # None /\ rec[At(k[1], k[2])].conn = c

(* The handler writes to a client that does not read, or is to do so. *)
Blocked(c) == pc[c] \in {"send", "write"} /\ stalled[to[c]]

(* The server notices a client that leaves (WriteJSON, Close), though its  *)
(* handler may wait for the mutexes of others and others write to it,      *)
(* unless the client that its handler is writing to never reads again:     *)
(* nothing else can keep the connection of a departed client open.         *)
GoneIsClosed == \A c \in Conn : []<>~Blocked(c) => (gone[c] ~> closed[c])
=============================================================================
