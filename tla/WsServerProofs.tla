--------------------------- MODULE WsServerProofs ---------------------------
(***************************************************************************)
(* The WebTorrent server, for any number of connections, torrents, peers   *)
(* and messages: its types, and three facts about the signalling: offers   *)
(* and answers arrive where they should, a closed connection is not given  *)
(* out, and a live peer is listed.                                         *)
(***************************************************************************)
EXTENDS WsServer, FiniteSetTheorems, TLAPS

KeyOf(r) == <<rec[r].hash, rec[r].id>>
MsgKey(c) == <<msg[c].hash, msg[c].id>>

Label == {"read", "first", "stop", "stopping", "delete", "range", "offers", "offer", "decode",
          "send", "write", "close", "closing", "end"}

(* The parts of the type invariant. *)
WrapTypes ==
  /\ gone \in [Conn -> BOOLEAN] /\ stalled \in [Conn -> BOOLEAN]
  /\ closed \in [Conn -> BOOLEAN]
  /\ mutex \in [Conn -> Conn \cup {None}]
  /\ callback \in [Conn -> (InfoHash \X PeerID) \cup {None}]
StoreTypes ==
  /\ roots \subseteq InfoHash
  /\ peerMap \in [InfoHash -> [PeerID -> Rec \cup {None}]]
  /\ rec \in [Rec -> Record \cup {None}]
  /\ task \in [Rec -> {"none", "look", "store"}]
LocalTypes ==
  /\ pc \in [Conn -> Label]
  /\ phase \in [Conn -> {"none", "error", "reply", "offer", "answer"}]
  /\ msg \in [Conn -> Message \cup {None}]
  /\ mine \in [Conn -> Rec \cup {None}]
  /\ todo \in [Conn -> SUBSET Rec] /\ sent \in [Conn -> 0..MaxAnnounces]
  /\ target \in [Conn -> Rec \cup {None}] /\ to \in [Conn -> Conn \cup {None}]
  /\ pick \in [Conn -> Nat]
HistoryTypes ==
  /\ announced \in [Conn -> SUBSET (InfoHash \X PeerID)]
  /\ late \subseteq Rec
Types == WrapTypes /\ StoreTypes /\ LocalTypes /\ HistoryTypes

(* A listed record is one of its torrent and id. *)
Listed ==
  \A h \in InfoHash, i \in PeerID :
    peerMap[h][i] # None => /\ rec[peerMap[h][i]] # None
                            /\ rec[peerMap[h][i]].hash = h /\ rec[peerMap[h][i]].id = i

(* What a handler's variables hold, by where the handler is. *)
Picked(c) == pick[c] > 0 => msg[c] # None /\ pick[c] <= msg[c].offers
Cleared(c) == todo[c] = {} /\ sent[c] = 0 /\ pick[c] = 0
Waiting(c) == pc[c] \in {"read", "close", "closing", "end"} => msg[c] = None /\ Cleared(c)
Announcing(c) ==
  pc[c] \in {"first", "stop", "stopping", "delete", "range"} =>
    /\ msg[c] \in Message /\ MsgKey(c) \in announced[c] /\ Cleared(c)
    /\ mine[c] \in Rec /\ rec[mine[c]] # None
    /\ KeyOf(mine[c]) = MsgKey(c) /\ rec[mine[c]].conn \in {c, None}
    /\ closed[c] <=> pc[c] = "delete"
Offering(c) == pc[c] = "offers" => msg[c] \in Message
Serving(c) ==
  pc[c] = "offer" =>
    /\ msg[c] \in Message
    /\ target[c] \in Rec /\ rec[target[c]] # None
    /\ rec[target[c]].hash = msg[c].hash /\ rec[target[c]].id # msg[c].id
Decoding(c) ==
  pc[c] = "decode" =>
    /\ msg[c] \in Message /\ Cleared(c)
    /\ target[c] \in Rec /\ rec[target[c]] # None
    /\ KeyOf(target[c]) = <<msg[c].hash, msg[c].to>>
Sending(c) ==
  pc[c] \in {"send", "write"} =>
    /\ to[c] \in Conn /\ phase[c] # "none"
    /\ phase[c] \in {"offer", "answer"} =>
         /\ msg[c] \in Message
         /\ target[c] \in Rec /\ rec[target[c]] # None /\ KeyOf(target[c]) \in announced[to[c]]
    /\ phase[c] = "offer" => rec[target[c]].hash = msg[c].hash /\ rec[target[c]].id # msg[c].id
    /\ phase[c] = "answer" => KeyOf(target[c]) = <<msg[c].hash, msg[c].to>>
Todo(c) ==
  /\ todo[c] # {} => msg[c] \in Message
  /\ \A r \in todo[c] : rec[r] # None /\ rec[r].hash = msg[c].hash /\ rec[r].id # msg[c].id
  /\ \A r, q \in todo[c] : r # q => rec[r].id # rec[q].id
  /\ sent[c] + Cardinality(todo[c]) <= MaxAnnounces
Handler(c) ==
  Picked(c) /\ Waiting(c) /\ Announcing(c) /\ Offering(c) /\ Serving(c) /\ Decoding(c) /\ Sending(c) /\ Todo(c)
Handlers == \A c \in Conn : Handler(c)

(* Records and callbacks are of peers that were announced. *)
Owners ==
  /\ \A r \in Rec : rec[r] # None /\ rec[r].conn # None => KeyOf(r) \in announced[rec[r].conn]
  /\ \A c \in Conn : callback[c] # None => callback[c] \in announced[c]
  /\ \A r \in Rec : task[r] # "none" => rec[r] # None

(* The invariant that the theorems rest on. *)
WsInv == Types /\ Listed /\ Handlers /\ Owners

LEMMA WsInvTypes == WsInv => TypeOK
BY DEF WsInv, Types, WrapTypes, StoreTypes, LocalTypes, HistoryTypes, Label, Listed, Handlers,
       Handler, Picked, TypeOK, At

-----------------------------------------------------------------------------
(* Sets of records are finite. *)
LEMMA CardRec ==
  ASSUME NEW S \in SUBSET Rec
  PROVE  /\ IsFiniteSet(S) /\ Cardinality(S) \in Nat /\ Cardinality(S) <= MaxAnnounces
         /\ \A r \in S : Cardinality(S \ {r}) = Cardinality(S) - 1 /\ Cardinality(S) >= 1
<1>1. MaxAnnounces \in Nat
  BY WsAssumption
<1>2. IsFiniteSet(Rec) /\ Cardinality(Rec) = MaxAnnounces
  BY <1>1, FS_Interval DEF Rec
<1>3. IsFiniteSet(S) /\ Cardinality(S) <= MaxAnnounces
  BY <1>2, FS_Subset
<1>4. Cardinality(S) \in Nat
  BY <1>3, FS_CardinalityType
<1>5. ASSUME NEW r \in S PROVE Cardinality(S \ {r}) = Cardinality(S) - 1 /\ Cardinality(S) >= 1
  <2>1. IsFiniteSet(S \ {r}) /\ Cardinality(S \ {r}) = Cardinality(S) - 1
    BY <1>3, FS_RemoveElement
  <2>2. Cardinality(S \ {r}) \in Nat
    BY <2>1, FS_CardinalityType
  <2> QED
    BY <2>1, <2>2, <1>4
<1> QED
  BY <1>3, <1>4, <1>5

LEMMA CardNone == Cardinality({}) = 0
BY FS_EmptySet

(* One cell of the store is assigned. *)
LEMMA PutCell ==
  ASSUME StoreTypes, NEW h \in InfoHash, NEW i \in PeerID, NEW r \in Rec \cup {None}, Put(h, i, r)
  PROVE  /\ peerMap' \in [InfoHash -> [PeerID -> Rec \cup {None}]]
         /\ peerMap'[h][i] = r
         /\ \A g \in InfoHash, j \in PeerID : g # h \/ j # i => peerMap'[g][j] = peerMap[g][j]
BY DEF StoreTypes, Put

(* A record keeps its torrent and its id, and loses its connection only. *)
RecStays ==
  \A r \in Rec : rec[r] # None =>
    /\ rec'[r] # None /\ rec'[r].hash = rec[r].hash /\ rec'[r].id = rec[r].id
    /\ rec'[r].conn \in {rec[r].conn, None}
LEMMA ConnTaken ==
  ASSUME StoreTypes, NEW t \in Rec, rec[t] # None, rec' = [rec EXCEPT ![t].conn = None]
  PROVE  /\ rec' \in [Rec -> Record \cup {None}] /\ RecStays
         /\ rec'[t].conn = None
         /\ \A r \in Rec : r # t => rec'[r] = rec[r]
<1>1. rec[t] \in Record
  BY DEF StoreTypes
<1>2. rec' = [rec EXCEPT ![t] = [rec[t] EXCEPT !.conn = None]]
  OBVIOUS
<1>3. [rec[t] EXCEPT !.conn = None] \in Record
  BY <1>1 DEF Record
<1>4. rec'[t] = [rec[t] EXCEPT !.conn = None] /\ \A r \in Rec : r # t => rec'[r] = rec[r]
  BY <1>2 DEF StoreTypes
<1>5. rec'[t] # None
  BY <1>3, <1>4, WsAssumption
<1>6. rec'[t].hash = rec[t].hash /\ rec'[t].id = rec[t].id /\ rec'[t].conn = None
  BY <1>1, <1>4 DEF Record
<1>7. rec' \in [Rec -> Record \cup {None}]
  BY <1>2, <1>3 DEF StoreTypes
<1> QED
  BY <1>4, <1>5, <1>6, <1>7 DEF RecStays
LEMMA EventSet ==
  ASSUME StoreTypes, NEW t \in Rec, rec[t] # None, NEW e \in Event, rec' = [rec EXCEPT ![t].event = e]
  PROVE  /\ rec' \in [Rec -> Record \cup {None}] /\ RecStays
         /\ rec'[t] # None /\ rec'[t].conn = rec[t].conn
         /\ \A r \in Rec : r # t => rec'[r] = rec[r]
<1>1. rec[t] \in Record
  BY DEF StoreTypes
<1>2. rec' = [rec EXCEPT ![t] = [rec[t] EXCEPT !.event = e]]
  OBVIOUS
<1>3. [rec[t] EXCEPT !.event = e] \in Record
  BY <1>1 DEF Record
<1>4. rec'[t] = [rec[t] EXCEPT !.event = e] /\ \A r \in Rec : r # t => rec'[r] = rec[r]
  BY <1>2 DEF StoreTypes
<1>5. rec'[t] # None
  BY <1>3, <1>4, WsAssumption
<1>6. rec'[t].hash = rec[t].hash /\ rec'[t].id = rec[t].id /\ rec'[t].conn = rec[t].conn
  BY <1>1, <1>4 DEF Record
<1>7. rec' \in [Rec -> Record \cup {None}]
  BY <1>2, <1>3 DEF StoreTypes
<1> QED
  BY <1>4, <1>5, <1>6, <1>7 DEF RecStays

-----------------------------------------------------------------------------
(* A handler that does nothing is not disturbed by what the others do.     *)

Grows == \A d \in Conn : announced[d] \subseteq announced'[d]
SameLocals(d) ==
  /\ phase'[d] = phase[d] /\ msg'[d] = msg[d] /\ mine'[d] = mine[d] /\ todo'[d] = todo[d]
  /\ sent'[d] = sent[d] /\ pick'[d] = pick[d] /\ target'[d] = target[d] /\ to'[d] = to[d]
SameHandler(d) == pc'[d] = pc[d] /\ SameLocals(d) /\ (closed'[d] <=> closed[d])
Others(c) == \A d \in Conn : d # c => SameHandler(d)

LEMMA PickedSame ==
  ASSUME NEW d \in Conn, Handler(d), SameLocals(d)
  PROVE  Picked(d)'
BY DEF Handler, Picked, SameLocals

LEMMA TodoSame ==
  ASSUME NEW d \in Conn, LocalTypes, Handler(d), RecStays, SameLocals(d)
  PROVE  Todo(d)'
<1>1. todo[d] \subseteq Rec
  BY DEF LocalTypes
<1>2. Todo(d)
  BY DEF Handler
<1> QED
  BY <1>1, <1>2 DEF Todo, RecStays, SameLocals

LEMMA HandlerSame ==
  ASSUME NEW d \in Conn, LocalTypes, Handler(d), RecStays, Grows, SameHandler(d)
  PROVE  Handler(d)'
<1>1. SameLocals(d) /\ pc'[d] = pc[d]
  BY DEF SameHandler
<1>2. Picked(d)' /\ Todo(d)'
  BY <1>1, PickedSame, TodoSame
<1>3. Waiting(d)' /\ Offering(d)'
  BY <1>1 DEF Handler, SameLocals, Waiting, Offering, Serving, Cleared
<1>4. Announcing(d)'
  <2> SUFFICES ASSUME pc[d] \in {"first", "stop", "stopping", "delete", "range"} PROVE Announcing(d)'
    BY <1>1 DEF Announcing
  <2>1. /\ msg[d] \in Message /\ MsgKey(d) \in announced[d] /\ Cleared(d)
        /\ mine[d] \in Rec /\ rec[mine[d]] # None
        /\ KeyOf(mine[d]) = MsgKey(d) /\ rec[mine[d]].conn \in {d, None}
        /\ closed[d] <=> pc[d] = "delete"
    BY DEF Handler, Announcing
  <2>2. MsgKey(d)' = MsgKey(d) /\ mine'[d] = mine[d]
    BY <1>1 DEF SameLocals, MsgKey
  <2>3. MsgKey(d)' \in announced'[d] /\ Cleared(d)' /\ msg'[d] \in Message
    BY <1>1, <2>1, <2>2 DEF SameLocals, Cleared, Grows
  <2>4. /\ rec'[mine[d]] # None /\ rec'[mine[d]].conn \in {d, None}
        /\ rec'[mine[d]].hash = rec[mine[d]].hash /\ rec'[mine[d]].id = rec[mine[d]].id
    BY <2>1 DEF RecStays
  <2>5. KeyOf(mine[d])' = MsgKey(d)'
    BY <2>1, <2>2, <2>4 DEF KeyOf
  <2>6. closed'[d] <=> pc'[d] = "delete"
    BY <2>1, <1>1 DEF SameHandler
  <2> QED
    BY <2>1, <2>2, <2>3, <2>4, <2>5, <2>6 DEF Announcing
<1>5. Decoding(d)'
  <2>1. Decoding(d)
    BY DEF Handler
  <2> QED
    BY <2>1, <1>1 DEF Decoding, SameLocals, Cleared, KeyOf, RecStays
<1>6. Sending(d)'
  <2>1. Sending(d)
    BY DEF Handler
  <2> QED
    BY <2>1, <1>1 DEF Sending, SameLocals, KeyOf, RecStays, Grows
<1>7. Serving(d)'
  <2>1. Serving(d)
    BY DEF Handler
  <2> QED
    BY <2>1, <1>1 DEF Serving, SameLocals, RecStays
<1> QED
  BY <1>2, <1>3, <1>4, <1>5, <1>6, <1>7 DEF Handler

(* So a step of c's handler keeps all handlers when it keeps its own. *)
LEMMA HandlersBut ==
  ASSUME NEW c, LocalTypes, Handlers, RecStays, Grows, Others(c), c \in Conn => Handler(c)'
  PROVE  Handlers'
BY HandlerSame DEF Handlers, Others

(* A step that stores nothing. *)
LEMMA Unstored ==
  ASSUME StoreTypes, UNCHANGED rec
  PROVE  RecStays
BY DEF RecStays
LEMMA Unannounced ==
  ASSUME UNCHANGED announced
  PROVE  Grows
BY DEF Grows

LEMMA ListedSame ==
  ASSUME StoreTypes, Listed, RecStays,
         \A h \in InfoHash, i \in PeerID : peerMap'[h][i] \in {peerMap[h][i], None}
  PROVE  Listed'
BY DEF StoreTypes, Listed, RecStays

LEMMA OwnersSame ==
  ASSUME Types, Owners, RecStays, Grows, UNCHANGED callback,
         \A r \in Rec : rec[r] = None => rec'[r] = None,
         \A r \in Rec : task'[r] # "none" => task[r] # "none"
  PROVE  Owners'
<1>1. ASSUME NEW r \in Rec, rec'[r] # None, rec'[r].conn # None PROVE KeyOf(r)' \in announced'[rec'[r].conn]
  <2>1. /\ rec[r] # None /\ rec'[r].conn = rec[r].conn
        /\ rec'[r].hash = rec[r].hash /\ rec'[r].id = rec[r].id
    BY <1>1 DEF RecStays
  <2>2. KeyOf(r) \in announced[rec[r].conn] /\ rec[r].conn \in Conn
    BY <2>1, <1>1 DEF Owners, Types, StoreTypes, Record
  <2> QED
    BY <2>1, <2>2 DEF KeyOf, Grows
<1>2. ASSUME NEW c \in Conn, callback'[c] # None PROVE callback'[c] \in announced'[c]
  BY <1>2 DEF Owners, Grows
<1>3. ASSUME NEW r \in Rec, task'[r] # "none" PROVE rec'[r] # None
  BY <1>3 DEF Owners, RecStays
<1> QED
  BY <1>1, <1>2, <1>3 DEF Owners

-----------------------------------------------------------------------------
(* The steps handlers are made of: a write begins, a message is done with, *)
(* a handler goes on.                                                      *)

LEMMA SendStep ==
  ASSUME WsInv, RecStays, Grows, UNCHANGED closed, NEW c \in Conn, NEW d \in Conn,
         NEW what \in {"error", "reply"}, Send(c, d, what),
         UNCHANGED <<msg, mine, todo, sent, pick, target>>
  PROVE  LocalTypes' /\ Handlers'
<1>1. LocalTypes /\ Handler(c) /\ Handlers
  BY DEF WsInv, Types, Handlers
<1>2. /\ pc'[c] = "send" /\ to'[c] = d /\ phase'[c] = what
      /\ \A x \in Conn : x # c => pc'[x] = pc[x] /\ to'[x] = to[x] /\ phase'[x] = phase[x]
  BY <1>1 DEF Send, Goto, LocalTypes
<1>3. LocalTypes'
  BY <1>1 DEF LocalTypes, Send, Goto, Label
<1>4. Others(c)
  BY <1>2 DEF Others, SameHandler, SameLocals
<1>5. Picked(c)'
  BY <1>1 DEF Handler, Picked
<1>6. Todo(c)'
  BY <1>1 DEF Handler, Todo, RecStays, LocalTypes
<1>7. Handler(c)'
  BY <1>2, <1>5, <1>6 DEF Handler, Waiting, Announcing, Offering, Serving, Decoding, Sending
<1> QED
  BY <1>1, <1>3, <1>4, <1>7, HandlersBut

LEMMA ReturnStep ==
  ASSUME WsInv, RecStays, Grows, NEW c \in Conn, NEW l \in {"read", "close"}, Return(c, l),
         \A d \in Conn : d # c => (closed'[d] <=> closed[d])
  PROVE  LocalTypes' /\ Handlers'
<1>1. LocalTypes /\ Handlers
  BY DEF WsInv, Types
<1>2. /\ pc'[c] = l /\ msg'[c] = None /\ todo'[c] = {} /\ sent'[c] = 0 /\ pick'[c] = 0
      /\ \A x \in Conn : x # c => pc'[x] = pc[x] /\ SameLocals(x)
  BY <1>1 DEF Return, Goto, LocalTypes, SameLocals
<1>3. MaxAnnounces \in Nat
  BY WsAssumption
<1>4. LocalTypes'
  <2>1. pc' \in [Conn -> Label] /\ phase' \in [Conn -> {"none", "error", "reply", "offer", "answer"}]
    BY <1>1 DEF LocalTypes, Return, Goto, Label
  <2>2. msg' \in [Conn -> Message \cup {None}] /\ mine' \in [Conn -> Rec \cup {None}]
    BY <1>1 DEF LocalTypes, Return
  <2>3. todo' \in [Conn -> SUBSET Rec] /\ sent' \in [Conn -> 0..MaxAnnounces] /\ pick' \in [Conn -> Nat]
    BY <1>1, <1>3 DEF LocalTypes, Return
  <2>4. target' \in [Conn -> Rec \cup {None}] /\ to' \in [Conn -> Conn \cup {None}]
    BY <1>1 DEF LocalTypes, Return
  <2> QED
    BY <2>1, <2>2, <2>3, <2>4 DEF LocalTypes
<1>5. Others(c)
  BY <1>2 DEF Others, SameHandler
<1>6. Todo(c)'
  BY <1>2, <1>3, CardNone DEF Todo
<1>7. Handler(c)'
  BY <1>2, <1>6 DEF Handler, Waiting, Announcing, Offering, Serving, Decoding, Sending, Picked, Cleared
<1> QED
  BY <1>1, <1>4, <1>5, <1>7, HandlersBut

LEMMA GotoStep ==
  ASSUME WsInv, RecStays, Grows, NEW c \in Conn,
         \A d \in Conn : d # c => (closed'[d] <=> closed[d]),
         NEW l \in {"close", "closing", "end", "offers", "write"}, Goto(c, l), UNCHANGED locals,
         l = "offers" => msg[c] \in Message, l = "write" => pc[c] = "send",
         l \in {"close", "closing", "end"} => pc[c] \in {"read", "close", "closing"}
  PROVE  LocalTypes' /\ Handlers'
<1>1. LocalTypes /\ Handler(c) /\ Handlers
  BY DEF WsInv, Types, Handlers
<1>2. /\ pc'[c] = l /\ \A x \in Conn : x # c => pc'[x] = pc[x]
      /\ \A x \in Conn : SameLocals(x)
  BY <1>1 DEF Goto, LocalTypes, SameLocals, locals
<1>3. LocalTypes'
  BY <1>1 DEF LocalTypes, Goto, Label, locals
<1>4. Others(c)
  BY <1>2 DEF Others, SameHandler
<1>5. Picked(c)' /\ Todo(c)'
  BY <1>1, <1>2, PickedSame, TodoSame
<1>6. Sending(c)'
  <2>1. CASE l = "write"
    <3>1. Sending(c) /\ pc[c] = "send"
      BY <1>1, <2>1 DEF Handler
    <3> QED
      BY <3>1, <1>2 DEF Sending, SameLocals, KeyOf, RecStays, Grows
  <2>2. CASE l # "write"
    BY <2>2, <1>2 DEF Sending
  <2> QED
    BY <2>1, <2>2
<1>7. Waiting(c)'
  BY <1>1, <1>2 DEF Handler, Waiting, Cleared, SameLocals
<1>8. Handler(c)'
  BY <1>2, <1>5, <1>6, <1>7 DEF Handler, Announcing, Offering, Serving, Decoding, SameLocals
<1> QED
  BY <1>1, <1>3, <1>4, <1>8, HandlersBut

(* What a handler does when its write has returned, in whatever way. *)
LEMMA AfterWriteIs ==
  ASSUME WsInv, NEW c \in Conn, NEW ok \in BOOLEAN, AfterWrite(c, ok)
  PROVE  \/ Return(c, "close")
         \/ Send(c, c, "error") /\ UNCHANGED <<msg, mine, todo, sent, pick, target>> /\ phase[c] = "reply"
         \/ Goto(c, "offers") /\ UNCHANGED locals /\ phase[c] \in {"reply", "offer"} /\ todo[c] # {}
         \/ Return(c, "read")
<1>1. phase[c] \in {"none", "error", "reply", "offer", "answer"}
  BY DEF WsInv, Types, LocalTypes
<1>2. CASE phase[c] = "error"
  BY <1>2 DEF AfterWrite
<1>3. CASE phase[c] = "reply" /\ ~ok
  BY <1>3 DEF AfterWrite
<1>4. CASE phase[c] \in {"reply", "offer"} /\ (ok \/ phase[c] = "offer") /\ todo[c] # {} /\ msg[c].offers > 0
  BY <1>4 DEF AfterWrite
<1>5. CASE ~(\/ phase[c] = "error"
             \/ phase[c] = "reply" /\ ~ok
             \/ phase[c] \in {"reply", "offer"} /\ (ok \/ phase[c] = "offer") /\ todo[c] # {} /\ msg[c].offers > 0)
  BY <1>5 DEF AfterWrite
<1> QED
  BY <1>2, <1>3, <1>4, <1>5

LEMMA AfterWriteStep ==
  ASSUME WsInv, RecStays, Grows, UNCHANGED closed, NEW c \in Conn, NEW ok \in BOOLEAN, AfterWrite(c, ok)
  PROVE  LocalTypes' /\ Handlers'
<1>1. Todo(c)
  BY DEF WsInv, Handlers, Handler
<1>2. CASE Return(c, "close")
  BY <1>2, ReturnStep
<1>3. CASE Send(c, c, "error") /\ UNCHANGED <<msg, mine, todo, sent, pick, target>>
  BY <1>3, SendStep
<1>4. CASE Goto(c, "offers") /\ UNCHANGED locals /\ todo[c] # {}
  <2>1. msg[c] \in Message
    BY <1>1, <1>4 DEF Todo
  <2> QED
    BY <1>4, <2>1, GotoStep
<1>5. CASE Return(c, "read")
  BY <1>5, ReturnStep
<1> QED
  BY <1>2, <1>3, <1>4, <1>5, AfterWriteIs

-----------------------------------------------------------------------------
(* Every action keeps WsInv. *)

(* A step that leaves the store, the callbacks and the announced peers as  *)
(* they are.                                                               *)
LEMMA StoreSame ==
  ASSUME WsInv, UNCHANGED <<callback, store, announced, late>>
  PROVE  StoreTypes' /\ HistoryTypes' /\ Listed' /\ Owners' /\ RecStays /\ Grows
<1>1. Types /\ StoreTypes /\ HistoryTypes /\ Listed /\ Owners
  BY DEF WsInv, Types
<1>2. UNCHANGED <<callback, roots, peerMap, rec, task, announced, late>>
  BY DEF store
<1>3. StoreTypes' /\ HistoryTypes' /\ RecStays /\ Grows
  BY <1>1, <1>2, Unstored, Unannounced DEF StoreTypes, HistoryTypes
<1>4. Listed'
  BY <1>1, <1>2 DEF Listed
<1>5. Owners'
  BY <1>1, <1>2, <1>3, OwnersSame
<1> QED
  BY <1>3, <1>4, <1>5

LEMMA NetStep ==
  ASSUME WsInv, NEW c \in Conn, Leave(c) \/ Stall(c) \/ Resume(c)
  PROVE  WsInv'
<1>1. UNCHANGED <<closed, mutex, callback, store, pc, locals, announced, late>>
  BY DEF Leave, Stall, Resume, wrap, history
<1>2. StoreTypes' /\ HistoryTypes' /\ Listed' /\ Owners' /\ RecStays /\ Grows
  BY <1>1, StoreSame
<1>3. WrapTypes'
  BY <1>1 DEF WsInv, Types, WrapTypes, Leave, Stall, Resume
<1>4. LocalTypes'
  BY <1>1 DEF WsInv, Types, LocalTypes, locals
<1>5. \A d \in Conn : SameHandler(d)
  BY <1>1 DEF SameHandler, SameLocals, locals
<1>6. Handlers'
  BY <1>2, <1>5, HandlerSame DEF WsInv, Types, Handlers
<1> QED
  BY <1>2, <1>3, <1>4, <1>6 DEF WsInv, Types

LEMMA StutterStep ==
  ASSUME WsInv, UNCHANGED vars
  PROVE  WsInv'
<1>1. UNCHANGED <<gone, stalled, closed, mutex, callback, store, pc, locals, announced, late>>
  BY DEF vars, net, wrap, history
<1>2. StoreTypes' /\ HistoryTypes' /\ Listed' /\ Owners' /\ RecStays /\ Grows
  BY <1>1, StoreSame
<1>3. WrapTypes' /\ LocalTypes'
  BY <1>1 DEF WsInv, Types, WrapTypes, LocalTypes, locals
<1>4. \A d \in Conn : SameHandler(d)
  BY <1>1 DEF SameHandler, SameLocals, locals
<1>5. Handlers'
  BY <1>2, <1>4, HandlerSame DEF WsInv, Types, Handlers
<1> QED
  BY <1>2, <1>3, <1>5 DEF WsInv, Types

LEMMA ReplyStep ==
  ASSUME WsInv, NEW c \in Conn, NEW m \in Messages[c], Reject(c, m) \/ Scrape(c, m)
  PROVE  WsInv'
<1>1. /\ Send(c, c, "error") \/ Send(c, c, "reply")
      /\ UNCHANGED <<gone, stalled, closed, mutex, callback, store, announced, late>>
      /\ UNCHANGED <<msg, mine, todo, sent, pick, target>>
  BY DEF Reject, Scrape, net, wrap
<1>2. StoreTypes' /\ HistoryTypes' /\ Listed' /\ Owners' /\ RecStays /\ Grows
  BY <1>1, StoreSame
<1>3. WrapTypes'
  BY <1>1 DEF WsInv, Types, WrapTypes
<1>4. LocalTypes' /\ Handlers'
  BY <1>1, <1>2, SendStep
<1> QED
  BY <1>2, <1>3, <1>4 DEF WsInv, Types

(* What the accepted announce of message m changes. *)
LEMMA AnnounceIs ==
  ASSUME WsInv, NEW c \in Conn, NEW m \in Messages[c], NEW r \in Rec,
         rec[r] = None,
         rec' = [rec EXCEPT ![r] = [hash |-> m.hash, id |-> m.id, event |-> m.event, conn |-> c]]
  PROVE  /\ m \in Message /\ m.hash \in InfoHash /\ m.id \in PeerID
         /\ rec' \in [Rec -> Record \cup {None}]
         /\ rec'[r] # None /\ rec'[r].hash = m.hash /\ rec'[r].id = m.id /\ rec'[r].conn = c
         /\ \A s \in Rec : s # r => rec'[s] = rec[s]
         /\ RecStays
<1>1. m \in Message
  BY WsAssumption
<1>2. m.hash \in InfoHash /\ m.id \in PeerID /\ m.event \in Event
  BY <1>1 DEF Message
<1> DEFINE new == [hash |-> m.hash, id |-> m.id, event |-> m.event, conn |-> c]
<1>3. new \in Record
  BY <1>2 DEF Record
<1>4. new # None
  BY <1>3, WsAssumption
<1>5. rec \in [Rec -> Record \cup {None}]
  BY DEF WsInv, Types, StoreTypes
<1>6. rec'[r] = new /\ \A s \in Rec : s # r => rec'[s] = rec[s]
  BY <1>5
<1>7. rec' \in [Rec -> Record \cup {None}]
  BY <1>3, <1>5
<1>8. RecStays
  BY <1>6 DEF RecStays
<1> QED
  BY <1>1, <1>2, <1>4, <1>6, <1>7, <1>8

LEMMA AnnounceStep ==
  ASSUME WsInv, NEW c \in Conn, NEW m \in Messages[c], Announce(c, m)
  PROVE  WsInv'
<1> DEFINE k == <<m.hash, m.id>>
<1>1. PICK r \in Rec, way \in {"first", "stop", "range"} :
        /\ rec[r] = None
        /\ rec' = [rec EXCEPT ![r] = [hash |-> m.hash, id |-> m.id, event |-> m.event, conn |-> c]]
        /\ mine' = [mine EXCEPT ![c] = r]
        /\ task' = [task EXCEPT ![r] = IF way = "range" THEN "look" ELSE "none"]
        /\ Goto(c, way)
  BY DEF Announce
<1>2. /\ m \in Message /\ m.hash \in InfoHash /\ m.id \in PeerID
      /\ rec' \in [Rec -> Record \cup {None}]
      /\ rec'[r] # None /\ rec'[r].hash = m.hash /\ rec'[r].id = m.id /\ rec'[r].conn = c
      /\ \A s \in Rec : s # r => rec'[s] = rec[s]
      /\ RecStays
  BY <1>1, AnnounceIs
<1>3. Types /\ StoreTypes /\ WrapTypes /\ LocalTypes /\ HistoryTypes /\ Listed /\ Owners /\ Handlers
  BY DEF WsInv, Types
<1>4. k \in InfoHash \X PeerID
  BY <1>2
<1>5. /\ msg' = [msg EXCEPT ![c] = m] /\ roots' = roots \cup {m.hash}
      /\ callback' = [callback EXCEPT ![c] = k] /\ announced' = [announced EXCEPT ![c] = @ \cup {k}]
      /\ UNCHANGED <<gone, stalled, closed, mutex, peerMap, phase, todo, sent, pick, target, to, late>>
      /\ pc[c] = "read" /\ ~closed[c]
  BY DEF Announce, Reads, net
<1>6. WrapTypes'
  BY <1>3, <1>4, <1>5 DEF WrapTypes
<1>7. StoreTypes'
  BY <1>1, <1>2, <1>3, <1>5 DEF StoreTypes
<1>8. LocalTypes'
  <2>1. pc' \in [Conn -> Label] /\ msg' \in [Conn -> Message \cup {None}] /\ mine' \in [Conn -> Rec \cup {None}]
    BY <1>1, <1>2, <1>3, <1>5 DEF LocalTypes, Goto, Label
  <2> QED
    BY <2>1, <1>3, <1>5 DEF LocalTypes
<1>9. HistoryTypes' /\ Grows
  BY <1>3, <1>4, <1>5 DEF HistoryTypes, Grows
<1>10. Listed'
  BY <1>2, <1>3, <1>5, ListedSame DEF StoreTypes
<1>11. Owners'
  <2>1. \A d \in Conn : announced[d] \subseteq announced'[d]
    BY <1>9 DEF Grows
  <2>2. k \in announced'[c]
    BY <1>3, <1>5 DEF HistoryTypes
  <2>3. ASSUME NEW s \in Rec, rec'[s] # None, rec'[s].conn # None PROVE KeyOf(s)' \in announced'[rec'[s].conn]
    <3>1. CASE s = r
      BY <3>1, <1>2, <2>2 DEF KeyOf
    <3>2. CASE s # r
      <4>1. rec'[s] = rec[s] /\ rec[s].conn \in Conn
        BY <3>2, <1>2, <1>3, <2>3 DEF StoreTypes, Record
      <4>2. KeyOf(s) \in announced[rec[s].conn]
        BY <4>1, <2>3, <1>3 DEF Owners
      <4> QED
        BY <4>1, <4>2, <2>1 DEF KeyOf
    <3> QED
      BY <3>1, <3>2
  <2>4. ASSUME NEW d \in Conn, callback'[d] # None PROVE callback'[d] \in announced'[d]
    <3>1. CASE d = c
      BY <3>1, <1>3, <1>5, <2>2 DEF WrapTypes
    <3>2. CASE d # c
      BY <3>2, <1>3, <1>5, <2>1, <2>4 DEF WrapTypes, Owners
    <3> QED
      BY <3>1, <3>2
  <2>5. ASSUME NEW s \in Rec, task'[s] # "none" PROVE rec'[s] # None
    BY <2>5, <1>1, <1>2, <1>3 DEF Owners, StoreTypes
  <2> QED
    BY <2>3, <2>4, <2>5 DEF Owners
<1>12. Others(c)
  BY <1>1, <1>3, <1>5 DEF Others, SameHandler, SameLocals, Goto, LocalTypes
<1>13. Handler(c)'
  <2>1. pc'[c] = way /\ msg'[c] = m /\ mine'[c] = r /\ ~closed'[c]
    BY <1>1, <1>3, <1>5 DEF Goto, LocalTypes
  <2>2. todo'[c] = {} /\ sent'[c] = 0 /\ pick'[c] = 0
    BY <1>3, <1>5 DEF Handlers, Handler, Waiting, Cleared
  <2>3. k \in announced'[c]
    BY <1>3, <1>5 DEF HistoryTypes
  <2>4. Announcing(c)'
    BY <1>2, <2>1, <2>2, <2>3 DEF Announcing, MsgKey, KeyOf, Cleared
  <2>5. Todo(c)'
    BY <2>2, CardNone, WsAssumption DEF Todo
  <2> QED
    BY <2>1, <2>2, <2>4, <2>5 DEF Handler, Picked, Waiting, Offering, Serving, Decoding, Sending
<1>14. Handlers'
  BY <1>2, <1>3, <1>9, <1>12, <1>13, HandlersBut
<1> QED
  BY <1>6, <1>7, <1>8, <1>9, <1>10, <1>11, <1>14 DEF WsInv, Types

LEMMA StoreFirstStep ==
  ASSUME WsInv, NEW c \in Conn, StoreFirst(c)
  PROVE  WsInv'
<1>1. Types /\ StoreTypes /\ WrapTypes /\ LocalTypes /\ HistoryTypes /\ Listed /\ Owners /\ Handlers
  BY DEF WsInv, Types
<1>2. /\ Send(c, c, "reply") /\ pc[c] = "first"
      /\ UNCHANGED <<gone, stalled, closed, mutex, callback, roots, rec, task, announced, late>>
      /\ UNCHANGED <<msg, mine, todo, sent, pick, target>>
      /\ \/ UNCHANGED peerMap
         \/ Put(msg[c].hash, msg[c].id, mine[c])
  BY DEF StoreFirst, net, wrap, history
<1>3. /\ msg[c] \in Message /\ mine[c] \in Rec /\ rec[mine[c]] # None
      /\ rec[mine[c]].hash = msg[c].hash /\ rec[mine[c]].id = msg[c].id
  BY <1>1, <1>2 DEF Handlers, Handler, Announcing, KeyOf, MsgKey
<1>4. msg[c].hash \in InfoHash /\ msg[c].id \in PeerID
  BY <1>3 DEF Message
<1>5. RecStays /\ Grows
  BY <1>1, <1>2, Unstored, Unannounced
<1>6. StoreTypes' /\ Listed'
  <2>1. CASE UNCHANGED peerMap
    BY <2>1, <1>1, <1>2 DEF StoreTypes, Listed
  <2>2. CASE Put(msg[c].hash, msg[c].id, mine[c])
    <3>1. /\ peerMap' \in [InfoHash -> [PeerID -> Rec \cup {None}]]
          /\ peerMap'[msg[c].hash][msg[c].id] = mine[c]
          /\ \A g \in InfoHash, j \in PeerID :
               g # msg[c].hash \/ j # msg[c].id => peerMap'[g][j] = peerMap[g][j]
      BY <2>2, <1>1, <1>3, <1>4, PutCell
    <3> QED
      BY <3>1, <1>1, <1>2, <1>3 DEF StoreTypes, Listed
  <2> QED
    BY <2>1, <2>2, <1>2
<1>7. Owners'
  BY <1>1, <1>2, <1>5, OwnersSame
<1>8. WrapTypes' /\ HistoryTypes'
  BY <1>1, <1>2 DEF WrapTypes, HistoryTypes
<1>9. LocalTypes' /\ Handlers'
  BY <1>2, <1>5, SendStep
<1> QED
  BY <1>6, <1>7, <1>8, <1>9 DEF WsInv, Types

LEMMA DeleteStoppedStep ==
  ASSUME WsInv, NEW c \in Conn, DeleteStopped(c)
  PROVE  WsInv'
<1>1. Types /\ StoreTypes /\ WrapTypes /\ LocalTypes /\ HistoryTypes /\ Listed /\ Owners /\ Handlers
  BY DEF WsInv, Types
<1>2. /\ Send(c, c, "reply") /\ pc[c] = "delete"
      /\ UNCHANGED <<gone, stalled, closed, mutex, callback, roots, rec, task, announced, late>>
      /\ UNCHANGED <<msg, mine, todo, sent, pick, target>>
      /\ Put(msg[c].hash, msg[c].id, None)
  BY DEF DeleteStopped, net, wrap, history
<1>3. msg[c] \in Message
  BY <1>1, <1>2 DEF Handlers, Handler, Announcing
<1>4. msg[c].hash \in InfoHash /\ msg[c].id \in PeerID
  BY <1>3 DEF Message
<1>5. RecStays /\ Grows
  BY <1>1, <1>2, Unstored, Unannounced
<1>6. /\ peerMap' \in [InfoHash -> [PeerID -> Rec \cup {None}]]
      /\ \A g \in InfoHash, j \in PeerID : peerMap'[g][j] \in {peerMap[g][j], None}
  BY <1>1, <1>2, <1>4, PutCell
<1>7. StoreTypes' /\ Listed'
  BY <1>1, <1>2, <1>5, <1>6, ListedSame DEF StoreTypes
<1>8. Owners'
  BY <1>1, <1>2, <1>5, OwnersSame
<1>9. WrapTypes' /\ HistoryTypes'
  BY <1>1, <1>2 DEF WrapTypes, HistoryTypes
<1>10. LocalTypes' /\ Handlers'
  BY <1>2, <1>5, SendStep
<1> QED
  BY <1>7, <1>8, <1>9, <1>10 DEF WsInv, Types

(* The peers an announce is answered with. *)
LEMMA CandidatesAre ==
  ASSUME WsInv, NEW c \in Conn, msg[c] \in Message, NEW S \in SUBSET Candidates(msg[c])
  PROVE  /\ S \subseteq Rec
         /\ \A r \in S : rec[r] # None /\ rec[r].hash = msg[c].hash /\ rec[r].id # msg[c].id
         /\ \A r, q \in S : r # q => rec[r].id # rec[q].id
<1>1. msg[c].hash \in InfoHash
  BY DEF Message
<1>2. rec \in [Rec -> Record \cup {None}] /\ Listed
  BY DEF WsInv, Types, StoreTypes
<1>3. ASSUME NEW r \in S
      PROVE  /\ r \in Rec /\ rec[r] # None /\ rec[r].id # msg[c].id
             /\ peerMap[msg[c].hash][rec[r].id] = r /\ rec[r].id \in PeerID
  BY <1>2 DEF Candidates, At, Record
<1>4. ASSUME NEW r \in S PROVE rec[r].hash = msg[c].hash
  <2>1. r \in Rec /\ r # None
    BY <1>3, WsAssumption
  <2> QED
    BY <2>1, <1>1, <1>2, <1>3 DEF Listed
<1> QED
  BY <1>3, <1>4

LEMMA RangePeersStep ==
  ASSUME WsInv, NEW c \in Conn, RangePeers(c)
  PROVE  WsInv'
<1>1. LocalTypes /\ Handlers
  BY DEF WsInv, Types
<1>2. PICK S \in SUBSET Candidates(msg[c]) : todo' = [todo EXCEPT ![c] = S]
  BY DEF RangePeers
<1>3. /\ Send(c, c, "reply") /\ pc[c] = "range"
      /\ UNCHANGED <<gone, stalled, closed, mutex, callback, store, announced, late>>
      /\ UNCHANGED <<msg, mine, sent, pick, target>>
  BY DEF RangePeers, net, wrap, history
<1>4. msg[c] \in Message /\ sent[c] = 0 /\ pick[c] = 0
  BY <1>1, <1>3 DEF Handlers, Handler, Announcing, Cleared
<1>5. /\ S \subseteq Rec
      /\ \A r \in S : rec[r] # None /\ rec[r].hash = msg[c].hash /\ rec[r].id # msg[c].id
      /\ \A r, q \in S : r # q => rec[r].id # rec[q].id
  BY <1>4, CandidatesAre
<1>6. Cardinality(S) \in Nat /\ Cardinality(S) <= MaxAnnounces
  BY <1>5, CardRec
<1>7. StoreTypes' /\ HistoryTypes' /\ Listed' /\ Owners' /\ RecStays /\ Grows
  BY <1>3, StoreSame
<1>8. WrapTypes'
  BY <1>3 DEF WsInv, Types, WrapTypes
<1>9. /\ pc'[c] = "send" /\ to'[c] = c /\ phase'[c] = "reply" /\ todo'[c] = S
      /\ \A x \in Conn : x # c => /\ pc'[x] = pc[x] /\ to'[x] = to[x] /\ phase'[x] = phase[x]
                                  /\ todo'[x] = todo[x]
  BY <1>1, <1>2, <1>3 DEF Send, Goto, LocalTypes
<1>10. LocalTypes'
  BY <1>1, <1>2, <1>3, <1>5 DEF LocalTypes, Send, Goto, Label
<1>11. Others(c)
  BY <1>3, <1>9 DEF Others, SameHandler, SameLocals
<1>12. UNCHANGED rec
  BY <1>3 DEF store
<1>13. Todo(c)'
  BY <1>3, <1>4, <1>5, <1>6, <1>9, <1>12 DEF Todo
<1>14. Handler(c)'
  BY <1>3, <1>4, <1>9, <1>13 DEF Handler, Picked, Waiting, Announcing, Offering, Serving, Decoding, Sending
<1>15. Handlers'
  BY <1>1, <1>7, <1>11, <1>14, HandlersBut
<1> QED
  BY <1>7, <1>8, <1>10, <1>15 DEF WsInv, Types

(* The offer for the next peer is one the announce has. *)
LEMMA OfferIs ==
  ASSUME WsInv, NEW c \in Conn, pc[c] = "offers", NEW r \in todo[c], NEW n \in OfferFor(c)
  PROVE  /\ n \in Nat /\ n > 0 /\ n <= msg[c].offers /\ msg[c] \in Message
         /\ sent[c] + 1 \in 0..MaxAnnounces
         /\ (sent[c] + 1) + Cardinality(todo[c] \ {r}) = sent[c] + Cardinality(todo[c])
<1>1. todo[c] \in SUBSET Rec /\ sent[c] \in 0..MaxAnnounces /\ MaxAnnounces \in Nat
  BY WsAssumption DEF WsInv, Types, LocalTypes
<1>2. msg[c] \in Message /\ Todo(c)
  BY DEF WsInv, Handlers, Handler, Offering
<1>3. msg[c].offers \in Nat
  BY <1>2 DEF Message
<1>4. /\ Cardinality(todo[c]) \in Nat /\ Cardinality(todo[c]) >= 1
      /\ Cardinality(todo[c] \ {r}) = Cardinality(todo[c]) - 1
  BY <1>1, CardRec
<1>5. sent[c] + Cardinality(todo[c]) <= MaxAnnounces
  BY <1>2 DEF Todo
<1>6. n \in Nat /\ n > 0 /\ n <= msg[c].offers
  BY <1>1, <1>3, <1>4 DEF OfferFor, Even
<1> QED
  BY <1>1, <1>2, <1>4, <1>5, <1>6

LEMMA NextOfferStep ==
  ASSUME WsInv, NEW c \in Conn, NextOffer(c)
  PROVE  WsInv'
<1>1. LocalTypes /\ Handlers /\ Handler(c) /\ Owners /\ StoreTypes
  BY DEF WsInv, Types, Handlers
<1>2. UNCHANGED <<gone, stalled, closed, mutex, callback, store, announced, late>> /\ pc[c] = "offers"
  BY DEF NextOffer, net, wrap, history
<1>3. StoreTypes' /\ HistoryTypes' /\ Listed' /\ Owners' /\ RecStays /\ Grows /\ WrapTypes'
  BY <1>2, StoreSame DEF WsInv, Types, WrapTypes
<1>4. UNCHANGED <<rec, announced>>
  BY <1>2 DEF store
<1>5. CASE Return(c, "read")
  BY <1>2, <1>3, <1>5, ReturnStep DEF WsInv, Types
<1>6. CASE ~Return(c, "read")
  <2>1. PICK r \in todo[c], n \in OfferFor(c) :
          /\ IF rec[r].conn = None THEN UNCHANGED pc ELSE Goto(c, "offer")
          /\ target' = [target EXCEPT ![c] = r]
          /\ pick' = [pick EXCEPT ![c] = n]
          /\ todo' = [todo EXCEPT ![c] = @ \ {r}]
          /\ sent' = [sent EXCEPT ![c] = @ + 1]
          /\ UNCHANGED <<phase, msg, mine, to>>
    BY <1>6 DEF NextOffer
  <2>2. /\ n \in Nat /\ n > 0 /\ n <= msg[c].offers /\ msg[c] \in Message
        /\ sent[c] + 1 \in 0..MaxAnnounces
        /\ (sent[c] + 1) + Cardinality(todo[c] \ {r}) = sent[c] + Cardinality(todo[c])
    BY <1>2, OfferIs
  <2>3. /\ r \in Rec /\ rec[r] # None /\ rec[r].hash = msg[c].hash /\ rec[r].id # msg[c].id
        /\ sent[c] + Cardinality(todo[c]) <= MaxAnnounces /\ Todo(c)
    BY <1>1 DEF LocalTypes, Handler, Todo
  <2>4. /\ target'[c] = r /\ pick'[c] = n /\ todo'[c] = todo[c] \ {r} /\ sent'[c] = sent[c] + 1
        /\ msg'[c] = msg[c]
        /\ \A x \in Conn : x # c => /\ target'[x] = target[x] /\ pick'[x] = pick[x] /\ todo'[x] = todo[x]
                                    /\ sent'[x] = sent[x]
    BY <1>1, <2>1 DEF LocalTypes
  <2>5. /\ target' \in [Conn -> Rec \cup {None}] /\ pick' \in [Conn -> Nat]
        /\ todo' \in [Conn -> SUBSET Rec] /\ sent' \in [Conn -> 0..MaxAnnounces]
    BY <1>1, <2>1, <2>2, <2>3 DEF LocalTypes
  <2>6. Todo(c)'
    BY <1>4, <2>2, <2>3, <2>4 DEF Todo
  <2>7. Picked(c)'
    BY <2>2, <2>4, WsAssumption DEF Picked
  <2>8. CASE rec[r].conn = None
    <3>1. UNCHANGED pc
      BY <2>1, <2>8
    <3>2. LocalTypes'
      BY <1>1, <2>1, <2>5, <3>1 DEF LocalTypes
    <3>3. Others(c)
      BY <1>2, <2>1, <2>4, <3>1 DEF Others, SameHandler, SameLocals
    <3>4. Handler(c)'
      BY <1>2, <2>2, <2>4, <2>6, <2>7, <3>1 DEF Handler, Waiting, Announcing, Offering, Serving, Decoding, Sending
    <3> QED
      BY <1>1, <1>3, <3>2, <3>3, <3>4, HandlersBut DEF WsInv, Types
  <2>9. CASE rec[r].conn # None
    <3>1. Goto(c, "offer")
      BY <2>1, <2>9
    <3>2. pc'[c] = "offer" /\ \A x \in Conn : x # c => pc'[x] = pc[x]
      BY <1>1, <3>1 DEF Goto, LocalTypes
    <3>3. LocalTypes'
      BY <1>1, <2>1, <2>5, <3>1 DEF LocalTypes, Goto, Label
    <3>4. Others(c)
      BY <1>2, <2>1, <2>4, <3>2 DEF Others, SameHandler, SameLocals
    <3>5. Serving(c)'
      BY <1>4, <2>2, <2>3, <2>4 DEF Serving
    <3>6. Handler(c)'
      BY <2>6, <2>7, <3>2, <3>5 DEF Handler, Waiting, Announcing, Offering, Decoding, Sending
    <3> QED
      BY <1>1, <1>3, <3>3, <3>4, <3>6, HandlersBut DEF WsInv, Types
  <2> QED
    BY <2>8, <2>9
<1> QED
  BY <1>5, <1>6

(* A write to the connection that a record has now. *)
LEMMA SendTo ==
  ASSUME WsInv, NEW c \in Conn, NEW what \in {"offer", "answer"}, msg[c] \in Message,
         target[c] \in Rec, rec[target[c]] # None, rec[target[c]].conn # None,
         what = "offer" => rec[target[c]].hash = msg[c].hash /\ rec[target[c]].id # msg[c].id,
         what = "answer" => KeyOf(target[c]) = <<msg[c].hash, msg[c].to>>,
         Send(c, rec[target[c]].conn, what), UNCHANGED <<msg, mine, todo, sent, pick, target>>,
         UNCHANGED <<closed, rec, announced>>
  PROVE  LocalTypes' /\ Handlers'
<1>1. LocalTypes /\ Handlers /\ Handler(c) /\ StoreTypes /\ Owners
  BY DEF WsInv, Types, Handlers
<1>2. RecStays /\ Grows
  BY <1>1, Unstored, Unannounced
<1>3. PICK t \in Rec : t = target[c]
  OBVIOUS
<1>4. rec[t].conn \in Conn
  BY <1>1, <1>3 DEF StoreTypes, Record
<1>5. KeyOf(t) \in announced[rec[t].conn]
  BY <1>1, <1>3 DEF Owners
<1>6. /\ pc'[c] = "send" /\ to'[c] = rec[t].conn /\ phase'[c] = what /\ target'[c] = t
      /\ msg'[c] = msg[c]
      /\ \A x \in Conn : x # c => pc'[x] = pc[x] /\ to'[x] = to[x] /\ phase'[x] = phase[x]
  BY <1>1, <1>3 DEF LocalTypes, Send, Goto
<1>7. LocalTypes'
  BY <1>1, <1>3, <1>4 DEF LocalTypes, Send, Goto, Label
<1>8. Others(c)
  BY <1>6 DEF Others, SameHandler, SameLocals
<1>9. Sending(c)'
  BY <1>3, <1>4, <1>5, <1>6 DEF Sending, KeyOf
<1>10. Picked(c)'
  BY <1>1 DEF Handler, Picked
<1>11. Todo(c)'
  BY <1>1 DEF Handler, Todo
<1>12. Handler(c)'
  BY <1>6, <1>9, <1>10, <1>11 DEF Handler, Waiting, Announcing, Offering, Serving, Decoding
<1> QED
  BY <1>1, <1>2, <1>7, <1>8, <1>12, HandlersBut

LEMMA SendOfferStep ==
  ASSUME WsInv, NEW c \in Conn, SendOffer(c)
  PROVE  WsInv'
<1>1. /\ pc[c] = "offer"
      /\ UNCHANGED <<gone, stalled, closed, mutex, callback, store, announced, late>>
  BY DEF SendOffer, net, wrap, history
<1>2. StoreTypes' /\ HistoryTypes' /\ Listed' /\ Owners' /\ RecStays /\ Grows /\ WrapTypes'
  BY <1>1, StoreSame DEF WsInv, Types, WrapTypes
<1>3. CASE rec[target[c]].conn = None
  <2>1. Return(c, "close")
    BY <1>3 DEF SendOffer
  <2> QED
    BY <2>1, <1>1, <1>2, ReturnStep DEF WsInv, Types
<1>4. CASE rec[target[c]].conn # None
  <2>1. Send(c, rec[target[c]].conn, "offer") /\ UNCHANGED <<msg, mine, todo, sent, pick, target>>
    BY <1>4 DEF SendOffer
  <2>2. Serving(c)
    BY DEF WsInv, Handlers, Handler
  <2>3. LocalTypes' /\ Handlers'
    BY <1>1, <1>4, <2>1, <2>2, SendTo DEF Serving, store
  <2> QED
    BY <1>2, <2>3 DEF WsInv, Types
<1> QED
  BY <1>3, <1>4

LEMMA AnswerStep ==
  ASSUME WsInv, NEW c \in Conn, NEW m \in Messages[c], Answer(c, m)
  PROVE  WsInv'
<1>1. LocalTypes /\ Handlers /\ Handler(c) /\ StoreTypes /\ Listed
  BY DEF WsInv, Types, Handlers
<1>2. /\ pc[c] = "read" /\ Goto(c, "decode")
      /\ UNCHANGED <<gone, stalled, closed, mutex, callback, store, announced, late>>
      /\ UNCHANGED <<phase, mine, todo, sent, pick, to>>
      /\ msg' = [msg EXCEPT ![c] = m] /\ target' = [target EXCEPT ![c] = peerMap[m.hash][m.to]]
      /\ peerMap[m.hash][m.to] # None
  BY DEF Answer, Reads, At, net, wrap
<1>3. m \in Message
  BY WsAssumption
<1>4. m.hash \in InfoHash /\ m.to \in PeerID
  BY <1>3 DEF Message
<1>5. PICK t \in Rec : t = peerMap[m.hash][m.to]
  BY <1>1, <1>2, <1>4 DEF StoreTypes
<1>6. rec[t] # None /\ rec[t].hash = m.hash /\ rec[t].id = m.to
  BY <1>1, <1>2, <1>4, <1>5 DEF Listed
<1>7. StoreTypes' /\ HistoryTypes' /\ Listed' /\ Owners' /\ RecStays /\ Grows /\ WrapTypes'
  BY <1>2, StoreSame DEF WsInv, Types, WrapTypes
<1>8. UNCHANGED rec
  BY <1>2 DEF store
<1>9. /\ pc'[c] = "decode" /\ msg'[c] = m /\ target'[c] = t
      /\ \A x \in Conn : x # c => pc'[x] = pc[x] /\ msg'[x] = msg[x] /\ target'[x] = target[x]
  BY <1>1, <1>2, <1>5 DEF LocalTypes, Goto
<1>10. LocalTypes'
  BY <1>1, <1>2, <1>3, <1>5 DEF LocalTypes, Goto, Label
<1>11. Others(c)
  BY <1>2, <1>9 DEF Others, SameHandler, SameLocals
<1>12. todo'[c] = {} /\ sent'[c] = 0 /\ pick'[c] = 0
  BY <1>1, <1>2 DEF Handler, Waiting, Cleared
<1>13. Decoding(c)'
  BY <1>3, <1>6, <1>8, <1>9, <1>12 DEF Decoding, Cleared, KeyOf
<1>14. Todo(c)'
  BY <1>12, CardNone, WsAssumption DEF Todo
<1>15. Handler(c)'
  BY <1>9, <1>12, <1>13, <1>14 DEF Handler, Picked, Waiting, Announcing, Offering, Serving, Sending
<1> QED
  BY <1>1, <1>7, <1>10, <1>11, <1>15, HandlersBut DEF WsInv, Types

LEMMA DecodedStep ==
  ASSUME WsInv, NEW c \in Conn, Decoded(c)
  PROVE  WsInv'
<1>1. /\ pc[c] = "decode"
      /\ UNCHANGED <<gone, stalled, closed, mutex, callback, store, announced, late>>
  BY DEF Decoded, net, wrap, history
<1>2. StoreTypes' /\ HistoryTypes' /\ Listed' /\ Owners' /\ RecStays /\ Grows /\ WrapTypes'
  BY <1>1, StoreSame DEF WsInv, Types, WrapTypes
<1>3. CASE rec[target[c]].conn = None
  <2>1. Return(c, "close")
    BY <1>3 DEF Decoded
  <2> QED
    BY <2>1, <1>1, <1>2, ReturnStep DEF WsInv, Types
<1>4. CASE rec[target[c]].conn # None
  <2>1. Send(c, rec[target[c]].conn, "answer") /\ UNCHANGED <<msg, mine, todo, sent, pick, target>>
    BY <1>4 DEF Decoded
  <2>2. Decoding(c)
    BY DEF WsInv, Handlers, Handler
  <2>3. LocalTypes' /\ Handlers'
    BY <1>1, <1>4, <2>1, <2>2, SendTo DEF Decoding, store
  <2> QED
    BY <1>2, <2>3 DEF WsInv, Types
<1> QED
  BY <1>3, <1>4

LEMMA LockStep ==
  ASSUME WsInv, NEW c \in Conn, Lock(c)
  PROVE  WsInv'
<1>1. /\ pc[c] = "send" /\ Goto(c, "write") /\ UNCHANGED locals
      /\ UNCHANGED <<gone, stalled, closed, callback, store, announced, late>>
  BY DEF Lock, net, history
<1>2. StoreTypes' /\ HistoryTypes' /\ Listed' /\ Owners' /\ RecStays /\ Grows
  BY <1>1, StoreSame
<1>3. WrapTypes'
  BY <1>1 DEF WsInv, Types, WrapTypes, Lock
<1> QED
  BY <1>1, <1>2, <1>3, GotoStep DEF WsInv, Types

LEMMA WriteStep ==
  ASSUME WsInv, NEW c \in Conn, WriteClosed(c) \/ Write(c)
  PROVE  WsInv'
<1>1. /\ AfterWrite(c, TRUE)
      /\ UNCHANGED <<gone, stalled, closed, callback, store, announced, late>>
  BY DEF WriteClosed, Write, net, wrap, history
<1>2. StoreTypes' /\ HistoryTypes' /\ Listed' /\ Owners' /\ RecStays /\ Grows
  BY <1>1, StoreSame
<1>3. WrapTypes'
  BY <1>1 DEF WsInv, Types, WrapTypes, WriteClosed, Write, wrap
<1>4. LocalTypes' /\ Handlers'
  BY <1>1, <1>2, AfterWriteStep
<1> QED
  BY <1>2, <1>3, <1>4 DEF WsInv, Types

(* The failed write of an answer may take the connection of its record. *)
LEMMA WriteFailsIs ==
  ASSUME WsInv, NEW c \in Conn, WriteFails(c)
  PROVE  /\ \E ok \in BOOLEAN : AfterWrite(c, ok)
         /\ to[c] \in Conn /\ gone[to[c]] /\ pc[c] = "write"
         /\ \/ UNCHANGED rec
            \/ /\ target[c] \in Rec /\ rec[target[c]] # None /\ KeyOf(target[c]) \in announced[to[c]]
               /\ rec' = [rec EXCEPT ![target[c]].conn = None]
<1>1. PICK err \in {"nil", "close", "other"} :
        /\ AfterWrite(c, err = "nil")
        /\ rec' = IF phase[c] = "answer" /\ err = "close" THEN [rec EXCEPT ![target[c]].conn = None] ELSE rec
  BY DEF WriteFails
<1>2. pc[c] = "write" /\ gone[to[c]] /\ Sending(c)
  BY DEF WriteFails, WsInv, Handlers, Handler
<1>3. (err = "nil") \in BOOLEAN
  OBVIOUS
<1> QED
  BY <1>1, <1>2, <1>3 DEF Sending

LEMMA WriteFailsStep ==
  ASSUME WsInv, NEW c \in Conn, WriteFails(c)
  PROVE  WsInv'
<1>1. Types /\ StoreTypes /\ WrapTypes /\ HistoryTypes /\ Listed /\ Owners
  BY DEF WsInv, Types
<1>2. UNCHANGED <<gone, stalled, closed, callback, roots, peerMap, task, announced, late>>
  BY DEF WriteFails, net, history
<1>3. PICK ok \in BOOLEAN : AfterWrite(c, ok)
  BY WriteFailsIs
<1>4. /\ rec' \in [Rec -> Record \cup {None}] /\ RecStays
      /\ \A r \in Rec : rec[r] = None => rec'[r] = None
  <2>1. CASE UNCHANGED rec
    BY <2>1, <1>1, Unstored DEF StoreTypes
  <2>2. CASE target[c] \in Rec /\ rec[target[c]] # None /\ rec' = [rec EXCEPT ![target[c]].conn = None]
    BY <2>2, <1>1, ConnTaken
  <2> QED
    BY <2>1, <2>2, WriteFailsIs
<1>5. Grows
  BY <1>2, Unannounced
<1>6. StoreTypes' /\ HistoryTypes'
  BY <1>1, <1>2, <1>4 DEF StoreTypes, HistoryTypes
<1>7. Listed'
  BY <1>1, <1>2, <1>4, ListedSame
<1>8. Owners'
  BY <1>1, <1>2, <1>4, <1>5, OwnersSame
<1>9. WrapTypes'
  BY <1>1, <1>2 DEF WrapTypes, WriteFails
<1>10. LocalTypes' /\ Handlers'
  BY <1>2, <1>3, <1>4, <1>5, AfterWriteStep
<1> QED
  BY <1>6, <1>7, <1>8, <1>9, <1>10 DEF WsInv, Types

LEMMA ReadFailsStep ==
  ASSUME WsInv, NEW c \in Conn, ReadFails(c)
  PROVE  WsInv'
<1>1. /\ pc[c] = "read" /\ Goto(c, "close") /\ UNCHANGED locals
      /\ UNCHANGED <<gone, stalled, closed, mutex, callback, store, announced, late>>
  BY DEF ReadFails, net, wrap, history
<1>2. StoreTypes' /\ HistoryTypes' /\ Listed' /\ Owners' /\ RecStays /\ Grows /\ WrapTypes'
  BY <1>1, StoreSame DEF WsInv, Types, WrapTypes
<1> QED
  BY <1>1, <1>2, GotoStep DEF WsInv, Types

(* What the callback of a connection takes away. *)
LEMMA UnlinkIs ==
  ASSUME WsInv, NEW c \in Conn, Unlink(callback[c])
  PROVE  /\ rec' \in [Rec -> Record \cup {None}] /\ RecStays
         /\ \A r \in Rec : rec'[r] = rec[r] \/ (rec[r] # None /\ callback[c] # None /\ KeyOf(r) = callback[c])
         /\ peerMap' \in [InfoHash -> [PeerID -> Rec \cup {None}]]
         /\ \A h \in InfoHash, i \in PeerID :
              /\ callback[c] = <<h, i>> => peerMap'[h][i] = None
              /\ callback[c] # <<h, i>> => peerMap'[h][i] = peerMap[h][i]
<1>1. StoreTypes /\ Listed /\ WrapTypes
  BY DEF WsInv, Types
<1>2. callback[c] \in (InfoHash \X PeerID) \cup {None}
  BY <1>1 DEF WrapTypes
<1>3. ASSUME NEW h \in InfoHash, NEW i \in PeerID PROVE <<h, i>> # None
  BY WsAssumption
<1>4. CASE callback[c] = None
  <2>1. UNCHANGED <<peerMap, rec>>
    BY <1>4 DEF Unlink
  <2>2. rec' = rec /\ peerMap' = peerMap /\ RecStays
    BY <1>1, <2>1, Unstored
  <2> QED
    BY <1>1, <1>3, <1>4, <2>2 DEF StoreTypes
<1>5. CASE callback[c] # None
  <2>1. PICK h \in InfoHash, i \in PeerID : callback[c] = <<h, i>>
    BY <1>2, <1>5
  <2>2. CASE peerMap[h][i] = None
    <3>1. UNCHANGED <<peerMap, rec>>
      BY <2>1, <2>2 DEF Unlink, At
    <3>2. rec' = rec /\ peerMap' = peerMap /\ RecStays
      BY <1>1, <3>1, Unstored
    <3>3. ASSUME NEW g \in InfoHash, NEW j \in PeerID, callback[c] = <<g, j>> PROVE peerMap'[g][j] = None
      BY <2>1, <2>2, <3>2, <3>3
    <3> QED
      BY <1>1, <3>2, <3>3 DEF StoreTypes
  <2>3. CASE peerMap[h][i] # None
    <3>1. PICK t \in Rec : t = peerMap[h][i]
      BY <1>1, <2>3 DEF StoreTypes
    <3>2. rec[t] # None /\ rec[t].hash = h /\ rec[t].id = i
      BY <1>1, <2>3, <3>1 DEF Listed
    <3>3. rec' = [rec EXCEPT ![t].conn = None] /\ Put(h, i, None)
      BY <1>5, <2>1, <2>3, <3>1 DEF Unlink, At
    <3>4. /\ rec' \in [Rec -> Record \cup {None}] /\ RecStays
          /\ \A r \in Rec : r # t => rec'[r] = rec[r]
      BY <1>1, <3>2, <3>3, ConnTaken
    <3>5. KeyOf(t) = callback[c]
      BY <2>1, <3>2 DEF KeyOf
    <3>6. /\ peerMap' \in [InfoHash -> [PeerID -> Rec \cup {None}]]
          /\ peerMap'[h][i] = None
          /\ \A g \in InfoHash, j \in PeerID : g # h \/ j # i => peerMap'[g][j] = peerMap[g][j]
      BY <1>1, <3>3, PutCell
    <3>7. ASSUME NEW r \in Rec
          PROVE  rec'[r] = rec[r] \/ (rec[r] # None /\ callback[c] # None /\ KeyOf(r) = callback[c])
      BY <1>5, <3>2, <3>4, <3>5
    <3>8. ASSUME NEW g \in InfoHash, NEW j \in PeerID
          PROVE  /\ callback[c] = <<g, j>> => peerMap'[g][j] = None
                 /\ callback[c] # <<g, j>> => peerMap'[g][j] = peerMap[g][j]
      BY <2>1, <3>6
    <3> QED
      BY <3>4, <3>6, <3>7, <3>8
  <2> QED
    BY <2>2, <2>3
<1> QED
  BY <1>4, <1>5

(* A handler that stops its peer goes on to the next step of the stop. *)
LEMMA StopStep ==
  ASSUME WsInv, RecStays, Grows, NEW c \in Conn,
         \A d \in Conn : d # c => (closed'[d] <=> closed[d]),
         NEW l \in {"stopping", "delete"}, Goto(c, l), UNCHANGED locals, UNCHANGED announced,
         pc[c] \in {"stop", "stopping"}, closed'[c] <=> l = "delete"
  PROVE  LocalTypes' /\ Handlers'
<1>1. LocalTypes /\ Handlers /\ Handler(c) /\ Announcing(c)
  BY DEF WsInv, Types, Handlers, Handler
<1>2. /\ pc'[c] = l /\ \A x \in Conn : x # c => pc'[x] = pc[x]
      /\ \A x \in Conn : SameLocals(x)
  BY <1>1 DEF Goto, LocalTypes, SameLocals, locals
<1>3. LocalTypes'
  BY <1>1 DEF LocalTypes, Goto, Label, locals
<1>4. Others(c)
  BY <1>2 DEF Others, SameHandler
<1>5. Picked(c)' /\ Todo(c)'
  BY <1>1, <1>2, PickedSame, TodoSame
<1>6. Announcing(c)'
  BY <1>1, <1>2 DEF Announcing, SameLocals, MsgKey, KeyOf, Cleared, RecStays
<1>7. Handler(c)'
  BY <1>2, <1>5, <1>6 DEF Handler, Waiting, Offering, Serving, Decoding, Sending
<1> QED
  BY <1>1, <1>3, <1>4, <1>7, HandlersBut

LEMMA CallbackStep ==
  ASSUME WsInv, NEW c \in Conn, Callback(c)
  PROVE  WsInv'
<1>1. Types /\ StoreTypes /\ WrapTypes /\ LocalTypes /\ HistoryTypes /\ Listed /\ Owners /\ Handlers
  BY DEF WsInv, Types
<1>2. /\ UNCHANGED <<gone, stalled, closed, callback, roots, task, announced, late>> /\ UNCHANGED locals
      /\ Unlink(callback[c]) /\ ~closed[c] /\ pc[c] \in {"close", "stop"}
      /\ Goto(c, IF pc[c] = "stop" THEN "stopping" ELSE "closing")
  BY DEF Callback, net, history
<1>3. /\ rec' \in [Rec -> Record \cup {None}] /\ RecStays
      /\ \A r \in Rec : rec[r] = None => rec'[r] = None
      /\ peerMap' \in [InfoHash -> [PeerID -> Rec \cup {None}]]
      /\ \A h \in InfoHash, i \in PeerID : peerMap'[h][i] \in {peerMap[h][i], None}
  BY <1>2, UnlinkIs
<1>4. Grows
  BY <1>2, Unannounced
<1>5. StoreTypes' /\ HistoryTypes' /\ WrapTypes'
  BY <1>1, <1>2, <1>3 DEF StoreTypes, HistoryTypes, WrapTypes, Callback
<1>6. Listed'
  BY <1>1, <1>3, ListedSame
<1>7. Owners'
  BY <1>1, <1>2, <1>3, <1>4, OwnersSame
<1>8. LocalTypes' /\ Handlers'
  <2>1. CASE pc[c] = "stop"
    BY <1>2, <1>3, <1>4, <2>1, StopStep
  <2>2. CASE pc[c] = "close"
    BY <1>2, <1>3, <1>4, <2>2, GotoStep
  <2> QED
    BY <1>2, <2>1, <2>2
<1> QED
  BY <1>5, <1>6, <1>7, <1>8 DEF WsInv, Types

LEMMA CloseStep ==
  ASSUME WsInv, NEW c \in Conn, Close(c) \/ CloseAgain(c)
  PROVE  WsInv'
<1>1. WrapTypes
  BY DEF WsInv, Types
<1>2. UNCHANGED <<gone, stalled, callback, store, announced, late>> /\ UNCHANGED locals
  BY DEF Close, CloseAgain, net, wrap, history
<1>3. StoreTypes' /\ HistoryTypes' /\ Listed' /\ Owners' /\ RecStays /\ Grows
  BY <1>2, StoreSame
<1>4. WrapTypes' /\ \A d \in Conn : d # c => (closed'[d] <=> closed[d])
  BY <1>1, <1>2 DEF WrapTypes, Close, CloseAgain, wrap
<1>5. CASE pc[c] = "stopping" /\ Close(c)
  <2>1. Goto(c, "delete") /\ closed'[c]
    BY <1>1, <1>5 DEF Close, WrapTypes
  <2> QED
    BY <1>2, <1>3, <1>4, <1>5, <2>1, StopStep DEF WsInv, Types
<1>6. CASE ~(pc[c] = "stopping" /\ Close(c))
  <2>1. Goto(c, "end") /\ pc[c] \in {"close", "closing"}
    BY <1>6 DEF Close, CloseAgain
  <2> QED
    BY <1>2, <1>3, <1>4, <2>1, GotoStep DEF WsInv, Types
<1> QED
  BY <1>5, <1>6

(* A task finds its peer listed, and only brings the event of the record   *)
(* up to date, or it does not, and goes on to store its own record.        *)
LEMMA TaskLookIs ==
  ASSUME WsInv, NEW r \in Rec, TaskLook(r)
  PROVE  /\ rec[r] # None /\ rec[r].hash \in InfoHash /\ rec[r].id \in PeerID
         /\ rec' \in [Rec -> Record \cup {None}] /\ RecStays
         /\ \A s \in Rec : rec[s] = None => rec'[s] = None
         /\ \A s \in Rec : rec[s] # None => rec'[s].conn = rec[s].conn
         /\ task' \in [Rec -> {"none", "look", "store"}]
         /\ \A s \in Rec : s # r => task'[s] = task[s]
         /\ peerMap[rec[r].hash][rec[r].id] = None => task'[r] = "store"
<1>1. StoreTypes /\ Listed /\ Owners /\ task[r] = "look"
  BY DEF WsInv, Types, TaskLook
<1>2. rec[r] \in Record /\ rec[r] # None
  BY <1>1 DEF Owners, StoreTypes
<1>3. rec[r].hash \in InfoHash /\ rec[r].id \in PeerID /\ rec[r].event \in Event
  BY <1>2 DEF Record
<1>4. CASE peerMap[rec[r].hash][rec[r].id] # None
  <2>1. PICK t \in Rec : t = peerMap[rec[r].hash][rec[r].id]
    BY <1>1, <1>3, <1>4 DEF StoreTypes
  <2>2. rec[t] # None
    BY <1>1, <1>3, <1>4, <2>1 DEF Listed
  <2>3. rec' = [rec EXCEPT ![t].event = rec[r].event] /\ task' = [task EXCEPT ![r] = "none"]
    BY <1>4, <2>1 DEF TaskLook, At
  <2>4. /\ rec' \in [Rec -> Record \cup {None}] /\ RecStays
        /\ rec'[t] # None /\ rec'[t].conn = rec[t].conn
        /\ \A s \in Rec : s # t => rec'[s] = rec[s]
    BY <1>1, <1>3, <2>2, <2>3, EventSet
  <2>5. \A s \in Rec : rec[s] # None => rec'[s].conn = rec[s].conn
    BY <2>4
  <2>6. \A s \in Rec : rec[s] = None => rec'[s] = None
    BY <2>2, <2>4
  <2>7. task' \in [Rec -> {"none", "look", "store"}] /\ \A s \in Rec : s # r => task'[s] = task[s]
    BY <1>1, <2>3 DEF StoreTypes
  <2> QED
    BY <1>2, <1>3, <1>4, <2>4, <2>5, <2>6, <2>7
<1>5. CASE peerMap[rec[r].hash][rec[r].id] = None
  <2>1. UNCHANGED rec /\ task' = [task EXCEPT ![r] = "store"]
    BY <1>5 DEF TaskLook, At
  <2>2. /\ task' \in [Rec -> {"none", "look", "store"}] /\ \A s \in Rec : s # r => task'[s] = task[s]
        /\ task'[r] = "store"
    BY <1>1, <2>1 DEF StoreTypes
  <2> QED
    BY <1>1, <1>2, <1>3, <2>1, <2>2, Unstored DEF StoreTypes
<1> QED
  BY <1>4, <1>5

LEMMA TaskLookStep ==
  ASSUME WsInv, NEW r \in Rec, TaskLook(r)
  PROVE  WsInv'
<1>1. Types /\ StoreTypes /\ WrapTypes /\ LocalTypes /\ HistoryTypes /\ Listed /\ Owners /\ Handlers
  BY DEF WsInv, Types
<1>2. /\ UNCHANGED <<gone, stalled, closed, mutex, callback, roots, peerMap, pc, locals, announced, late>>
      /\ task[r] = "look"
  BY DEF TaskLook, net, wrap, history
<1>3. /\ rec' \in [Rec -> Record \cup {None}] /\ RecStays
      /\ \A s \in Rec : rec[s] = None => rec'[s] = None
      /\ task' \in [Rec -> {"none", "look", "store"}]
      /\ \A s \in Rec : task'[s] # "none" => task[s] # "none"
  BY <1>2, TaskLookIs
<1>4. Grows
  BY <1>2, Unannounced
<1>5. StoreTypes' /\ HistoryTypes' /\ WrapTypes' /\ LocalTypes'
  BY <1>1, <1>2, <1>3 DEF StoreTypes, HistoryTypes, WrapTypes, LocalTypes, locals
<1>6. Listed'
  BY <1>1, <1>2, <1>3, ListedSame
<1>7. Owners'
  BY <1>1, <1>2, <1>3, <1>4, OwnersSame
<1>8. \A d \in Conn : SameHandler(d)
  BY <1>2 DEF SameHandler, SameLocals, locals
<1>9. Handlers'
  BY <1>1, <1>3, <1>4, <1>8, HandlerSame DEF Handlers
<1> QED
  BY <1>5, <1>6, <1>7, <1>9 DEF WsInv, Types

LEMMA TaskStoreIs ==
  ASSUME WsInv, NEW r \in Rec, TaskStore(r)
  PROVE  /\ rec[r] # None /\ rec[r].hash \in InfoHash /\ rec[r].id \in PeerID
         /\ task' \in [Rec -> {"none", "look", "store"}]
         /\ task'[r] = "none" /\ \A s \in Rec : s # r => task'[s] = task[s]
         /\ peerMap' \in [InfoHash -> [PeerID -> Rec \cup {None}]]
         /\ peerMap'[rec[r].hash][rec[r].id] # None
         /\ \A h \in InfoHash, i \in PeerID :
              \/ peerMap'[h][i] = peerMap[h][i]
              \/ /\ h = rec[r].hash /\ i = rec[r].id /\ peerMap'[h][i] = r
                 /\ Shut(rec[r].conn) => r \in late'
         /\ late \subseteq late' /\ late' \subseteq Rec
<1>1. StoreTypes /\ Owners /\ HistoryTypes /\ task[r] = "store"
  BY DEF WsInv, Types, TaskStore
<1>2. rec[r] \in Record /\ rec[r] # None
  BY <1>1 DEF Owners, StoreTypes
<1>3. rec[r].hash \in InfoHash /\ rec[r].id \in PeerID
  BY <1>2 DEF Record
<1>4. /\ task' \in [Rec -> {"none", "look", "store"}]
      /\ task'[r] = "none" /\ \A s \in Rec : s # r => task'[s] = task[s]
  BY <1>1 DEF StoreTypes, TaskStore
<1>5. CASE peerMap[rec[r].hash][rec[r].id] # None
  <2>1. UNCHANGED <<peerMap, late>>
    BY <1>5 DEF TaskStore, At
  <2> QED
    BY <1>1, <1>2, <1>3, <1>4, <1>5, <2>1 DEF StoreTypes, HistoryTypes
<1>6. CASE peerMap[rec[r].hash][rec[r].id] = None
  <2>1. /\ Put(rec[r].hash, rec[r].id, r)
        /\ late' = IF Shut(rec[r].conn) THEN late \cup {r} ELSE late
    BY <1>6 DEF TaskStore, At
  <2>2. /\ peerMap' \in [InfoHash -> [PeerID -> Rec \cup {None}]]
        /\ peerMap'[rec[r].hash][rec[r].id] = r
        /\ \A g \in InfoHash, j \in PeerID :
             g # rec[r].hash \/ j # rec[r].id => peerMap'[g][j] = peerMap[g][j]
    BY <1>1, <1>3, <2>1, PutCell
  <2>3. r # None
    BY WsAssumption
  <2> QED
    BY <1>1, <1>2, <1>3, <1>4, <2>1, <2>2, <2>3 DEF HistoryTypes
<1> QED
  BY <1>5, <1>6

LEMMA TaskStoreStep ==
  ASSUME WsInv, NEW r \in Rec, TaskStore(r)
  PROVE  WsInv'
<1>1. Types /\ StoreTypes /\ WrapTypes /\ LocalTypes /\ HistoryTypes /\ Listed /\ Owners /\ Handlers
  BY DEF WsInv, Types
<1>2. /\ UNCHANGED <<gone, stalled, closed, mutex, callback, roots, rec, pc, locals, announced>>
      /\ task[r] = "store"
  BY DEF TaskStore, net, wrap
<1>3. RecStays /\ Grows
  BY <1>1, <1>2, Unstored, Unannounced
<1>4. StoreTypes' /\ HistoryTypes' /\ WrapTypes' /\ LocalTypes'
  BY <1>1, <1>2, TaskStoreIs DEF StoreTypes, HistoryTypes, WrapTypes, LocalTypes, locals
<1>5. Listed'
  BY <1>1, <1>2, TaskStoreIs DEF Listed
<1>6. Owners'
  BY <1>1, <1>2, <1>3, TaskStoreIs, OwnersSame
<1>7. \A d \in Conn : SameHandler(d)
  BY <1>2 DEF SameHandler, SameLocals, locals
<1>8. Handlers'
  BY <1>1, <1>3, <1>7, HandlerSame DEF Handlers
<1> QED
  BY <1>4, <1>5, <1>6, <1>8 DEF WsInv, Types

-----------------------------------------------------------------------------
LEMMA WsInit == Init => WsInv
<1> SUFFICES ASSUME Init PROVE WsInv
  OBVIOUS
<1>1. MaxAnnounces \in Nat
  BY WsAssumption
<1>2. Types
  BY <1>1 DEF Init, Types, WrapTypes, StoreTypes, LocalTypes, HistoryTypes, Label
<1>3. Listed /\ Owners
  BY DEF Init, Listed, Owners
<1>4. ASSUME NEW c \in Conn PROVE Handler(c)
  BY <1>1, CardNone DEF Init, Handler, Picked, Waiting, Announcing, Offering, Serving, Decoding, Sending, Todo, Cleared
<1> QED
  BY <1>2, <1>3, <1>4 DEF WsInv, Handlers

LEMMA WsNext == WsInv /\ [Next]_vars => WsInv'
<1> SUFFICES ASSUME WsInv, [Next]_vars PROVE WsInv'
  OBVIOUS
<1>1. CASE UNCHANGED vars
  BY <1>1, StutterStep
<1>2. ASSUME NEW c \in Conn, Leave(c) \/ Stall(c) \/ Resume(c) PROVE WsInv'
  BY <1>2, NetStep
<1>3. ASSUME NEW c \in Conn, Receive(c) PROVE WsInv'
  BY <1>3, ReplyStep, AnnounceStep, AnswerStep DEF Receive
<1>4. ASSUME NEW c \in Conn, Proceed(c) PROVE WsInv'
  BY <1>4, StoreFirstStep, DeleteStoppedStep, RangePeersStep, NextOfferStep, SendOfferStep, DecodedStep,
     ReadFailsStep, CallbackStep, CloseStep, LockStep, WriteStep, WriteFailsStep DEF Proceed
<1>5. ASSUME NEW r \in Rec, TaskLook(r) \/ TaskStore(r) PROVE WsInv'
  BY <1>5, TaskLookStep, TaskStoreStep
<1>6. CASE Idle
  BY <1>6, StutterStep DEF Idle
<1> QED
  BY <1>1, <1>2, <1>3, <1>4, <1>5, <1>6 DEF Next

LEMMA WsInvariant == Spec => []WsInv
BY WsInit, WsNext, PTL DEF Spec

(* Types, and the pointers and indexes the handlers use: whatever the      *)
(* tasks, the closing connections and the stops do between two steps of an *)
(* announce, a listed record is one of its own torrent and id, and the     *)
(* offer sendOffer picks is one that the announce carries                  *)
(* (websocket/manager.go, webtorrent.go).                                  *)
THEOREM WsTypeCorrect == Spec => []TypeOK
BY WsInvariant, WsInvTypes, PTL

-----------------------------------------------------------------------------
(* A closed connection is not given out. *)

(* Only its own callback shuts a connection, and it stays shut. *)
LEMMA ShutByCallback ==
  ASSUME WsInv, [Next]_vars, NEW d \in Conn
  PROVE  (Shut(d) => Shut(d)') /\ (Shut(d)' => Shut(d) \/ Callback(d))
<1>1. LocalTypes /\ WrapTypes
  BY DEF WsInv, Types
<1>2. CASE UNCHANGED <<closed, pc>>
  BY <1>2 DEF Shut
<1>3. ASSUME NEW c \in Conn, UNCHANGED closed, pc[c] \notin {"closing", "stopping"},
             pc'[c] \notin {"closing", "stopping"},
             \A e \in Conn : e # c => pc'[e] = pc[e]
      PROVE  Shut(d)' <=> Shut(d)
  BY <1>3 DEF Shut
<1>4. ASSUME NEW c \in Conn, Receive(c) PROVE Shut(d)' <=> Shut(d)
  <2>1. PICK m \in Messages[c] : Reject(c, m) \/ Scrape(c, m) \/ Announce(c, m) \/ Answer(c, m)
    BY <1>4 DEF Receive
  <2>2. UNCHANGED closed /\ pc[c] = "read"
    BY <2>1 DEF Reject, Scrape, Announce, Answer, Reads, wrap
  <2>3. \E l \in Label \ {"closing", "stopping"} : Goto(c, l)
    BY <2>1 DEF Reject, Scrape, Announce, Answer, Send, Label
  <2>4. pc'[c] \notin {"closing", "stopping"} /\ \A e \in Conn : e # c => pc'[e] = pc[e]
    BY <1>1, <2>3 DEF Goto, LocalTypes
  <2> QED
    BY <1>3, <2>2, <2>4
<1>5. ASSUME NEW c \in Conn, Proceed(c), ~Callback(c), ~Close(c) PROVE Shut(d)' <=> Shut(d)
  <2>1. CASE WriteClosed(c) \/ Write(c) \/ WriteFails(c)
    <3>1. UNCHANGED closed /\ pc[c] \in {"send", "write"}
      BY <2>1 DEF WriteClosed, Write, WriteFails, wrap
    <3>2. PICK ok \in BOOLEAN : AfterWrite(c, ok)
      BY <2>1, WriteFailsIs DEF WriteClosed, Write
    <3>3. \E l \in {"close", "send", "offers", "read"} : Goto(c, l)
      BY <3>2, AfterWriteIs DEF Send, Return
    <3>4. pc'[c] \notin {"closing", "stopping"} /\ \A e \in Conn : e # c => pc'[e] = pc[e]
      BY <1>1, <3>3 DEF Goto, LocalTypes
    <3> QED
      BY <1>3, <3>1, <3>4
  <2>2. CASE ~(WriteClosed(c) \/ Write(c) \/ WriteFails(c))
    <3>1. UNCHANGED closed /\ pc[c] \notin {"closing", "stopping"}
      BY <1>5, <2>2 DEF Proceed, StoreFirst, DeleteStopped, RangePeers, NextOffer, SendOffer, Decoded,
                        ReadFails, CloseAgain, Lock, wrap
    <3>2. UNCHANGED pc \/ \E l \in {"send", "read", "offer", "close", "end", "write"} : Goto(c, l)
      BY <1>5, <2>2 DEF Proceed, StoreFirst, DeleteStopped, RangePeers, NextOffer, SendOffer, Decoded,
                        ReadFails, CloseAgain, Lock, Send, Return
    <3>3. pc'[c] \notin {"closing", "stopping"} /\ \A e \in Conn : e # c => pc'[e] = pc[e]
      BY <1>1, <3>1, <3>2 DEF Goto, LocalTypes
    <3> QED
      BY <1>3, <3>1, <3>3
  <2> QED
    BY <2>1, <2>2
<1>6. ASSUME NEW c \in Conn, Close(c) PROVE Shut(d)' <=> Shut(d)
  <2>1. Shut(c) /\ Shut(c)'
    BY <1>1, <1>6 DEF Close, Shut, WrapTypes
  <2>2. \A e \in Conn : e # c => pc'[e] = pc[e] /\ closed'[e] = closed[e]
    BY <1>1, <1>6 DEF Close, Goto, WrapTypes, LocalTypes
  <2> QED
    BY <2>1, <2>2 DEF Shut
<1>7. ASSUME NEW c \in Conn, Callback(c) PROVE (Shut(d) => Shut(d)') /\ (Shut(d)' => Shut(d) \/ d = c)
  <2>1. UNCHANGED closed /\ Shut(c)' /\ \A e \in Conn : e # c => pc'[e] = pc[e]
    BY <1>1, <1>7 DEF Callback, Goto, Shut, LocalTypes
  <2> QED
    BY <2>1 DEF Shut
<1>8. ASSUME NEW c \in Conn, Leave(c) \/ Stall(c) \/ Resume(c) PROVE UNCHANGED <<closed, pc>>
  BY <1>8 DEF Leave, Stall, Resume, wrap
<1>9. ASSUME NEW r \in Rec, TaskLook(r) \/ TaskStore(r) PROVE UNCHANGED <<closed, pc>>
  BY <1>9 DEF TaskLook, TaskStore, wrap
<1>10. ASSUME UNCHANGED vars PROVE UNCHANGED <<closed, pc>>
  BY <1>10 DEF vars, wrap
<1> QED
  BY <1>2, <1>4, <1>5, <1>6, <1>7, <1>8, <1>9, <1>10 DEF Next, Idle

LEMMA UnlistedSame ==
  ASSUME WsInv, ClosedIsUnlisted, RecStays, UNCHANGED callback, late \subseteq late',
         \A d \in Conn : Shut(d)' => Shut(d),
         \A h \in InfoHash, i \in PeerID : peerMap'[h][i] \in {peerMap[h][i], None}
  PROVE  ClosedIsUnlisted'
<1> SUFFICES ASSUME NEW h \in InfoHash, NEW i \in PeerID, NEW r, r = peerMap'[h][i],
                    r # None, NEW d, d = rec'[r].conn, d # None, Shut(d)'
             PROVE  r \in late' \/ callback'[d] # <<h, i>>
  BY DEF ClosedIsUnlisted, At, Shut
<1>1. r = peerMap[h][i] /\ r \in Rec /\ rec[r] # None
  BY DEF WsInv, Types, StoreTypes, Listed
<1>2. d = rec[r].conn /\ d \in Conn
  BY <1>1 DEF RecStays, WsInv, Types, StoreTypes, Record
<1>3. r \in late \/ callback[d] # <<h, i>>
  BY <1>1, <1>2 DEF ClosedIsUnlisted, At
<1> QED
  BY <1>2, <1>3

LEMMA UnlistedNext == WsInv /\ ClosedIsUnlisted /\ [Next]_vars => ClosedIsUnlisted'
<1> SUFFICES ASSUME WsInv, ClosedIsUnlisted, [Next]_vars PROVE ClosedIsUnlisted'
  OBVIOUS
<1>1. StoreTypes /\ WrapTypes /\ LocalTypes /\ Listed /\ Handlers
  BY DEF WsInv, Types
<1>3. ASSUME NEW c \in Conn, NEW m \in Messages[c], Announce(c, m) PROVE ClosedIsUnlisted'
  <2>1. PICK r \in Rec :
          /\ rec[r] = None
          /\ rec' = [rec EXCEPT ![r] = [hash |-> m.hash, id |-> m.id, event |-> m.event, conn |-> c]]
    BY <1>3 DEF Announce
  <2>2. \A s \in Rec : s # r => rec'[s] = rec[s]
    BY <2>1, AnnounceIs
  <2>3. /\ ~Shut(c) /\ UNCHANGED <<peerMap, late>>
        /\ \A d \in Conn : d # c => callback'[d] = callback[d]
    BY <1>1, <1>3 DEF Announce, Reads, WrapTypes, Shut
  <2>4. \A d \in Conn : Shut(d)' => Shut(d)
    <3>1. UNCHANGED closed /\ \E l \in {"first", "stop", "range"} : Goto(c, l)
      BY <1>3 DEF Announce
    <3> QED
      BY <1>1, <3>1 DEF Goto, LocalTypes, Shut
  <2> SUFFICES ASSUME NEW h \in InfoHash, NEW i \in PeerID, NEW s, s = peerMap'[h][i],
                      s # None, NEW d, d = rec'[s].conn, d # None, Shut(d)'
               PROVE  s \in late' \/ callback'[d] # <<h, i>>
    BY DEF ClosedIsUnlisted, At, Shut
  <2>5. s = peerMap[h][i] /\ s \in Rec /\ rec[s] # None
    BY <1>1, <2>3 DEF StoreTypes, Listed
  <2>6. d = rec[s].conn /\ d \in Conn
    BY <1>1, <2>1, <2>2, <2>5 DEF StoreTypes, Record
  <2>7. s \in late \/ callback[d] # <<h, i>>
    BY <2>4, <2>5, <2>6 DEF ClosedIsUnlisted, At
  <2> QED
    BY <2>3, <2>4, <2>6, <2>7
<1>4. ASSUME NEW c \in Conn, StoreFirst(c) PROVE ClosedIsUnlisted'
  <2>1. /\ pc[c] = "first" /\ UNCHANGED <<closed, callback, rec, late>>
        /\ \/ UNCHANGED peerMap
           \/ Put(msg[c].hash, msg[c].id, mine[c])
    BY <1>4 DEF StoreFirst, wrap, history
  <2>2. msg[c] \in Message /\ mine[c] \in Rec /\ rec[mine[c]].conn \in {c, None} /\ ~Shut(c)
    BY <1>1, <2>1 DEF Handlers, Handler, Announcing, Shut
  <2>3. msg[c].hash \in InfoHash /\ msg[c].id \in PeerID
    BY <2>2 DEF Message
  <2>4. \A d \in Conn : Shut(d)' => Shut(d)
    BY <1>1, <1>4, <2>1 DEF StoreFirst, Send, Goto, LocalTypes, Shut
  <2>5. CASE UNCHANGED peerMap
    BY <1>1, <2>1, <2>4, <2>5, Unstored, UnlistedSame
  <2>6. CASE Put(msg[c].hash, msg[c].id, mine[c])
    <3>1. /\ peerMap'[msg[c].hash][msg[c].id] = mine[c]
          /\ \A g \in InfoHash, j \in PeerID :
               g # msg[c].hash \/ j # msg[c].id => peerMap'[g][j] = peerMap[g][j]
      BY <2>6, <1>1, <2>2, <2>3, PutCell
    <3> SUFFICES ASSUME NEW h \in InfoHash, NEW i \in PeerID, NEW s, s = peerMap'[h][i],
                        s # None, NEW d, d = rec[s].conn, d # None, Shut(d)'
                 PROVE  s \in late \/ callback[d] # <<h, i>>
      BY <2>1 DEF ClosedIsUnlisted, At, Shut
    <3>2. CASE h = msg[c].hash /\ i = msg[c].id
      BY <2>2, <2>4, <3>1, <3>2
    <3>3. CASE peerMap'[h][i] = peerMap[h][i]
      <4>1. s \in Rec /\ rec[s] # None
        BY <1>1, <3>3 DEF StoreTypes, Listed
      <4>2. Shut(d)
        BY <1>1, <2>4, <4>1 DEF StoreTypes, Record
      <4> QED
        BY <3>3, <4>2 DEF ClosedIsUnlisted, At
    <3> QED
      BY <3>1, <3>2, <3>3
  <2> QED
    BY <2>1, <2>5, <2>6
<1>5. ASSUME NEW c \in Conn, DeleteStopped(c) PROVE ClosedIsUnlisted'
  <2>1. /\ pc[c] = "delete" /\ UNCHANGED <<closed, callback, rec, late>>
        /\ Put(msg[c].hash, msg[c].id, None)
    BY <1>5 DEF DeleteStopped, wrap, history
  <2>2. msg[c] \in Message
    BY <1>1, <2>1 DEF Handlers, Handler, Announcing
  <2>3. msg[c].hash \in InfoHash /\ msg[c].id \in PeerID
    BY <2>2 DEF Message
  <2>4. \A g \in InfoHash, j \in PeerID : peerMap'[g][j] \in {peerMap[g][j], None}
    BY <1>1, <2>1, <2>3, PutCell
  <2>5. \A d \in Conn : Shut(d)' => Shut(d)
    BY <1>1, <1>5, <2>1 DEF DeleteStopped, Send, Goto, LocalTypes, Shut
  <2> QED
    BY <1>1, <2>1, <2>4, <2>5, Unstored, UnlistedSame
<1>6. ASSUME NEW c \in Conn, WriteFails(c) PROVE ClosedIsUnlisted'
  <2>1. UNCHANGED <<closed, callback, peerMap, late>>
    BY <1>6 DEF WriteFails, history
  <2>2. RecStays
    BY <1>1, <1>6, WriteFailsIs, Unstored, ConnTaken
  <2>3. PICK ok \in BOOLEAN : AfterWrite(c, ok)
    BY <1>6, WriteFailsIs
  <2>4. \E l \in {"close", "send", "offers", "read"} : Goto(c, l)
    BY <2>3, AfterWriteIs DEF Send, Return
  <2>5. \A d \in Conn : Shut(d)' => Shut(d)
    BY <1>1, <2>1, <2>4 DEF Goto, LocalTypes, Shut
  <2> QED
    BY <2>1, <2>2, <2>5, UnlistedSame
<1>7. ASSUME NEW c \in Conn, Callback(c) PROVE ClosedIsUnlisted'
  <2>1. UNCHANGED <<closed, callback, late>> /\ Unlink(callback[c])
    BY <1>7 DEF Callback, history
  <2> SUFFICES ASSUME NEW h \in InfoHash, NEW i \in PeerID, NEW s, s = peerMap'[h][i],
                      s # None, NEW d, d = rec'[s].conn, d # None, Shut(d)'
               PROVE  s \in late' \/ callback'[d] # <<h, i>>
    BY DEF ClosedIsUnlisted, At, Shut
  <2>2. s = peerMap[h][i] /\ RecStays /\ callback[c] # <<h, i>>
    BY <2>1, UnlinkIs
  <2>3. s \in Rec /\ rec[s] # None
    BY <1>1, <2>2 DEF StoreTypes, Listed
  <2>4. d = rec[s].conn /\ d \in Conn
    BY <1>1, <2>2, <2>3 DEF RecStays, StoreTypes, Record
  <2>5. CASE d = c
    BY <2>1, <2>2, <2>5
  <2>6. CASE d # c
    <3>1. Shut(d)
      BY <1>1, <1>7, <2>1, <2>4, <2>6 DEF Callback, Goto, LocalTypes, Shut
    <3>2. s \in late \/ callback[d] # <<h, i>>
      BY <2>2, <2>4, <3>1 DEF ClosedIsUnlisted, At
    <3> QED
      BY <2>1, <3>2
  <2> QED
    BY <2>5, <2>6
<1>8. ASSUME NEW r \in Rec, TaskLook(r) PROVE ClosedIsUnlisted'
  <2>1. UNCHANGED <<closed, pc, callback, peerMap, late>>
    BY <1>8 DEF TaskLook, wrap, history
  <2>2. \A d \in Conn : Shut(d)' => Shut(d)
    BY <2>1 DEF Shut
  <2> QED
    BY <1>8, <2>1, <2>2, TaskLookIs, UnlistedSame
<1>9. ASSUME NEW r \in Rec, TaskStore(r) PROVE ClosedIsUnlisted'
  <2>1. UNCHANGED <<closed, pc, callback, rec>>
    BY <1>9 DEF TaskStore, wrap
  <2> SUFFICES ASSUME NEW h \in InfoHash, NEW i \in PeerID, NEW s, s = peerMap'[h][i],
                      s # None, NEW d, d = rec[s].conn, d # None, Shut(d)'
               PROVE  s \in late' \/ callback[d] # <<h, i>>
    BY <2>1 DEF ClosedIsUnlisted, At, Shut
  <2>2. late \subseteq late' /\ \/ peerMap'[h][i] = peerMap[h][i]
                                \/ peerMap'[h][i] = r /\ (Shut(rec[r].conn) => r \in late')
    BY <1>9, TaskStoreIs
  <2>3. Shut(d)
    BY <2>1 DEF Shut
  <2>4. CASE peerMap'[h][i] = peerMap[h][i]
    BY <2>2, <2>3, <2>4 DEF ClosedIsUnlisted, At
  <2>5. CASE peerMap'[h][i] = r /\ (Shut(rec[r].conn) => r \in late')
    BY <2>3, <2>5
  <2> QED
    BY <2>2, <2>4, <2>5
<1>10. ASSUME UNCHANGED <<closed, pc, peerMap, rec, callback, late>> PROVE ClosedIsUnlisted'
  BY <1>1, <1>10, Unstored, UnlistedSame DEF Shut
<1>11. ASSUME NEW c \in Conn, Leave(c) \/ Stall(c) \/ Resume(c) PROVE ClosedIsUnlisted'
  BY <1>11, <1>10 DEF Leave, Stall, Resume, wrap, store, history
<1>12. ASSUME NEW c \in Conn, UNCHANGED <<closed, peerMap, rec, callback, late>>,
              \E l \in Label \ {"closing", "stopping"} : Goto(c, l)
       PROVE  ClosedIsUnlisted'
  <2>1. \A d \in Conn : Shut(d)' => Shut(d)
    BY <1>1, <1>12 DEF Goto, LocalTypes, Shut
  <2> QED
    BY <1>1, <1>12, <2>1, Unstored, UnlistedSame
<1>13. ASSUME NEW c \in Conn, Receive(c) PROVE ClosedIsUnlisted'
  <2>1. PICK m \in Messages[c] : Reject(c, m) \/ Scrape(c, m) \/ Announce(c, m) \/ Answer(c, m)
    BY <1>13 DEF Receive
  <2>2. CASE Reject(c, m) \/ Scrape(c, m) \/ Answer(c, m)
    <3>1. UNCHANGED <<closed, peerMap, rec, callback, late>>
      BY <2>2 DEF Reject, Scrape, Answer, wrap, store
    <3>2. \E l \in Label \ {"closing", "stopping"} : Goto(c, l)
      BY <2>2 DEF Reject, Scrape, Answer, Send, Label
    <3> QED
      BY <3>1, <3>2, <1>12
  <2> QED
    BY <1>3, <2>1, <2>2
<1>14. ASSUME NEW c \in Conn, Proceed(c) PROVE ClosedIsUnlisted'
  <2>1. CASE NextOffer(c)
    <3>1. UNCHANGED <<closed, peerMap, rec, callback, late>>
      BY <2>1 DEF NextOffer, wrap, store, history
    <3>2. UNCHANGED pc \/ \E l \in Label \ {"closing", "stopping"} : Goto(c, l)
      BY <2>1 DEF NextOffer, Return, Label
    <3> QED
      BY <3>1, <3>2, <1>10, <1>12
  <2>2. CASE RangePeers(c) \/ SendOffer(c) \/ Decoded(c) \/ ReadFails(c) \/ CloseAgain(c) \/ Lock(c)
    <3>1. UNCHANGED <<closed, peerMap, rec, callback, late>>
      BY <2>2 DEF RangePeers, SendOffer, Decoded, ReadFails, CloseAgain, Lock, wrap, store, history
    <3>2. \E l \in Label \ {"closing", "stopping"} : Goto(c, l)
      BY <2>2 DEF RangePeers, SendOffer, Decoded, ReadFails, CloseAgain, Lock, Send, Return, Label
    <3> QED
      BY <3>1, <3>2, <1>12
  <2>3. CASE WriteClosed(c) \/ Write(c)
    <3>1. UNCHANGED <<closed, peerMap, rec, callback, late>> /\ AfterWrite(c, TRUE)
      BY <2>3 DEF WriteClosed, Write, wrap, store, history
    <3>2. \E l \in Label \ {"closing", "stopping"} : Goto(c, l)
      BY <3>1, AfterWriteIs DEF Send, Return, Label
    <3> QED
      BY <3>1, <3>2, <1>12
  <2>4. CASE Close(c)
    <3>1. UNCHANGED <<peerMap, rec, callback, late>>
      BY <2>4 DEF Close, store, history
    <3>2. \A d \in Conn : Shut(d)' => Shut(d)
      BY <1>1, <2>4 DEF Close, Goto, LocalTypes, WrapTypes, Shut
    <3> QED
      BY <1>1, <3>1, <3>2, Unstored, UnlistedSame
  <2> QED
    BY <1>4, <1>5, <1>6, <1>7, <1>14, <2>1, <2>2, <2>3, <2>4 DEF Proceed
<1>15. CASE UNCHANGED vars
  BY <1>15, <1>10 DEF vars, wrap, store, history
<1>16. CASE Idle
  BY <1>16, <1>15 DEF Idle
<1> QED
  BY <1>8, <1>9, <1>11, <1>13, <1>14, <1>15, <1>16 DEF Next

(* A closed connection is not given out: Close runs the callback under the *)
(* connection's mutex, and whichever handler, failed write or task comes   *)
(* before, after it or between it and the flag, the record the callback    *)
(* names is no longer listed with this connection, unless a task of the    *)
(* pool stored it after the callback (model/ws.go:54-65,                   *)
(* websocket/local.go:73-105).                                             *)
THEOREM ClosedNotGivenOut == Spec => []ClosedIsUnlisted
<1>1. Init => ClosedIsUnlisted
  BY DEF Init, ClosedIsUnlisted, At
<1> QED
  BY <1>1, WsInvariant, UnlistedNext, PTL DEF Spec

-----------------------------------------------------------------------------
(* A live peer is listed. *)

(* Connection c is the only one that announced peer i of torrent h. *)
Sole(c, h, i) == \A d \in Conn : <<h, i>> \in announced[d] => d = c

(* The announce of peer i is on its way to the store: its handler is about *)
(* to store it, or to stop it, or a task is.                               *)
Pending(c, h, i) ==
  \/ pc[c] \in {"first", "stop"} /\ msg[c].hash = h /\ msg[c].id = i
  \/ \E r \in Rec : task[r] # "none" /\ rec[r].hash = h /\ rec[r].id = i

(* A record loses its connection to a client that is no longer there. *)
Taken ==
  \A r \in Rec : rec[r] # None /\ rec[r].conn = None =>
    \E d \in Conn : KeyOf(r) \in announced[d] /\ (gone[d] \/ Shut(d))
Coming ==
  \A c \in Conn, h \in InfoHash, i \in PeerID :
    <<h, i>> \in announced[c] /\ ~Shut(c) /\ Sole(c, h, i) /\ peerMap[h][i] = None => Pending(c, h, i)
LiveInv == Taken /\ Coming

LEMMA LiveInvListed == WsInv /\ LiveInv => LiveIsListed
<1> SUFFICES ASSUME WsInv, Taken, Coming, NEW c \in Conn, NEW k \in announced[c],
                    ~Shut(c), ~gone[c], pc[c] \notin {"first", "stop"},
                    \A d \in Conn : k \in announced[d] => d = c,
                    \A r \in Rec : task[r] # "none" => <<rec[r].hash, rec[r].id>> # k
             PROVE  At(k[1], k[2]) # None /\ rec[At(k[1], k[2])].conn = c
  BY DEF LiveInv, LiveIsListed
<1>1. StoreTypes /\ HistoryTypes /\ Listed /\ Owners
  BY DEF WsInv, Types
<1>2. PICK h \in InfoHash, i \in PeerID : k = <<h, i>>
  BY <1>1 DEF HistoryTypes
<1>3. Sole(c, h, i) /\ ~Pending(c, h, i)
  BY <1>2 DEF Sole, Pending
<1>4. peerMap[h][i] # None
  BY <1>2, <1>3 DEF Coming
<1>5. PICK r \in Rec : r = peerMap[h][i]
  BY <1>1, <1>4 DEF StoreTypes
<1>6. rec[r] # None /\ KeyOf(r) = k
  BY <1>1, <1>2, <1>4, <1>5 DEF Listed, KeyOf
<1>7. rec[r].conn # None
  BY <1>6 DEF Taken
<1>8. rec[r].conn \in Conn /\ KeyOf(r) \in announced[rec[r].conn]
  BY <1>1, <1>6, <1>7 DEF StoreTypes, Record, Owners
<1>9. rec[r].conn = c
  BY <1>6, <1>8
<1> QED
  BY <1>2, <1>4, <1>5, <1>9 DEF At

(* Nobody comes back, and the announced peers stay announced. *)
StaysShut == \A d \in Conn : Shut(d) => Shut(d)'
Onward ==
  /\ \A d \in Conn : gone[d] => gone'[d]
  /\ StaysShut
  /\ Grows

LEMMA TakenSame ==
  ASSUME WsInv, Taken, Onward,
         \A r \in Rec : rec'[r] # None /\ rec'[r].conn = None =>
           \/ rec[r] # None /\ rec[r].conn = None /\ rec'[r].hash = rec[r].hash /\ rec'[r].id = rec[r].id
           \/ \E d \in Conn : <<rec'[r].hash, rec'[r].id>> \in announced'[d] /\ (gone'[d] \/ Shut(d)')
  PROVE  Taken'
<1> SUFFICES ASSUME NEW r \in Rec, rec'[r] # None, rec'[r].conn = None
             PROVE  \E d \in Conn : <<rec'[r].hash, rec'[r].id>> \in announced'[d] /\ (gone'[d] \/ Shut(d)')
  BY DEF Taken, KeyOf
<1>1. CASE rec[r] # None /\ rec[r].conn = None /\ rec'[r].hash = rec[r].hash /\ rec'[r].id = rec[r].id
  <2>1. PICK d \in Conn : KeyOf(r) \in announced[d] /\ (gone[d] \/ Shut(d))
    BY <1>1 DEF Taken
  <2>2. <<rec'[r].hash, rec'[r].id>> \in announced'[d]
    BY <1>1, <2>1 DEF KeyOf, Onward, Grows
  <2>3. gone'[d] \/ Shut(d)'
    BY <2>1 DEF Onward, StaysShut
  <2> QED
    BY <2>2, <2>3
<1> QED
  BY <1>1

(* What is pending for a peer stays pending. *)
LEMMA ComingSame ==
  ASSUME WsInv, Coming, Onward, RecStays, UNCHANGED announced,
         \A d \in Conn : pc[d] \in {"first", "stop"} => pc'[d] = pc[d] /\ msg'[d] = msg[d],
         \A r \in Rec : task[r] # "none" => task'[r] # "none",
         \A h \in InfoHash, i \in PeerID : peerMap'[h][i] = None => peerMap[h][i] = None
  PROVE  Coming'
<1> SUFFICES ASSUME NEW c \in Conn, NEW h \in InfoHash, NEW i \in PeerID,
                    <<h, i>> \in announced'[c], ~Shut(c)', Sole(c, h, i)', peerMap'[h][i] = None
             PROVE  Pending(c, h, i)'
  BY DEF Coming
<1>1. Sole(c, h, i) /\ ~Shut(c) /\ peerMap[h][i] = None
  BY DEF Sole, Onward, StaysShut
<1>2. Pending(c, h, i)
  BY <1>1 DEF Coming
<1>3. ASSUME NEW r \in Rec, task[r] # "none"
      PROVE  rec'[r].hash = rec[r].hash /\ rec'[r].id = rec[r].id /\ task'[r] # "none"
  BY <1>3 DEF WsInv, Owners, RecStays
<1> QED
  BY <1>2, <1>3 DEF Pending

(* The actions that neither list nor announce. *)
LEMMA LiveSame ==
  ASSUME WsInv, LiveInv, StaysShut, UNCHANGED <<peerMap, rec, task, announced>>,
         \A d \in Conn : gone[d] => gone'[d],
         \A d \in Conn : pc[d] \in {"first", "stop"} => pc'[d] = pc[d] /\ msg'[d] = msg[d]
  PROVE  LiveInv'
<1>1. StoreTypes /\ Taken /\ Coming
  BY DEF WsInv, Types, LiveInv
<1>2. RecStays /\ Grows
  BY <1>1, Unstored, Unannounced
<1>3. Onward
  BY <1>2 DEF Onward, StaysShut
<1>4. Taken'
  BY <1>1, <1>3, TakenSame
<1>5. Coming'
  BY <1>1, <1>2, <1>3, ComingSame
<1> QED
  BY <1>4, <1>5 DEF LiveInv

LEMMA LiveAnnounce ==
  ASSUME WsInv, LiveInv, NEW c \in Conn, NEW m \in Messages[c], Announce(c, m), StaysShut
  PROVE  LiveInv'
<1>1. PICK r \in Rec, way \in {"first", "stop", "range"} :
        /\ rec[r] = None
        /\ rec' = [rec EXCEPT ![r] = [hash |-> m.hash, id |-> m.id, event |-> m.event, conn |-> c]]
        /\ task' = [task EXCEPT ![r] = IF way = "range" THEN "look" ELSE "none"]
        /\ Goto(c, way)
  BY DEF Announce
<1>2. /\ m \in Message /\ m.hash \in InfoHash /\ m.id \in PeerID
      /\ rec'[r] # None /\ rec'[r].hash = m.hash /\ rec'[r].id = m.id /\ rec'[r].conn = c
      /\ \A s \in Rec : s # r => rec'[s] = rec[s]
  BY <1>1, AnnounceIs
<1>3. StoreTypes /\ LocalTypes /\ HistoryTypes /\ Owners /\ Taken /\ Coming
  BY DEF WsInv, Types, LiveInv
<1>4. /\ pc[c] = "read" /\ UNCHANGED <<gone, closed, peerMap>>
      /\ msg' = [msg EXCEPT ![c] = m] /\ announced' = [announced EXCEPT ![c] = @ \cup {<<m.hash, m.id>>}]
  BY DEF Announce, Reads, net
<1>5. Grows /\ Onward
  BY <1>3, <1>4 DEF HistoryTypes, Grows, Onward
<1>6. Taken'
  <2>1. c # None
    BY WsAssumption
  <2> QED
    BY <1>2, <1>3, <1>5, <2>1, TakenSame
<1>7. /\ pc'[c] = way /\ msg'[c] = m
      /\ \A d \in Conn : d # c => pc'[d] = pc[d] /\ msg'[d] = msg[d] /\ announced'[d] = announced[d]
      /\ announced'[c] = announced[c] \cup {<<m.hash, m.id>>}
      /\ task'[r] = IF way = "range" THEN "look" ELSE "none"
      /\ \A s \in Rec : s # r => task'[s] = task[s]
  BY <1>1, <1>3, <1>4 DEF StoreTypes, LocalTypes, HistoryTypes, Goto
<1>8. Coming'
  <2> SUFFICES ASSUME NEW d \in Conn, NEW h \in InfoHash, NEW i \in PeerID,
                      <<h, i>> \in announced'[d], ~Shut(d)', Sole(d, h, i)', peerMap'[h][i] = None
               PROVE  Pending(d, h, i)'
    BY DEF Coming
  <2>1. CASE h = m.hash /\ i = m.id
    <3>1. <<h, i>> \in announced'[c]
      BY <1>7, <2>1
    <3>2. d = c
      BY <3>1 DEF Sole
    <3>3. CASE way = "range"
      BY <1>2, <1>7, <2>1, <3>3 DEF Pending
    <3>4. CASE way # "range"
      BY <1>1, <1>7, <2>1, <3>2, <3>4 DEF Pending
    <3> QED
      BY <3>3, <3>4
  <2>2. CASE ~(h = m.hash /\ i = m.id)
    <3>1. <<h, i>> \in announced[d] /\ Sole(d, h, i) /\ ~Shut(d) /\ peerMap[h][i] = None
      BY <1>4, <1>5, <1>7, <2>2 DEF Sole, Grows, StaysShut
    <3>2. Pending(d, h, i)
      BY <1>3, <3>1 DEF Coming
    <3>3. CASE pc[d] \in {"first", "stop"} /\ msg[d].hash = h /\ msg[d].id = i
      BY <1>4, <1>7, <3>3 DEF Pending
    <3>4. CASE \E s \in Rec : task[s] # "none" /\ rec[s].hash = h /\ rec[s].id = i
      <4>1. PICK s \in Rec : task[s] # "none" /\ rec[s].hash = h /\ rec[s].id = i
        BY <3>4
      <4>2. s # r
        BY <1>1, <1>3, <4>1 DEF Owners
      <4> QED
        BY <1>2, <1>7, <4>1, <4>2 DEF Pending
    <3> QED
      BY <3>2, <3>3, <3>4 DEF Pending
  <2> QED
    BY <2>1, <2>2
<1> QED
  BY <1>6, <1>8 DEF LiveInv

LEMMA LiveStoreFirst ==
  ASSUME WsInv, LiveInv, NEW c \in Conn, StoreFirst(c), StaysShut
  PROVE  LiveInv'
<1>1. StoreTypes /\ LocalTypes /\ Handlers /\ Taken /\ Coming
  BY DEF WsInv, Types, LiveInv
<1>2. /\ pc[c] = "first" /\ UNCHANGED <<gone, closed, rec, task, msg, announced>> /\ Send(c, c, "reply")
      /\ \/ peerMap[msg[c].hash][msg[c].id] # None /\ UNCHANGED peerMap
         \/ Put(msg[c].hash, msg[c].id, mine[c])
  BY DEF StoreFirst, At, net, wrap, history
<1>3. msg[c] \in Message /\ mine[c] \in Rec
  BY <1>1, <1>2 DEF Handlers, Handler, Announcing
<1>4. msg[c].hash \in InfoHash /\ msg[c].id \in PeerID /\ mine[c] # None
  BY <1>3, WsAssumption DEF Message
<1>5. /\ peerMap'[msg[c].hash][msg[c].id] # None
      /\ \A h \in InfoHash, i \in PeerID : peerMap'[h][i] = None => peerMap[h][i] = None
  <2>1. CASE UNCHANGED peerMap /\ peerMap[msg[c].hash][msg[c].id] # None
    BY <2>1
  <2>2. CASE Put(msg[c].hash, msg[c].id, mine[c])
    <3>1. /\ peerMap'[msg[c].hash][msg[c].id] = mine[c]
          /\ \A g \in InfoHash, j \in PeerID :
               g # msg[c].hash \/ j # msg[c].id => peerMap'[g][j] = peerMap[g][j]
      BY <1>1, <1>3, <1>4, <2>2, PutCell
    <3> QED
      BY <1>4, <3>1
  <2> QED
    BY <1>2, <2>1, <2>2
<1>6. RecStays /\ Grows
  BY <1>1, <1>2, Unstored, Unannounced
<1>7. Onward
  BY <1>2, <1>6 DEF Onward, StaysShut
<1>8. Taken'
  BY <1>1, <1>2, <1>7, TakenSame
<1>9. \A d \in Conn : d # c => pc'[d] = pc[d]
  BY <1>1, <1>2 DEF LocalTypes, Send, Goto
<1>10. Coming'
  <2> SUFFICES ASSUME NEW d \in Conn, NEW h \in InfoHash, NEW i \in PeerID,
                      <<h, i>> \in announced'[d], ~Shut(d)', Sole(d, h, i)', peerMap'[h][i] = None
               PROVE  Pending(d, h, i)'
    BY DEF Coming
  <2>1. Sole(d, h, i) /\ peerMap[h][i] = None /\ ~(h = msg[c].hash /\ i = msg[c].id)
    BY <1>2, <1>5 DEF Sole
  <2>2. Pending(d, h, i)
    BY <1>1, <1>2, <2>1 DEF Coming, StaysShut
  <2> QED
    BY <1>2, <1>9, <2>1, <2>2 DEF Pending
<1> QED
  BY <1>8, <1>10 DEF LiveInv

(* A connection that closes takes out peers that it announced itself. *)
LEMMA ComingClosed ==
  ASSUME WsInv, Coming, NEW c \in Conn, Shut(c)', Onward, RecStays, UNCHANGED <<task, announced>>,
         \A d \in Conn : d # c => pc'[d] = pc[d] /\ msg'[d] = msg[d],
         \A h \in InfoHash, i \in PeerID :
           peerMap'[h][i] = None => peerMap[h][i] = None \/ <<h, i>> \in announced[c]
  PROVE  Coming'
<1> SUFFICES ASSUME NEW d \in Conn, NEW h \in InfoHash, NEW i \in PeerID,
                    <<h, i>> \in announced'[d], ~Shut(d)', Sole(d, h, i)', peerMap'[h][i] = None
             PROVE  Pending(d, h, i)'
  BY DEF Coming
<1>1. d # c /\ Sole(d, h, i) /\ ~Shut(d)
  BY DEF Sole, Onward, StaysShut
<1>2. peerMap[h][i] = None
  BY <1>1 DEF Sole
<1>3. Pending(d, h, i)
  BY <1>1, <1>2 DEF Coming
<1>4. ASSUME NEW r \in Rec, task[r] # "none"
      PROVE  rec'[r].hash = rec[r].hash /\ rec'[r].id = rec[r].id
  BY <1>4 DEF WsInv, Owners, RecStays
<1> QED
  BY <1>1, <1>3, <1>4 DEF Pending

LEMMA LiveDeleteStopped ==
  ASSUME WsInv, LiveInv, NEW c \in Conn, DeleteStopped(c), StaysShut
  PROVE  LiveInv'
<1>1. StoreTypes /\ LocalTypes /\ Handlers /\ Taken /\ Coming
  BY DEF WsInv, Types, LiveInv
<1>2. /\ pc[c] = "delete" /\ UNCHANGED <<gone, closed, rec, task, msg, announced>> /\ Send(c, c, "reply")
      /\ Put(msg[c].hash, msg[c].id, None)
  BY DEF DeleteStopped, net, wrap, history
<1>3. msg[c] \in Message /\ Shut(c) /\ Shut(c)' /\ <<msg[c].hash, msg[c].id>> \in announced[c]
  BY <1>1, <1>2 DEF Handlers, Handler, Announcing, MsgKey, Shut, StaysShut
<1>4. msg[c].hash \in InfoHash /\ msg[c].id \in PeerID
  BY <1>3 DEF Message
<1>5. \A g \in InfoHash, j \in PeerID :
        peerMap'[g][j] = None => peerMap[g][j] = None \/ <<g, j>> \in announced[c]
  <2>1. \A g \in InfoHash, j \in PeerID :
          g # msg[c].hash \/ j # msg[c].id => peerMap'[g][j] = peerMap[g][j]
    BY <1>1, <1>2, <1>4, PutCell
  <2> QED
    BY <1>3, <2>1
<1>6. RecStays /\ Grows
  BY <1>1, <1>2, Unstored, Unannounced
<1>7. Onward
  BY <1>2, <1>6 DEF Onward, StaysShut
<1>8. Taken'
  BY <1>1, <1>2, <1>7, TakenSame
<1>9. \A d \in Conn : d # c => pc'[d] = pc[d] /\ msg'[d] = msg[d]
  BY <1>1, <1>2 DEF LocalTypes, Send, Goto
<1>10. Coming'
  BY <1>1, <1>2, <1>3, <1>5, <1>6, <1>7, <1>9, ComingClosed
<1> QED
  BY <1>8, <1>10 DEF LiveInv

LEMMA LiveCallback ==
  ASSUME WsInv, LiveInv, NEW c \in Conn, Callback(c), StaysShut
  PROVE  LiveInv'
<1>1. StoreTypes /\ LocalTypes /\ Owners /\ Taken /\ Coming
  BY DEF WsInv, Types, LiveInv
<1>2. UNCHANGED <<gone, callback, task, announced>> /\ Unlink(callback[c])
  BY DEF Callback, net, history
<1>3. /\ RecStays /\ Shut(c)'
      /\ \A r \in Rec : \/ rec'[r] = rec[r]
                        \/ rec[r] # None /\ callback[c] # None /\ KeyOf(r) = callback[c]
  <2>1. Shut(c)'
    BY <1>1 DEF Callback, Goto, LocalTypes, Shut
  <2> QED
    BY <1>2, <2>1, UnlinkIs
<1>4. callback[c] # None => callback[c] \in announced[c]
  BY <1>1 DEF Owners
<1>5. \A h \in InfoHash, i \in PeerID :
        peerMap'[h][i] = None => peerMap[h][i] = None \/ <<h, i>> \in announced[c]
  <2> SUFFICES ASSUME NEW h \in InfoHash, NEW i \in PeerID, peerMap'[h][i] # peerMap[h][i]
               PROVE  <<h, i>> \in announced[c]
    OBVIOUS
  <2>1. callback[c] = <<h, i>>
    BY <1>2, UnlinkIs
  <2>2. <<h, i>> # None
    BY WsAssumption
  <2> QED
    BY <1>4, <2>1, <2>2
<1>6. Grows
  BY <1>2, Unannounced
<1>7. Onward
  BY <1>2, <1>3, <1>6 DEF Onward, StaysShut
<1>8. Taken'
  <2> SUFFICES ASSUME NEW r \in Rec, rec'[r] # None, rec'[r].conn = None
               PROVE  \/ rec[r] # None /\ rec[r].conn = None /\ rec'[r].hash = rec[r].hash /\ rec'[r].id = rec[r].id
                      \/ \E d \in Conn : <<rec'[r].hash, rec'[r].id>> \in announced'[d] /\ (gone'[d] \/ Shut(d)')
    BY <1>1, <1>7, TakenSame
  <2>1. CASE rec'[r] = rec[r]
    BY <2>1
  <2>2. CASE rec[r] # None /\ callback[c] # None /\ KeyOf(r) = callback[c]
    <3>1. <<rec'[r].hash, rec'[r].id>> = callback[c]
      BY <1>3, <2>2 DEF RecStays, KeyOf
    <3> QED
      BY <1>2, <1>3, <1>4, <2>2, <3>1
  <2> QED
    BY <1>3, <2>1, <2>2
<1>9. \A d \in Conn : d # c => pc'[d] = pc[d] /\ msg'[d] = msg[d]
  BY <1>1 DEF LocalTypes, Callback, Goto, locals
<1>10. Coming'
  BY <1>1, <1>2, <1>3, <1>5, <1>7, <1>9, ComingClosed
<1> QED
  BY <1>8, <1>10 DEF LiveInv

(* A handler whose write has returned was not about to store anything. *)
LEMMA AfterWriteOnly ==
  ASSUME WsInv, NEW c \in Conn, pc[c] \in {"send", "write"}, NEW ok \in BOOLEAN, AfterWrite(c, ok)
  PROVE  \A d \in Conn : pc[d] \in {"first", "stop"} => pc'[d] = pc[d] /\ msg'[d] = msg[d]
<1>1. LocalTypes
  BY DEF WsInv, Types
<1>2. CASE UNCHANGED locals /\ Goto(c, "offers")
  BY <1>1, <1>2 DEF LocalTypes, Goto, locals
<1>3. CASE Send(c, c, "error") /\ UNCHANGED <<msg, mine, todo, sent, pick, target>>
  BY <1>1, <1>3 DEF LocalTypes, Goto, Send
<1>4. CASE Return(c, "read") \/ Return(c, "close")
  BY <1>1, <1>4 DEF LocalTypes, Goto, Return
<1> QED
  BY <1>2, <1>3, <1>4, AfterWriteIs

LEMMA LiveWriteFails ==
  ASSUME WsInv, LiveInv, NEW c \in Conn, WriteFails(c), StaysShut
  PROVE  LiveInv'
<1>1. StoreTypes /\ Taken /\ Coming
  BY DEF WsInv, Types, LiveInv
<1>2. UNCHANGED <<gone, closed, peerMap, task, announced>> /\ to[c] \in Conn /\ gone[to[c]] /\ pc[c] = "write"
  BY WriteFailsIs DEF WriteFails, net, history
<1>3. \A d \in Conn : pc[d] \in {"first", "stop"} => pc'[d] = pc[d] /\ msg'[d] = msg[d]
  BY <1>2, WriteFailsIs, AfterWriteOnly
<1>4. Grows
  BY <1>2, Unannounced
<1>5. Onward
  BY <1>2, <1>4 DEF Onward, StaysShut
<1>6. CASE UNCHANGED rec
  BY <1>2, <1>3, <1>6, LiveSame
<1>7. CASE /\ target[c] \in Rec /\ rec[target[c]] # None /\ KeyOf(target[c]) \in announced[to[c]]
           /\ rec' = [rec EXCEPT ![target[c]].conn = None]
  <2>1. PICK t \in Rec : t = target[c]
    BY <1>7
  <2>2. /\ RecStays /\ \A r \in Rec : r # t => rec'[r] = rec[r]
    BY <1>1, <1>7, <2>1, ConnTaken
  <2>3. <<rec'[t].hash, rec'[t].id>> \in announced'[to[c]]
    BY <1>2, <1>7, <2>1, <2>2 DEF RecStays, KeyOf
  <2>4. Taken'
    <3> SUFFICES ASSUME NEW r \in Rec, rec'[r] # None, rec'[r].conn = None
                 PROVE  \/ rec[r] # None /\ rec[r].conn = None /\ rec'[r].hash = rec[r].hash /\ rec'[r].id = rec[r].id
                        \/ \E d \in Conn : <<rec'[r].hash, rec'[r].id>> \in announced'[d] /\ (gone'[d] \/ Shut(d)')
      BY <1>1, <1>5, TakenSame
    <3> QED
      BY <1>2, <2>2, <2>3
  <2>5. Coming'
    BY <1>1, <1>2, <1>3, <1>5, <2>2, ComingSame
  <2> QED
    BY <2>4, <2>5 DEF LiveInv
<1> QED
  BY <1>6, <1>7, WriteFailsIs

LEMMA LiveTaskLook ==
  ASSUME WsInv, LiveInv, NEW r \in Rec, TaskLook(r), StaysShut
  PROVE  LiveInv'
<1>1. StoreTypes /\ Owners /\ Taken /\ Coming
  BY DEF WsInv, Types, LiveInv
<1>2. UNCHANGED <<gone, closed, peerMap, pc, msg, announced>>
  BY DEF TaskLook, net, wrap, locals, history
<1>3. /\ RecStays
      /\ \A s \in Rec : rec[s] = None => rec'[s] = None
      /\ \A s \in Rec : rec[s] # None => rec'[s].conn = rec[s].conn
      /\ \A s \in Rec : s # r => task'[s] = task[s]
      /\ peerMap[rec[r].hash][rec[r].id] = None => task'[r] = "store"
  BY TaskLookIs
<1>4. Grows
  BY <1>2, Unannounced
<1>5. Onward
  BY <1>2, <1>4 DEF Onward, StaysShut
<1>6. Taken'
  <2>1. ASSUME NEW s \in Rec, rec'[s] # None, rec'[s].conn = None
        PROVE  rec[s] # None /\ rec[s].conn = None /\ rec'[s].hash = rec[s].hash /\ rec'[s].id = rec[s].id
    BY <1>3, <2>1 DEF RecStays
  <2> QED
    BY <1>1, <1>5, <2>1, TakenSame
<1>7. Coming'
  <2> SUFFICES ASSUME NEW d \in Conn, NEW h \in InfoHash, NEW i \in PeerID,
                      <<h, i>> \in announced'[d], ~Shut(d)', Sole(d, h, i)', peerMap'[h][i] = None
               PROVE  Pending(d, h, i)'
    BY DEF Coming
  <2>1. Pending(d, h, i) /\ peerMap[h][i] = None
    BY <1>1, <1>2 DEF Coming, Sole, StaysShut
  <2>2. ASSUME NEW s \in Rec, task[s] # "none", rec[s].hash = h, rec[s].id = i
        PROVE  rec'[s].hash = h /\ rec'[s].id = i /\ task'[s] # "none"
    <3>1. rec'[s].hash = h /\ rec'[s].id = i
      BY <1>1, <1>3, <2>2 DEF Owners, RecStays
    <3>2. task'[s] # "none"
      BY <1>3, <2>1, <2>2
    <3> QED
      BY <3>1, <3>2
  <2> QED
    BY <1>2, <2>1, <2>2 DEF Pending
<1> QED
  BY <1>6, <1>7 DEF LiveInv

LEMMA LiveTaskStore ==
  ASSUME WsInv, LiveInv, NEW r \in Rec, TaskStore(r), StaysShut
  PROVE  LiveInv'
<1>1. StoreTypes /\ Taken /\ Coming
  BY DEF WsInv, Types, LiveInv
<1>2. UNCHANGED <<gone, closed, rec, pc, msg, announced>>
  BY DEF TaskStore, net, wrap, locals
<1>3. /\ \A s \in Rec : s # r => task'[s] = task[s]
      /\ peerMap'[rec[r].hash][rec[r].id] # None
      /\ \A h \in InfoHash, i \in PeerID : peerMap'[h][i] = peerMap[h][i] \/ peerMap'[h][i] = r
  BY TaskStoreIs
<1>4. \A h \in InfoHash, i \in PeerID : peerMap'[h][i] = None => peerMap[h][i] = None
  BY <1>3, WsAssumption
<1>5. Grows
  BY <1>2, Unannounced
<1>6. Onward
  BY <1>2, <1>5 DEF Onward, StaysShut
<1>7. Taken'
  BY <1>1, <1>2, <1>6, TakenSame
<1>8. Coming'
  <2> SUFFICES ASSUME NEW d \in Conn, NEW h \in InfoHash, NEW i \in PeerID,
                      <<h, i>> \in announced'[d], ~Shut(d)', Sole(d, h, i)', peerMap'[h][i] = None
               PROVE  Pending(d, h, i)'
    BY DEF Coming
  <2>1. Pending(d, h, i)
    BY <1>1, <1>2, <1>4 DEF Coming, Sole, StaysShut
  <2>2. ASSUME NEW s \in Rec, task[s] # "none", rec[s].hash = h, rec[s].id = i PROVE task'[s] # "none"
    BY <1>3, <2>2
  <2> QED
    BY <1>2, <2>1, <2>2 DEF Pending
<1> QED
  BY <1>7, <1>8 DEF LiveInv

LEMMA LiveNext == WsInv /\ LiveInv /\ [Next]_vars => LiveInv'
<1> SUFFICES ASSUME WsInv, LiveInv, [Next]_vars PROVE LiveInv'
  OBVIOUS
<1>1. LocalTypes /\ gone \in [Conn -> BOOLEAN]
  BY DEF WsInv, Types, WrapTypes
<1>0. StaysShut
  BY ShutByCallback DEF StaysShut
<1>2. CASE UNCHANGED vars
  BY <1>2, <1>0, LiveSame DEF vars, net, wrap, store, locals, history
<1>3. ASSUME NEW c \in Conn, Leave(c) \/ Stall(c) \/ Resume(c) PROVE LiveInv'
  <2>1. UNCHANGED <<peerMap, rec, task, announced, pc, msg>>
    BY <1>3 DEF Leave, Stall, Resume, wrap, store, locals, history
  <2>2. \A d \in Conn : gone[d] => gone'[d]
    BY <1>1, <1>3 DEF Leave, Stall, Resume
  <2> QED
    BY <2>1, <2>2, <1>0, LiveSame
<1>4. ASSUME NEW c \in Conn, NEW m \in Messages[c], Reject(c, m) \/ Scrape(c, m) \/ Answer(c, m) PROVE LiveInv'
  <2>1. UNCHANGED <<gone, peerMap, rec, task, announced>>
    BY <1>4 DEF Reject, Scrape, Answer, net, wrap, store
  <2>2. pc[c] = "read" /\ \A d \in Conn : d # c => pc'[d] = pc[d] /\ msg'[d] = msg[d]
    BY <1>1, <1>4 DEF Reject, Scrape, Answer, Reads, Send, Goto, LocalTypes
  <2> QED
    BY <2>1, <2>2, <1>0, LiveSame
<1>5. ASSUME NEW c \in Conn, RangePeers(c) \/ NextOffer(c) \/ SendOffer(c) \/ Decoded(c) \/ ReadFails(c) \/ Lock(c)
                           \/ CloseAgain(c) \/ Close(c)
      PROVE  LiveInv'
  <2>1. UNCHANGED <<gone, peerMap, rec, task, announced>>
    BY <1>5 DEF RangePeers, NextOffer, SendOffer, Decoded, ReadFails, Lock, CloseAgain, Close,
                net, wrap, store, history
  <2>2. pc[c] \notin {"first", "stop"}
    BY <1>5 DEF RangePeers, NextOffer, SendOffer, Decoded, ReadFails, Lock, CloseAgain, Close
  <2>3. ASSUME NEW d \in Conn, d # c PROVE pc'[d] = pc[d] /\ msg'[d] = msg[d]
    <3>1. CASE NextOffer(c)
      BY <1>1, <2>3, <3>1 DEF NextOffer, Send, Return, Goto, LocalTypes
    <3>2. CASE RangePeers(c) \/ ReadFails(c) \/ Lock(c) \/ CloseAgain(c) \/ Close(c)
      BY <1>1, <2>3, <3>2 DEF RangePeers, ReadFails, Lock, CloseAgain, Close, Send, Goto, LocalTypes, locals
    <3>3. CASE SendOffer(c) \/ Decoded(c)
      BY <1>1, <2>3, <3>3 DEF SendOffer, Decoded, Send, Return, Goto, LocalTypes
    <3> QED
      BY <1>5, <3>1, <3>2, <3>3
  <2> QED
    BY <2>1, <2>2, <2>3, <1>0, LiveSame
<1>6. ASSUME NEW c \in Conn, WriteClosed(c) \/ Write(c) PROVE LiveInv'
  <2>1. UNCHANGED <<gone, peerMap, rec, task, announced>>
    BY <1>6 DEF WriteClosed, Write, net, wrap, store, history
  <2>2. pc[c] \in {"send", "write"} /\ AfterWrite(c, TRUE)
    BY <1>6 DEF WriteClosed, Write
  <2> QED
    BY <2>1, <2>2, AfterWriteOnly, <1>0, LiveSame
<1>7. ASSUME NEW c \in Conn, Receive(c) PROVE LiveInv'
  BY <1>0, <1>4, <1>7, LiveAnnounce DEF Receive
<1>8. ASSUME NEW c \in Conn, Proceed(c) PROVE LiveInv'
  BY <1>0, <1>5, <1>6, <1>8, LiveStoreFirst, LiveDeleteStopped, LiveCallback, LiveWriteFails DEF Proceed
<1>9. ASSUME NEW r \in Rec, TaskLook(r) \/ TaskStore(r) PROVE LiveInv'
  BY <1>0, <1>9, LiveTaskLook, LiveTaskStore
<1> QED
  BY <1>2, <1>3, <1>7, <1>8, <1>9 DEF Next, Idle

(* A peer whose connection is open is in its torrent, with this            *)
(* connection, once the tasks for it have run, when no other connection    *)
(* ever announced it: no close, stop, failed write or late task of other   *)
(* connections takes it away, in whatever order they come                  *)
(* (websocket/manager.go HandleAnnouncePeer, model/ws.go Close).           *)
THEOREM LivePeerListed == Spec => []LiveIsListed
<1>1. Init => LiveInv
  BY DEF Init, LiveInv, Taken, Coming
<1> QED
  BY <1>1, WsInvariant, LiveNext, LiveInvListed, PTL DEF Spec

-----------------------------------------------------------------------------
(* Offers and answers arrive where they should. *)

OfferGot(c) == {g \in got[c] : g.kind = "offer"}
(* The handler is about to write an offer, or is between two offers. *)
Flying(c) == pc[c] = "offer" \/ (pc[c] \in {"send", "write"} /\ phase[c] = "offer")
OfferLoop(c) == pc[c] = "offers" \/ Flying(c)

GotVia(c) == \A g \in got[c] : g.via \in Conn /\ <<g.hash, g.id>> \in announced[g.via]
GotOffers(c) ==
  /\ \A g \in OfferGot(c) : g.id # g.from
  /\ \A g, k \in OfferGot(c) : g # k => g.id # k.id /\ (g.even => g.n # k.n)
(* Nothing has been delivered for a message before its first write. *)
GotNone(c) ==
  \/ pc[c] \in {"first", "stop", "stopping", "delete", "range", "decode"}
  \/ pc[c] \in {"send", "write"} /\ phase[c] \in {"reply", "answer"}
  => got[c] = {}
(* The peers served are not those to serve, and the indexes used are       *)
(* those counted.                                                          *)
GotLoop(c) ==
  OfferLoop(c) =>
    /\ \A g \in OfferGot(c), r \in todo[c] : g.id # rec[r].id
    /\ \A g \in OfferGot(c) : (g.even <=> Even(c)) /\ (g.even => g.n \in Nat /\ g.n <= sent[c])
GotFlying(c) ==
  Flying(c) =>
    /\ Even(c) => pick[c] = sent[c]
    /\ \A r \in todo[c] : rec[r].id # rec[target[c]].id
    /\ \A g \in OfferGot(c) : g.id # rec[target[c]].id /\ (g.even => g.n < sent[c])
GotHandler(c) == GotVia(c) /\ GotOffers(c) /\ GotNone(c) /\ GotLoop(c) /\ GotFlying(c)
GotInv == DOMAIN got = Conn /\ \A c \in Conn : GotHandler(c)

LEMMA GotInvSound == GotInv => SignalsSound
BY DEF GotInv, GotHandler, GotVia, GotOffers, OfferGot, SignalsSound

(* Those whose handler does nothing. *)
LEMMA GotSame ==
  ASSUME WsInv, NEW d \in Conn, GotHandler(d), RecStays, Grows, SameHandler(d), got'[d] = got[d]
  PROVE  GotHandler(d)'
<1>1. Todo(d) /\ Sending(d) /\ Serving(d) /\ todo[d] \subseteq Rec
  BY DEF WsInv, Types, LocalTypes, Handlers, Handler
<1>2. SameLocals(d) /\ pc'[d] = pc[d]
  BY DEF SameHandler
<1>3. (Even(d)' <=> Even(d)) /\ OfferGot(d)' = OfferGot(d)
  BY <1>2 DEF SameLocals, Even, OfferGot
<1>4. GotVia(d)'
  BY DEF GotHandler, GotVia, Grows
<1>5. GotOffers(d)'
  BY <1>3 DEF GotHandler, GotOffers
<1>6. GotNone(d)'
  BY <1>2 DEF GotHandler, GotNone, SameLocals
<1>7. (Flying(d)' <=> Flying(d)) /\ (OfferLoop(d)' <=> OfferLoop(d))
  BY <1>2 DEF Flying, OfferLoop, SameLocals
<1>8. \A r \in todo[d] : rec'[r].id = rec[r].id
  BY <1>1 DEF Todo, RecStays
<1>9. GotLoop(d)'
  BY <1>2, <1>3, <1>7, <1>8 DEF GotHandler, GotLoop, SameLocals
<1>10. Flying(d) => rec'[target[d]].id = rec[target[d]].id
  BY <1>1 DEF Flying, Sending, Serving, RecStays
<1>11. GotFlying(d)'
  BY <1>2, <1>3, <1>7, <1>8, <1>10 DEF GotHandler, GotFlying, SameLocals
<1> QED
  BY <1>4, <1>5, <1>6, <1>9, <1>11 DEF GotHandler

LEMMA GotBut ==
  ASSUME WsInv, GotInv, RecStays, Grows, NEW c \in Conn, Others(c), DOMAIN got' = Conn,
         \A d \in Conn : d # c => got'[d] = got[d], GotHandler(c)'
  PROVE  GotInv'
BY GotSame DEF GotInv, Others

(* A message is done with. *)
LEMMA GotEnds ==
  ASSUME NEW c \in Conn, GotHandler(c), Grows, got'[c] = got[c],
         pc'[c] \in {"close", "closing", "read", "end"} \/ (pc'[c] = "send" /\ phase'[c] = "error")
  PROVE  GotHandler(c)'
<1>1. GotVia(c)'
  BY DEF GotHandler, GotVia, Grows
<1>2. OfferGot(c)' = OfferGot(c)
  BY DEF OfferGot
<1>3. GotOffers(c)'
  BY <1>2 DEF GotHandler, GotOffers
<1> QED
  BY <1>1, <1>3 DEF GotHandler, GotNone, GotLoop, GotFlying, OfferLoop, Flying

(* A message is at its beginning. *)
LEMMA GotFresh ==
  ASSUME NEW c \in Conn, got'[c] = {}, ~OfferLoop(c)'
  PROVE  GotHandler(c)'
BY DEF GotHandler, GotVia, GotOffers, OfferGot, GotNone, GotLoop, GotFlying, OfferLoop, Flying

(* The next offer. *)
LEMMA GotNextOffer ==
  ASSUME WsInv, NEW c \in Conn, GotHandler(c), NextOffer(c), ~Return(c, "read"), got'[c] = got[c]
  PROVE  GotHandler(c)'
<1>1. LocalTypes /\ Todo(c) /\ pc[c] = "offers"
  BY DEF WsInv, Types, Handlers, Handler, NextOffer
<1>2. PICK r \in todo[c], n \in OfferFor(c) :
        /\ IF rec[r].conn = None THEN UNCHANGED pc ELSE Goto(c, "offer")
        /\ target' = [target EXCEPT ![c] = r]
        /\ pick' = [pick EXCEPT ![c] = n]
        /\ todo' = [todo EXCEPT ![c] = @ \ {r}]
        /\ sent' = [sent EXCEPT ![c] = @ + 1]
        /\ UNCHANGED <<phase, msg, mine, to>>
  BY DEF NextOffer
<1>3. UNCHANGED <<rec, announced>>
  BY DEF NextOffer, store, history
<1>4. /\ n \in Nat /\ sent[c] + 1 \in 0..MaxAnnounces
      /\ (sent[c] + 1) + Cardinality(todo[c] \ {r}) = sent[c] + Cardinality(todo[c])
  BY <1>1, OfferIs
<1>5. /\ target'[c] = r /\ pick'[c] = n /\ todo'[c] = todo[c] \ {r} /\ sent'[c] = sent[c] + 1
      /\ msg'[c] = msg[c]
  BY <1>1, <1>2 DEF LocalTypes
<1>6. (Even(c)' <=> Even(c)) /\ OfferGot(c)' = OfferGot(c)
  BY <1>4, <1>5 DEF Even, OfferGot
<1>7. GotVia(c)' /\ GotOffers(c)'
  BY <1>3, <1>6 DEF GotHandler, GotVia, GotOffers
<1>8. pc'[c] \in {"offers", "offer"}
  BY <1>1, <1>2 DEF Goto, LocalTypes
<1>9. /\ \A g \in OfferGot(c), q \in todo[c] : g.id # rec[q].id
      /\ \A g \in OfferGot(c) : (g.even <=> Even(c)) /\ (g.even => g.n \in Nat /\ g.n <= sent[c])
  BY <1>1 DEF GotHandler, GotLoop, OfferLoop
<1>10. sent[c] \in Nat
  BY <1>1, WsAssumption DEF LocalTypes
<1>11. GotNone(c)'
  BY <1>8 DEF GotNone
<1>12. GotLoop(c)'
  BY <1>3, <1>5, <1>6, <1>9, <1>10 DEF GotLoop
<1>13. GotFlying(c)'
  <2>1. Even(c)' => pick'[c] = sent'[c]
    BY <1>5, <1>6 DEF OfferFor
  <2>2. \A q \in todo'[c] : rec'[q].id # rec'[target'[c]].id
    BY <1>1, <1>3, <1>5 DEF Todo
  <2>3. \A g \in OfferGot(c)' : g.id # rec'[target'[c]].id /\ (g.even => g.n < sent'[c])
    BY <1>3, <1>5, <1>6, <1>9, <1>10
  <2> QED
    BY <2>1, <2>2, <2>3 DEF GotFlying
<1> QED
  BY <1>7, <1>11, <1>12, <1>13 DEF GotHandler

(* What arrives is not what arrived before. *)
LEMMA DeliveryIs ==
  ASSUME WsInv, NEW c \in Conn, GotHandler(c), pc[c] = "write"
  PROVE  \/ Delivery(c) = {}
         \/ phase[c] = "answer" /\ \A g \in Delivery(c) : /\ g.kind = "answer" /\ g.via \in Conn
                                                           /\ <<g.hash, g.id>> \in announced[g.via]
         \/ /\ phase[c] = "offer"
            /\ \E g \in Delivery(c) :
                 /\ Delivery(c) = {g} /\ (g.even <=> Even(c))
                 /\ g.kind = "offer" /\ g.via \in Conn /\ <<g.hash, g.id>> \in announced[g.via]
                 /\ g.id # g.from /\ g.id = rec[target[c]].id /\ g.n = pick[c]
<1>1. Sending(c)
  BY DEF WsInv, Handlers, Handler
<1>2. CASE phase[c] = "offer"
  <2> DEFINE g == [kind |-> "offer", even |-> Even(c), n |-> pick[c], via |-> to[c],
                   hash |-> msg[c].hash, from |-> msg[c].id, id |-> rec[target[c]].id]
  <2>1. Delivery(c) = {g}
    BY <1>2 DEF Delivery
  <2>2. /\ to[c] \in Conn /\ KeyOf(target[c]) \in announced[to[c]]
        /\ rec[target[c]].hash = msg[c].hash /\ rec[target[c]].id # msg[c].id
    BY <1>1, <1>2 DEF Sending
  <2>3. <<g.hash, g.id>> \in announced[g.via]
    BY <2>2 DEF KeyOf
  <2>4. g.even <=> Even(c)
    OBVIOUS
  <2>5. /\ g.kind = "offer" /\ g.via \in Conn /\ g.id # g.from
        /\ g.id = rec[target[c]].id /\ g.n = pick[c]
    BY <2>2
  <2> HIDE DEF g
  <2> QED
    BY <1>2, <2>1, <2>3, <2>4, <2>5
<1>3. CASE phase[c] = "answer"
  <2> DEFINE g == [kind |-> "answer", via |-> to[c], hash |-> msg[c].hash, id |-> msg[c].to]
  <2>1. Delivery(c) = {g}
    BY <1>3 DEF Delivery
  <2>2. to[c] \in Conn /\ KeyOf(target[c]) \in announced[to[c]] /\ KeyOf(target[c]) = <<msg[c].hash, msg[c].to>>
    BY <1>1, <1>3 DEF Sending
  <2> QED
    BY <1>3, <2>1, <2>2
<1>4. CASE phase[c] \notin {"offer", "answer"}
  BY <1>4 DEF Delivery
<1> QED
  BY <1>2, <1>3, <1>4

(* An offer that was written: one more peer served. *)
LEMMA GotOneMore ==
  ASSUME WsInv, NEW c \in Conn, GotHandler(c), pc[c] = "write", phase[c] = "offer", NEW x,
         (x.even <=> Even(c)), x.kind = "offer", x.via \in Conn, <<x.hash, x.id>> \in announced[x.via],
         x.id # x.from, x.id = rec[target[c]].id, x.n = pick[c]
  PROVE  LET new == OfferGot(c) \cup {x}
         IN  /\ {g \in got[c] \cup {x} : g.kind = "offer"} = new
             /\ \A g \in got[c] \cup {x} : g.via \in Conn /\ <<g.hash, g.id>> \in announced[g.via]
             /\ \A g \in new : g.id # g.from
             /\ \A g, k \in new : g # k => g.id # k.id /\ (g.even => g.n # k.n)
             /\ \A g \in new, r \in todo[c] : g.id # rec[r].id
             /\ \A g \in new : (g.even <=> Even(c)) /\ (g.even => g.n \in Nat /\ g.n <= sent[c])
<1>1. sent[c] \in Nat /\ OfferLoop(c) /\ Flying(c)
  BY WsAssumption DEF WsInv, Types, LocalTypes, OfferLoop, Flying
<1>2. /\ Even(c) => pick[c] = sent[c]
      /\ \A r \in todo[c] : rec[r].id # rec[target[c]].id
      /\ \A g \in OfferGot(c) : g.id # rec[target[c]].id /\ (g.even => g.n < sent[c])
  BY <1>1 DEF GotHandler, GotFlying
<1>3. /\ \A g \in OfferGot(c), r \in todo[c] : g.id # rec[r].id
      /\ \A g \in OfferGot(c) : (g.even <=> Even(c)) /\ (g.even => g.n \in Nat /\ g.n <= sent[c])
  BY <1>1 DEF GotHandler, GotLoop
<1>4. {g \in got[c] \cup {x} : g.kind = "offer"} = OfferGot(c) \cup {x}
  BY DEF OfferGot
<1>5. \A g \in got[c] \cup {x} : g.via \in Conn /\ <<g.hash, g.id>> \in announced[g.via]
  BY DEF GotHandler, GotVia
<1>6. /\ \A g \in OfferGot(c) : g.id # g.from
      /\ \A g, k \in OfferGot(c) : g # k => g.id # k.id /\ (g.even => g.n # k.n)
  BY DEF GotHandler, GotOffers
<1>7. ASSUME NEW g \in OfferGot(c) PROVE g.id # x.id /\ (g.even => g.n # x.n) /\ (x.even => x.n # g.n)
  BY <1>1, <1>2, <1>3
<1>8. \A g, k \in OfferGot(c) \cup {x} : g # k => g.id # k.id /\ (g.even => g.n # k.n)
  BY <1>6, <1>7
<1>9. \A g \in OfferGot(c) \cup {x}, r \in todo[c] : g.id # rec[r].id
  BY <1>2, <1>3
<1>10. \A g \in OfferGot(c) \cup {x} : (g.even <=> Even(c)) /\ (g.even => g.n \in Nat /\ g.n <= sent[c])
  BY <1>1, <1>2, <1>3
<1> QED
  BY <1>4, <1>5, <1>6, <1>8, <1>9, <1>10

(* What holds of got and of the handler once a write has returned, when    *)
(* set is what has been delivered by then.                                 *)
LEMMA GotAfterWrite ==
  ASSUME WsInv, RecStays, Grows, NEW c \in Conn, NEW ok \in BOOLEAN, AfterWrite(c, ok), NEW set, got'[c] = set,
         \A g \in set : g.via \in Conn /\ <<g.hash, g.id>> \in announced[g.via],
         \A g \in set : g.kind = "offer" => g.id # g.from,
         \A g, k \in set : g.kind = "offer" /\ k.kind = "offer" /\ g # k => g.id # k.id /\ (g.even => g.n # k.n),
         phase[c] \in {"reply", "offer"} =>
           \A g \in set : g.kind = "offer" =>
             /\ \A r \in todo[c] : g.id # rec[r].id
             /\ (g.even <=> Even(c)) /\ (g.even => g.n \in Nat /\ g.n <= sent[c])
  PROVE  GotHandler(c)'
<1>1. GotVia(c)'
  BY DEF GotVia, Grows
<1>2. OfferGot(c)' = {g \in set : g.kind = "offer"}
  BY DEF OfferGot
<1>3. GotOffers(c)'
  BY <1>2 DEF GotOffers
<1>4. LocalTypes /\ Todo(c)
  BY DEF WsInv, Types, Handlers, Handler
<1>5. CASE \/ Return(c, "close")
           \/ Send(c, c, "error") /\ UNCHANGED <<msg, mine, todo, sent, pick, target>>
           \/ Return(c, "read")
  <2>1. pc'[c] \in {"close", "read"} \/ (pc'[c] = "send" /\ phase'[c] = "error")
    BY <1>4, <1>5 DEF LocalTypes, Goto, Send, Return
  <2> QED
    BY <1>1, <1>3, <2>1 DEF GotHandler, GotNone, GotLoop, GotFlying, OfferLoop, Flying
<1>6. CASE Goto(c, "offers") /\ UNCHANGED locals /\ phase[c] \in {"reply", "offer"} /\ todo[c] # {}
  <2>1. pc'[c] = "offers" /\ todo'[c] = todo[c] /\ sent'[c] = sent[c] /\ msg'[c] = msg[c]
    BY <1>4, <1>6 DEF LocalTypes, Goto, locals
  <2>2. \A r \in todo[c] : rec'[r].id = rec[r].id
    BY <1>4 DEF LocalTypes, Todo, RecStays
  <2>3. Even(c)' <=> Even(c)
    BY <2>1 DEF Even
  <2>4. GotLoop(c)'
    BY <1>2, <1>6, <2>1, <2>2, <2>3 DEF GotLoop
  <2> QED
    BY <1>1, <1>3, <2>1, <2>4 DEF GotHandler, GotNone, GotFlying, Flying
<1> QED
  BY <1>5, <1>6, AfterWriteIs

(* A write that delivers nothing. *)
LEMMA GotUnwritten ==
  ASSUME WsInv, RecStays, Grows, NEW c \in Conn, GotHandler(c), pc[c] \in {"send", "write"},
         NEW ok \in BOOLEAN, AfterWrite(c, ok), got'[c] = got[c]
  PROVE  GotHandler(c)'
<1>1. /\ \A g \in got[c] : g.via \in Conn /\ <<g.hash, g.id>> \in announced[g.via]
      /\ \A g \in got[c] : g.kind = "offer" => g.id # g.from
      /\ \A g, k \in got[c] : g.kind = "offer" /\ k.kind = "offer" /\ g # k => g.id # k.id /\ (g.even => g.n # k.n)
  BY DEF GotHandler, GotVia, GotOffers, OfferGot
<1>2. ASSUME phase[c] \in {"reply", "offer"}, NEW g \in got[c], g.kind = "offer"
      PROVE  /\ \A r \in todo[c] : g.id # rec[r].id
             /\ (g.even <=> Even(c)) /\ (g.even => g.n \in Nat /\ g.n <= sent[c])
  <2>1. CASE phase[c] = "reply"
    BY <1>2, <2>1 DEF GotHandler, GotNone
  <2>2. CASE phase[c] = "offer"
    BY <1>2, <2>2 DEF GotHandler, GotLoop, OfferLoop, Flying, OfferGot
  <2> QED
    BY <1>2, <2>1, <2>2
<1> QED
  BY <1>1, <1>2, GotAfterWrite

LEMMA GotWrite ==
  ASSUME WsInv, NEW c \in Conn, GotHandler(c), Write(c), got'[c] = got[c] \cup Delivery(c)
  PROVE  GotHandler(c)'
<1>1. pc[c] = "write" /\ AfterWrite(c, TRUE) /\ UNCHANGED <<rec, announced>>
  BY DEF Write, store
<1>2. RecStays /\ Grows
  BY <1>1, Unstored, Unannounced DEF WsInv, Types
<1>3. CASE Delivery(c) = {}
  <2>1. got'[c] = got[c]
    BY <1>3
  <2> QED
    BY <1>1, <1>2, <2>1, GotUnwritten
<1>4. CASE phase[c] = "answer" /\ \A g \in Delivery(c) : /\ g.kind = "answer" /\ g.via \in Conn
                                                         /\ <<g.hash, g.id>> \in announced[g.via]
  <2>1. got'[c] = Delivery(c)
    BY <1>1, <1>4 DEF GotHandler, GotNone
  <2> QED
    BY <1>1, <1>2, <1>4, <2>1, GotAfterWrite
<1>5. CASE /\ phase[c] = "offer"
           /\ \E g \in Delivery(c) :
                 /\ Delivery(c) = {g} /\ (g.even <=> Even(c))
                 /\ g.kind = "offer" /\ g.via \in Conn /\ <<g.hash, g.id>> \in announced[g.via]
                 /\ g.id # g.from /\ g.id = rec[target[c]].id /\ g.n = pick[c]
  <2>1. PICK x : /\ Delivery(c) = {x} /\ (x.even <=> Even(c))
                 /\ x.kind = "offer" /\ x.via \in Conn /\ <<x.hash, x.id>> \in announced[x.via]
                 /\ x.id # x.from /\ x.id = rec[target[c]].id /\ x.n = pick[c]
    BY <1>5
  <2> DEFINE new == OfferGot(c) \cup {x}
  <2>2. /\ {g \in got[c] \cup {x} : g.kind = "offer"} = new
        /\ \A g \in got[c] \cup {x} : g.via \in Conn /\ <<g.hash, g.id>> \in announced[g.via]
        /\ \A g \in new : g.id # g.from
        /\ \A g, k \in new : g # k => g.id # k.id /\ (g.even => g.n # k.n)
        /\ \A g \in new, r \in todo[c] : g.id # rec[r].id
        /\ \A g \in new : (g.even <=> Even(c)) /\ (g.even => g.n \in Nat /\ g.n <= sent[c])
    BY <1>1, <1>5, <2>1, GotOneMore
  <2>3. \A g \in got[c] \cup {x} : g.kind = "offer" => g \in new
    BY <2>2
  <2>4. got'[c] = got[c] \cup {x}
    BY <2>1
  <2> HIDE DEF new
  <2> QED
    BY <1>1, <1>2, <2>2, <2>3, <2>4, GotAfterWrite
<1> QED
  BY <1>1, <1>3, <1>4, <1>5, DeliveryIs

LEMMA GotReads ==
  ASSUME WsInv, GotInv, NEW c \in Conn, NEW m \in Messages[c],
         Reject(c, m) \/ Scrape(c, m) \/ Announce(c, m) \/ Answer(c, m)
  PROVE  GotInv'
<1>1. LocalTypes /\ StoreTypes /\ HistoryTypes /\ DOMAIN got = Conn
  BY DEF WsInv, Types, GotInv
<1>2. got' = [got EXCEPT ![c] = {}] /\ UNCHANGED closed
  BY DEF Reject, Scrape, Announce, Answer, Reads, wrap
<1>3. DOMAIN got' = Conn /\ got'[c] = {} /\ \A d \in Conn : d # c => got'[d] = got[d]
  BY <1>1, <1>2
<1>4. CASE Reject(c, m) \/ Scrape(c, m) \/ Answer(c, m)
  <2>1. UNCHANGED <<rec, announced>>
    BY <1>4 DEF Reject, Scrape, Answer, store
  <2>2. RecStays /\ Grows
    BY <1>1, <2>1, Unstored, Unannounced
  <2>3. Others(c)
    <3>1. CASE Reject(c, m) \/ Scrape(c, m)
      BY <1>1, <1>2, <3>1 DEF Reject, Scrape, Send, Goto, Others, SameHandler, SameLocals, LocalTypes
    <3>2. CASE Answer(c, m)
      BY <1>1, <1>2, <3>2 DEF Answer, Goto, Others, SameHandler, SameLocals, LocalTypes
    <3> QED
      BY <1>4, <3>1, <3>2
  <2>4. ~OfferLoop(c)'
    BY <1>1, <1>4 DEF Reject, Scrape, Answer, Send, Goto, LocalTypes, OfferLoop, Flying
  <2> QED
    BY <1>3, <2>2, <2>3, <2>4, GotFresh, GotBut
<1>5. CASE Announce(c, m)
  <2>1. PICK r \in Rec, way \in {"first", "stop", "range"} :
          /\ rec[r] = None
          /\ rec' = [rec EXCEPT ![r] = [hash |-> m.hash, id |-> m.id, event |-> m.event, conn |-> c]]
          /\ mine' = [mine EXCEPT ![c] = r]
          /\ Goto(c, way)
    BY <1>5 DEF Announce
  <2>2. RecStays
    BY <2>1, AnnounceIs
  <2>3. Grows
    BY <1>1, <1>5 DEF Announce, Grows, HistoryTypes
  <2>4. Others(c)
    BY <1>1, <1>2, <1>5, <2>1 DEF Announce, Goto, Others, SameHandler, SameLocals, LocalTypes
  <2>5. ~OfferLoop(c)'
    BY <1>1, <2>1 DEF Goto, LocalTypes, OfferLoop, Flying
  <2> QED
    BY <1>3, <2>2, <2>3, <2>4, <2>5, GotFresh, GotBut
<1> QED
  BY <1>4, <1>5

LEMMA AfterWriteOthers ==
  ASSUME WsInv, NEW c \in Conn, NEW ok \in BOOLEAN, AfterWrite(c, ok), UNCHANGED closed
  PROVE  Others(c)
<1>1. LocalTypes
  BY DEF WsInv, Types
<1>2. CASE UNCHANGED locals /\ Goto(c, "offers")
  BY <1>1, <1>2 DEF LocalTypes, Goto, locals, Others, SameHandler, SameLocals
<1>3. CASE Send(c, c, "error") /\ UNCHANGED <<msg, mine, todo, sent, pick, target>>
  BY <1>1, <1>3 DEF LocalTypes, Goto, Send, Others, SameHandler, SameLocals
<1>4. CASE Return(c, "read") \/ Return(c, "close")
  BY <1>1, <1>4 DEF LocalTypes, Goto, Return, Others, SameHandler, SameLocals
<1> QED
  BY <1>2, <1>3, <1>4, AfterWriteIs

(* The steps before and after the offers, which deliver nothing. *)
LEMMA GotProceeds ==
  ASSUME WsInv, GotInv, NEW c \in Conn,
         StoreFirst(c) \/ DeleteStopped(c) \/ RangePeers(c) \/ Decoded(c) \/ ReadFails(c) \/ Lock(c)
  PROVE  GotInv'
<1>1. LocalTypes /\ StoreTypes /\ DOMAIN got = Conn /\ GotHandler(c)
  BY DEF WsInv, Types, GotInv
<1>2. UNCHANGED <<closed, rec, announced, got>>
  BY DEF StoreFirst, DeleteStopped, RangePeers, Decoded, ReadFails, Lock, wrap, store, history
<1>3. RecStays /\ Grows
  BY <1>1, <1>2, Unstored, Unannounced
<1>4. Others(c)
  <2>1. CASE StoreFirst(c) \/ DeleteStopped(c)
    BY <1>1, <1>2, <2>1 DEF StoreFirst, DeleteStopped, Send, Goto, Others, SameHandler, SameLocals, LocalTypes
  <2>2. CASE RangePeers(c)
    BY <1>1, <1>2, <2>2 DEF RangePeers, Send, Goto, Others, SameHandler, SameLocals, LocalTypes
  <2>3. CASE Decoded(c) \/ ReadFails(c) \/ Lock(c)
    BY <1>1, <1>2, <2>3
       DEF Decoded, ReadFails, Lock, Send, Return, Goto, Others, SameHandler, SameLocals, LocalTypes, locals
  <2> QED
    BY <2>1, <2>2, <2>3
<1>5. GotHandler(c)'
  <2>1. CASE StoreFirst(c) \/ DeleteStopped(c) \/ RangePeers(c)
    <3>1. got'[c] = {}
      BY <1>1, <1>2, <2>1 DEF StoreFirst, DeleteStopped, RangePeers, GotHandler, GotNone
    <3>2. ~OfferLoop(c)'
      BY <1>1, <2>1 DEF StoreFirst, DeleteStopped, RangePeers, Send, Goto, LocalTypes, OfferLoop, Flying
    <3> QED
      BY <3>1, <3>2, GotFresh
  <2>2. CASE Decoded(c)
    <3>1. got'[c] = {}
      BY <1>1, <1>2, <2>2 DEF Decoded, GotHandler, GotNone
    <3>2. ~OfferLoop(c)'
      BY <1>1, <2>2 DEF Decoded, Send, Return, Goto, LocalTypes, OfferLoop, Flying
    <3> QED
      BY <3>1, <3>2, GotFresh
  <2>3. CASE ReadFails(c)
    BY <1>1, <1>2, <1>3, <2>3, GotEnds DEF ReadFails, Goto, LocalTypes
  <2>4. CASE Lock(c)
    <3>1. pc[c] = "send" /\ pc'[c] = "write" /\ UNCHANGED locals
      BY <1>1, <2>4 DEF Lock, Goto, LocalTypes
    <3>2. /\ UNCHANGED <<phase, msg, todo, sent, pick, target>>
      BY <3>1 DEF locals
    <3>3. (Even(c)' <=> Even(c)) /\ OfferGot(c)' = OfferGot(c)
      BY <1>2, <3>2 DEF Even, OfferGot
    <3>4. GotVia(c)' /\ GotOffers(c)' /\ GotNone(c)'
      BY <1>1, <1>2, <3>1, <3>2, <3>3 DEF GotHandler, GotVia, GotOffers, GotNone
    <3>5. GotLoop(c)'
      BY <1>1, <1>2, <3>1, <3>2, <3>3 DEF GotHandler, GotLoop, OfferLoop, Flying
    <3>6. GotFlying(c)'
      BY <1>1, <1>2, <3>1, <3>2, <3>3 DEF GotHandler, GotFlying, Flying
    <3> QED
      BY <3>4, <3>5, <3>6 DEF GotHandler
  <2> QED
    BY <2>1, <2>2, <2>3, <2>4
<1> QED
  BY <1>1, <1>2, <1>3, <1>4, <1>5, GotBut

LEMMA GotNextStep ==
  ASSUME WsInv, GotInv, NEW c \in Conn, NextOffer(c)
  PROVE  GotInv'
<1>1. LocalTypes /\ StoreTypes /\ DOMAIN got = Conn /\ GotHandler(c)
  BY DEF WsInv, Types, GotInv
<1>2. UNCHANGED <<closed, rec, announced, got>>
  BY DEF NextOffer, wrap, store, history
<1>3. RecStays /\ Grows
  BY <1>1, <1>2, Unstored, Unannounced
<1>4. Others(c)
  BY <1>1, <1>2 DEF NextOffer, Return, Send, Goto, Others, SameHandler, SameLocals, LocalTypes
<1>5. GotHandler(c)'
  <2>1. CASE Return(c, "read")
    BY <1>1, <1>2, <1>3, <2>1, GotEnds DEF Return, Goto, LocalTypes
  <2>2. CASE ~Return(c, "read")
    BY <1>1, <1>2, <2>2, GotNextOffer
  <2> QED
    BY <2>1, <2>2
<1> QED
  BY <1>1, <1>2, <1>3, <1>4, <1>5, GotBut

LEMMA GotSendOffer ==
  ASSUME WsInv, GotInv, NEW c \in Conn, SendOffer(c)
  PROVE  GotInv'
<1>1. LocalTypes /\ StoreTypes /\ DOMAIN got = Conn /\ GotHandler(c)
  BY DEF WsInv, Types, GotInv
<1>2. UNCHANGED <<closed, rec, announced, got>> /\ pc[c] = "offer"
  BY DEF SendOffer, wrap, store, history
<1>3. RecStays /\ Grows
  BY <1>1, <1>2, Unstored, Unannounced
<1>4. Others(c)
  BY <1>1, <1>2 DEF SendOffer, Return, Send, Goto, Others, SameHandler, SameLocals, LocalTypes
<1>5. GotHandler(c)'
  <2>1. CASE Return(c, "close")
    BY <1>1, <1>2, <1>3, <2>1, GotEnds DEF Return, Goto, LocalTypes
  <2>2. CASE ~Return(c, "close")
    <3>1. /\ UNCHANGED <<msg, todo, sent, pick, target>> /\ pc'[c] = "send" /\ phase'[c] = "offer"
      BY <1>1, <2>2 DEF SendOffer, Send, Goto, LocalTypes
    <3>2. (Even(c)' <=> Even(c)) /\ OfferGot(c)' = OfferGot(c)
      BY <1>2, <3>1 DEF Even, OfferGot
    <3>3. GotVia(c)' /\ GotOffers(c)' /\ GotNone(c)'
      BY <1>1, <1>2, <3>1, <3>2 DEF GotHandler, GotVia, GotOffers, GotNone
    <3>4. GotLoop(c)'
      BY <1>1, <1>2, <3>1, <3>2 DEF GotHandler, GotLoop, OfferLoop, Flying
    <3>5. GotFlying(c)'
      BY <1>1, <1>2, <3>1, <3>2 DEF GotHandler, GotFlying, Flying
    <3> QED
      BY <3>3, <3>4, <3>5 DEF GotHandler
  <2> QED
    BY <2>1, <2>2
<1> QED
  BY <1>1, <1>2, <1>3, <1>4, <1>5, GotBut

LEMMA GotWrites ==
  ASSUME WsInv, GotInv, NEW c \in Conn, WriteClosed(c) \/ Write(c) \/ WriteFails(c)
  PROVE  GotInv'
<1>1. StoreTypes /\ DOMAIN got = Conn /\ GotHandler(c)
  BY DEF WsInv, Types, GotInv
<1>2. UNCHANGED <<closed, announced>> /\ pc[c] \in {"send", "write"}
  BY DEF WriteClosed, Write, WriteFails, wrap, history
<1>3. PICK ok \in BOOLEAN : AfterWrite(c, ok)
  BY WriteFailsIs DEF WriteClosed, Write
<1>4. Grows /\ Others(c)
  BY <1>2, <1>3, Unannounced, AfterWriteOthers
<1>5. RecStays
  <2>1. CASE WriteFails(c)
    BY <1>1, <2>1, WriteFailsIs, Unstored, ConnTaken
  <2>2. CASE WriteClosed(c) \/ Write(c)
    BY <1>1, <2>2, Unstored DEF WriteClosed, Write, store
  <2> QED
    BY <2>1, <2>2
<1>6. CASE WriteClosed(c) \/ WriteFails(c)
  <2>1. UNCHANGED got
    BY <1>6 DEF WriteClosed, WriteFails, history
  <2>2. GotHandler(c)'
    BY <1>1, <1>2, <1>3, <1>4, <1>5, <2>1, GotUnwritten
  <2> QED
    BY <1>1, <1>4, <1>5, <2>1, <2>2, GotBut
<1>7. CASE Write(c)
  <2>1. got' = [got EXCEPT ![c] = @ \cup Delivery(c)]
    BY <1>7 DEF Write
  <2>2. DOMAIN got' = Conn /\ got'[c] = got[c] \cup Delivery(c) /\ \A d \in Conn : d # c => got'[d] = got[d]
    BY <1>1, <2>1
  <2>3. GotHandler(c)'
    BY <1>1, <1>7, <2>2, GotWrite
  <2> QED
    BY <1>4, <1>5, <2>2, <2>3, GotBut
<1> QED
  BY <1>6, <1>7

LEMMA GotCloses ==
  ASSUME WsInv, GotInv, NEW c \in Conn, Callback(c) \/ Close(c) \/ CloseAgain(c)
  PROVE  GotInv'
<1>1. LocalTypes /\ StoreTypes /\ WrapTypes /\ DOMAIN got = Conn /\ GotHandler(c)
  BY DEF WsInv, Types, GotInv
<1>2. UNCHANGED <<announced, got>> /\ UNCHANGED locals
  BY DEF Callback, Close, CloseAgain, history
<1>3. RecStays
  <2>1. CASE Callback(c)
    BY <2>1, UnlinkIs DEF Callback
  <2>2. CASE Close(c) \/ CloseAgain(c)
    BY <1>1, <2>2, Unstored DEF Close, CloseAgain, store
  <2> QED
    BY <2>1, <2>2
<1>4. Grows
  BY <1>2, Unannounced
<1>5. /\ \A d \in Conn : d # c => pc'[d] = pc[d] /\ (closed'[d] <=> closed[d])
      /\ \/ pc'[c] \in {"closing", "end"}
         \/ pc[c] \in {"stop", "stopping"} /\ pc'[c] \in {"stopping", "delete"}
  BY <1>1 DEF Callback, Close, CloseAgain, Goto, LocalTypes, WrapTypes, wrap
<1>6. Others(c)
  BY <1>2, <1>5 DEF Others, SameHandler, SameLocals, locals
<1>7. GotHandler(c)'
  <2>1. CASE pc'[c] \in {"closing", "end"}
    BY <1>1, <1>2, <1>4, <2>1, GotEnds
  <2>2. CASE pc[c] \in {"stop", "stopping"} /\ pc'[c] \in {"stopping", "delete"}
    <3>1. got'[c] = {}
      BY <1>1, <1>2, <2>2 DEF GotHandler, GotNone
    <3>2. ~OfferLoop(c)'
      BY <2>2 DEF OfferLoop, Flying
    <3> QED
      BY <3>1, <3>2, GotFresh
  <2> QED
    BY <1>5, <2>1, <2>2
<1> QED
  BY <1>1, <1>2, <1>3, <1>4, <1>6, <1>7, GotBut

(* The steps of nobody's handler. *)
LEMMA GotStill ==
  ASSUME WsInv, GotInv, RecStays, UNCHANGED <<closed, pc, locals, announced, got>>
  PROVE  GotInv'
<1>1. Grows
  BY Unannounced
<1>2. \A d \in Conn : SameHandler(d)
  BY DEF SameHandler, SameLocals, locals
<1> QED
  BY <1>1, <1>2, GotSame DEF GotInv

LEMMA GotNext == WsInv /\ GotInv /\ [Next]_vars => GotInv'
<1> SUFFICES ASSUME WsInv, GotInv, [Next]_vars PROVE GotInv'
  OBVIOUS
<1>1. StoreTypes
  BY DEF WsInv, Types
<1>2. CASE UNCHANGED vars
  <2>1. UNCHANGED <<closed, pc, locals, announced, got>> /\ UNCHANGED rec
    BY <1>2 DEF vars, wrap, store, history
  <2> QED
    BY <1>1, <2>1, Unstored, GotStill
<1>3. ASSUME NEW c \in Conn, Leave(c) \/ Stall(c) \/ Resume(c) PROVE GotInv'
  <2>1. UNCHANGED <<closed, pc, locals, announced, got>> /\ UNCHANGED rec
    BY <1>3 DEF Leave, Stall, Resume, wrap, store, history
  <2> QED
    BY <1>1, <2>1, Unstored, GotStill
<1>4. ASSUME NEW r \in Rec, TaskLook(r) PROVE GotInv'
  BY <1>4, TaskLookIs, GotStill DEF TaskLook, wrap, history
<1>5. ASSUME NEW r \in Rec, TaskStore(r) PROVE GotInv'
  BY <1>1, <1>5, Unstored, GotStill DEF TaskStore, wrap
<1>6. ASSUME NEW c \in Conn, Receive(c) PROVE GotInv'
  BY <1>6, GotReads DEF Receive
<1>7. ASSUME NEW c \in Conn, Proceed(c) PROVE GotInv'
  BY <1>7, GotProceeds, GotNextStep, GotSendOffer, GotWrites, GotCloses DEF Proceed
<1> QED
  BY <1>2, <1>3, <1>4, <1>5, <1>6, <1>7 DEF Next, Idle

(* Signalling goes where it should, whoever closes, stops, joins or        *)
(* replaces a peer between the range that found a record and the write to  *)
(* its connection: an offer or answer arrives on a connection that         *)
(* announced the peer it is for, never at the peer that made the offer; a  *)
(* peer gets one offer of an announce at most, and no offer goes to two    *)
(* peers when there are as many as peers (webtorrent.go sendOffer,         *)
(* websocket/manager.go AnswerToPeer).                                     *)
THEOREM SignalsArrive == Spec => []SignalsSound
<1>1. Init => GotInv
  BY DEF Init, GotInv, GotHandler, GotVia, GotOffers, OfferGot, GotNone, GotLoop, GotFlying, OfferLoop, Flying
<1> QED
  BY <1>1, WsInvariant, GotNext, GotInvSound, PTL DEF Spec
=============================================================================
