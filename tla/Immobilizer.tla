------------------------------ MODULE Immobilizer ------------------------------
(***************************************************************************)
(* The remote immobilizer of vehicles/immobilizer.service.ts for one       *)
(* tracker: the manager's requests, the device row that holds the order,   *)
(* the socket of tcp-server.ts, the tracker with its relay, and the        *)
(* handlers of what the tracker sends back.                                *)
(*                                                                         *)
(* The server is one process that switches between handlers at an await,   *)
(* so a handler is a program counter and the row it read; each step goes   *)
(* from one await to the next.  The tracker obeys commands in the order    *)
(* they arrive, answers each (Codec 12) and reports DOUT1 in its records   *)
(* (AVL 179).  A connection can be gone for the tracker while the server   *)
(* still holds the socket ("half"), until the socket times out.            *)
(*                                                                         *)
(* An order is a state the manager asked for: engage or release, numbered  *)
(* in the order in which the row took them.  The numbers are history: the  *)
(* code compares nothing but kinds and levels.                             *)
(***************************************************************************)
EXTENDS Naturals, Sequences

CONSTANTS Requests,    \* manager requests that can be suspended at once
          Handlers,    \* tracker messages that can be kept or under way at once
          MaxOrders,   \* bound on the orders the row takes
          MaxLocks,    \* bound on door-lock pulses
          MaxUpsets    \* bound on dropped connections, restarts and failed database calls

ASSUME BoundsAreNat == MaxOrders \in Nat /\ MaxLocks \in Nat /\ MaxUpsets \in Nat

VARIABLES
  row,      \* the devices row: [immobilized, command, sent, ord]
  req,      \* setImmobilized and lockDoors: [Requests -> [pc, kind, ord]]
  flush,    \* flushQueuedCommand of the last handshake: [pc, cmd, ord]
  hand,     \* tracker messages, kept, on the wire or with a handler: [Handlers -> [pc, kind, level, ord]]
  link,     \* the socket: "open", "half" or "closed"
  down,     \* commands on the wire: sequence of [kind, ord]
  relay,    \* DOUT1 as the tracker holds it
  lastDout1, \* the Map of that name: 0, 1 or 2 for no entry
  awaitingDoorLockReply,
  locks, upsets,   \* how much of each bound is used
  applied,  \* history: the last order the tracker obeyed
  handed,   \* history: the order in the row has been given to the socket
  hasty,    \* history: an order was written over one still open, or a pulse was sent
  lost,     \* history: an order went down with its connection or its request
  raced,    \* history: a handler has acted for another order than the one the row holds
  orphaned, \* history: the order in the row was taken for a request that got an error
  older,    \* history: [Handlers -> the messages made before that have not been judged]
  late,     \* history: messages made before one that has been judged
  disordered \* history: a late message has closed an order

vars == <<row, req, flush, hand, link, down, relay, lastDout1, awaitingDoorLockReply,
          locks, upsets, applied, handed, hasty, lost, raced, orphaned, older, late, disordered>>

service == <<req, flush, hand, lastDout1, awaitingDoorLockReply>>
wires == <<link, down>>
age == <<older, late, disordered>>
history == <<applied, handed, hasty, lost, raced, orphaned, age>>
bounds == <<locks, upsets>>

Kinds == {"engage", "release"}
Commands == Kinds \union {"lock"}
NoCommand == "none"
Levels == {0, 1}
NoLevel == 2
Orders == 0..MaxOrders

Row == [immobilized : BOOLEAN, command : Kinds \union {NoCommand}, sent : BOOLEAN, ord : Orders]

\* The level a command asks of DOUT1.
Wanted(kind) == IF kind = "engage" THEN 1 ELSE 0

NoRow == [immobilized |-> FALSE, command |-> NoCommand, sent |-> FALSE, ord |-> 0]
IdleRequest == [pc |-> "idle", kind |-> "release", ord |-> 0]
IdleFlush == [pc |-> "idle", cmd |-> "release", ord |-> 0]
IdleHandler == [pc |-> "idle", kind |-> "avl", level |-> 0, ord |-> 0]

TypeOK ==
  /\ row \in Row
  /\ req \in [Requests -> [pc : {"idle", "loaded", "written", "stamping"}, kind : Commands,
                           ord : Orders]]
  /\ flush \in [pc : {"idle", "load", "loaded", "stamping"}, cmd : Kinds, ord : Orders]
  /\ hand \in [Handlers -> [pc : {"idle", "kept", "sent", "noted", "close"}, kind : {"reply", "avl"},
                            level : Levels, ord : Orders]]
  /\ link \in {"open", "half", "closed"}
  /\ down \in Seq([kind : Commands, ord : Orders])
  /\ relay \in Levels
  /\ lastDout1 \in Levels \union {NoLevel}
  /\ awaitingDoorLockReply \in BOOLEAN
  /\ locks \in 0..MaxLocks /\ upsets \in 0..MaxUpsets
  /\ applied \in Orders
  /\ handed \in BOOLEAN /\ hasty \in BOOLEAN /\ lost \in BOOLEAN /\ raced \in BOOLEAN
  /\ orphaned \in BOOLEAN /\ disordered \in BOOLEAN
  /\ older \in [Handlers -> SUBSET Handlers] /\ late \in SUBSET Handlers

Init ==
  /\ row = NoRow
  /\ req = [r \in Requests |-> IdleRequest]
  /\ flush = IdleFlush
  /\ hand = [h \in Handlers |-> IdleHandler]
  /\ link = "closed" /\ down = <<>>
  /\ relay = 0
  /\ lastDout1 = NoLevel
  /\ awaitingDoorLockReply = FALSE
  /\ locks = 0 /\ upsets = 0
  /\ applied = 0 /\ handed = FALSE /\ hasty = FALSE /\ lost = FALSE /\ raced = FALSE
  /\ orphaned = FALSE
  /\ older = [h \in Handlers |-> {}] /\ late = {} /\ disordered = FALSE

\* Where on the wire the orders are: the rest are door-lock pulses.
OrdersOnWire == {i \in DOMAIN down : down[i].kind \in Kinds}

\* No request is between the UPDATE that takes the order and deliver().
NoOrderPending == \A r \in Requests : req[r].pc # "written"

\* link.isConnected: the server's socket table has an entry.
IsConnected == link # "closed"

\* Mutant: commands waiting for the socket go out last in, first out.
Send_Stacked(kind, ord) ==
  down' = IF link = "open" THEN <<[kind |-> kind, ord |-> ord]>> \o down ELSE down

\* link.send: a half-open socket takes the bytes and they are gone.
Send(kind, ord) ==
  down' = IF link = "open" THEN Append(down, [kind |-> kind, ord |-> ord]) ELSE down

\* deliver() of an order, once the socket is known to be there.
HandOver(kind, ord) ==
  /\ Send(kind, ord)
  /\ handed' = (handed \/ ord = row.ord)
  /\ lost' = (lost \/ link = "half")
  /\ raced' = (raced \/ ord # row.ord)

\* The UPDATE of immobilizerSentAt on behalf of an order: of whatever the row holds.
StampSent(ord) ==
  /\ row' = [row EXCEPT !.sent = TRUE]
  /\ raced' = (raced \/ ord # row.ord)

-----------------------------------------------------------------------------
(* The manager: setImmobilized and lockDoors                               *)

\* readiness(): no command in flight, not immobilized yet.
Ready == row.command = NoCommand /\ ~row.immobilized

\* A request reads the row and is judged by what it read: an engage or a lock needs
\* confirm and the plate, an engage a row that is ready.  A refused request changes
\* nothing, and is not a step.
Ask(r, kind, intent) ==
  /\ req[r].pc = "idle"
  /\ kind \in {"engage", "lock"} => intent
  /\ kind = "engage" => Ready
  /\ IF kind = "lock" THEN locks < MaxLocks ELSE row.ord < MaxOrders
  /\ req' = [req EXCEPT ![r] = [pc |-> "loaded", kind |-> kind, ord |-> 0]]
  /\ UNCHANGED <<row, flush, hand, wires, relay, lastDout1, awaitingDoorLockReply, bounds, history>>

\* Mutant: immobilizerSentAt keeps the time of the order before.
TakeOrder_KeepsSent(r) ==
  /\ req[r].pc = "loaded" /\ req[r].kind \in Kinds
  /\ row.ord < MaxOrders
  /\ row' = [row EXCEPT !.immobilized = req[r].kind = "engage", !.command = req[r].kind,
                        !.ord = row.ord + 1]
  /\ handed' = FALSE
  /\ hasty' = (hasty \/ row.command # NoCommand)
  /\ UNCHANGED <<flush, hand, wires, relay, lastDout1, awaitingDoorLockReply, locks, applied, lost, raced, age>>

\* The row takes the order, whatever it holds by now.
TakeOrder(r) ==
  /\ req[r].pc = "loaded" /\ req[r].kind \in Kinds
  /\ row.ord < MaxOrders
  /\ row' = [immobilized |-> req[r].kind = "engage", command |-> req[r].kind,
             sent |-> FALSE, ord |-> row.ord + 1]
  /\ handed' = FALSE
  /\ hasty' = (hasty \/ row.command # NoCommand)
  /\ UNCHANGED <<flush, hand, wires, relay, lastDout1, awaitingDoorLockReply, locks, applied, lost, raced, age>>

WriteOrder(r) ==
  /\ TakeOrder(r)
  /\ req' = [req EXCEPT ![r].pc = "written", ![r].ord = row.ord + 1]
  /\ orphaned' = FALSE
  /\ UNCHANGED upsets

\* The UPDATE commits and its answer is lost: the caller gets an error, and nobody delivers.
WriteUnanswered(r) ==
  /\ upsets < MaxUpsets
  /\ TakeOrder(r)
  /\ upsets' = upsets + 1
  /\ req' = [req EXCEPT ![r] = IdleRequest]
  /\ orphaned' = TRUE

\* deliver(): over the open socket, or left for the next handshake.
Deliver(r) ==
  /\ req[r].pc = "written"
  /\ IF IsConnected
     THEN /\ HandOver(req[r].kind, req[r].ord)
          /\ req' = [req EXCEPT ![r].pc = "stamping"]
     ELSE /\ req' = [req EXCEPT ![r] = IdleRequest]
          /\ UNCHANGED <<down, handed, lost, raced>>
  /\ UNCHANGED <<row, flush, hand, link, relay, lastDout1, awaitingDoorLockReply, bounds, applied, hasty, orphaned, age>>

Stamp(r) ==
  /\ req[r].pc = "stamping"
  /\ StampSent(req[r].ord)
  /\ req' = [req EXCEPT ![r] = IdleRequest]
  /\ UNCHANGED <<flush, hand, wires, relay, lastDout1, awaitingDoorLockReply, bounds, applied, handed, hasty,
                 lost, orphaned, age>>

\* Mutant: a pulse that finds no socket is queued like an order.
LockDoors_Queued(r) ==
  /\ req[r].pc = "loaded" /\ req[r].kind = "lock"
  /\ IF IsConnected
     THEN /\ locks < MaxLocks /\ locks' = locks + 1
          /\ Send("lock", row.ord)
          /\ awaitingDoorLockReply' = TRUE
          /\ hasty' = TRUE
          /\ UNCHANGED row
     ELSE /\ row' = [row EXCEPT !.command = "lock", !.sent = FALSE]
          /\ UNCHANGED <<locks, down, hasty, awaitingDoorLockReply>>
  /\ req' = [req EXCEPT ![r] = IdleRequest]
  /\ UNCHANGED <<flush, hand, link, relay, lastDout1, upsets, applied, handed, lost, raced, orphaned, age>>

\* A pulse on DOUT2: sent live, or refused; never kept in the row.
LockDoors(r) ==
  /\ req[r].pc = "loaded" /\ req[r].kind = "lock"
  /\ IF IsConnected
     THEN /\ locks < MaxLocks /\ locks' = locks + 1
          /\ Send("lock", row.ord)
          /\ awaitingDoorLockReply' = TRUE
          /\ hasty' = TRUE
     ELSE UNCHANGED <<locks, down, hasty, awaitingDoorLockReply>>
  /\ req' = [req EXCEPT ![r] = IdleRequest]
  /\ UNCHANGED <<row, flush, hand, link, relay, lastDout1, upsets, applied, handed, lost, raced, orphaned, age>>

\* A database call of the request fails: the caller gets an error, nothing is undone.  (A
\* stamp that commits while its answer is lost is a Stamp.)
RequestFails(r) ==
  /\ req[r].pc \in {"loaded", "stamping"} /\ upsets < MaxUpsets
  /\ upsets' = upsets + 1
  /\ req' = [req EXCEPT ![r] = IdleRequest]
  /\ UNCHANGED <<row, flush, hand, wires, relay, lastDout1, awaitingDoorLockReply, locks, history>>

-----------------------------------------------------------------------------
(* The connection                                                          *)

\* Mutant: the handshake does not look for a queued command.
Connect_NoFlush ==
  /\ link # "open" /\ flush.pc = "idle"
  /\ link' = "open" /\ down' = <<>>
  /\ UNCHANGED <<row, req, flush, hand, relay, lastDout1, awaitingDoorLockReply, bounds, history>>

\* The tracker dials in and is accepted; the handshake goes on to the queued command.
\* One handshake handler at a time is a bound of the model.
Connect ==
  /\ link # "open" /\ flush.pc = "idle"
  /\ link' = "open" /\ down' = <<>>
  /\ flush' = [flush EXCEPT !.pc = "load"]
  /\ orphaned' = FALSE
  /\ UNCHANGED <<row, req, hand, relay, lastDout1, awaitingDoorLockReply, bounds, applied, handed, hasty,
                 lost, raced, age>>

\* Mutant: the text an engage falls back to, whatever the row says.
FlushLoad_Engage ==
  /\ flush.pc = "load"
  /\ flush' = IF row.command = NoCommand \/ row.sent THEN IdleFlush
              ELSE [pc |-> "loaded", cmd |-> "engage", ord |-> row.ord]
  /\ UNCHANGED <<row, req, hand, wires, relay, lastDout1, awaitingDoorLockReply, bounds, history>>

FlushLoad ==
  /\ flush.pc = "load"
  /\ flush' = IF row.command = NoCommand \/ row.sent THEN IdleFlush
              ELSE [pc |-> "loaded", cmd |-> row.command, ord |-> row.ord]
  /\ UNCHANGED <<row, req, hand, wires, relay, lastDout1, awaitingDoorLockReply, bounds, history>>

\* deliver() of the command that was read.
FlushDeliver ==
  /\ flush.pc = "loaded"
  /\ IF IsConnected
     THEN /\ HandOver(flush.cmd, flush.ord)
          /\ flush' = [flush EXCEPT !.pc = "stamping"]
     ELSE /\ flush' = IdleFlush
          /\ UNCHANGED <<down, handed, lost, raced>>
  /\ UNCHANGED <<row, req, hand, link, relay, lastDout1, awaitingDoorLockReply, bounds, applied, hasty,
                 orphaned, age>>

FlushStamp ==
  /\ flush.pc = "stamping"
  /\ StampSent(flush.ord)
  /\ flush' = IdleFlush
  /\ UNCHANGED <<req, hand, wires, relay, lastDout1, awaitingDoorLockReply, bounds, applied, handed, hasty,
                 lost, orphaned, age>>

\* The connection is closed with what is on it.
Hangup(next) ==
  /\ link' = next /\ down' = <<>>
  /\ lost' = (lost \/ OrdersOnWire # {})

\* A database call of the handshake fails, or its answer is lost: its catch closes the socket.
FlushFails ==
  /\ flush.pc \in {"load", "stamping"} /\ upsets < MaxUpsets
  /\ upsets' = upsets + 1
  /\ flush' = IdleFlush
  /\ Hangup("closed")
  /\ \/ UNCHANGED <<row, raced>>
     \/ flush.pc = "stamping" /\ StampSent(flush.ord)
  /\ UNCHANGED <<req, hand, relay, lastDout1, awaitingDoorLockReply, locks, applied, handed, hasty, orphaned, age>>

\* The network drops the connection; the server may notice now or much later.
Drop ==
  /\ link = "open" /\ upsets < MaxUpsets
  /\ upsets' = upsets + 1
  /\ Hangup("half")
  /\ UNCHANGED <<row, req, flush, hand, relay, lastDout1, awaitingDoorLockReply, locks, applied, handed, hasty,
                 raced, orphaned, age>>

\* The socket errors, or has been silent for DEVICE_SOCKET_TIMEOUT_MS.
NoticeDrop ==
  /\ link = "half"
  /\ link' = "closed"
  /\ UNCHANGED <<row, req, flush, hand, down, relay, lastDout1, awaitingDoorLockReply, bounds, history>>

\* The server restarts: the row and the tracker are all that is left.  Records that were
\* not acknowledged are still with the tracker.
Restart ==
  /\ upsets < MaxUpsets
  /\ upsets' = upsets + 1
  /\ link' = "closed" /\ down' = <<>>
  /\ lost' = (lost \/ OrdersOnWire # {} \/ ~NoOrderPending)
  /\ req' = [r \in Requests |-> IdleRequest]
  /\ flush' = IdleFlush
  /\ \E kept \in SUBSET {h \in Handlers : hand[h].kind = "avl" /\ hand[h].pc = "sent"} :
       LET left == kept \union {h \in Handlers : hand[h].pc = "kept"} IN
         /\ hand' = [h \in Handlers |-> IF h \in left THEN [hand[h] EXCEPT !.pc = "kept"] ELSE IdleHandler]
         /\ older' = [h \in Handlers |-> IF h \in left THEN older[h] \intersect left ELSE {}]
         /\ late' = late \intersect left
  /\ lastDout1' = NoLevel
  /\ awaitingDoorLockReply' = FALSE
  /\ UNCHANGED <<row, relay, locks, applied, handed, hasty, raced, orphaned, disordered>>

-----------------------------------------------------------------------------
(* The tracker                                                             *)

\* Messages that may still be judged.
Pending == {h \in Handlers : hand[h].pc \in {"kept", "sent", "noted"}}

\* Packets of one tracker are handled concurrently, so what it makes is a set of messages:
\* kept, on the wire, or in a handler that has not read the row yet.
Make(h, pc, kind, level) ==
  /\ hand[h].pc = "idle"
  /\ hand' = [hand EXCEPT ![h] = [pc |-> pc, kind |-> kind, level |-> level, ord |-> 0]]
  /\ older' = [older EXCEPT ![h] = Pending]
  /\ UNCHANGED <<late, disordered>>

\* History: a message is none of those that may be judged any more.
Leaves(h) == older' = [g \in Handlers |-> IF g = h THEN {} ELSE older[g] \ {h}]

\* setdigout: `?` leaves DOUT1 alone; the reply carries the levels held now.
Obey(h) ==
  /\ link = "open" /\ down # <<>>
  /\ LET m == Head(down) IN
       IF m.kind \in Kinds THEN relay' = Wanted(m.kind) /\ applied' = m.ord
                           ELSE UNCHANGED <<relay, applied>>
  /\ down' = Tail(down)
  /\ Make(h, "sent", "reply", relay')
  /\ UNCHANGED <<row, req, flush, link, lastDout1, awaitingDoorLockReply, bounds, handed, hasty, lost, raced,
                 orphaned>>

\* A data record with element 179: the tracker keeps it, connected or not.
Record(h) ==
  /\ Make(h, "kept", "avl", relay)
  /\ UNCHANGED <<row, req, flush, wires, relay, lastDout1, awaitingDoorLockReply, bounds, applied, handed,
                 hasty, lost, raced, orphaned>>

\* A kept record is sent: any of them, "out of order" (telemetry-write-floor.service.ts:66).
Upload(h) ==
  /\ hand[h].pc = "kept" /\ link = "open"
  /\ hand' = [hand EXCEPT ![h].pc = "sent"]
  /\ UNCHANGED <<row, req, flush, wires, relay, lastDout1, awaitingDoorLockReply, bounds, history>>

\* A message that was still on the wire goes down with the connection: a reply is gone, a
\* record is kept until it is acknowledged.
MessageLost(h) ==
  /\ hand[h].pc = "sent" /\ link # "open"
  /\ IF hand[h].kind = "avl"
     THEN hand' = [hand EXCEPT ![h].pc = "kept"] /\ UNCHANGED <<older, late>>
     ELSE hand' = [hand EXCEPT ![h] = IdleHandler] /\ Leaves(h) /\ late' = late \ {h}
  /\ UNCHANGED <<row, req, flush, wires, relay, lastDout1, awaitingDoorLockReply, bounds, applied, handed,
                 hasty, lost, raced, orphaned, disordered>>

-----------------------------------------------------------------------------
(* handleCommandReply and handleDoutReading                                *)

\* A reply answers the door lock when a pulse is out and the row has no command.
IsLockReply(h) == hand[h].kind = "reply" /\ awaitingDoorLockReply /\ row.command = NoCommand

\* Mutant: a reading counts whatever its level.
Closes_AnyLevel(m) == row.command # NoCommand /\ (m.kind = "avl" => row.sent)

\* The level is the one the open command wants; a reading counts only once it was sent.
Closes(m) ==
  /\ row.command # NoCommand
  /\ m.level = Wanted(row.command)
  /\ m.kind = "avl" => row.sent

\* A reading of the level seen last is dropped; any other is noted before the row is read.
NoteLevel(h) ==
  /\ hand[h].pc = "sent" /\ hand[h].kind = "avl"
  /\ lastDout1' = hand[h].level
  /\ IF lastDout1 = hand[h].level
     THEN hand' = [hand EXCEPT ![h] = IdleHandler] /\ Leaves(h) /\ late' = late \ {h}
     ELSE hand' = [hand EXCEPT ![h].pc = "noted"] /\ UNCHANGED <<older, late>>
  /\ UNCHANGED <<row, req, flush, wires, relay, awaitingDoorLockReply, bounds, applied, handed, hasty, lost,
                 raced, orphaned, disordered>>

\* The message is judged by the row that was read, and closes its order.
Settles(h) == ~IsLockReply(h) /\ Closes(hand[h])

\* The row is read and the message judged by it.
Judge(h) ==
  /\ hand[h].pc = IF hand[h].kind = "avl" THEN "noted" ELSE "sent"
  /\ awaitingDoorLockReply' = (awaitingDoorLockReply /\ ~IsLockReply(h))
  /\ hand' = [hand EXCEPT ![h] = IF Settles(h) THEN [hand[h] EXCEPT !.pc = "close", !.ord = row.ord]
                                                ELSE IdleHandler]
  /\ Leaves(h) /\ late' = (late \union older[h]) \ {h}
  /\ disordered' = (disordered \/ (Settles(h) /\ h \in late))
  /\ UNCHANGED <<row, req, flush, wires, relay, lastDout1, bounds, applied, handed, hasty, lost, raced, orphaned>>

\* The UPDATE that closes the command, whatever command the row holds by now.
Close(h) ==
  /\ hand[h].pc = "close"
  /\ row' = [row EXCEPT !.command = NoCommand]
  /\ raced' = (raced \/ hand[h].ord # row.ord)
  /\ hand' = [hand EXCEPT ![h] = IdleHandler]
  /\ UNCHANGED <<req, flush, wires, relay, lastDout1, awaitingDoorLockReply, bounds, applied, handed, hasty,
                 lost, orphaned, age>>

\* A database call of the handler fails: the command stays open, the level stays noted.
InboundFails(h) ==
  /\ \/ hand[h].pc \in {"noted", "close"}
     \/ hand[h].pc = "sent" /\ hand[h].kind = "reply"
  /\ upsets < MaxUpsets
  /\ upsets' = upsets + 1
  /\ hand' = [hand EXCEPT ![h] = IdleHandler]
  /\ Leaves(h) /\ late' = late \ {h}
  /\ UNCHANGED <<row, req, flush, wires, relay, lastDout1, awaitingDoorLockReply, locks, applied, handed,
                 hasty, lost, raced, orphaned, disordered>>

-----------------------------------------------------------------------------

Manager(r) ==
  \/ \E kind \in Commands, intent \in BOOLEAN : Ask(r, kind, intent)
  \/ WriteOrder(r) \/ WriteUnanswered(r) \/ Deliver(r) \/ Stamp(r) \/ LockDoors(r) \/ RequestFails(r)

Connection ==
  \/ Connect \/ Drop \/ NoticeDrop \/ Restart
  \/ FlushLoad \/ FlushDeliver \/ FlushStamp \/ FlushFails

Tracker(h) == Obey(h) \/ Record(h) \/ Upload(h) \/ MessageLost(h)

Inbound(h) == NoteLevel(h) \/ Judge(h) \/ Close(h) \/ InboundFails(h)

Next ==
  \/ \E r \in Requests : Manager(r)
  \/ Connection
  \/ \E h \in Handlers : Tracker(h) \/ Inbound(h)

Spec == Init /\ [][Next]_vars

-----------------------------------------------------------------------------
(* What is checked                                                         *)

\* The level DOUT1 will have once the commands on the wire are obeyed.
WillRead(level) ==
  IF OrdersOnWire = {} THEN relay = level
  ELSE \E i \in OrdersOnWire :
         (\A j \in OrdersOnWire : j <= i) /\ Wanted(down[i].kind) = level

\* The level the row stands for.
Level == IF row.immobilized THEN 1 ELSE 0

\* Commands reach the tracker in the order in which the row took them.
DownInOrder ==
  \A i \in DOMAIN down : applied <= down[i].ord /\ \A j \in 1..i : down[j].ord <= down[i].ord

\* The tracker ends with the newest order, as long as no handler that was suspended in a
\* database call goes on for an order that has been replaced meanwhile: queueing, flushing
\* and delivering at once never put an older command behind a newer one.
Superseding == ~raced => DownInOrder

\* "A release is always allowed, and supersedes an engage still on its way"
\* (immobilizer.service.ts:318): no engage follows a newer release to the tracker.  In the
\* code the release replaces the row, not the engage that a suspended handler is about to
\* send.
ReleaseSupersedes ==
  \A i \in DOMAIN down : \A j \in 1..i :
    down[i].kind = "engage" /\ down[j].kind = "release" => down[j].ord < down[i].ord

\* immobilizerSentAt is a promise about the order in the row: without a race, an order
\* that is marked sent has been given to a socket, whichever of the request, the handshake
\* and a lost connection came in between.  A handshake skips an order that is marked, so
\* a wrong mark loses it.
SentUnlessRaced == ~raced => (row.sent => handed)

\* Once a socket has taken the order in the row, that order is the last word: as long as no
\* order is lost and no handler acts for a replaced one, what DOUT1 reads, or will read once
\* the wire is empty, is what the row says, whatever was queued, flushed or closed before.
RowIsAhead == handed /\ ~lost /\ ~raced => WillRead(Level)

\* The dashboard shows "released" or "engaged" once the command is closed, and the handlers
\* close it by the level alone.  For a manager who waits for each order to be closed and
\* sends no door-lock pulse that is the truth about the relay, however many orders were lost
\* on the way and however many messages were handled at once: a closed order has been obeyed,
\* as long as none was closed by a message that came to be judged behind a younger one.
ClosedIsDone == ~hasty /\ ~raced /\ ~disordered /\ row.command = NoCommand => relay = Level

\* "confirmed - AVL 179 in a later record reads 1" (immobilizer.service.ts:13), and "A reading
\* that matches a command still open closes it: this is the relay-side confirmation" (501-502):
\* for the manager of ClosedIsDone an order is closed by the relay, whatever overtakes what.
\* The code compares levels only: a record from before the last order, handled late or kept by
\* a tracker out of coverage, closes the next one while the relay is still where it was.
ClosedByRelay == ~hasty /\ ~raced /\ row.command = NoCommand => relay = Level

\* "So a command that found no socket goes the moment the device next dials in"
\* (immobilizer.service.ts:274): an order the tracker has not been given is never left
\* behind while the tracker is connected, unless its manager was told that the request
\* failed after the row had taken it.  Either the request has yet to look for the
\* socket, or the handshake has yet to read the row; looking in the other order on either
\* side would let both miss it.
NeverStranded ==
  ~raced /\ ~orphaned /\ IsConnected /\ row.command # NoCommand /\ ~handed =>
    \/ \E r \in Requests : req[r].pc = "written" /\ req[r].ord = row.ord
    \/ flush.pc = "load"
    \/ flush.pc = "loaded" /\ flush.ord = row.ord

\* "The command is queued and delivered on the next handshake, however long that takes"
\* (immobilizer.service.ts:19-20): an order is not closed before a socket has taken it.
\* handleCommandReply closes by level alone, so a reply that answers something older, a
\* door-lock pulse or the order before, closes an order that is still waiting.
QueuedUntilSent == row.ord > 0 /\ row.command = NoCommand => handed

\* All of it as one promise: row, handlers, socket and wire are an OrderRegister, whatever is
\* queued, flushed, lost or restarted, as long as no handler acts for a replaced order.  What
\* became of the orders on the way, the relay obeys them in the order in which the row took
\* them, the newest as it was given, and what is closed was done, for a manager who waits and
\* until a late message closes an order.
Register == INSTANCE OrderRegister
  WITH order <- row.ord, wanted <- Level, open <- row.command # NoCommand,
       sure <- ~hasty /\ ~disordered, obeyed <- applied

FollowsRegister == Register!Init /\ [][~raced' => [Register!Next]_(Register!vars)]_vars

=============================================================================
