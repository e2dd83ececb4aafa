--------------------------- MODULE Immobilizer_proofs ---------------------------
(***************************************************************************)
(* What holds of Immobilizer for every set of requests and of handlers and *)
(* for all bounds: its types, and what is guaranteed as long as no handler *)
(* acted for an order that had been replaced.                              *)
(***************************************************************************)
EXTENDS TLAPS, Immobilizer

\* The types of what TypeOK bounds by a set of records.
Message == [kind : Commands, ord : Orders]
RequestState == [pc : {"idle", "loaded", "written", "stamping"}, kind : Commands, ord : Orders]
FlushState == [pc : {"idle", "load", "loaded", "stamping"}, cmd : Kinds, ord : Orders]
HandlerState == [pc : {"idle", "kept", "sent", "noted", "close"}, kind : {"reply", "avl"},
                 level : Levels, ord : Orders]

USE DEF Kinds, Commands, NoCommand, Levels, NoLevel, Orders

\* What is idle is typed.
LEMMA IdleType ==
  /\ IdleRequest \in RequestState
  /\ IdleFlush \in FlushState
  /\ IdleHandler \in HandlerState
  BY BoundsAreNat DEF IdleRequest, IdleFlush, IdleHandler, RequestState, FlushState, HandlerState

LEMMA TypeInit == Init => TypeOK
<1> SUFFICES ASSUME Init PROVE TypeOK
  OBVIOUS
<1>1. row \in Row /\ applied \in Orders
  BY BoundsAreNat DEF Init, Row, NoRow
<1>2. req \in [Requests -> RequestState] /\ flush \in FlushState /\ hand \in [Handlers -> HandlerState]
  BY IdleType DEF Init
<1>3. down \in Seq(Message) /\ locks \in 0..MaxLocks /\ upsets \in 0..MaxUpsets
  BY BoundsAreNat DEF Init
<1> QED
  BY <1>1, <1>2, <1>3 DEF Init, TypeOK, Message, RequestState, FlushState, HandlerState

\* A handler that moves on keeps its type.
LEMMA RequestMoves ==
  ASSUME req \in [Requests -> RequestState], NEW r \in Requests,
         NEW pc \in {"idle", "loaded", "written", "stamping"}, NEW ord \in Orders
  PROVE  /\ [req EXCEPT ![r].pc = pc] \in [Requests -> RequestState]
         /\ [req EXCEPT ![r].pc = pc, ![r].ord = ord] \in [Requests -> RequestState]
  BY DEF RequestState

LEMMA FlushMoves ==
  ASSUME flush \in FlushState, NEW pc \in {"idle", "load", "loaded", "stamping"}
  PROVE  [flush EXCEPT !.pc = pc] \in FlushState
  BY DEF FlushState

LEMMA HandlerMoves ==
  ASSUME hand \in [Handlers -> HandlerState], NEW h \in Handlers,
         NEW pc \in {"idle", "kept", "sent", "noted", "close"}, NEW ord \in Orders
  PROVE  /\ [hand[h] EXCEPT !.pc = pc] \in HandlerState
         /\ [hand[h] EXCEPT !.pc = pc, !.ord = ord] \in HandlerState
<1>1. hand[h] \in HandlerState
  OBVIOUS
<1> QED
  BY <1>1 DEF HandlerState

\* What a command does to the wire, typed.
LEMMA SendType ==
  ASSUME down \in Seq(Message), NEW kind \in Commands, NEW ord \in Orders, Send(kind, ord)
  PROVE  down' \in Seq(Message)
<1>1. [kind |-> kind, ord |-> ord] \in Message
  BY DEF Message
<1> QED
  BY <1>1 DEF Send

\* Types are preserved by every step.
LEMMA TypeNext == TypeOK /\ [Next]_vars => TypeOK'
<1> SUFFICES ASSUME TypeOK, [Next]_vars PROVE TypeOK'
  OBVIOUS
<1> USE BoundsAreNat DEF TypeOK, service, wires, age, history, bounds, Row
<1>m. /\ down \in Seq(Message) /\ req \in [Requests -> RequestState]
      /\ flush \in FlushState /\ hand \in [Handlers -> HandlerState]
  BY DEF Message, RequestState, FlushState, HandlerState
<1>1. ASSUME NEW r \in Requests, NEW kind \in Commands, NEW intent \in BOOLEAN, Ask(r, kind, intent)
      PROVE TypeOK'
  BY <1>1 DEF Ask
<1>t. ASSUME NEW r \in Requests, TakeOrder(r)
      PROVE  row' \in Row /\ handed' \in BOOLEAN /\ hasty' \in BOOLEAN /\ row.ord + 1 \in Orders
  <2>1. row' \in Row
    BY <1>t DEF TakeOrder
  <2>2. handed' \in BOOLEAN /\ hasty' \in BOOLEAN
    BY <1>t DEF TakeOrder
  <2>3. row.ord + 1 \in Orders
    BY <1>t DEF TakeOrder
  <2> QED
    BY <2>1, <2>2, <2>3
<1>2. ASSUME NEW r \in Requests, WriteOrder(r) PROVE TypeOK'
  <2>1. TakeOrder(r)
    BY <1>2 DEF WriteOrder
  <2>2. req' \in [Requests -> RequestState]
    BY <1>2, <1>m, <1>t, <2>1, RequestMoves DEF WriteOrder
  <2>3. UNCHANGED <<flush, hand, wires, relay, lastDout1, awaitingDoorLockReply, bounds, applied, lost, raced, age>>
        /\ orphaned' \in BOOLEAN
    BY <1>2, <2>1 DEF WriteOrder, TakeOrder
  <2>4. row' \in Row /\ handed' \in BOOLEAN /\ hasty' \in BOOLEAN
    BY <1>t, <2>1
  <2> QED
    BY <2>2, <2>3, <2>4 DEF RequestState
<1>2u. ASSUME NEW r \in Requests, WriteUnanswered(r) PROVE TypeOK'
  <2>1. TakeOrder(r)
    BY <1>2u DEF WriteUnanswered
  <2>2. req' \in [Requests -> RequestState] /\ upsets' \in 0..MaxUpsets
    BY <1>2u, <1>m, IdleType DEF WriteUnanswered
  <2>3. UNCHANGED <<flush, hand, wires, relay, lastDout1, awaitingDoorLockReply, locks, applied, lost, raced, age>>
        /\ orphaned' \in BOOLEAN
    BY <1>2u, <2>1 DEF WriteUnanswered, TakeOrder
  <2>4. row' \in Row /\ handed' \in BOOLEAN /\ hasty' \in BOOLEAN
    BY <1>t, <2>1
  <2> QED
    BY <2>2, <2>3, <2>4 DEF RequestState
<1>3. ASSUME NEW r \in Requests, Deliver(r) PROVE TypeOK'
  <2>1. down' \in Seq(Message)
    BY <1>3, <1>m, SendType DEF Deliver, HandOver
  <2>2. req' \in [Requests -> RequestState]
    <3>1. CASE req' = [req EXCEPT ![r] = IdleRequest]
      BY <3>1, <1>m, IdleType
    <3>2. CASE req' = [req EXCEPT ![r].pc = "stamping"]
      BY <3>2, <1>m, RequestMoves
    <3> QED
      BY <1>3, <3>1, <3>2 DEF Deliver
  <2>3. handed' \in BOOLEAN /\ lost' \in BOOLEAN /\ raced' \in BOOLEAN
    BY <1>3 DEF Deliver, HandOver
  <2> QED
    BY <1>3, <2>1, <2>2, <2>3 DEF Deliver, Message, RequestState
<1>4. ASSUME NEW r \in Requests, Stamp(r) PROVE TypeOK'
  <2>1. row' \in Row /\ raced' \in BOOLEAN
    BY <1>4 DEF Stamp, StampSent
  <2>2. req' \in [Requests -> RequestState]
    BY <1>4, <1>m, IdleType DEF Stamp
  <2> QED
    BY <1>4, <2>1, <2>2 DEF Stamp, RequestState
<1>5. ASSUME NEW r \in Requests, LockDoors(r) PROVE TypeOK'
  <2>1. down' \in Seq(Message)
    BY <1>5, <1>m, SendType DEF LockDoors
  <2>2. req' \in [Requests -> RequestState]
    BY <1>5, <1>m, IdleType DEF LockDoors
  <2>3. locks' \in 0..MaxLocks
    BY <1>5 DEF LockDoors
  <2>4. hasty' \in BOOLEAN /\ awaitingDoorLockReply' \in BOOLEAN
    BY <1>5 DEF LockDoors
  <2> QED
    BY <1>5, <2>1, <2>2, <2>3, <2>4 DEF LockDoors, Message, RequestState
<1>6. ASSUME NEW r \in Requests, RequestFails(r) PROVE TypeOK'
  BY <1>6 DEF RequestFails, IdleRequest
<1>7. CASE Connect
  <2>1. flush' \in FlushState /\ down' \in Seq(Message)
    BY <1>7, <1>m, FlushMoves DEF Connect
  <2>2. flush' \in [pc : {"idle", "load", "loaded", "stamping"}, cmd : Kinds, ord : Orders]
        /\ down' \in Seq([kind : Commands, ord : Orders])
    BY <2>1 DEF FlushState, Message
  <2>3. UNCHANGED <<row, req, hand, relay, applied, lastDout1, awaitingDoorLockReply>>
    BY <1>7 DEF Connect
  <2>4. UNCHANGED <<handed, hasty, lost, raced, older, late, disordered, locks, upsets>>
    BY <1>7 DEF Connect
  <2>5. link' \in {"open", "half", "closed"} /\ orphaned' \in BOOLEAN
    BY <1>7 DEF Connect
  <2> QED
    BY <2>2, <2>3, <2>4, <2>5
<1>8. CASE FlushLoad
  BY <1>8 DEF FlushLoad, IdleFlush
<1>9. CASE FlushDeliver
  <2>1. down' \in Seq(Message)
    BY <1>9, <1>m, SendType DEF FlushDeliver, HandOver, FlushState
  <2>2. handed' \in BOOLEAN /\ lost' \in BOOLEAN /\ raced' \in BOOLEAN
    BY <1>9 DEF FlushDeliver, HandOver
  <2>3. flush' \in FlushState
    BY <1>9, <1>m, IdleType DEF FlushDeliver, FlushState
  <2> QED
    BY <1>9, <2>1, <2>2, <2>3 DEF FlushDeliver, FlushState, Message
<1>10. CASE FlushStamp
  <2>1. row' \in Row /\ raced' \in BOOLEAN
    BY <1>10 DEF FlushStamp, StampSent
  <2> QED
    BY <1>10, <2>1, IdleType DEF FlushStamp, FlushState
<1>11. CASE FlushFails
  <2>1. row' \in Row /\ raced' \in BOOLEAN
    BY <1>11 DEF FlushFails, StampSent
  <2>2. lost' \in BOOLEAN /\ upsets' \in 0..MaxUpsets
    BY <1>11 DEF FlushFails, Hangup
  <2> QED
    BY <1>11, <2>1, <2>2 DEF FlushFails, Hangup, IdleFlush
<1>12. CASE Drop
  BY <1>12 DEF Drop, Hangup
<1>13. CASE NoticeDrop
  BY <1>13 DEF NoticeDrop
<1>14. CASE Restart
  <2>1. PICK left \in SUBSET Handlers :
          /\ hand' = [h \in Handlers |-> IF h \in left THEN [hand[h] EXCEPT !.pc = "kept"] ELSE IdleHandler]
          /\ older' = [h \in Handlers |-> IF h \in left THEN older[h] \intersect left ELSE {}]
          /\ late' = late \intersect left
    BY <1>14 DEF Restart
  <2>2. req' \in [Requests -> RequestState] /\ flush' \in FlushState
    BY <1>14, IdleType DEF Restart
  <2>3. hand' \in [Handlers -> HandlerState]
    <3>1. \A h \in Handlers : [hand[h] EXCEPT !.pc = "kept"] \in HandlerState
      BY <1>m, HandlerMoves
    <3> QED
      BY <2>1, <3>1, IdleType
  <2>4. upsets' \in 0..MaxUpsets /\ lost' \in BOOLEAN
    BY <1>14 DEF Restart
  <2>5. older' \in [Handlers -> SUBSET Handlers] /\ late' \in SUBSET Handlers
    BY <2>1
  <2>6. down' \in Seq(Message) /\ lastDout1' \in Levels \union {NoLevel}
    BY <1>14 DEF Restart
  <2> QED
    BY <1>14, <2>2, <2>3, <2>4, <2>5, <2>6 DEF Restart, Message, RequestState, FlushState, HandlerState
<1>a. ASSUME NEW h \in Handlers, Leaves(h) PROVE older' \in [Handlers -> SUBSET Handlers]
  BY <1>a DEF Leaves
<1>b. ASSUME NEW h \in Handlers, NEW pc \in {"kept", "sent"}, NEW kind \in {"reply", "avl"},
             NEW level \in Levels, Make(h, pc, kind, level)
      PROVE  hand' \in [Handlers -> HandlerState] /\ older' \in [Handlers -> SUBSET Handlers]
  <2>1. Pending \in SUBSET Handlers
    BY DEF Pending
  <2>2. [pc |-> pc, kind |-> kind, level |-> level, ord |-> 0] \in HandlerState
    BY DEF HandlerState
  <2> QED
    BY <1>b, <1>m, <2>1, <2>2 DEF Make
<1>15. ASSUME NEW h \in Handlers, Obey(h) PROVE TypeOK'
  <2>1. Head(down) \in Message /\ down' \in Seq(Message)
    BY <1>15, <1>m DEF Obey
  <2>2. relay' \in Levels /\ applied' \in Orders
    BY <1>15, <2>1 DEF Obey, Wanted, Message
  <2>3. hand' \in [Handlers -> HandlerState] /\ older' \in [Handlers -> SUBSET Handlers]
    BY <1>15, <1>b, <2>2 DEF Obey
  <2> QED
    BY <1>15, <2>1, <2>2, <2>3 DEF Obey, Make, Message, HandlerState
<1>16. ASSUME NEW h \in Handlers, Record(h) PROVE TypeOK'
  <2>1. hand' \in [Handlers -> HandlerState] /\ older' \in [Handlers -> SUBSET Handlers]
    BY <1>16, <1>b DEF Record
  <2> QED
    BY <1>16, <2>1 DEF Record, Make, HandlerState
<1>16u. ASSUME NEW h \in Handlers, Upload(h) PROVE TypeOK'
  <2>1. hand' \in [Handlers -> HandlerState]
    <3>1. [hand[h] EXCEPT !.pc = "sent"] \in HandlerState
      BY <1>m, HandlerMoves
    <3> QED
      BY <1>16u, <1>m, <3>1 DEF Upload
  <2> QED
    BY <1>16u, <2>1 DEF Upload, HandlerState
<1>17. ASSUME NEW h \in Handlers, MessageLost(h) PROVE TypeOK'
  <2>1. hand' \in [Handlers -> HandlerState]
    <3>1. [hand[h] EXCEPT !.pc = "kept"] \in HandlerState
      BY <1>m, HandlerMoves
    <3> QED
      BY <1>17, <1>m, <3>1, IdleType DEF MessageLost
  <2>2. older' \in [Handlers -> SUBSET Handlers] /\ late' \in SUBSET Handlers
    BY <1>17, <1>a DEF MessageLost
  <2> QED
    BY <1>17, <2>1, <2>2 DEF MessageLost, HandlerState
<1>18. ASSUME NEW h \in Handlers, NoteLevel(h) PROVE TypeOK'
  <2>1. hand' \in [Handlers -> HandlerState]
    <3>1. [hand[h] EXCEPT !.pc = "noted"] \in HandlerState
      BY <1>m, HandlerMoves
    <3> QED
      BY <1>18, <1>m, <3>1, IdleType DEF NoteLevel
  <2>2. older' \in [Handlers -> SUBSET Handlers] /\ late' \in SUBSET Handlers
    BY <1>18, <1>a DEF NoteLevel
  <2> QED
    BY <1>18, <2>1, <2>2 DEF NoteLevel, HandlerState
<1>19. ASSUME NEW h \in Handlers, Judge(h) PROVE TypeOK'
  <2>1. awaitingDoorLockReply' \in BOOLEAN /\ disordered' \in BOOLEAN
    BY <1>19 DEF Judge
  <2>2. hand' \in [Handlers -> HandlerState]
    <3>1. [hand[h] EXCEPT !.pc = "close", !.ord = row.ord] \in HandlerState
      BY <1>m, HandlerMoves
    <3> QED
      BY <1>19, <1>m, <3>1, IdleType DEF Judge
  <2>3. older' \in [Handlers -> SUBSET Handlers] /\ late' \in SUBSET Handlers
    BY <1>19, <1>a DEF Judge
  <2> QED
    BY <1>19, <2>1, <2>2, <2>3 DEF Judge, HandlerState
<1>20. ASSUME NEW h \in Handlers, Close(h) PROVE TypeOK'
  <2>1. row' \in Row /\ raced' \in BOOLEAN
    BY <1>20 DEF Close
  <2> QED
    BY <1>20, <1>m, <2>1, IdleType DEF Close, HandlerState
<1>21. ASSUME NEW h \in Handlers, InboundFails(h) PROVE TypeOK'
  <2>1. older' \in [Handlers -> SUBSET Handlers] /\ late' \in SUBSET Handlers
    BY <1>21, <1>a DEF InboundFails
  <2>2. hand' \in [Handlers -> HandlerState] /\ upsets' \in 0..MaxUpsets
    BY <1>21, <1>m, IdleType DEF InboundFails
  <2> QED
    BY <1>21, <2>1, <2>2 DEF InboundFails, HandlerState
<1>22. CASE UNCHANGED vars
  BY <1>22 DEF vars
<1> HIDE DEF TypeOK
<1> QED
  BY <1>1, <1>2, <1>2u, <1>3, <1>4, <1>5, <1>6, <1>7, <1>8, <1>9, <1>10, <1>11, <1>12, <1>13, <1>14,
     <1>15, <1>16, <1>16u, <1>17, <1>18, <1>19, <1>20, <1>21, <1>22
  DEF Next, Manager, Connection, Tracker, Inbound

\* Types hold in every state of every behaviour.
THEOREM TypeCorrect == Spec => []TypeOK
<1> QED
  BY TypeInit, TypeNext, PTL DEF Spec

-----------------------------------------------------------------------------
(* Orders that were taken                                                  *)

\* Whatever is under way is for an order the row has taken.
Numbered ==
  /\ \A r \in Requests : req[r].pc \in {"written", "stamping"} => req[r].ord <= row.ord
  /\ flush.pc \in {"loaded", "stamping"} => flush.ord <= row.ord
  /\ \A i \in DOMAIN down : down[i].ord <= row.ord
  /\ applied <= row.ord

\* What a command does to the wire, numbered.
LEMMA SendNumbered ==
  ASSUME down \in Seq(Message), NEW kind \in Commands, NEW ord \in Orders, Send(kind, ord),
         NEW n \in Orders, ord <= n, \A i \in DOMAIN down : down[i].ord <= n
  PROVE  \A i \in DOMAIN down' : down'[i].ord <= n
<1>1. [kind |-> kind, ord |-> ord] \in Message
  BY DEF Message
<1> QED
  BY <1>1 DEF Send

LEMMA NumberedNext == TypeOK /\ Numbered /\ [Next]_vars => Numbered'
<1> SUFFICES ASSUME TypeOK, Numbered, [Next]_vars PROVE Numbered'
  OBVIOUS
<1>m. /\ down \in Seq(Message) /\ req \in [Requests -> RequestState]
      /\ flush \in FlushState /\ row \in Row /\ applied \in Orders
  BY DEF TypeOK, Message, RequestState, FlushState
<1>o. \A n \in Orders : n \in Nat
  BY BoundsAreNat
<1> USE DEF Numbered, wires, history, bounds
<1>1. ASSUME NEW r \in Requests, NEW kind \in Commands, NEW intent \in BOOLEAN, Ask(r, kind, intent)
      PROVE Numbered'
  BY <1>1, <1>m DEF Ask, RequestState
<1>2. ASSUME NEW r \in Requests, TakeOrder(r),
             req' \in {[req EXCEPT ![r].pc = "written", ![r].ord = row.ord + 1], [req EXCEPT ![r] = IdleRequest]}
      PROVE  Numbered'
  <2>1. row.ord \in Nat /\ row'.ord = row.ord + 1
    BY <1>2, <1>m, <1>o DEF TakeOrder, Row
  <2>2. \A q \in Requests : req'[q].pc \in {"written", "stamping"} => req'[q].ord <= row'.ord
    <3> SUFFICES ASSUME NEW q \in Requests, req'[q].pc \in {"written", "stamping"}
                 PROVE req'[q].ord <= row'.ord
      OBVIOUS
    <3>1. CASE q = r
      BY <1>2, <1>m, <2>1, <3>1 DEF RequestState, IdleRequest
    <3>2. CASE q # r
      <4>1. req'[q] = req[q] /\ req[q].ord \in Nat
        BY <1>2, <1>m, <1>o, <3>2 DEF RequestState
      <4> QED
        BY <2>1, <4>1
    <3> QED
      BY <3>1, <3>2
  <2>3. \A i \in DOMAIN down : down[i].ord \in Nat
    <3>1. \A i \in DOMAIN down : down[i] \in Message
      BY <1>m
    <3> QED
      BY <1>o, <3>1 DEF Message
  <2>4. flush.ord \in Nat /\ applied \in Nat
    BY <1>m, <1>o DEF FlushState
  <2>5. UNCHANGED <<flush, down, applied>>
    BY <1>2 DEF TakeOrder
  <2>6. \A i \in DOMAIN down : down[i].ord <= row'.ord
    BY <2>1, <2>3
  <2>7. flush.pc \in {"loaded", "stamping"} => flush.ord <= row'.ord
    BY <2>1, <2>4
  <2>8. applied <= row'.ord
    BY <2>1, <2>4
  <2> QED
    BY <2>2, <2>5, <2>6, <2>7, <2>8
<1>3. ASSUME NEW r \in Requests, Deliver(r) PROVE Numbered'
  <2>1. CASE IsConnected
    <3>1. \A i \in DOMAIN down' : down'[i].ord <= row.ord
      BY <1>3, <1>m, <2>1, SendNumbered DEF Deliver, HandOver, RequestState, Row
    <3> QED
      BY <1>3, <1>m, <2>1, <3>1 DEF Deliver, RequestState
  <2>2. CASE ~IsConnected
    BY <1>3, <1>m, <2>2 DEF Deliver, RequestState, IdleRequest
  <2> QED
    BY <2>1, <2>2
<1>4. ASSUME NEW r \in Requests, Stamp(r) PROVE Numbered'
  BY <1>4, <1>m DEF Stamp, StampSent, RequestState, IdleRequest, Row
<1>5. ASSUME NEW r \in Requests, LockDoors(r) PROVE Numbered'
  <2>1. \A i \in DOMAIN down' : down'[i].ord <= row.ord
    BY <1>5, <1>m, <1>o, SendNumbered DEF LockDoors, Row
  <2> QED
    BY <1>5, <1>m, <2>1 DEF LockDoors, RequestState, IdleRequest
<1>6. ASSUME NEW r \in Requests, RequestFails(r) PROVE Numbered'
  BY <1>6, <1>m DEF RequestFails, RequestState, IdleRequest
<1>7. CASE Connect
  BY <1>7, <1>m DEF Connect, FlushState
<1>8. CASE FlushLoad
  BY <1>8, <1>m, <1>o DEF FlushLoad, FlushState, IdleFlush, Row
<1>9. CASE FlushDeliver
  <2>1. CASE IsConnected
    <3>1. \A i \in DOMAIN down' : down'[i].ord <= row.ord
      BY <1>9, <1>m, <2>1, SendNumbered DEF FlushDeliver, HandOver, FlushState, Row
    <3> QED
      BY <1>9, <1>m, <2>1, <3>1 DEF FlushDeliver, FlushState
  <2>2. CASE ~IsConnected
    BY <1>9, <1>m, <2>2 DEF FlushDeliver, IdleFlush
  <2> QED
    BY <2>1, <2>2
<1>10. CASE FlushStamp
  BY <1>10, <1>m DEF FlushStamp, StampSent, IdleFlush, Row
<1>11. CASE FlushFails
  BY <1>11, <1>m DEF FlushFails, StampSent, Hangup, IdleFlush, Row
<1>12. CASE Drop
  BY <1>12, <1>m DEF Drop, Hangup
<1>13. CASE Restart
  BY <1>13, <1>m DEF Restart, IdleRequest, IdleFlush
<1>14. ASSUME NEW h \in Handlers, Obey(h) PROVE Numbered'
  BY <1>14, <1>m DEF Obey, Message
<1>15. ASSUME NEW h \in Handlers, Close(h) PROVE Numbered'
  BY <1>15, <1>m DEF Close, Row
<1>16. CASE UNCHANGED <<row, req, flush, down, applied>>
  BY <1>16
<1> HIDE DEF Numbered
<1> QED
  BY <1>1, <1>2, <1>3, <1>4, <1>5, <1>6, <1>7, <1>8, <1>9, <1>10, <1>11, <1>12, <1>13, <1>14,
     <1>15, <1>16
  DEF Next, Manager, Connection, Tracker, Inbound, WriteOrder, WriteUnanswered, NoticeDrop, Record, Upload, MessageLost, NoteLevel,
      Judge, InboundFails, vars

LEMMA NumberedAlways == Spec => []Numbered
<1>1. Init => Numbered
  BY BoundsAreNat DEF Init, Numbered, NoRow, IdleRequest, IdleFlush
<1> QED
  BY <1>1, NumberedNext, TypeCorrect, PTL DEF Spec

-----------------------------------------------------------------------------
(* The order of the commands                                               *)

\* A command that is not older than what is on the wire keeps the wire in order.
LEMMA SendInOrder ==
  ASSUME down \in Seq(Message), applied \in Orders, NEW kind \in Commands, NEW ord \in Orders,
         Send(kind, ord), DownInOrder, UNCHANGED applied,
         applied <= ord, \A i \in DOMAIN down : down[i].ord <= ord
  PROVE  DownInOrder'
<1>1. [kind |-> kind, ord |-> ord] \in Message
  BY DEF Message
<1>2. CASE link # "open"
  BY <1>2 DEF Send, DownInOrder
<1>3. CASE link = "open"
  <2>1. /\ Len(down') = Len(down) + 1 /\ down' \in Seq(Message)
        /\ \A i \in 1..Len(down) : down'[i] = down[i]
        /\ down'[Len(down) + 1].ord = ord
    BY <1>1, <1>3 DEF Send
  <2>2. ord \in Nat /\ \A i \in 1..Len(down) : down[i].ord \in Nat /\ down[i].ord <= ord
    <3>1. \A i \in 1..Len(down) : down[i] \in Message /\ i \in DOMAIN down
      OBVIOUS
    <3>2. \A m \in Message : m.ord \in Nat
      BY BoundsAreNat DEF Message
    <3> QED
      BY <3>1, <3>2, BoundsAreNat
  <2> SUFFICES ASSUME NEW i \in 1..(Len(down) + 1)
               PROVE applied <= down'[i].ord /\ \A j \in 1..i : down'[j].ord <= down'[i].ord
    BY <2>1 DEF DownInOrder
  <2>3. CASE i = Len(down) + 1
    BY <2>1, <2>2, <2>3
  <2>4. CASE i # Len(down) + 1
    <3>1. i \in 1..Len(down) /\ \A j \in 1..i : j \in 1..Len(down)
      BY <2>4
    <3> QED
      BY <2>1, <3>1 DEF DownInOrder
  <2> QED
    BY <2>3, <2>4
<1> QED
  BY <1>2, <1>3

LEMMA SupersedingNext ==
  TypeOK /\ Numbered /\ Superseding /\ [Next]_vars => Superseding'
<1> SUFFICES ASSUME TypeOK, Numbered, Superseding, [Next]_vars, ~raced' PROVE DownInOrder'
  BY DEF Superseding
<1>m. /\ down \in Seq(Message) /\ req \in [Requests -> RequestState]
      /\ flush \in FlushState /\ row \in Row /\ applied \in Orders
  BY DEF TypeOK, Message, RequestState, FlushState
<1> USE DEF wires, age, history, bounds
<1>1. CASE UNCHANGED <<down, applied, raced>>
  BY <1>1 DEF Superseding, DownInOrder
<1>2. ASSUME NEW r \in Requests, Deliver(r), IsConnected PROVE DownInOrder'
  <2>1. ~raced /\ req[r].ord = row.ord /\ Send(req[r].kind, row.ord) /\ UNCHANGED applied
    BY <1>2 DEF Deliver, HandOver
  <2>2. req[r].kind \in Commands /\ row.ord \in Orders
    BY <1>m DEF RequestState, Row
  <2> QED
    BY <1>m, <2>1, <2>2, SendInOrder DEF Superseding, Numbered
<1>3. CASE FlushDeliver /\ IsConnected
  <2>1. ~raced /\ flush.ord = row.ord /\ Send(flush.cmd, row.ord) /\ UNCHANGED applied
    BY <1>3 DEF FlushDeliver, HandOver
  <2>2. flush.cmd \in Commands /\ row.ord \in Orders
    BY <1>m DEF FlushState, Row
  <2> QED
    BY <1>m, <2>1, <2>2, SendInOrder DEF Superseding, Numbered
<1>4. ASSUME NEW r \in Requests, LockDoors(r), IsConnected PROVE DownInOrder'
  <2>1. ~raced /\ Send("lock", row.ord) /\ UNCHANGED applied
    BY <1>4 DEF LockDoors
  <2>2. row.ord \in Orders
    BY <1>m DEF Row
  <2> QED
    BY <1>m, <2>1, <2>2, SendInOrder DEF Superseding, Numbered
<1>5. CASE down' = <<>>
  BY <1>5 DEF DownInOrder
<1>6. ASSUME NEW h \in Handlers, Obey(h) PROVE DownInOrder'
  <2>1. ~raced /\ down # <<>> /\ down' = Tail(down) /\ applied' \in {applied, Head(down).ord}
    BY <1>6 DEF Obey
  <2>2. Len(down) \in Nat /\ Len(down) > 0 /\ Len(down') = Len(down) - 1
    BY <1>m, <2>1
  <2>3. \A i \in 1..Len(down') : down'[i] = down[i + 1] /\ i + 1 \in 1..Len(down)
    BY <1>m, <2>1, <2>2
  <2>4. /\ \A i \in 1..Len(down) : applied <= down[i].ord /\ down[1].ord <= down[i].ord
        /\ Head(down) = down[1]
    BY <1>m, <2>1, <2>2 DEF Superseding, DownInOrder
  <2>5. \A i \in 1..Len(down') : applied' <= down'[i].ord
    BY <2>1, <2>3, <2>4
  <2>6. ASSUME NEW i \in 1..Len(down'), NEW j \in 1..i PROVE down'[j].ord <= down'[i].ord
    <3>1. j \in 1..Len(down') /\ j + 1 \in 1..(i + 1)
      BY <2>2
    <3> QED
      BY <1>m, <2>1, <2>3, <3>1 DEF Superseding, DownInOrder
  <2>7. DOMAIN down' = 1..Len(down')
    BY <1>m, <2>1
  <2> QED
    BY <2>5, <2>6, <2>7 DEF DownInOrder
<1>7. CASE UNCHANGED <<down, applied>> /\ (raced => raced')
  BY <1>7 DEF Superseding, DownInOrder
<1> QED
  BY <1>1, <1>2, <1>3, <1>4, <1>5, <1>6, <1>7
  DEF Next, Manager, Connection, Tracker, Inbound, Ask, WriteOrder, WriteUnanswered, TakeOrder, Deliver, Stamp, StampSent,
      LockDoors, RequestFails, Connect, FlushLoad, FlushDeliver, FlushStamp, FlushFails, Hangup,
      Drop, NoticeDrop, Restart, Record, Upload, MessageLost, NoteLevel, Judge, Close, InboundFails, vars

\* As long as no suspended handler acted for an order that had been replaced, the tracker
\* gets the commands in the order in which the row took them: the last word is the newest.
THEOREM SupersedingAlways == Spec => []Superseding
<1>1. Init => Superseding
  BY DEF Init, Superseding, DownInOrder
<1> QED
  BY <1>1, SupersedingNext, NumberedAlways, TypeCorrect, PTL DEF Spec

-----------------------------------------------------------------------------
(* What immobilizerSentAt says, and what is left behind                    *)

\* Who is about to mark the order in the row as sent has given it to a socket.
StampersHanded ==
  ~raced =>
    /\ row.sent => handed
    /\ \A r \in Requests : req[r].pc = "stamping" /\ req[r].ord = row.ord => handed
    /\ flush.pc = "stamping" /\ flush.ord = row.ord => handed

LEMMA StampersNext ==
  TypeOK /\ Numbered /\ StampersHanded /\ [Next]_vars => StampersHanded'
<1> SUFFICES ASSUME TypeOK, Numbered, StampersHanded, [Next]_vars, ~raced'
             PROVE /\ row'.sent => handed'
                   /\ \A r \in Requests : req'[r].pc = "stamping" /\ req'[r].ord = row'.ord => handed'
                   /\ flush'.pc = "stamping" /\ flush'.ord = row'.ord => handed'
  BY DEF StampersHanded
<1> DEFINE Goal == /\ row'.sent => handed'
                   /\ \A r \in Requests : req'[r].pc = "stamping" /\ req'[r].ord = row'.ord => handed'
                   /\ flush'.pc = "stamping" /\ flush'.ord = row'.ord => handed'
<1> SUFFICES Goal
  OBVIOUS
<1>m. /\ req \in [Requests -> RequestState] /\ flush \in FlushState /\ row \in Row
      /\ row.ord \in Nat
  BY BoundsAreNat DEF TypeOK, RequestState, FlushState, Row
<1>w. raced => raced'
  BY DEF Next, Manager, Connection, Tracker, Inbound, Ask, WriteOrder, WriteUnanswered, TakeOrder, Deliver, HandOver, Stamp,
      StampSent, LockDoors, RequestFails, Connect, FlushLoad, FlushDeliver, FlushStamp, FlushFails,
      Drop, NoticeDrop, Restart, Obey, Record, Upload, MessageLost, NoteLevel, Judge, Close, InboundFails,
      vars, age, history
<1>k. /\ row.sent => handed
      /\ \A r \in Requests : req[r].pc = "stamping" /\ req[r].ord = row.ord => handed
      /\ flush.pc = "stamping" /\ flush.ord = row.ord => handed
  BY <1>w DEF StampersHanded
<1> USE DEF wires, age, history, bounds
<1>1. ASSUME NEW r \in Requests, NEW kind \in Commands, NEW intent \in BOOLEAN, Ask(r, kind, intent)
      PROVE Goal
  BY <1>1, <1>m, <1>k DEF Ask, RequestState
<1>2. ASSUME NEW r \in Requests, TakeOrder(r),
             req' \in {[req EXCEPT ![r].pc = "written", ![r].ord = row.ord + 1], [req EXCEPT ![r] = IdleRequest]}
      PROVE  Goal
  <2>1. ~row'.sent /\ row'.ord = row.ord + 1 /\ UNCHANGED flush
    BY <1>2 DEF TakeOrder
  <2>2. ASSUME NEW q \in Requests, req'[q].pc = "stamping" PROVE req'[q].ord # row'.ord
    <3>1. q # r /\ req'[q] = req[q]
      BY <1>2, <1>m, <2>2 DEF RequestState, IdleRequest
    <3>2. req[q].ord <= row.ord /\ req[q].ord \in Nat
      BY <1>m, <2>2, <3>1, BoundsAreNat DEF Numbered, RequestState
    <3> QED
      BY <1>m, <2>1, <3>1, <3>2
  <2>3. flush'.pc = "stamping" => flush'.ord # row'.ord
    BY <1>m, <2>1, BoundsAreNat DEF Numbered, FlushState
  <2> QED
    BY <2>1, <2>2, <2>3
<1>3. ASSUME NEW r \in Requests, Deliver(r) PROVE Goal
  <2>1. UNCHANGED <<row, flush>> /\ (handed => handed')
    BY <1>3 DEF Deliver, HandOver
  <2>2. ASSUME NEW q \in Requests, req'[q].pc = "stamping", req'[q].ord = row.ord PROVE handed'
    <3>1. CASE q = r
      <4>1. IsConnected
        BY <1>3, <1>m, <2>2, <3>1 DEF Deliver, RequestState, IdleRequest
      <4>2. HandOver(req[r].kind, req[r].ord)
        BY <1>3, <4>1 DEF Deliver
      <4>3. req[r].ord = row.ord
        BY <4>2 DEF HandOver
      <4> QED
        BY <4>2, <4>3 DEF HandOver
    <3>2. CASE q # r
      BY <1>3, <1>m, <1>k, <2>1, <2>2, <3>2 DEF Deliver, RequestState
    <3> QED
      BY <3>1, <3>2
  <2> QED
    BY <1>k, <2>1, <2>2
<1>4. ASSUME NEW r \in Requests, Stamp(r) PROVE Goal
  <2>1. req[r].ord = row.ord /\ handed
    BY <1>4, <1>k DEF Stamp, StampSent
  <2> QED
    BY <1>4, <2>1 DEF Stamp
<1>5. ASSUME NEW r \in Requests, LockDoors(r) \/ RequestFails(r) PROVE Goal
  BY <1>5, <1>m, <1>k DEF LockDoors, RequestFails, RequestState, IdleRequest
<1>6. CASE Connect \/ FlushLoad
  BY <1>6, <1>m, <1>k DEF Connect, FlushLoad, FlushState, IdleFlush
<1>6f. CASE FlushFails
  <2>1. flush'.pc = "idle" /\ UNCHANGED <<req, handed>>
    BY <1>6f DEF FlushFails, IdleFlush
  <2>2. CASE UNCHANGED row
    BY <1>k, <2>1, <2>2
  <2>3. CASE flush.pc = "stamping" /\ StampSent(flush.ord)
    <3>1. flush.ord = row.ord /\ handed
      BY <1>k, <2>3 DEF StampSent
    <3> QED
      BY <2>1, <3>1
  <2> QED
    BY <1>6f, <2>2, <2>3 DEF FlushFails
<1>7. CASE FlushDeliver
  <2>1. UNCHANGED <<row, req>> /\ (handed => handed')
    BY <1>7 DEF FlushDeliver, HandOver
  <2>2. flush'.pc = "stamping" => handed'
    <3> SUFFICES ASSUME flush'.pc = "stamping" PROVE handed'
      OBVIOUS
    <3>1. HandOver(flush.cmd, flush.ord)
      BY <1>7, <1>m DEF FlushDeliver, FlushState, IdleFlush
    <3>2. flush.ord = row.ord
      BY <3>1 DEF HandOver
    <3> QED
      BY <3>1, <3>2 DEF HandOver
  <2> QED
    BY <1>k, <2>1, <2>2
<1>8. CASE FlushStamp
  <2>1. flush.ord = row.ord /\ handed
    BY <1>8, <1>k DEF FlushStamp, StampSent
  <2> QED
    BY <1>8, <2>1 DEF FlushStamp
<1>9. CASE Restart
  BY <1>9, <1>k DEF Restart, IdleRequest, IdleFlush
<1>10. ASSUME NEW h \in Handlers, Close(h) PROVE Goal
  BY <1>10, <1>m, <1>k DEF Close, Row
<1>11. CASE UNCHANGED <<row, req, flush, handed>>
  BY <1>11, <1>k
<1> HIDE DEF Goal
<1> QED
  BY <1>1, <1>2, <1>3, <1>4, <1>5, <1>6, <1>6f, <1>7, <1>8, <1>9, <1>10, <1>11
  DEF Next, Manager, Connection, Tracker, Inbound, WriteOrder, WriteUnanswered, Drop, NoticeDrop, Obey, Record, Upload, MessageLost,
      NoteLevel, Judge, InboundFails, vars

\* As long as no suspended handler acted for an order that had been replaced, an order marked
\* as sent has been given to a socket, so the handshake that skips it loses nothing.
THEOREM SentAlways == Spec => []SentUnlessRaced
<1>1. Init => StampersHanded
  BY DEF Init, StampersHanded, NoRow, IdleRequest, IdleFlush
<1>2. StampersHanded => SentUnlessRaced
  BY DEF StampersHanded, SentUnlessRaced
<1> QED
  BY <1>1, <1>2, StampersNext, NumberedAlways, TypeCorrect, PTL DEF Spec

-----------------------------------------------------------------------------

LEMMA NeverStrandedNext ==
  TypeOK /\ StampersHanded /\ NeverStranded /\ [Next]_vars => NeverStranded'
<1> DEFINE Waiting == \/ \E r \in Requests : req[r].pc = "written" /\ req[r].ord = row.ord
                      \/ flush.pc = "load"
                      \/ flush.pc = "loaded" /\ flush.ord = row.ord
<1> SUFFICES ASSUME TypeOK, StampersHanded, NeverStranded, [Next]_vars,
                    ~raced', ~orphaned', IsConnected', row'.command # NoCommand, ~handed'
             PROVE  Waiting'
  BY DEF NeverStranded
<1>m. req \in [Requests -> RequestState] /\ flush \in FlushState /\ row \in Row
  BY DEF TypeOK, RequestState, FlushState
<1>w. raced => raced'
  BY DEF Next, Manager, Connection, Tracker, Inbound, Ask, WriteOrder, WriteUnanswered, TakeOrder, Deliver, HandOver, Stamp,
      StampSent, LockDoors, RequestFails, Connect, FlushLoad, FlushDeliver, FlushStamp, FlushFails,
      Drop, NoticeDrop, Restart, Obey, Record, Upload, MessageLost, NoteLevel, Judge, Close, InboundFails,
      vars, age, history
<1>k. (row.sent => handed) /\ (~orphaned /\ IsConnected /\ row.command # NoCommand /\ ~handed => Waiting)
  BY <1>w DEF StampersHanded, NeverStranded
<1> USE DEF wires, age, history, bounds
<1>1. ASSUME NEW r \in Requests, NEW kind \in Commands, NEW intent \in BOOLEAN, Ask(r, kind, intent)
      PROVE Waiting'
  BY <1>1, <1>m, <1>k DEF Ask, RequestState, IsConnected
<1>2. ASSUME NEW r \in Requests, WriteOrder(r) PROVE Waiting'
  BY <1>2, <1>m DEF WriteOrder, TakeOrder, RequestState
<1>2u. ASSUME NEW r \in Requests, WriteUnanswered(r) PROVE Waiting'
  BY <1>2u DEF WriteUnanswered
<1>3. ASSUME NEW r \in Requests, Deliver(r) PROVE Waiting'
  <2>1. IsConnected /\ UNCHANGED <<row, flush>> /\ HandOver(req[r].kind, req[r].ord)
    BY <1>3 DEF Deliver, IsConnected
  <2>2. ~handed /\ req[r].ord # row.ord
    BY <2>1 DEF HandOver
  <2> QED
    BY <2>1, <2>2 DEF HandOver
<1>4. ASSUME NEW r \in Requests, Stamp(r) PROVE Waiting'
  BY <1>4, <1>m, <1>k DEF Stamp, StampSent, RequestState, IdleRequest, Row, IsConnected
<1>5. ASSUME NEW r \in Requests, LockDoors(r) \/ RequestFails(r) PROVE Waiting'
  BY <1>5, <1>m, <1>k DEF LockDoors, RequestFails, RequestState, IdleRequest, IsConnected
<1>6. CASE Connect
  BY <1>6, <1>m DEF Connect, FlushState
<1>7. CASE FlushLoad
  BY <1>7, <1>k DEF FlushLoad, IsConnected
<1>8. CASE FlushDeliver
  <2>1. IsConnected /\ UNCHANGED <<row, req>> /\ HandOver(flush.cmd, flush.ord)
    BY <1>8 DEF FlushDeliver, IsConnected
  <2> QED
    BY <2>1 DEF HandOver
<1>9. CASE FlushStamp
  BY <1>9, <1>m, <1>k DEF FlushStamp, StampSent, Row, IsConnected
<1>10. CASE FlushFails \/ Restart
  BY <1>10 DEF FlushFails, Restart, Hangup, IsConnected
<1>11. ASSUME NEW h \in Handlers, Close(h) PROVE Waiting'
  BY <1>11, <1>m DEF Close, Row
<1>12. CASE UNCHANGED <<row, req, flush, handed, orphaned>> /\ (IsConnected' => IsConnected)
  BY <1>12, <1>k
<1> HIDE DEF Waiting
<1> QED
  BY <1>1, <1>2, <1>2u, <1>3, <1>4, <1>5, <1>6, <1>7, <1>8, <1>9, <1>10, <1>11, <1>12
  DEF Next, Manager, Connection, Tracker, Inbound, Drop, Hangup, NoticeDrop, Obey, Record, Upload,
      MessageLost, NoteLevel, Judge, InboundFails, IsConnected, vars

\* An order the tracker has not been given is never left behind while it is connected: the
\* request looks for the socket after it wrote the row, the handshake reads the row after the
\* socket is there, and one of the two sees the other.
THEOREM NeverStrandedAlways == Spec => []NeverStranded
<1>1. Init => NeverStranded /\ StampersHanded
  BY DEF Init, NeverStranded, StampersHanded, IsConnected, NoRow, IdleRequest, IdleFlush
<1>2. TypeOK /\ Numbered /\ StampersHanded /\ NeverStranded /\ [Next]_vars
        => (StampersHanded /\ NeverStranded)'
  BY StampersNext, NeverStrandedNext
<1> QED
  BY <1>1, <1>2, NumberedAlways, TypeCorrect, PTL DEF Spec

-----------------------------------------------------------------------------
(* What the tracker is told, and what a closed command stands for          *)

\* What is under way for the order in the row asks for the level the row stands for, and
\* nothing is on the wire of a connection that is gone.
Agreed ==
  /\ row.command # NoCommand => Wanted(row.command) = Level
  /\ \A r \in Requests : req[r].pc \in {"written", "stamping"} =>
       req[r].kind \in Kinds /\ (req[r].ord = row.ord => Wanted(req[r].kind) = Level)
  /\ flush.pc \in {"loaded", "stamping"} /\ flush.ord = row.ord => Wanted(flush.cmd) = Level
  /\ link # "open" => down = <<>>
  /\ \A i \in OrdersOnWire : down[i].ord = row.ord => Wanted(down[i].kind) = Level

\* A command goes to the end of the wire of an open connection, and nowhere else.
LEMMA SendAppends ==
  ASSUME down \in Seq(Message), NEW kind \in Commands, NEW ord \in Orders, Send(kind, ord)
  PROVE  /\ link # "open" => down' = down
         /\ link = "open" =>
              /\ DOMAIN down' = 1..(Len(down) + 1)
              /\ \A i \in 1..Len(down) : down'[i] = down[i]
              /\ down'[Len(down) + 1].ord = ord /\ down'[Len(down) + 1].kind = kind
         /\ DOMAIN down = 1..Len(down) /\ Len(down) \in Nat
<1>1. [kind |-> kind, ord |-> ord] \in Message
  BY DEF Message
<1> QED
  BY <1>1 DEF Send

\* An order at the end of the wire agrees with the row if it asks for what the row stands for.
LEMMA SendAgreed ==
  ASSUME TypeOK, Agreed, NEW kind \in Commands, NEW ord \in Orders, Send(kind, ord), UNCHANGED <<row, link>>,
         kind \in Kinds /\ ord = row.ord => Wanted(kind) = Level
  PROVE  /\ link' # "open" => down' = <<>>
         /\ \A i \in OrdersOnWire' : down'[i].ord = row'.ord => Wanted(down'[i].kind) = Level'
<1>m. down \in Seq(Message)
  BY DEF TypeOK, Message
<1>1. CASE link = "open"
  <2> SUFFICES ASSUME NEW i \in OrdersOnWire', down'[i].ord = row.ord
               PROVE  Wanted(down'[i].kind) = Level
    BY <1>1 DEF Level
  <2>1. i \in 1..(Len(down) + 1) /\ down'[i].kind \in Kinds
    BY <1>m, <1>1, SendAppends DEF OrdersOnWire
  <2>2. CASE i = Len(down) + 1
    BY <1>m, <1>1, <2>1, <2>2, SendAppends
  <2>3. CASE i # Len(down) + 1
    <3>1. i \in OrdersOnWire /\ down'[i] = down[i]
      BY <1>m, <1>1, <2>1, <2>3, SendAppends DEF OrdersOnWire
    <3> QED
      BY <3>1 DEF Agreed
  <2> QED
    BY <2>2, <2>3
<1>2. CASE link # "open"
  BY <1>m, <1>2, SendAppends DEF Agreed, OrdersOnWire, Level
<1> QED
  BY <1>1, <1>2

\* The wire one command further on.
LEMMA TailOfWire ==
  ASSUME down \in Seq(Message), down # <<>>, down' = Tail(down)
  PROVE  /\ Head(down) = down[1] /\ 1 \in DOMAIN down
         /\ \A i \in DOMAIN down' : i \in Nat /\ i >= 1 /\ i + 1 \in DOMAIN down /\ down'[i] = down[i + 1]
         /\ \A i \in DOMAIN down : i = 1 \/ (i - 1 \in DOMAIN down' /\ down'[i - 1] = down[i])
         /\ DOMAIN down \subseteq Nat
  OBVIOUS

LEMMA AgreedNext == TypeOK /\ Numbered /\ Agreed /\ [Next]_vars => Agreed'
<1> SUFFICES ASSUME TypeOK, Numbered, Agreed, [Next]_vars PROVE Agreed'
  OBVIOUS
<1>m. /\ down \in Seq(Message) /\ req \in [Requests -> RequestState]
      /\ flush \in FlushState /\ row \in Row
      /\ row.ord \in Nat
  BY BoundsAreNat DEF TypeOK, Message, RequestState, FlushState, Row
<1>k. /\ row.command # NoCommand => Wanted(row.command) = Level
      /\ \A r \in Requests : req[r].pc \in {"written", "stamping"} =>
           req[r].kind \in Kinds /\ (req[r].ord = row.ord => Wanted(req[r].kind) = Level)
      /\ flush.pc \in {"loaded", "stamping"} /\ flush.ord = row.ord => Wanted(flush.cmd) = Level
      /\ link # "open" => down = <<>>
      /\ \A i \in OrdersOnWire : down[i].ord = row.ord => Wanted(down[i].kind) = Level
  BY DEF Agreed
<1> USE DEF wires, age, history, bounds
<1>1. ASSUME NEW r \in Requests, NEW kind \in Commands, NEW intent \in BOOLEAN, Ask(r, kind, intent)
      PROVE Agreed'
  <2>1. \A q \in Requests : req'[q].pc \in {"written", "stamping"} => req'[q] = req[q]
    BY <1>1, <1>m DEF Ask, RequestState
  <2> QED
    BY <1>1, <1>k, <2>1 DEF Ask, Agreed, OrdersOnWire, Level
<1>2. ASSUME NEW r \in Requests, TakeOrder(r),
             req' \in {[req EXCEPT ![r].pc = "written", ![r].ord = row.ord + 1], [req EXCEPT ![r] = IdleRequest]}
      PROVE  Agreed'
  <2>1. /\ row'.ord = row.ord + 1 /\ row'.command = req[r].kind /\ req[r].kind \in Kinds
        /\ (row'.immobilized <=> req[r].kind = "engage")
        /\ UNCHANGED <<flush, link, down>>
    BY <1>2 DEF TakeOrder
  <2>2. Wanted(req[r].kind) = Level'
    BY <2>1 DEF Wanted, Level
  <2>3. ASSUME NEW q \in Requests, req'[q].pc \in {"written", "stamping"}
        PROVE req'[q].kind \in Kinds /\ (req'[q].ord = row'.ord => Wanted(req'[q].kind) = Level')
    <3>1. CASE q = r
      BY <1>2, <1>m, <2>1, <2>2, <2>3, <3>1 DEF RequestState, IdleRequest
    <3>2. CASE q # r
      <4>1. req'[q] = req[q]
        BY <1>2, <1>m, <3>2 DEF RequestState
      <4>2. req[q].ord <= row.ord /\ req[q].ord \in Nat
        BY <1>m, <2>3, <4>1, BoundsAreNat DEF Numbered, RequestState
      <4> QED
        BY <1>k, <1>m, <2>1, <2>3, <4>1, <4>2
    <3> QED
      BY <3>1, <3>2
  <2>4. flush.pc \in {"loaded", "stamping"} => flush.ord # row'.ord
    BY <1>m, <2>1, BoundsAreNat DEF Numbered, FlushState
  <2>5. \A i \in DOMAIN down : down[i].ord # row'.ord
    <3>1. \A i \in DOMAIN down : down[i] \in Message
      BY <1>m
    <3>2. \A i \in DOMAIN down : down[i].ord <= row.ord /\ down[i].ord \in Nat
      BY <3>1, BoundsAreNat DEF Numbered, Message
    <3> QED
      BY <1>m, <2>1, <3>2
  <2> QED
    BY <1>k, <2>1, <2>2, <2>3, <2>4, <2>5 DEF Agreed, OrdersOnWire
<1>3. ASSUME NEW r \in Requests, Deliver(r) PROVE Agreed'
  <2>1. UNCHANGED <<row, flush, link>> /\ req[r].pc = "written"
    BY <1>3 DEF Deliver
  <2>2. \A q \in Requests : req'[q].pc \in {"written", "stamping"} =>
          /\ req[q].pc \in {"written", "stamping"}
          /\ req'[q].kind = req[q].kind /\ req'[q].ord = req[q].ord
    BY <1>3, <1>m, <2>1 DEF Deliver, RequestState, IdleRequest
  <2>3. /\ link' # "open" => down' = <<>>
        /\ \A i \in OrdersOnWire' : down'[i].ord = row'.ord => Wanted(down'[i].kind) = Level'
    <3>1. CASE IsConnected
      <4>1. Send(req[r].kind, req[r].ord)
        BY <1>3, <3>1 DEF Deliver, HandOver
      <4>2. req[r].kind \in Commands /\ req[r].ord \in Orders
        BY <1>m DEF RequestState
      <4> QED
        BY <1>k, <2>1, <4>1, <4>2, SendAgreed
    <3>2. CASE ~IsConnected
      BY <1>3, <1>k, <2>1, <3>2 DEF Deliver, OrdersOnWire, Level
    <3> QED
      BY <3>1, <3>2
  <2> QED
    BY <1>k, <2>1, <2>2, <2>3 DEF Agreed, Level
<1>4. ASSUME NEW r \in Requests, Stamp(r) PROVE Agreed'
  <2>1. \A q \in Requests : req'[q].pc \in {"written", "stamping"} => req'[q] = req[q]
    BY <1>4, <1>m DEF Stamp, RequestState, IdleRequest
  <2>2. /\ row'.ord = row.ord /\ row'.command = row.command /\ row'.immobilized = row.immobilized
        /\ UNCHANGED <<flush, link, down>>
    BY <1>4, <1>m DEF Stamp, StampSent, Row
  <2> QED
    BY <1>k, <2>1, <2>2 DEF Agreed, OrdersOnWire, Level
<1>5. ASSUME NEW r \in Requests, LockDoors(r) PROVE Agreed'
  <2>1. \A q \in Requests : req'[q].pc \in {"written", "stamping"} => req'[q] = req[q]
    BY <1>5, <1>m DEF LockDoors, RequestState, IdleRequest
  <2>2. UNCHANGED <<row, flush, link>>
    BY <1>5 DEF LockDoors
  <2>3. /\ link' # "open" => down' = <<>>
        /\ \A i \in OrdersOnWire' : down'[i].ord = row'.ord => Wanted(down'[i].kind) = Level'
    <3>1. CASE IsConnected
      <4>1. Send("lock", row.ord) /\ row.ord \in Orders
        BY <1>5, <1>m, <3>1 DEF LockDoors, Row
      <4> QED
        BY <2>2, <4>1, SendAgreed
    <3>2. CASE ~IsConnected
      BY <1>5, <1>k, <2>2, <3>2 DEF LockDoors, OrdersOnWire, Level
    <3> QED
      BY <3>1, <3>2
  <2> QED
    BY <1>k, <2>1, <2>2, <2>3 DEF Agreed, Level
<1>6. ASSUME NEW r \in Requests, RequestFails(r) PROVE Agreed'
  <2>1. \A q \in Requests : req'[q].pc \in {"written", "stamping"} => req'[q] = req[q]
    BY <1>6, <1>m DEF RequestFails, RequestState, IdleRequest
  <2> QED
    BY <1>6, <1>k, <2>1 DEF RequestFails, Agreed, OrdersOnWire, Level
<1>7. CASE Connect
  <2>1. flush'.pc = "load" /\ link' = "open" /\ down' = <<>> /\ UNCHANGED <<row, req>>
    BY <1>7, <1>m DEF Connect, FlushState
  <2> QED
    BY <1>k, <2>1 DEF Agreed, OrdersOnWire, Level
<1>8. CASE FlushLoad
  BY <1>8, <1>k DEF FlushLoad, IdleFlush, Agreed, OrdersOnWire, Level
<1>9. CASE FlushDeliver
  <2>1. UNCHANGED <<row, req, link>> /\ flush.pc = "loaded"
    BY <1>9 DEF FlushDeliver
  <2>2. flush'.pc \in {"loaded", "stamping"} => flush'.cmd = flush.cmd /\ flush'.ord = flush.ord
    BY <1>9, <1>m DEF FlushDeliver, FlushState, IdleFlush
  <2>3. /\ link' # "open" => down' = <<>>
        /\ \A i \in OrdersOnWire' : down'[i].ord = row'.ord => Wanted(down'[i].kind) = Level'
    <3>1. CASE IsConnected
      <4>1. Send(flush.cmd, flush.ord)
        BY <1>9, <3>1 DEF FlushDeliver, HandOver
      <4>2. flush.cmd \in Commands /\ flush.ord \in Orders
        BY <1>m DEF FlushState
      <4> QED
        BY <1>k, <2>1, <4>1, <4>2, SendAgreed
    <3>2. CASE ~IsConnected
      BY <1>9, <1>k, <2>1, <3>2 DEF FlushDeliver, OrdersOnWire, Level
    <3> QED
      BY <3>1, <3>2
  <2> QED
    BY <1>k, <2>1, <2>2, <2>3 DEF Agreed, Level
<1>10. CASE FlushStamp
  <2>1. /\ row'.ord = row.ord /\ row'.command = row.command /\ row'.immobilized = row.immobilized
        /\ flush'.pc = "idle" /\ UNCHANGED <<req, link, down>>
    BY <1>10, <1>m DEF FlushStamp, StampSent, Row, IdleFlush
  <2> QED
    BY <1>k, <2>1 DEF Agreed, OrdersOnWire, Level
<1>11. CASE FlushFails \/ Drop
  <2>1. /\ row'.ord = row.ord /\ row'.command = row.command /\ row'.immobilized = row.immobilized
        /\ UNCHANGED req /\ down' = <<>>
        /\ UNCHANGED flush \/ flush'.pc = "idle"
    BY <1>11, <1>m DEF FlushFails, StampSent, Drop, Hangup, IdleFlush, Row
  <2> QED
    BY <1>k, <2>1 DEF Agreed, OrdersOnWire, Level
<1>12. CASE NoticeDrop
  BY <1>12, <1>k DEF NoticeDrop, Agreed, OrdersOnWire, Level
<1>13. CASE Restart
  BY <1>13, <1>k DEF Restart, IdleRequest, IdleFlush, Agreed, OrdersOnWire, Level
<1>14. ASSUME NEW h \in Handlers, Obey(h) PROVE Agreed'
  <2>1. down # <<>> /\ down' = Tail(down) /\ UNCHANGED <<row, req, flush, link>> /\ link = "open"
    BY <1>14 DEF Obey
  <2>2. ASSUME NEW i \in OrdersOnWire', down'[i].ord = row.ord PROVE Wanted(down'[i].kind) = Level
    <3>1. i + 1 \in OrdersOnWire /\ down'[i] = down[i + 1]
      BY <1>m, <2>1, TailOfWire DEF OrdersOnWire
    <3> QED
      BY <1>k, <2>2, <3>1
  <2> QED
    BY <1>k, <2>1, <2>2 DEF Agreed, Level
<1>15. ASSUME NEW h \in Handlers, Close(h) PROVE Agreed'
  <2>1. /\ row'.ord = row.ord /\ row'.command = NoCommand /\ row'.immobilized = row.immobilized
        /\ UNCHANGED <<req, flush, link, down>>
    BY <1>15, <1>m DEF Close, Row
  <2> QED
    BY <1>k, <2>1 DEF Agreed, OrdersOnWire, Level
<1>16. CASE UNCHANGED <<row, req, flush, link, down>>
  BY <1>16, <1>k DEF Agreed, OrdersOnWire, Level
<1> QED
  BY <1>1, <1>2, <1>3, <1>4, <1>5, <1>6, <1>7, <1>8, <1>9, <1>10, <1>11, <1>12, <1>13, <1>14,
     <1>15, <1>16
  DEF Next, Manager, Connection, Tracker, Inbound, WriteOrder, WriteUnanswered, Record, Upload, MessageLost, NoteLevel, Judge,
      InboundFails, vars

LEMMA AgreedAlways == Spec => []Agreed
<1>1. Init => Agreed
  BY DEF Init, Agreed, NoRow, IdleRequest, IdleFlush, OrdersOnWire
<1> QED
  BY <1>1, AgreedNext, NumberedAlways, TypeCorrect, PTL DEF Spec

-----------------------------------------------------------------------------

\* What was lost or raced stays so.
LEMMA MarksStay == [Next]_vars => (lost => lost') /\ (raced => raced')
<1> SUFFICES ASSUME [Next]_vars PROVE (lost => lost') /\ (raced => raced')
  OBVIOUS
<1> USE DEF wires, age, history, bounds
<1>1. raced => raced'
  BY DEF Next, Manager, Connection, Tracker, Inbound, Ask, WriteOrder, WriteUnanswered, TakeOrder, Deliver, HandOver, Stamp,
      StampSent, LockDoors, RequestFails, Connect, FlushLoad, FlushDeliver, FlushStamp, FlushFails,
      Drop, NoticeDrop, Restart, Obey, Record, Upload, MessageLost, NoteLevel, Judge, Close, InboundFails, vars
<1>2. lost => lost'
  <2>1. FlushFails \/ Drop \/ Restart => (lost => lost')
    BY DEF FlushFails, Drop, Restart, Hangup
  <2>2. ASSUME NEW r \in Requests, Deliver(r) PROVE lost => lost'
    BY <2>2 DEF Deliver, HandOver
  <2>3. FlushDeliver => (lost => lost')
    BY DEF FlushDeliver, HandOver
  <2> QED
    BY <2>1, <2>2, <2>3
    DEF Next, Manager, Connection, Tracker, Inbound, Ask, WriteOrder, WriteUnanswered, TakeOrder, Stamp, LockDoors, RequestFails,
      Connect, FlushLoad, FlushStamp, NoticeDrop, Obey, Record, Upload, MessageLost, NoteLevel, Judge, Close,
      InboundFails, vars
<1> QED
  BY <1>1, <1>2

\* An order that goes out over an open connection becomes the last word.
LEMMA HandOverAhead ==
  ASSUME TypeOK, NEW kind \in Kinds, NEW ord \in Orders, Send(kind, ord), link = "open",
         Wanted(kind) = Level, UNCHANGED row
  PROVE  WillRead(Level)'
<1>m. down \in Seq(Message)
  BY DEF TypeOK, Message
<1>1. /\ DOMAIN down' = 1..(Len(down) + 1) /\ Len(down) \in Nat
      /\ down'[Len(down) + 1].kind = kind
  BY <1>m, SendAppends
<1>2. Len(down) + 1 \in OrdersOnWire' /\ \A j \in OrdersOnWire' : j <= Len(down) + 1
  BY <1>1 DEF OrdersOnWire
<1> QED
  BY <1>1, <1>2 DEF WillRead, Level

\* The last word stands as long as the wire, the relay and the row are what they were.
LEMMA WireKept ==
  ASSUME WillRead(Level), UNCHANGED <<down, relay>>, row'.immobilized = row.immobilized
  PROVE  WillRead(Level)'
  BY DEF WillRead, Level, OrdersOnWire

\* A wire without orders leaves the last word to the relay.
LEMMA WireCleared ==
  ASSUME WillRead(Level), OrdersOnWire = {}, down' = <<>>, UNCHANGED relay, row'.immobilized = row.immobilized
  PROVE  WillRead(Level)'
  BY DEF WillRead, Level, OrdersOnWire

LEMMA RowIsAheadNext ==
  TypeOK /\ Agreed /\ RowIsAhead /\ [Next]_vars => RowIsAhead'
<1> SUFFICES ASSUME TypeOK, Agreed, RowIsAhead, [Next]_vars, handed', ~lost', ~raced'
             PROVE  WillRead(Level)'
  BY DEF RowIsAhead
<1> DEFINE Goal == WillRead(Level)'
<1> SUFFICES Goal
  OBVIOUS
<1>m. /\ down \in Seq(Message) /\ req \in [Requests -> RequestState]
      /\ flush \in FlushState /\ row \in Row /\ link \in {"open", "half", "closed"}
  BY DEF TypeOK, Message, RequestState, FlushState
<1>w. ~lost /\ ~raced
  BY MarksStay
<1>k. handed => WillRead(Level)
  BY <1>w DEF RowIsAhead
<1> USE DEF wires, age, history, bounds
<1>1. ASSUME NEW r \in Requests, TakeOrder(r) PROVE Goal
  BY <1>1 DEF TakeOrder
<1>2. ASSUME NEW r \in Requests, Deliver(r) PROVE Goal
  <2>1. req[r].pc = "written" /\ UNCHANGED <<row, relay>>
    BY <1>2 DEF Deliver
  <2>2. CASE IsConnected
    <3>1. Send(req[r].kind, req[r].ord) /\ req[r].ord = row.ord /\ link = "open"
      BY <1>2, <1>m, <2>2 DEF Deliver, HandOver, IsConnected
    <3>2. req[r].kind \in Kinds /\ Wanted(req[r].kind) = Level /\ req[r].ord \in Orders
      BY <1>m, <2>1, <3>1 DEF Agreed, RequestState
    <3> QED
      BY <2>1, <3>1, <3>2, HandOverAhead
  <2>3. CASE ~IsConnected
    <3>1. UNCHANGED <<down, handed>>
      BY <1>2, <2>3 DEF Deliver
    <3> QED
      BY <1>k, <2>1, <3>1, WireKept
  <2> QED
    BY <2>2, <2>3
<1>3. CASE FlushDeliver
  <2>1. flush.pc = "loaded" /\ UNCHANGED <<row, relay>>
    BY <1>3 DEF FlushDeliver
  <2>2. CASE IsConnected
    <3>1. Send(flush.cmd, flush.ord) /\ flush.ord = row.ord /\ link = "open"
      BY <1>3, <1>m, <2>2 DEF FlushDeliver, HandOver, IsConnected
    <3>2. flush.cmd \in Kinds /\ Wanted(flush.cmd) = Level /\ flush.ord \in Orders
      BY <1>m, <2>1, <3>1 DEF Agreed, FlushState
    <3> QED
      BY <2>1, <3>1, <3>2, HandOverAhead
  <2>3. CASE ~IsConnected
    <3>1. UNCHANGED <<down, handed>>
      BY <1>3, <2>3 DEF FlushDeliver
    <3> QED
      BY <1>k, <2>1, <3>1, WireKept
  <2> QED
    BY <2>2, <2>3
<1>4. ASSUME NEW r \in Requests, LockDoors(r) PROVE Goal
  <2>1. UNCHANGED <<row, link, relay, handed>>
    BY <1>4 DEF LockDoors
  <2>2. CASE UNCHANGED down
    BY <1>k, <2>1, <2>2, WireKept
  <2>3. CASE link = "open"
    <3>1. Send("lock", row.ord) /\ row.ord \in Orders
      BY <1>4, <1>m, <2>3 DEF LockDoors, IsConnected, Row
    <3>2. /\ DOMAIN down' = 1..(Len(down) + 1) /\ DOMAIN down = 1..Len(down) /\ Len(down) \in Nat
          /\ \A i \in 1..Len(down) : down'[i] = down[i]
          /\ down'[Len(down) + 1].kind = "lock"
      BY <1>m, <2>3, <3>1, SendAppends
    <3>3. OrdersOnWire' = OrdersOnWire /\ \A i \in OrdersOnWire : down'[i] = down[i]
      BY <3>2 DEF OrdersOnWire
    <3> QED
      BY <1>k, <2>1, <3>3 DEF WillRead, Level
  <2> QED
    BY <1>4, <2>2, <2>3 DEF LockDoors, Send
<1>5. CASE Connect
  <2>1. OrdersOnWire = {}
    BY <1>5 DEF Connect, Agreed, OrdersOnWire
  <2> QED
    BY <1>5, <1>k, <2>1, WireCleared DEF Connect
<1>6. CASE FlushFails \/ Drop \/ Restart
  <2>1. down' = <<>> /\ OrdersOnWire = {} /\ UNCHANGED <<relay, handed>>
    BY <1>6 DEF FlushFails, Drop, Restart, Hangup
  <2>2. row'.immobilized = row.immobilized
    BY <1>6, <1>m DEF FlushFails, StampSent, Drop, Restart, Row
  <2> QED
    BY <1>k, <2>1, <2>2, WireCleared
<1>7. ASSUME NEW h \in Handlers, Obey(h) PROVE Goal
  <2>1. /\ down # <<>> /\ down' = Tail(down) /\ UNCHANGED <<row, handed>>
        /\ Head(down).kind \in Kinds => relay' = Wanted(Head(down).kind)
        /\ Head(down).kind \notin Kinds => relay' = relay
    BY <1>7 DEF Obey
  <2>2. /\ Head(down) = down[1] /\ 1 \in DOMAIN down
        /\ \A i \in DOMAIN down' : i \in Nat /\ i >= 1 /\ i + 1 \in DOMAIN down /\ down'[i] = down[i + 1]
        /\ \A i \in DOMAIN down : i = 1 \/ (i - 1 \in DOMAIN down' /\ down'[i - 1] = down[i])
        /\ DOMAIN down \subseteq Nat
    BY <1>m, <2>1, TailOfWire
  <2>3. CASE OrdersOnWire = {}
    <3>1. OrdersOnWire' = {} /\ relay' = relay
      BY <2>1, <2>2, <2>3 DEF OrdersOnWire
    <3> QED
      BY <1>k, <2>1, <2>3, <3>1 DEF WillRead, Level
  <2>4. CASE OrdersOnWire # {}
    <3>1. PICK i \in OrdersOnWire :
            (\A j \in OrdersOnWire : j <= i) /\ Wanted(down[i].kind) = Level
      BY <1>k, <2>1, <2>4 DEF WillRead
    <3>2. i \in DOMAIN down /\ i \in Nat /\ down[i].kind \in Kinds
      BY <2>2 DEF OrdersOnWire
    <3>3. ASSUME NEW j \in OrdersOnWire' PROVE j \in Nat /\ j >= 1 /\ j + 1 <= i
      BY <2>2, <3>1 DEF OrdersOnWire
    <3>4. CASE i = 1
      <4>1. OrdersOnWire' = {}
        BY <3>3, <3>4
      <4> QED
        BY <2>1, <2>2, <3>1, <3>2, <3>4, <4>1 DEF WillRead, Level
    <3>5. CASE i # 1
      <4>1. i - 1 \in OrdersOnWire' /\ down'[i - 1] = down[i]
        BY <2>2, <3>2, <3>5 DEF OrdersOnWire
      <4>2. \A j \in OrdersOnWire' : j <= i - 1
        BY <3>2, <3>3
      <4> QED
        BY <2>1, <3>1, <4>1, <4>2 DEF WillRead, Level
    <3> QED
      BY <3>4, <3>5
  <2> QED
    BY <2>3, <2>4
<1>8. CASE UNCHANGED <<down, relay, handed>> /\ row'.immobilized = row.immobilized
  BY <1>8, <1>k, WireKept
<1>9. ASSUME NEW r \in Requests, Stamp(r) PROVE row'.immobilized = row.immobilized
  BY <1>9, <1>m DEF Stamp, StampSent, Row
<1>10. FlushStamp => row'.immobilized = row.immobilized
  BY <1>m DEF FlushStamp, StampSent, Row
<1>11. ASSUME NEW h \in Handlers, Close(h) PROVE row'.immobilized = row.immobilized
  BY <1>11, <1>m DEF Close, Row
<1> HIDE DEF Goal
<1> QED
  BY <1>1, <1>2, <1>3, <1>4, <1>5, <1>6, <1>7, <1>8, <1>9, <1>10, <1>11
  DEF Next, Manager, Connection, Tracker, Inbound, Ask, WriteOrder, WriteUnanswered, Stamp, RequestFails, FlushLoad, FlushStamp,
      NoticeDrop, Record, Upload, MessageLost, NoteLevel, Judge, Close, InboundFails, vars

\* Once a socket has taken the order in the row, that order is the last word: what DOUT1 reads,
\* or will read once the wire is empty, is what the row says, unless an order was lost with its
\* connection or a suspended handler acted for an order that had been replaced.
THEOREM RowIsAheadAlways == Spec => []RowIsAhead
<1>1. Init => RowIsAhead
  BY DEF Init, RowIsAhead
<1> QED
  BY <1>1, RowIsAheadNext, AgreedAlways, TypeCorrect, PTL DEF Spec

-----------------------------------------------------------------------------

\* Messages that no younger one has overtaken yet.
OnTime == Pending \ late

\* Two messages that may still be judged are one older than the other.
Aged ==
  /\ late \subseteq Pending
  /\ \A h \in Handlers : older[h] \subseteq Pending
  /\ \A g, h \in Pending : g = h \/ g \in older[h] \/ h \in older[g]

\* The order in the row has been obeyed, and every message on time says so.
AllDone == relay = Level /\ \A h \in OnTime : hand[h].level = Level

\* What the messages say for a manager who waits, as long as no late one has closed an order: one
\* that tells the level of the row was made after the relay went there, and so were the younger
\* ones; an order that is closed, or about to be, was obeyed before the oldest of them.
Told ==
  ~hasty /\ ~raced /\ ~disordered =>
    /\ \A h \in OnTime : hand[h].level = Level => relay = Level
    /\ \A g, h \in OnTime : g \in older[h] /\ hand[g].level = Level => hand[h].level = Level
    /\ row.command = NoCommand => AllDone
    /\ \A h \in Handlers : hand[h].pc = "close" /\ hand[h].ord = row.ord => AllDone

\* Who closes an order has read it in the row.
ClosersNumbered == \A h \in Handlers : hand[h].pc = "close" => hand[h].ord <= row.ord

\* What is still on the wire from before the order in the row asks for what the relay does already.
Truthful ==
  ~hasty /\ ~raced /\ ~disordered =>
    \A i \in OrdersOnWire : down[i].ord # row.ord => Wanted(down[i].kind) = relay

\* A message that leaves is no longer pending, and no older than any other.
LEMMA LeavesAged ==
  ASSUME TypeOK, Aged, NEW h \in Handlers, Leaves(h), Pending' = Pending \ {h},
         late' \in {late \ {h}, (late \union older[h]) \ {h}}
  PROVE  /\ Aged'
         /\ \A g \in Handlers : older'[g] \subseteq older[g]
<1>1. \A g \in Handlers : older'[g] = IF g = h THEN {} ELSE older[g] \ {h}
  BY DEF Leaves
<1>2. Pending \subseteq Handlers
  BY DEF Pending
<1>3. late' \subseteq Pending'
  BY DEF Aged
<1>4. \A g \in Handlers : older'[g] \subseteq Pending'
  BY <1>1 DEF Aged
<1>5. \A f, g \in Pending' : f = g \/ f \in older'[g] \/ g \in older'[f]
  BY <1>1, <1>2 DEF Aged
<1> QED
  BY <1>1, <1>3, <1>4, <1>5 DEF Aged

\* A message that is made is younger than all that are pending.
LEMMA MakeAged ==
  ASSUME TypeOK, Aged, NEW h \in Handlers, NEW pc \in {"kept", "sent"}, NEW kind, NEW level,
         Make(h, pc, kind, level)
  PROVE  /\ Aged' /\ h \notin Pending /\ OnTime' = OnTime \union {h}
         /\ hand'[h].level = level /\ hand'[h].pc # "close"
         /\ \A g \in Handlers : g # h => hand'[g] = hand[g] /\ older'[g] = older[g]
<1>1. hand \in [Handlers -> HandlerState] /\ older \in [Handlers -> SUBSET Handlers]
  BY DEF TypeOK, HandlerState
<1>2. /\ hand'[h] = [pc |-> pc, kind |-> kind, level |-> level, ord |-> 0]
      /\ older'[h] = Pending /\ hand[h].pc = "idle" /\ late' = late
      /\ \A g \in Handlers : g # h => hand'[g] = hand[g] /\ older'[g] = older[g]
  BY <1>1 DEF Make
<1>3. h \notin Pending /\ Pending' = Pending \union {h}
  BY <1>2 DEF Pending
<1>4. Pending \subseteq Handlers
  BY DEF Pending
<1>5. late' \subseteq Pending' /\ \A g \in Handlers : older'[g] \subseteq Pending'
  <2>1. \A g \in Handlers : older[g] \subseteq Pending
    BY DEF Aged
  <2> QED
    BY <1>2, <1>3, <2>1 DEF Aged
<1>6. ASSUME NEW f \in Pending', NEW g \in Pending' PROVE f = g \/ f \in older'[g] \/ g \in older'[f]
  <2>1. CASE f = h \/ g = h
    BY <1>2, <1>3, <2>1
  <2>2. CASE f # h /\ g # h
    BY <1>2, <1>3, <1>4, <2>2 DEF Aged
  <2> QED
    BY <2>1, <2>2
<1>7. OnTime' = OnTime \union {h}
  BY <1>2, <1>3 DEF OnTime, Aged
<1> QED
  BY <1>2, <1>3, <1>5, <1>6, <1>7 DEF Aged

\* A message on its way to the judge: kept, sent or noted, it stays pending.
LEMMA MovesOn ==
  ASSUME TypeOK, NEW h \in Handlers, NEW pc \in {"kept", "sent", "noted"}, h \in Pending,
         hand' = [hand EXCEPT ![h].pc = pc]
  PROVE  /\ Pending' = Pending
         /\ \A g \in Handlers : hand'[g].level = hand[g].level /\ hand'[g].ord = hand[g].ord
         /\ \A g \in Handlers : hand'[g].pc = "close" => hand[g].pc = "close"
<1>1. hand \in [Handlers -> HandlerState]
  BY DEF TypeOK, HandlerState
<1>2. \A g \in Handlers : g # h => hand'[g] = hand[g]
  BY <1>1
<1>3. hand'[h].pc = pc /\ hand'[h].level = hand[h].level /\ hand'[h].ord = hand[h].ord
  BY <1>1 DEF HandlerState
<1> QED
  BY <1>2, <1>3 DEF Pending

\* A message that is done with, or closes: it is no longer pending.
LEMMA GoesOff ==
  ASSUME TypeOK, NEW h \in Handlers, NEW to \in HandlerState, to.pc \in {"idle", "close"},
         hand' = [hand EXCEPT ![h] = to]
  PROVE  /\ Pending' = Pending \ {h} /\ hand'[h] = to
         /\ \A g \in Handlers : g # h => hand'[g] = hand[g]
<1>1. hand \in [Handlers -> HandlerState]
  BY DEF TypeOK, HandlerState
<1> QED
  BY <1>1 DEF Pending

\* After a restart only records are left, in their order.
LEMMA RestartLeaves ==
  ASSUME TypeOK, Aged, Restart
  PROVE  /\ Aged' /\ OnTime' \subseteq OnTime
         /\ \A h \in Handlers : older'[h] \subseteq older[h] /\ hand'[h].pc # "close"
         /\ \A h \in OnTime' : hand'[h].level = hand[h].level
<1>1. PICK kept \in SUBSET {h \in Handlers : hand[h].kind = "avl" /\ hand[h].pc = "sent"} :
        LET left == kept \union {h \in Handlers : hand[h].pc = "kept"} IN
          /\ hand' = [h \in Handlers |-> IF h \in left THEN [hand[h] EXCEPT !.pc = "kept"] ELSE IdleHandler]
          /\ older' = [h \in Handlers |-> IF h \in left THEN older[h] \intersect left ELSE {}]
          /\ late' = late \intersect left
  BY DEF Restart
<1> DEFINE left == kept \union {h \in Handlers : hand[h].pc = "kept"}
<1>2. left \subseteq Pending /\ left \subseteq Handlers
  BY DEF Pending
<1>3. hand \in [Handlers -> HandlerState]
  BY DEF TypeOK, HandlerState
<1>4. \A h \in Handlers : h \in left => hand'[h].pc = "kept" /\ hand'[h].level = hand[h].level
  BY <1>1, <1>3 DEF HandlerState
<1>5. \A h \in Handlers : h \notin left => hand'[h].pc = "idle"
  BY <1>1 DEF IdleHandler
<1>6. \A h \in Handlers : older'[h] = IF h \in left THEN older[h] \intersect left ELSE {}
  BY <1>1
<1>7. late' = late \intersect left
  BY <1>1
<1> HIDE DEF left
<1>8. Pending' = left
  BY <1>2, <1>4, <1>5 DEF Pending
<1>9. OnTime' \subseteq OnTime /\ \A h \in OnTime' : h \in left /\ h \in Handlers
  BY <1>2, <1>7, <1>8 DEF OnTime
<1>10. Aged'
  <2>1. \A g, h \in left : g = h \/ g \in older'[h] \/ h \in older'[g]
    BY <1>2, <1>6 DEF Aged
  <2> QED
    BY <1>6, <1>7, <1>8, <2>1 DEF Aged
<1> QED
  BY <1>4, <1>5, <1>6, <1>9, <1>10

\* Fewer messages, and the same levels: what they say stays true.
LEMMA ToldShrinks ==
  ASSUME TypeOK, Aged, Told, OnTime' \subseteq OnTime, hasty => hasty', raced => raced', disordered => disordered',
         row'.ord = row.ord, row'.immobilized = row.immobilized, row'.command = row.command, UNCHANGED relay,
         \A h \in Handlers : older'[h] \subseteq older[h],
         \A h \in OnTime' : hand'[h].level = hand[h].level,
         \A h \in Handlers : hand'[h].pc = "close" => hand[h].pc = "close" /\ hand'[h].ord = hand[h].ord
  PROVE  Told'
<1>1. Level' = Level /\ OnTime \subseteq Handlers
  BY DEF Level, OnTime, Pending
<1>2. AllDone => AllDone'
  BY <1>1 DEF AllDone
<1> QED
  BY <1>1, <1>2 DEF Told

\* A message that is made tells the level of a relay that has moved, if at all, to the level of
\* the row.
LEMMA ToldGrows ==
  ASSUME TypeOK, Aged, Told, NEW h \in Handlers, h \notin Pending, OnTime' = OnTime \union {h},
         hand'[h].level = relay', hand'[h].pc # "close",
         \A g \in Handlers : g # h => hand'[g] = hand[g] /\ older'[g] = older[g],
         UNCHANGED <<row, hasty, raced, disordered>>,
         ~hasty /\ ~raced /\ ~disordered => relay' \in {relay, Level}
  PROVE  Told'
<1> SUFFICES ASSUME ~hasty, ~raced, ~disordered
             PROVE  /\ \A g \in OnTime' : hand'[g].level = Level => relay' = Level
                    /\ \A f, g \in OnTime' : f \in older'[g] /\ hand'[f].level = Level => hand'[g].level = Level
                    /\ row.command = NoCommand => AllDone'
                    /\ \A g \in Handlers : hand'[g].pc = "close" /\ hand'[g].ord = row.ord => AllDone'
  BY DEF Told, Level
<1>1. relay' \in {relay, Level} /\ h \notin OnTime /\ OnTime \subseteq Handlers
  BY DEF OnTime, Pending
<1>2. \A g \in OnTime : g # h /\ hand'[g] = hand[g] /\ older'[g] = older[g]
  BY <1>1
<1>3. \A g \in OnTime' : hand'[g].level = Level => relay' = Level
  BY <1>1, <1>2 DEF Told
<1>4. ASSUME NEW f \in OnTime', NEW g \in OnTime', f \in older'[g], hand'[f].level = Level
      PROVE  hand'[g].level = Level
  <2>1. CASE g = h
    BY <1>3, <1>4, <2>1
  <2>2. CASE g # h
    <3>1. g \in OnTime /\ f \in older[g] /\ f \in Pending
      BY <1>2, <1>4, <2>2 DEF Aged, OnTime, Pending
    <3>2. f \in OnTime
      BY <1>4, <3>1
    <3> QED
      BY <1>2, <1>4, <3>1, <3>2 DEF Told
  <2> QED
    BY <2>1, <2>2
<1>5. AllDone => AllDone'
  BY <1>1, <1>2 DEF AllDone, Level
<1>6. ASSUME NEW g \in Handlers, hand'[g].pc = "close", hand'[g].ord = row.ord PROVE AllDone'
  <2>1. g # h
    BY <1>6
  <2> QED
    BY <1>5, <1>6, <2>1 DEF Told
<1> QED
  BY <1>3, <1>4, <1>5, <1>6 DEF Told

\* A message with a handler stays with it, or is judged, or is dropped: the messages grow no younger.
LEMMA ToldNext ==
  ASSUME TypeOK, Numbered, Superseding, Agreed, Aged, ClosersNumbered, Told, Truthful, [Next]_vars
  PROVE  Aged' /\ ClosersNumbered' /\ Told'
<1> DEFINE Goal == Aged' /\ ClosersNumbered' /\ Told'
<1> SUFFICES Goal
  OBVIOUS
<1>m. /\ down \in Seq(Message) /\ req \in [Requests -> RequestState] /\ row \in Row /\ flush \in FlushState
      /\ hand \in [Handlers -> HandlerState] /\ relay \in Levels
      /\ row.ord \in Nat /\ \A h \in Handlers : hand[h].ord \in Nat
  BY BoundsAreNat DEF TypeOK, Message, RequestState, FlushState, HandlerState, Row
<1>p. Pending \subseteq Handlers /\ OnTime \subseteq Handlers
  BY DEF Pending, OnTime
<1> USE DEF wires, age, history, bounds
<1>w. (hasty => hasty') /\ (raced => raced') /\ (disordered => disordered')
  <2>1. hasty => hasty'
    BY DEF Next, Manager, Connection, Tracker, Inbound, Ask, WriteOrder, WriteUnanswered, TakeOrder, Deliver,
      HandOver, Stamp, StampSent, LockDoors, RequestFails, Connect, FlushLoad, FlushDeliver, FlushStamp,
      FlushFails, Drop, NoticeDrop, Restart, Obey, Record, Upload, MessageLost, NoteLevel, Judge, Close,
      InboundFails, vars
  <2>2. disordered => disordered'
    BY DEF Next, Manager, Connection, Tracker, Inbound, Ask, WriteOrder, WriteUnanswered, TakeOrder, Deliver,
      HandOver, Stamp, StampSent, LockDoors, RequestFails, Connect, FlushLoad, FlushDeliver, FlushStamp,
      FlushFails, Drop, NoticeDrop, Restart, Obey, Record, Make, Upload, MessageLost, NoteLevel, Judge, Close,
      InboundFails, vars
  <2> QED
    BY <2>1, <2>2, MarksStay
<1>s. ASSUME UNCHANGED <<hand, older, late, relay>>, row'.ord = row.ord, row'.immobilized = row.immobilized,
             row'.command = row.command
      PROVE  Goal
  <2>1. Pending' = Pending /\ OnTime' = OnTime
    BY <1>s DEF Pending, OnTime
  <2>2. Aged' /\ ClosersNumbered'
    BY <1>s, <2>1 DEF Aged, ClosersNumbered
  <2>3. Told'
    BY <1>s, <1>w, <2>1, ToldShrinks
  <2> QED
    BY <2>2, <2>3
<1>1. ASSUME NEW r \in Requests, TakeOrder(r) PROVE Goal
  <2>1. /\ row'.ord = row.ord + 1 /\ row'.command # NoCommand /\ UNCHANGED <<hand, older, late, relay>>
        /\ UNCHANGED <<raced, disordered>> /\ hasty' = (hasty \/ row.command # NoCommand)
    BY <1>1 DEF TakeOrder
  <2>2. Pending' = Pending /\ OnTime' = OnTime
    BY <2>1 DEF Pending, OnTime
  <2>3. Aged' /\ ClosersNumbered'
    BY <1>m, <2>1, <2>2 DEF Aged, ClosersNumbered
  <2>4. ASSUME ~hasty', ~raced', ~disordered' PROVE AllDone
    BY <2>1, <2>4 DEF Told
  <2>5. \A h \in Handlers : hand'[h].pc = "close" => hand'[h].ord # row'.ord
    BY <1>m, <2>1 DEF ClosersNumbered
  <2>6. Told'
    BY <1>p, <2>1, <2>2, <2>4, <2>5 DEF Told, AllDone
  <2> QED
    BY <2>3, <2>6
<1>2. ASSUME NEW r \in Requests, Stamp(r) PROVE Goal
  BY <1>2, <1>m, <1>s DEF Stamp, StampSent, Row
<1>3. ASSUME NEW r \in Requests, LockDoors(r) PROVE Goal
  BY <1>3, <1>s DEF LockDoors
<1>4. CASE FlushStamp
  BY <1>4, <1>m, <1>s DEF FlushStamp, StampSent, Row
<1>5. CASE FlushFails
  BY <1>5, <1>m, <1>s DEF FlushFails, StampSent, Row
<1>6. CASE Restart
  <2>1. /\ Aged' /\ OnTime' \subseteq OnTime /\ UNCHANGED <<row, relay>>
        /\ \A h \in Handlers : older'[h] \subseteq older[h] /\ hand'[h].pc # "close"
        /\ \A h \in OnTime' : hand'[h].level = hand[h].level
    BY <1>6, RestartLeaves DEF Restart
  <2>2. Told'
    BY <1>w, <2>1, ToldShrinks
  <2> QED
    BY <2>1, <2>2 DEF ClosersNumbered
<1>7. ASSUME NEW h \in Handlers, NEW pc \in {"kept", "sent"}, NEW kind, Make(h, pc, kind, relay'),
             UNCHANGED <<row, hasty, raced>>, ~hasty /\ ~raced /\ ~disordered => relay' \in {relay, Level}
      PROVE  Goal
  <2>1. /\ Aged' /\ h \notin Pending /\ OnTime' = OnTime \union {h}
        /\ hand'[h].level = relay' /\ hand'[h].pc # "close"
        /\ \A g \in Handlers : g # h => hand'[g] = hand[g] /\ older'[g] = older[g]
    BY <1>7, MakeAged
  <2>2. UNCHANGED disordered
    BY <1>7 DEF Make
  <2>3. Told'
    BY <1>7, <2>1, <2>2, ToldGrows
  <2>4. ClosersNumbered'
    BY <1>7, <2>1 DEF ClosersNumbered
  <2> QED
    BY <2>1, <2>3, <2>4
<1>8. ASSUME NEW h \in Handlers, Obey(h) PROVE Goal
  <2>1. /\ Make(h, "sent", "reply", relay') /\ UNCHANGED <<row, hasty, raced>> /\ down # <<>>
        /\ IF Head(down).kind \in Kinds THEN relay' = Wanted(Head(down).kind) ELSE relay' = relay
    BY <1>8 DEF Obey
  <2>2. Head(down) = down[1] /\ 1 \in DOMAIN down
    BY <1>m, <2>1
  <2>3. ASSUME ~hasty, ~raced, ~disordered PROVE relay' \in {relay, Level}
    <3>1. CASE Head(down).kind \notin Kinds
      BY <2>1, <3>1
    <3>2. CASE Head(down).kind \in Kinds
      <4>1. 1 \in OrdersOnWire /\ relay' = Wanted(down[1].kind)
        BY <2>1, <2>2, <3>2 DEF OrdersOnWire
      <4> QED
        BY <2>3, <4>1 DEF Truthful, Agreed
    <3> QED
      BY <3>1, <3>2
  <2> QED
    BY <1>7, <2>1, <2>3
<1>9. ASSUME NEW h \in Handlers, Record(h) PROVE Goal
  <2>1. Make(h, "kept", "avl", relay') /\ UNCHANGED <<row, hasty, raced, relay>>
    BY <1>9 DEF Record
  <2> QED
    BY <1>7, <2>1
<1>10. ASSUME NEW h \in Handlers, NEW pc \in {"kept", "sent", "noted"}, h \in Pending,
              hand' = [hand EXCEPT ![h].pc = pc], UNCHANGED <<row, relay, older, late>>
       PROVE  Goal
  <2>1. /\ Pending' = Pending
        /\ \A g \in Handlers : hand'[g].level = hand[g].level /\ hand'[g].ord = hand[g].ord
        /\ \A g \in Handlers : hand'[g].pc = "close" => hand[g].pc = "close"
    BY <1>10, MovesOn
  <2>2. Aged' /\ ClosersNumbered' /\ OnTime' = OnTime
    BY <1>10, <2>1 DEF Aged, ClosersNumbered, OnTime
  <2>3. Told'
    BY <1>10, <1>p, <1>w, <2>1, <2>2, ToldShrinks
  <2> QED
    BY <2>2, <2>3
<1>11. ASSUME NEW h \in Handlers, hand' = [hand EXCEPT ![h] = IdleHandler], UNCHANGED <<row, relay>>,
              Leaves(h), late' \in {late \ {h}, (late \union older[h]) \ {h}}
       PROVE  Goal
  <2>1. /\ Pending' = Pending \ {h} /\ hand'[h] = IdleHandler
        /\ \A g \in Handlers : g # h => hand'[g] = hand[g]
    BY <1>11, GoesOff, IdleType DEF IdleHandler
  <2>2. Aged' /\ \A g \in Handlers : older'[g] \subseteq older[g]
    BY <1>11, <2>1, LeavesAged
  <2>3. OnTime' \subseteq OnTime /\ h \notin OnTime'
    BY <1>11, <2>1 DEF OnTime
  <2>4. \A g \in Handlers : hand'[g].pc = "close" => g # h /\ hand'[g] = hand[g]
    BY <2>1 DEF IdleHandler
  <2>5. ClosersNumbered'
    BY <1>11, <2>4 DEF ClosersNumbered
  <2>6. Told'
    BY <1>11, <1>p, <1>w, <2>1, <2>2, <2>3, <2>4, ToldShrinks
  <2> QED
    BY <2>2, <2>5, <2>6
<1>12. ASSUME NEW h \in Handlers, Upload(h) PROVE Goal
  <2>1. h \in Pending
    BY <1>12 DEF Upload, Pending
  <2> QED
    BY <1>10, <1>12, <2>1 DEF Upload
<1>13. ASSUME NEW h \in Handlers, MessageLost(h) PROVE Goal
  <2>1. h \in Pending /\ UNCHANGED <<row, relay>>
    BY <1>13 DEF MessageLost, Pending
  <2> QED
    BY <1>10, <1>11, <1>13, <2>1 DEF MessageLost
<1>14. ASSUME NEW h \in Handlers, NoteLevel(h) PROVE Goal
  <2>1. h \in Pending /\ UNCHANGED <<row, relay>>
    BY <1>14 DEF NoteLevel, Pending
  <2> QED
    BY <1>10, <1>11, <1>14, <2>1 DEF NoteLevel
<1>15. ASSUME NEW h \in Handlers, InboundFails(h) PROVE Goal
  BY <1>11, <1>15 DEF InboundFails
<1>16. ASSUME NEW h \in Handlers, Judge(h) PROVE Goal
  <2>1. /\ h \in Pending /\ UNCHANGED <<row, relay, hasty, raced>> /\ Leaves(h)
        /\ late' = (late \union older[h]) \ {h}
        /\ disordered' = (disordered \/ (Settles(h) /\ h \in late))
    BY <1>16 DEF Judge, Pending
  <2>2. CASE ~Settles(h)
    <3>1. hand' = [hand EXCEPT ![h] = IdleHandler]
      BY <1>16, <2>2 DEF Judge
    <3> QED
      BY <1>11, <2>1, <3>1
  <2>3. CASE Settles(h)
    <3> DEFINE to == [hand[h] EXCEPT !.pc = "close", !.ord = row.ord]
    <3>1. to \in HandlerState /\ to.pc = "close" /\ to.ord = row.ord
      <4>1. row.ord \in Orders /\ hand[h] \in HandlerState
        BY <1>m DEF Row
      <4>2. to \in HandlerState
        BY <1>m, <4>1, HandlerMoves
      <4>3. to.pc = "close" /\ to.ord = row.ord
        BY <4>1 DEF HandlerState
      <4> QED
        BY <4>2, <4>3
    <3>2. hand' = [hand EXCEPT ![h] = to]
      BY <1>16, <2>3 DEF Judge
    <3> HIDE DEF to
    <3>3. /\ Pending' = Pending \ {h} /\ hand'[h] = to
          /\ \A g \in Handlers : g # h => hand'[g] = hand[g]
      BY <3>1, <3>2, GoesOff
    <3>4. Aged' /\ \A g \in Handlers : older'[g] \subseteq older[g]
      BY <2>1, <3>3, LeavesAged
    <3>5. ClosersNumbered'
      BY <1>m, <2>1, <3>1, <3>3 DEF ClosersNumbered
    <3>6. ASSUME NEW g \in OnTime' PROVE g \in OnTime /\ g # h /\ h \in older[g]
      BY <2>1, <3>3, <3>6 DEF OnTime, Aged
    <3>7. ASSUME ~hasty, ~raced, ~disordered' PROVE AllDone'
      <4>1. h \in OnTime /\ ~disordered
        BY <2>1, <2>3, <3>7 DEF OnTime
      <4>2. hand[h].level = Level
        BY <2>3 DEF Settles, Closes, Agreed
      <4>3. relay = Level /\ \A g \in OnTime : h \in older[g] => hand[g].level = Level
        BY <3>7, <4>1, <4>2 DEF Told
      <4>4. \A g \in OnTime' : hand'[g] = hand[g]
        BY <1>p, <3>3, <3>6
      <4> QED
        BY <2>1, <3>6, <4>3, <4>4 DEF AllDone, Level
    <3>8. Told'
      <4> SUFFICES ASSUME ~hasty, ~raced, ~disordered' PROVE Told'
        BY <2>1 DEF Told
      <4>1. AllDone'
        BY <3>7
      <4> QED
        BY <4>1 DEF Told, AllDone
    <3> QED
      BY <3>4, <3>5, <3>8
  <2> QED
    BY <2>2, <2>3
<1>17. ASSUME NEW h \in Handlers, Close(h) PROVE Goal
  <2>1. /\ hand[h].pc = "close" /\ hand' = [hand EXCEPT ![h] = IdleHandler]
        /\ UNCHANGED <<relay, older, late, hasty, disordered>>
        /\ raced' = (raced \/ hand[h].ord # row.ord)
    BY <1>17 DEF Close
  <2>2. row'.ord = row.ord /\ row'.immobilized = row.immobilized
    BY <1>17, <1>m DEF Close, Row
  <2>3. /\ Pending' = Pending \ {h} /\ hand'[h] = IdleHandler
        /\ \A g \in Handlers : g # h => hand'[g] = hand[g]
    BY <2>1, GoesOff, IdleType DEF IdleHandler
  <2>4. h \notin Pending /\ Pending' = Pending /\ OnTime' = OnTime /\ h \notin OnTime
    BY <2>1, <2>3 DEF Pending, OnTime
  <2>5. Aged'
    BY <2>1, <2>4 DEF Aged
  <2>6. ClosersNumbered'
    BY <2>2, <2>3 DEF ClosersNumbered, IdleHandler
  <2>7. Told'
    <3> SUFFICES ASSUME ~hasty, ~raced', ~disordered PROVE Told'
      BY <2>1 DEF Told
    <3>1. AllDone
      BY <2>1 DEF Told
    <3>2. AllDone'
      BY <1>p, <2>1, <2>2, <2>3, <2>4, <3>1 DEF AllDone, Level
    <3> QED
      BY <3>2 DEF Told, AllDone
  <2> QED
    BY <2>5, <2>6, <2>7
<1>18. CASE UNCHANGED <<row, relay, hand, older, late>>
  BY <1>18, <1>s
<1> HIDE DEF Goal
<1> QED
  BY <1>1, <1>2, <1>3, <1>4, <1>5, <1>6, <1>8, <1>9, <1>12, <1>13, <1>14, <1>15, <1>16, <1>17, <1>18
  DEF Next, Manager, Connection, Tracker, Inbound, Ask, WriteOrder, WriteUnanswered, Deliver, RequestFails,
      Connect, FlushLoad, FlushDeliver, Drop, NoticeDrop, vars

LEMMA TruthfulNext ==
  TypeOK /\ Numbered /\ Superseding /\ Agreed /\ Told /\ Truthful /\ [Next]_vars => Truthful'
<1> SUFFICES ASSUME TypeOK, Numbered, Superseding, Agreed, Told, Truthful, [Next]_vars,
                    ~hasty', ~raced', ~disordered'
             PROVE  \A i \in OrdersOnWire' : down'[i].ord # row'.ord => Wanted(down'[i].kind) = relay'
  BY DEF Truthful
<1> DEFINE OldOnes == \A i \in OrdersOnWire' : down'[i].ord # row'.ord => Wanted(down'[i].kind) = relay'
<1> SUFFICES OldOnes
  OBVIOUS
<1>m. /\ down \in Seq(Message) /\ req \in [Requests -> RequestState] /\ row \in Row
      /\ flush \in FlushState /\ row.ord \in Nat
  BY BoundsAreNat DEF TypeOK, Message, RequestState, FlushState, Row
<1> USE DEF wires, age, history, bounds
<1>w. ~hasty /\ ~raced /\ ~disordered
  <2>1. ~raced
    BY MarksStay
  <2>2. hasty => hasty'
    BY DEF Next, Manager, Connection, Tracker, Inbound, Ask, WriteOrder, WriteUnanswered, TakeOrder, Deliver,
      HandOver, Stamp, StampSent, LockDoors, RequestFails, Connect, FlushLoad, FlushDeliver, FlushStamp,
      FlushFails, Drop, NoticeDrop, Restart, Obey, Record, Upload, MessageLost, NoteLevel, Judge, Close,
      InboundFails, vars
  <2>3. disordered => disordered'
    BY DEF Next, Manager, Connection, Tracker, Inbound, Ask, WriteOrder, WriteUnanswered, TakeOrder, Deliver,
      HandOver, Stamp, StampSent, LockDoors, RequestFails, Connect, FlushLoad, FlushDeliver, FlushStamp,
      FlushFails, Drop, NoticeDrop, Restart, Obey, Record, Make, Upload, MessageLost, NoteLevel, Judge, Close,
      InboundFails, vars
  <2> QED
    BY <2>1, <2>2, <2>3
<1>k. /\ \A i \in OrdersOnWire : down[i].ord # row.ord => Wanted(down[i].kind) = relay
      /\ row.command = NoCommand => relay = Level
      /\ DownInOrder
  BY <1>w DEF Truthful, Told, AllDone, Superseding
<1>1. CASE UNCHANGED <<down, relay, row>>
  BY <1>1, <1>k DEF OrdersOnWire
<1>2. ASSUME NEW r \in Requests, TakeOrder(r) PROVE OldOnes
  <2>1. row.command = NoCommand /\ UNCHANGED <<down, relay>>
    BY <1>2 DEF TakeOrder
  <2>2. \A i \in OrdersOnWire : Wanted(down[i].kind) = relay
    BY <1>k, <2>1 DEF Agreed
  <2> QED
    BY <2>1, <2>2 DEF OrdersOnWire
<1>3. ASSUME NEW kind \in Commands, Send(kind, row.ord), UNCHANGED <<row, relay>> PROVE OldOnes
  <2>1. row.ord \in Orders
    BY <1>m DEF Row
  <2>2. CASE link = "open"
    <3> SUFFICES ASSUME NEW i \in OrdersOnWire', down'[i].ord # row.ord
                 PROVE  Wanted(down'[i].kind) = relay
      BY <1>3
    <3>1. i \in OrdersOnWire /\ down'[i] = down[i]
      BY <1>m, <1>3, <2>1, <2>2, SendAppends DEF OrdersOnWire
    <3> QED
      BY <1>k, <3>1
  <2>3. CASE link # "open"
    <3>1. down' = down
      BY <1>m, <1>3, <2>1, <2>3, SendAppends
    <3> QED
      BY <1>1, <1>3, <3>1
  <2> QED
    BY <2>2, <2>3
<1>4. ASSUME NEW r \in Requests, Deliver(r) PROVE OldOnes
  <2>1. UNCHANGED <<row, relay>> /\ req[r].kind \in Commands
    BY <1>4, <1>m DEF Deliver, RequestState
  <2>2. CASE IsConnected
    <3>1. Send(req[r].kind, req[r].ord) /\ req[r].ord = row.ord
      BY <1>4, <2>2 DEF Deliver, HandOver
    <3> QED
      BY <1>3, <2>1, <3>1
  <2>3. CASE ~IsConnected
    BY <1>1, <1>4, <2>1, <2>3 DEF Deliver
  <2> QED
    BY <2>2, <2>3
<1>5. CASE FlushDeliver
  <2>1. UNCHANGED <<row, relay>> /\ flush.cmd \in Commands
    BY <1>5, <1>m DEF FlushDeliver, FlushState
  <2>2. CASE IsConnected
    <3>1. Send(flush.cmd, flush.ord) /\ flush.ord = row.ord
      BY <1>5, <2>2 DEF FlushDeliver, HandOver
    <3> QED
      BY <1>3, <2>1, <3>1
  <2>3. CASE ~IsConnected
    BY <1>1, <1>5, <2>1, <2>3 DEF FlushDeliver
  <2> QED
    BY <2>2, <2>3
<1>6. ASSUME NEW r \in Requests, LockDoors(r) PROVE OldOnes
  BY <1>1, <1>6 DEF LockDoors
<1>7. CASE down' = <<>>
  BY <1>7 DEF OrdersOnWire
<1>8. CASE UNCHANGED <<down, relay>> /\ row'.ord = row.ord
  BY <1>8, <1>k DEF OrdersOnWire
<1>9. ASSUME NEW r \in Requests, Stamp(r) PROVE UNCHANGED <<down, relay>> /\ row'.ord = row.ord
  BY <1>9, <1>m DEF Stamp, StampSent, Row
<1>10. ASSUME FlushStamp PROVE UNCHANGED <<down, relay>> /\ row'.ord = row.ord
  BY <1>10, <1>m DEF FlushStamp, StampSent, Row
<1>11. ASSUME NEW h \in Handlers, Obey(h) PROVE OldOnes
  <2>1. /\ down # <<>> /\ down' = Tail(down) /\ UNCHANGED row
        /\ Head(down).kind \in Kinds => relay' = Wanted(Head(down).kind)
        /\ Head(down).kind \notin Kinds => relay' = relay
    BY <1>11 DEF Obey
  <2>2. /\ Head(down) = down[1] /\ 1 \in DOMAIN down
        /\ \A i \in DOMAIN down' : i \in Nat /\ i >= 1 /\ i + 1 \in DOMAIN down /\ down'[i] = down[i + 1]
    BY <1>m, <2>1, TailOfWire
  <2>3. CASE relay' = relay
    <3>1. \A i \in OrdersOnWire' : i + 1 \in OrdersOnWire /\ down'[i] = down[i + 1]
      BY <2>2 DEF OrdersOnWire
    <3> QED
      BY <1>k, <2>1, <2>3, <3>1
  <2>4. CASE relay' # relay
    <3>1. 1 \in OrdersOnWire /\ relay' = Wanted(down[1].kind) /\ down[1].ord = row.ord
      BY <1>k, <2>1, <2>2, <2>4 DEF OrdersOnWire
    <3>3. ASSUME NEW i \in DOMAIN down' PROVE down'[i].ord = row.ord
      <4>1. i + 1 \in DOMAIN down /\ down'[i] = down[i + 1] /\ 1 \in 1..(i + 1) /\ down[i + 1] \in Message
        BY <1>m, <2>2
      <4>2. down[1].ord <= down[i + 1].ord /\ down[i + 1].ord <= row.ord
        BY <1>k, <4>1 DEF DownInOrder, Numbered
      <4>3. down[i + 1].ord \in Nat
        BY <4>1, BoundsAreNat DEF Message
      <4> QED
        BY <1>m, <3>1, <4>1, <4>2, <4>3
    <3> QED
      BY <2>1, <3>3 DEF OrdersOnWire
  <2> QED
    BY <2>3, <2>4
<1>12. ASSUME NEW h \in Handlers, Close(h) PROVE UNCHANGED <<down, relay>> /\ row'.ord = row.ord
  BY <1>12, <1>m DEF Close, Row
<1> HIDE DEF OldOnes
<1> QED
  BY <1>1, <1>2, <1>4, <1>5, <1>6, <1>7, <1>8, <1>9, <1>10, <1>11, <1>12
  DEF Next, Manager, Connection, Tracker, Inbound, Ask, WriteOrder, WriteUnanswered, RequestFails, Connect,
      FlushLoad, FlushFails, Hangup, Drop, NoticeDrop, Restart, Record, Upload, MessageLost, NoteLevel, Judge,
      InboundFails, vars

\* What the messages stand for, with what the orders on the wire stand for.
Answered == Aged /\ ClosersNumbered /\ Told /\ Truthful

LEMMA AnsweredAlways == Spec => []Answered
<1>1. Init => Answered
  <2> SUFFICES ASSUME Init PROVE Answered
    OBVIOUS
  <2>1. Pending = {} /\ OnTime = {} /\ late = {} /\ \A h \in Handlers : older[h] = {} /\ hand[h].pc = "idle"
    BY DEF Init, Pending, OnTime, IdleHandler
  <2>2. relay = Level /\ down = <<>>
    BY DEF Init, Level, NoRow
  <2> QED
    BY <2>1, <2>2 DEF Answered, Aged, ClosersNumbered, Told, Truthful, AllDone, OrdersOnWire
<1>2. TypeOK /\ Numbered /\ Superseding /\ Agreed /\ Answered /\ [Next]_vars => Answered'
  BY ToldNext, TruthfulNext DEF Answered
<1> QED
  BY <1>1, <1>2, TypeCorrect, NumberedAlways, SupersedingAlways, AgreedAlways, PTL DEF Spec

\* A closed command is the truth about the relay, however many orders were lost on the way and
\* however many messages are handled at once, as long as each order is closed before the next is
\* given, no door-lock pulse is sent, no suspended handler acts for a replaced order, and no
\* message that was overtaken by a younger one closes an order.
THEOREM ClosedIsDoneAlways == Spec => []ClosedIsDone
<1>1. Answered => ClosedIsDone
  BY DEF Answered, Told, AllDone, ClosedIsDone
<1> QED
  BY <1>1, AnsweredAlways, PTL

-----------------------------------------------------------------------------
(* The register behind it                                                  *)

\* A step that leaves alone what the register is made of is none of it.
LEMMA RegisterRests ==
  ASSUME row'.ord = row.ord, row'.immobilized = row.immobilized, row'.command = row.command,
         UNCHANGED <<hasty, disordered, applied, relay>>
  PROVE  UNCHANGED Register!vars
  BY DEF Register!vars, Level

LEMMA RegisterNext ==
  ASSUME TypeOK, Numbered, Superseding, Agreed, Answered, [Next]_vars, ~raced'
  PROVE  [Register!Next]_(Register!vars)
<1>m. /\ down \in Seq(Message) /\ req \in [Requests -> RequestState] /\ row \in Row
      /\ hasty \in BOOLEAN /\ disordered \in BOOLEAN
      /\ relay \in {0, 1} /\ applied \in Nat /\ row.ord \in Nat
  BY BoundsAreNat DEF TypeOK, Message, RequestState, Row
<1>r. ~raced /\ DownInOrder
  BY MarksStay DEF Superseding
<1> USE DEF wires, age, history, bounds
<1>1. ASSUME NEW r \in Requests, TakeOrder(r) PROVE Register!Next
  <2> DEFINE level == IF req[r].kind = "engage" THEN 1 ELSE 0
  <2>1. /\ row'.ord = row.ord + 1 /\ row'.immobilized = (req[r].kind = "engage")
        /\ row'.command # NoCommand /\ UNCHANGED <<applied, relay, disordered>>
        /\ hasty' = (hasty \/ row.command # NoCommand)
    BY <1>1 DEF TakeOrder
  <2>2. level \in {0, 1} /\ Level' = level
    BY <2>1 DEF Level
  <2>3. Register!Take(level)
    BY <2>1, <2>2, <1>m DEF Register!Take
  <2> QED
    BY <2>2, <2>3 DEF Register!Next
<1>2. ASSUME NEW r \in Requests, LockDoors(r) PROVE [Register!Next]_(Register!vars)
  <2>1. UNCHANGED <<row, applied, relay, disordered>> /\ (hasty' = TRUE \/ hasty' = hasty)
    BY <1>2 DEF LockDoors
  <2>2. CASE hasty' = TRUE
    <3>1. Register!Doubt
      BY <2>1, <2>2 DEF Register!Doubt, Level
    <3> QED
      BY <3>1 DEF Register!Next
  <2>3. CASE hasty' = hasty
    BY <2>1, <2>3, RegisterRests
  <2> QED
    BY <2>1, <2>2, <2>3
<1>3. ASSUME NEW h \in Handlers, Obey(h) PROVE [Register!Next]_(Register!vars)
  <2>1. /\ down # <<>> /\ Head(down) = down[1] /\ 1 \in DOMAIN down /\ UNCHANGED <<row, hasty, disordered>>
        /\ down[1].kind \in Commands /\ down[1].ord \in Nat
    <3>1. down # <<>> /\ UNCHANGED <<row, hasty, disordered>>
      BY <1>3 DEF Obey, Make
    <3>2. Head(down) = down[1] /\ 1 \in DOMAIN down /\ down[1] \in Message
      BY <3>1, <1>m
    <3>3. down[1].kind \in Commands /\ down[1].ord \in Nat
      BY <3>2, BoundsAreNat DEF Message
    <3> QED
      BY <3>1, <3>2, <3>3
  <2>2. CASE down[1].kind \in Kinds
    <3> DEFINE n == down[1].ord
               level == Wanted(down[1].kind)
    <3>1. relay' = level /\ applied' = n /\ level \in {0, 1}
      BY <1>3, <2>1, <2>2 DEF Obey, Wanted
    <3>2. n \in applied..row.ord /\ n \in 0..row.ord
      BY <2>1, <1>m, <1>r DEF DownInOrder, Numbered
    <3>3. 1 \in OrdersOnWire
      BY <2>1, <2>2 DEF OrdersOnWire
    <3>4. (n = row.ord => level = Level) /\ (n # row.ord /\ ~hasty /\ ~disordered => level = relay)
      BY <3>3, <1>r DEF Agreed, Answered, Truthful
    <3>5. Register!Obey(n, level)
      BY <2>1, <3>1, <3>2, <3>4 DEF Register!Obey, Level
    <3> QED
      BY <3>1, <3>2, <3>5 DEF Register!Next
  <2>3. CASE down[1].kind \notin Kinds
    <3>1. UNCHANGED <<relay, applied>>
      BY <1>3, <2>1, <2>3 DEF Obey
    <3> QED
      BY <2>1, <3>1, RegisterRests
  <2> QED
    BY <2>2, <2>3
<1>4. ASSUME NEW h \in Handlers, Close(h) PROVE [Register!Next]_(Register!vars)
  <2>1. /\ hand[h].pc = "close" /\ hand[h].ord = row.ord /\ UNCHANGED <<hasty, disordered, applied, relay>>
    BY <1>4 DEF Close
  <2>2. /\ row'.ord = row.ord /\ row'.immobilized = row.immobilized /\ row'.command = NoCommand
        /\ Level' = Level
    BY <1>4, <1>m DEF Close, Row, Level
  <2>3. ~hasty /\ ~disordered => relay = Level
    BY <1>r, <2>1 DEF Answered, Told, AllDone
  <2>4. CASE row.command = NoCommand
    BY <2>1, <2>2, <2>4, RegisterRests
  <2>5. CASE row.command # NoCommand
    <3>1. Register!Report
      BY <2>1, <2>2, <2>3, <2>5 DEF Register!Report
    <3> QED
      BY <3>1 DEF Register!Next
  <2> QED
    BY <2>4, <2>5
<1>5. ASSUME NEW ord \in Orders, StampSent(ord), UNCHANGED <<hasty, disordered, applied, relay>>
      PROVE  UNCHANGED Register!vars
  <2>1. row'.ord = row.ord /\ row'.immobilized = row.immobilized /\ row'.command = row.command
    BY <1>5, <1>m DEF StampSent, Row
  <2> QED
    BY <1>5, <2>1, RegisterRests
<1>6. ASSUME NEW r \in Requests, Stamp(r) PROVE UNCHANGED Register!vars
  BY <1>5, <1>6, <1>m DEF Stamp, RequestState
<1>7. CASE FlushStamp
  <2>1. flush.ord \in Orders
    BY DEF TypeOK
  <2> QED
    BY <1>5, <1>7, <2>1 DEF FlushStamp
<1>8. CASE UNCHANGED <<row, hasty, disordered, applied, relay>>
  BY <1>8, RegisterRests
<1>9. CASE FlushFails
  <2>1. flush.ord \in Orders /\ UNCHANGED <<hasty, disordered, applied, relay>>
    BY <1>9 DEF FlushFails, TypeOK
  <2> QED
    BY <1>5, <1>8, <1>9, <2>1 DEF FlushFails
<1>10. ASSUME NEW h \in Handlers, Judge(h) PROVE [Register!Next]_(Register!vars)
  <2>1. UNCHANGED <<row, hasty, applied, relay>> /\ disordered' \in BOOLEAN /\ (disordered => disordered')
    BY <1>10 DEF Judge
  <2>2. CASE disordered'
    <3>1. Register!Doubt
      BY <2>1, <2>2 DEF Register!Doubt, Level
    <3> QED
      BY <3>1 DEF Register!Next
  <2>3. CASE ~disordered'
    <3>1. disordered' = disordered
      BY <1>m, <2>1, <2>3
    <3> QED
      BY <2>1, <3>1, RegisterRests
  <2> QED
    BY <2>2, <2>3
<1> QED
  BY <1>1, <1>2, <1>3, <1>4, <1>6, <1>7, <1>8, <1>9, <1>10
  DEF Next, Manager, Connection, Tracker, Inbound, Ask, WriteOrder, WriteUnanswered, Deliver, HandOver,
      RequestFails, Connect, FlushLoad, FlushDeliver, Drop, NoticeDrop, Restart, Record, Make, Upload,
      MessageLost, NoteLevel, InboundFails, vars

\* Row, handlers, socket and wire implement a register whose relay obeys the orders in the order
\* in which they were given, and whose closed orders were done for a manager who waits and is
\* answered in order, until a handler acts for a replaced order.
THEOREM ImplementsRegister == Spec => FollowsRegister
<1>1. Init => Register!Init
  BY DEF Init, Register!Init, Level, NoRow
<1>2. TypeOK /\ Numbered /\ Superseding /\ Agreed /\ Answered /\ [Next]_vars
        => [~raced' => [Register!Next]_(Register!vars)]_vars
  BY RegisterNext
<1> QED
  BY <1>1, <1>2, TypeCorrect, NumberedAlways, SupersedingAlways, AgreedAlways, AnsweredAlways, PTL
  DEF Spec, FollowsRegister

=============================================================================
