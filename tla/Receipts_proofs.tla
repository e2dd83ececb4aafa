----------------------------- MODULE Receipts_proofs -----------------------------
(***************************************************************************)
(* What holds of Receipts for every set of receipts, syncs and requests,   *)
(* however often the network, the app or the server goes away: its types,  *)
(* that a receipt is neither lost nor credited twice, and that all of it   *)
(* implements ReceiptBooks.                                                *)
(***************************************************************************)
EXTENDS TLAPS, Receipts

\* The types of what TypeOK bounds by a set of records.
RequestState == [pc : {"idle", "sent", "checked", "stored", "credited", "reply"},
                 rec : Receipts \union {None}, by : Syncs \union {Form, None}, ok : BOOLEAN]
SyncState == [pc : {"idle", "next", "posted"}, left : SUBSET Receipts]

\* A request that a restart ends.
LEMMA EndedRequest ==
  ASSUME NEW q \in RequestState PROVE [q EXCEPT !.pc = "reply", !.ok = FALSE] \in RequestState
BY DEF RequestState

\* What becomes of a suspended request: one step of any handler, caller or connection.
Moves(h) == Handle(h) \/ Upset(h)

-----------------------------------------------------------------------------
(* Types                                                                   *)

LEMMA TypeInit == Init => TypeOK
<1> SUFFICES ASSUME Init PROVE TypeOK
  OBVIOUS
<1>1. request \in [Handlers -> RequestState] /\ \A h \in Handlers : request[h].pc = "idle"
  BY DEF Init, IdleRequest, RequestState
<1>2. sync \in [Syncs -> SyncState]
  BY DEF Init, IdleSync, SyncState
<1>3. /\ form \in [Receipts -> {"new", "filing", "left", "kept", "stuck", "dropped"}]
      /\ rows \in [Receipts -> 0..1] /\ credited \in [Receipts -> Nat]
  BY DEF Init
<1>4. switches \in 0..MaxSwitches /\ upsets \in 0..MaxUpsets
  BY ReceiptConstants DEF Init
<1>5. /\ queue \in SUBSET Receipts /\ skipped \in SUBSET Receipts /\ refused \in SUBSET Receipts
      /\ online \in BOOLEAN /\ app \in {"fuel", "other", "closed"} /\ aborted \in BOOLEAN
  BY Zenon DEF Init
<1> QED
  BY <1>1, <1>2, <1>3, <1>4, <1>5 DEF TypeOK, RequestState, SyncState

\* What TypeOK says of the requests and of the syncs.
RequestTypes ==
  /\ request \in [Handlers -> RequestState]
  /\ \A h \in Handlers : request[h].pc # "idle" => request[h].rec # None
SyncTypes == sync \in [Syncs -> SyncState]

\* A request that moves on, or ends, keeps its type.
LEMMA RequestMoves ==
  ASSUME TypeOK, NEW h \in Handlers,
         \/ request[h].pc # "idle" /\ \E pc \in {"checked", "stored", "credited", "reply"} :
              request' = [request EXCEPT ![h].pc = pc]
         \/ request[h].pc # "idle" /\ \E ok \in BOOLEAN :
              request' = [request EXCEPT ![h].pc = "reply", ![h].ok = ok]
         \/ request[h].pc # "idle" /\ request' = [request EXCEPT ![h].by = None]
         \/ request' = [request EXCEPT ![h] = IdleRequest]
  PROVE  RequestTypes'
<1>1. request[h] \in RequestState /\ request \in [Handlers -> RequestState]
  BY DEF TypeOK, RequestState
<1>2. \A pc \in {"checked", "stored", "credited", "reply"}, ok \in BOOLEAN :
        /\ [request[h] EXCEPT !.pc = pc] \in RequestState
        /\ [request[h] EXCEPT !.pc = pc, !.ok = ok] \in RequestState
        /\ [request[h] EXCEPT !.by = None] \in RequestState
  BY <1>1 DEF RequestState
<1>3. IdleRequest \in RequestState
  BY DEF IdleRequest, RequestState
<1>4. request' \in [Handlers -> RequestState]
  BY <1>1, <1>2, <1>3
<1>5. \A g \in Handlers \ {h} : request'[g] = request[g]
  BY <1>1
<1>6. request'[h].pc # "idle" => request'[h].rec # None
  BY <1>1 DEF TypeOK, IdleRequest, RequestState
<1> QED
  BY <1>4, <1>5, <1>6 DEF TypeOK, RequestTypes

\* A sync that moves on, posts or ends keeps its type.
LEMMA SyncMoves ==
  ASSUME TypeOK, NEW s \in Syncs, NEW pc \in {"idle", "next", "posted"},
         NEW left \in SUBSET Receipts,
         \/ sync' = [sync EXCEPT ![s].pc = pc]
         \/ sync' = [sync EXCEPT ![s].left = left]
         \/ sync' = [sync EXCEPT ![s] = [pc |-> pc, left |-> left]]
  PROVE  SyncTypes'
<1>1. sync[s] \in SyncState /\ sync \in [Syncs -> SyncState]
  BY DEF TypeOK, SyncState
<1>2. /\ [sync[s] EXCEPT !.pc = pc] \in SyncState
      /\ [sync[s] EXCEPT !.left = left] \in SyncState
      /\ [pc |-> pc, left |-> left] \in SyncState
  BY <1>1 DEF SyncState
<1> QED
  BY <1>1, <1>2 DEF SyncTypes

\* A counter below its bound can be raised.
LEMMA Counters ==
  ASSUME TypeOK
  PROVE  /\ switches < MaxSwitches => switches + 1 \in 0..MaxSwitches
         /\ upsets < MaxUpsets => upsets + 1 \in 0..MaxUpsets
<1>1. MaxSwitches \in Nat /\ MaxUpsets \in Nat /\ switches \in Nat /\ upsets \in Nat
  BY ReceiptConstants DEF TypeOK
<1> QED
  BY <1>1

\* A request under way has a receipt.
LEMMA Carried ==
  ASSUME TypeOK, NEW h \in Handlers, request[h].pc # "idle"
  PROVE  request[h] \in RequestState /\ request[h].rec \in Receipts
  BY DEF TypeOK, RequestState

\* A sync that marks a receipt, or cannot, keeps its type.
LEMMA MarkTypes ==
  ASSUME TypeOK, NEW s \in Syncs, NEW r \in Receipts, NEW left \in SUBSET Receipts, Mark(s, r, left)
  PROVE  sync' \in [Syncs -> SyncState] /\ aborted' \in BOOLEAN
<1>1. sync[s] \in SyncState /\ sync \in [Syncs -> SyncState]
  BY DEF TypeOK, SyncState
<1>2. IdleSync \in SyncState /\ [pc |-> "next", left |-> left] \in SyncState
  BY DEF IdleSync, SyncState
<1>3. sync' \in [Syncs -> SyncState]
  BY <1>1, <1>2 DEF Mark
<1>4. aborted' \in BOOLEAN
  BY Zenon DEF TypeOK, Mark
<1> QED
  BY <1>3, <1>4

\* How a caller takes the answer, or its absence, is typed.
LEMMA CallerTypes ==
  ASSUME TypeOK, NEW h \in Handlers, request[h].pc # "idle", Succeed(h) \/ Fail(h)
  PROVE  /\ form' \in [Receipts -> {"new", "filing", "left", "kept", "stuck", "dropped"}]
         /\ queue' \in SUBSET Receipts
         /\ sync' \in [Syncs -> SyncState] /\ aborted' \in BOOLEAN
<1>1. request[h].rec \in Receipts
  BY Carried
<1>2. /\ form' \in [Receipts -> {"new", "filing", "left", "kept", "stuck", "dropped"}]
      /\ queue' \in SUBSET Receipts
  BY <1>1 DEF TypeOK, Succeed, Fail, Keep
<1>3. ASSUME NEW s \in Syncs, sync' = [sync EXCEPT ![s].pc = "next"]
      PROVE  sync' \in [Syncs -> SyncState]
  <2>1. SyncTypes'
    BY <1>3, {} \in SUBSET Receipts, SyncMoves
  <2> QED
    BY <2>1 DEF SyncTypes
<1>4. ASSUME UNCHANGED sync PROVE sync' \in [Syncs -> SyncState]
  BY <1>4 DEF TypeOK, SyncState
<1>5. ASSUME UNCHANGED aborted PROVE aborted' \in BOOLEAN
  BY <1>5 DEF TypeOK
<1>6. ASSUME request[h].by \in Syncs, Mark(request[h].by, request[h].rec, sync[request[h].by].left)
      PROVE  sync' \in [Syncs -> SyncState] /\ aborted' \in BOOLEAN
  <2>1. sync[request[h].by].left \in SUBSET Receipts
    BY <1>6 DEF TypeOK
  <2> QED
    BY <1>1, <1>6, <2>1, MarkTypes
<1>7. CASE Succeed(h)
  BY <1>2, <1>3, <1>4, <1>5, <1>7 DEF Succeed
<1>8. CASE Fail(h)
  BY <1>2, <1>4, <1>5, <1>6, <1>8 DEF Fail
<1> QED
  BY <1>7, <1>8

LEMMA PhoneTypes ==
  ASSUME TypeOK, Driver \/ GoOffline \/ GoOnline \/ (\E s \in Syncs : SyncStep(s))
  PROVE  TypeOK'
<1> USE ReceiptConstants DEF TypeOK
<1>1. ASSUME NEW r \in Receipts, SubmitOffline(r) PROVE TypeOK'
  BY <1>1 DEF SubmitOffline, Keep, server
<1>2. ASSUME NEW r \in Receipts, NEW h \in Handlers, Submit(r, h) PROVE TypeOK'
  BY <1>2 DEF Submit, Post, server
<1>3. ASSUME NEW s \in Syncs, PressSync(s) PROVE TypeOK'
  BY <1>3 DEF PressSync, StartSync, server
<1>4. ASSUME LeaveScreen PROVE TypeOK'
  BY <1>4 DEF LeaveScreen, Switch, server
<1>5. ASSUME ShowScreen PROVE TypeOK'
  BY <1>5 DEF ShowScreen, Switch, server
<1>6. ASSUME CloseApp PROVE TypeOK'
  <2>1. \A h \in Handlers : request[h] \in RequestState
    BY DEF RequestState
  <2>2. \A h \in Handlers : [request[h] EXCEPT !.by = None] \in RequestState
    BY <2>1 DEF RequestState
  <2>3. RequestTypes'
    BY <1>6, <2>1, <2>2 DEF CloseApp, RequestTypes, RequestState
  <2> QED
    BY <1>6, <2>3 DEF CloseApp, Switch, IdleSync, RequestTypes, RequestState, server
<1>7. ASSUME GoOffline PROVE TypeOK'
  <2>1. online' \in BOOLEAN /\ switches' \in 0..MaxSwitches
    BY <1>7, Counters DEF GoOffline, Switch
  <2> QED
    BY <1>7, <2>1 DEF GoOffline, server
<1>8. ASSUME GoOnline PROVE TypeOK'
  <2>1. SyncTypes'
    <3>1. CASE \E s \in Syncs : StartSync(s)
      BY <3>1, SyncMoves DEF StartSync
    <3>2. CASE UNCHANGED sync
      BY <3>2 DEF SyncTypes, SyncState
    <3> QED
      BY <1>8, <3>1, <3>2 DEF GoOnline
  <2>2. aborted' \in BOOLEAN
    BY <1>8, Zenon DEF GoOnline, StartSync
  <2>3. switches' \in 0..MaxSwitches
    BY <1>8, Counters DEF GoOnline, Switch
  <2> QED
    BY <1>8, <2>1, <2>2, <2>3 DEF GoOnline, SyncTypes, SyncState, server
<1>9. ASSUME NEW s \in Syncs, NEW r \in Receipts, SyncPostFails(s, r) PROVE TypeOK'
  <2>1. sync' \in [Syncs -> SyncState] /\ aborted' \in BOOLEAN
    <3>1. sync[s].left \ {r} \in SUBSET Receipts
      OBVIOUS
    <3> QED
      BY <1>9, <3>1, MarkTypes DEF SyncPostFails
  <2> QED
    BY <1>9, <2>1 DEF SyncPostFails, SyncState, server
<1>10. ASSUME NEW s \in Syncs, NEW r \in Receipts, NEW h \in Handlers, SyncPost(s, r, h) PROVE TypeOK'
  BY <1>10 DEF SyncPost, Post, server
<1>11. ASSUME NEW s \in Syncs, SyncEnds(s) PROVE TypeOK'
  BY <1>11 DEF SyncEnds, IdleSync, server
<1> QED
  BY <1>1, <1>2, <1>3, <1>4, <1>5, <1>6, <1>7, <1>8, <1>9, <1>10, <1>11 DEF Driver, SyncStep

LEMMA ServerTypes ==
  ASSUME TypeOK, (\E h \in Handlers : Moves(h)) \/ Restart \/ Reassign
  PROVE  TypeOK'
<1> USE ReceiptConstants DEF TypeOK
<1>1. ASSUME NEW h \in Handlers, Check(h) PROVE TypeOK'
  <2>1. RequestTypes'
    BY <1>1, RequestMoves DEF Check, Reply
  <2> QED
    BY <1>1, <2>1 DEF Check, RequestTypes, RequestState, phone, server
<1>2. ASSUME NEW h \in Handlers, Store(h) PROVE TypeOK'
  <2>1. RequestTypes'
    BY <1>2, RequestMoves DEF Store, Reply
  <2>2. rows' \in [Receipts -> 0..1]
    <3>1. rows' = rows \/ rows' = [rows EXCEPT ![request[h].rec] = 1]
      BY <1>2 DEF Store
    <3> QED
      BY <3>1
  <2> QED
    BY <1>2, <2>1, <2>2 DEF Store, RequestTypes, RequestState, phone
<1>3. ASSUME NEW h \in Handlers, Credit(h) PROVE TypeOK'
  <2>1. RequestTypes'
    BY <1>3, RequestMoves DEF Credit
  <2> QED
    BY <1>3, <2>1, Carried DEF Credit, RequestTypes, RequestState, phone
<1>4. ASSUME NEW h \in Handlers, Finish(h) PROVE TypeOK'
  <2>1. RequestTypes'
    BY <1>4, RequestMoves DEF Finish, Reply
  <2> QED
    BY <1>4, <2>1 DEF Finish, RequestTypes, RequestState, phone, server
<1>5. ASSUME NEW h \in Handlers, Answer(h) PROVE TypeOK'
  <2>1. /\ form' \in [Receipts -> {"new", "filing", "left", "kept", "stuck", "dropped"}]
        /\ queue' \in SUBSET Receipts
        /\ sync' \in [Syncs -> SyncState] /\ aborted' \in BOOLEAN
    BY <1>5, CallerTypes DEF Answer
  <2>2. RequestTypes'
    BY <1>5, RequestMoves DEF Answer
  <2> QED
    BY <1>5, <2>1, <2>2 DEF Answer, RequestTypes, RequestState, SyncState, server
<1>6. ASSUME NEW h \in Handlers, Unheard(h) PROVE TypeOK'
  <2>1. RequestTypes'
    BY <1>6, RequestMoves DEF Unheard
  <2> QED
    BY <1>6, <2>1 DEF Unheard, RequestTypes, RequestState, phone, server
<1>7. ASSUME NEW h \in Handlers, CreditFails(h) PROVE TypeOK'
  <2>1. RequestTypes'
    BY <1>7, RequestMoves DEF CreditFails
  <2> QED
    BY <1>7, <2>1, Carried DEF CreditFails, RequestTypes, RequestState, phone
<1>8. ASSUME NEW h \in Handlers, ServerFails(h) PROVE TypeOK'
  <2>1. RequestTypes'
    BY <1>8, RequestMoves DEF ServerFails, Reply
  <2> QED
    BY <1>8, <2>1 DEF ServerFails, RequestTypes, RequestState, phone, server
<1>9. ASSUME NEW h \in Handlers, ConnectionFails(h) PROVE TypeOK'
  <2>1. /\ form' \in [Receipts -> {"new", "filing", "left", "kept", "stuck", "dropped"}]
        /\ queue' \in SUBSET Receipts
        /\ sync' \in [Syncs -> SyncState] /\ aborted' \in BOOLEAN
    BY <1>9, CallerTypes DEF ConnectionFails
  <2>2. RequestTypes'
    BY <1>9, RequestMoves DEF ConnectionFails
  <2> QED
    BY <1>9, <2>1, <2>2 DEF ConnectionFails, RequestTypes, RequestState, SyncState, server
<1>10. ASSUME Restart PROVE TypeOK'
  <2>1. \A h \in Handlers : request[h] \in RequestState
    BY DEF RequestState
  <2>2. \A h \in Handlers : [request[h] EXCEPT !.pc = "reply", !.ok = FALSE] \in RequestState
    BY <2>1, EndedRequest
  <2>3. RequestTypes'
    <3>1. request' \in [Handlers -> RequestState]
      BY <1>10, <2>1, <2>2 DEF Restart
    <3>2. ASSUME NEW h \in Handlers, request'[h].pc # "idle" PROVE request'[h].rec # None
      <4>1. request[h].pc # "idle" /\ request'[h].rec = request[h].rec
        BY <1>10, <2>1, <3>2 DEF Restart, RequestState
      <4> QED
        BY <4>1
    <3> QED
      BY <3>1, <3>2 DEF RequestTypes
  <2>4. skipped' \in SUBSET Receipts
    <3>1. \A h \in Handlers : request[h].pc = "stored" => request[h].rec \in Receipts
      BY Carried
    <3> QED
      <4>1. {request[h].rec : h \in {g \in Handlers : request[g].pc = "stored"}} \subseteq Receipts
        BY <3>1
      <4> QED
        BY <1>10, <4>1 DEF Restart
  <2>5. upsets' \in 0..MaxUpsets
    BY <1>10, Counters DEF Restart
  <2>6. UNCHANGED <<form, queue, sync, online, app, switches, aborted, rows, credited, refused>>
    BY <1>10 DEF Restart, phone
  <2> QED
    BY <2>3, <2>4, <2>5, <2>6 DEF RequestTypes, RequestState
<1>11. ASSUME Reassign PROVE TypeOK'
  <2>1. refused' \in SUBSET Receipts /\ upsets' \in 0..MaxUpsets
    BY <1>11, Counters DEF Reassign
  <2> QED
    BY <1>11, <2>1 DEF Reassign, phone
<1> QED
  BY <1>1, <1>2, <1>3, <1>4, <1>5, <1>6, <1>7, <1>8, <1>9, <1>10, <1>11 DEF Moves, Handle, Upset

\* Every variable keeps its type; in particular a receipt has at most one row.
THEOREM TypeCorrect == Spec => []TypeOK
<1>1. TypeOK /\ [Next]_vars => TypeOK'
  <2>1. ASSUME TypeOK, UNCHANGED vars PROVE TypeOK'
    BY <2>1 DEF TypeOK, vars
  <2> QED
    BY <2>1, PhoneTypes, ServerTypes DEF Next, Moves
<1> QED
  BY <1>1, TypeInit, PTL DEF Spec

-----------------------------------------------------------------------------
(* What a step means for the books                                         *)

\* A receipt that a handler has stored, or says is stored, is stored.
Answered ==
  \A h \in Handlers :
    \/ request[h].pc \in {"stored", "credited"}
    \/ request[h].pc = "reply" /\ request[h].ok
    => rows[request[h].rec] = 1

\* A handler as it was, except that its caller may be gone.
SameWork(h) ==
  /\ request'[h].pc = request[h].pc
  /\ request'[h].rec = request[h].rec
  /\ request'[h].ok = request[h].ok

\* A handler that gets nowhere near the books, or answers for what is in them.
Harmless(h) ==
  /\ request[h].pc # "stored" /\ request'[h].pc \notin {"stored", "credited"}
  /\ request'[h].pc = "reply" /\ request'[h].ok => rows[request'[h].rec] = 1

\* Most steps leave the books alone.
Quiet ==
  /\ UNCHANGED <<rows, credited, skipped>>
  /\ \A h \in Handlers : SameWork(h) \/ Harmless(h)

Insert(h) == Store(h) /\ rows[request[h].rec] = 0

LEMMA QuietPhone ==
  ASSUME TypeOK, Driver \/ GoOffline \/ GoOnline \/ Reassign \/ (\E s \in Syncs : SyncStep(s))
  PROVE  Quiet
<1> USE DEF server
<1>1. ASSUME UNCHANGED <<request, rows, credited, skipped>> PROVE Quiet
  BY <1>1 DEF Quiet, SameWork
<1>2. ASSUME NEW h \in Handlers, NEW r \in Receipts, NEW c \in Syncs \union {Form},
             Post(h, r, c), UNCHANGED server
      PROVE  Quiet
  <2>1. Harmless(h)
    BY <1>2 DEF TypeOK, Post, Harmless
  <2>2. \A g \in Handlers \ {h} : SameWork(g)
    BY <1>2 DEF TypeOK, Post, SameWork
  <2> QED
    BY <1>2, <2>1, <2>2 DEF Quiet
<1>3. ASSUME CloseApp PROVE Quiet
  <2>1. \A h \in Handlers : SameWork(h)
    BY <1>3 DEF TypeOK, CloseApp, SameWork
  <2> QED
    BY <1>3, <2>1 DEF CloseApp, Quiet
<1>4. ASSUME NEW r \in Receipts, NEW h \in Handlers, Submit(r, h) PROVE Quiet
  BY <1>2, <1>4 DEF Submit
<1>5. ASSUME NEW s \in Syncs, NEW r \in Receipts, NEW h \in Handlers, SyncPost(s, r, h) PROVE Quiet
  BY <1>2, <1>5 DEF SyncPost
<1>6. CASE \E r \in Receipts : SubmitOffline(r)
  BY <1>1, <1>6 DEF SubmitOffline
<1>7. CASE \E s \in Syncs : PressSync(s)
  BY <1>1, <1>7 DEF PressSync
<1>8. CASE LeaveScreen \/ ShowScreen
  BY <1>1, <1>8 DEF LeaveScreen, ShowScreen
<1>9. CASE GoOffline \/ GoOnline \/ Reassign
  BY <1>1, <1>9 DEF GoOffline, GoOnline, Reassign
<1>10. CASE \E s \in Syncs, r \in Receipts : SyncPostFails(s, r)
  BY <1>1, <1>10 DEF SyncPostFails
<1>11. CASE \E s \in Syncs : SyncEnds(s)
  BY <1>1, <1>11 DEF SyncEnds
<1> QED
  BY <1>3, <1>4, <1>5, <1>6, <1>7, <1>8, <1>9, <1>10, <1>11 DEF Driver, SyncStep

LEMMA QuietServer ==
  ASSUME TypeOK, Answered, NEW h \in Handlers, Moves(h)
  PROVE  Quiet \/ Insert(h) \/ Credit(h) \/ CreditFails(h)
<1>1. ASSUME UNCHANGED server, Harmless(h) \/ SameWork(h),
             \A g \in Handlers \ {h} : request'[g] = request[g]
      PROVE  Quiet
  BY <1>1 DEF Quiet, SameWork, server
<1>2. CASE Check(h)
  <2>1. Harmless(h)
    BY <1>2 DEF TypeOK, Check, Reply, Harmless
  <2> QED
    BY <1>1, <1>2, <2>1 DEF TypeOK, Check, Reply
<1>3. CASE Store(h)
  <2>1. CASE rows[request[h].rec] = 0
    BY <1>3, <2>1 DEF Insert
  <2>2. CASE rows[request[h].rec] # 0
    <3>1. Harmless(h)
      BY <1>3, <2>2 DEF TypeOK, Store, Reply, Harmless
    <3> QED
      BY <1>1, <1>3, <2>2, <3>1 DEF TypeOK, Store, Reply, server
  <2> QED
    BY <2>1, <2>2
<1>4. CASE Finish(h)
  <2>1. Harmless(h)
    BY <1>4 DEF TypeOK, Finish, Reply, Harmless, Answered
  <2> QED
    BY <1>1, <1>4, <2>1 DEF TypeOK, Finish, Reply
<1>5. CASE Answer(h)
  <2>1. Harmless(h)
    BY <1>5 DEF TypeOK, Answer, Harmless, IdleRequest
  <2> QED
    BY <1>1, <1>5, <2>1 DEF TypeOK, Answer
<1>6. CASE Unheard(h)
  <2>1. Harmless(h)
    BY <1>6 DEF TypeOK, Unheard, Harmless, IdleRequest
  <2> QED
    BY <1>1, <1>6, <2>1 DEF TypeOK, Unheard
<1>7. CASE ServerFails(h)
  <2>1. Harmless(h)
    BY <1>7 DEF TypeOK, ServerFails, Reply, Harmless
  <2> QED
    BY <1>1, <1>7, <2>1 DEF TypeOK, ServerFails, Reply
<1>8. CASE ConnectionFails(h)
  <2>1. SameWork(h) \/ Harmless(h)
    BY <1>8 DEF TypeOK, ConnectionFails, SameWork, Harmless, IdleRequest
  <2> QED
    BY <1>1, <1>8, <2>1 DEF TypeOK, ConnectionFails
<1> QED
  BY <1>2, <1>3, <1>4, <1>5, <1>6, <1>7, <1>8 DEF Moves, Handle, Upset

\* A step is quiet, stores a receipt, credits it, fails to, or restarts the server.
LEMMA BookStep ==
  ASSUME TypeOK, Answered, [Next]_vars
  PROVE  \/ Quiet \/ Restart
         \/ \E h \in Handlers : Insert(h) \/ Credit(h) \/ CreditFails(h)
<1>1. CASE UNCHANGED vars
  BY <1>1 DEF vars, server, Quiet, SameWork
<1> QED
  BY <1>1, QuietPhone, QuietServer DEF Next, Moves

-----------------------------------------------------------------------------
(* Nothing is lost                                                         *)

LEMMA AnsweredNext ==
  ASSUME TypeOK, Answered, [Next]_vars
  PROVE  Answered' /\ \A r \in Receipts : rows[r] = 1 => rows'[r] = 1
<1>1. CASE Quiet
  BY <1>1 DEF TypeOK, Quiet, SameWork, Harmless, Answered, server
<1>2. ASSUME NEW h \in Handlers, Insert(h)
      PROVE  Answered' /\ \A r \in Receipts : rows[r] = 1 => rows'[r] = 1
  <2>1. request[h].rec \in Receipts
    BY <1>2, Carried DEF Insert, Store
  <2>2. /\ rows' = [rows EXCEPT ![request[h].rec] = 1]
        /\ request' = [request EXCEPT ![h].pc = "stored"]
    BY <1>2 DEF Insert, Store
  <2>3. \A r \in Receipts : rows[r] = 1 => rows'[r] = 1
    BY <2>2 DEF TypeOK
  <2>4. ASSUME NEW g \in Handlers,
               \/ request'[g].pc \in {"stored", "credited"}
               \/ request'[g].pc = "reply" /\ request'[g].ok
        PROVE  rows'[request'[g].rec] = 1
    <3>1. CASE g = h
      BY <2>1, <2>2, <3>1 DEF TypeOK
    <3>2. CASE g # h
      <4>1. request'[g] = request[g] /\ request[g].rec \in Receipts
        BY <2>2, <2>4, <3>2, Carried DEF TypeOK
      <4> QED
        BY <2>3, <2>4, <4>1 DEF Answered
    <3> QED
      BY <3>1, <3>2
  <2> QED
    BY <2>3, <2>4 DEF Answered
<1>3. ASSUME NEW h \in Handlers, Credit(h) \/ CreditFails(h)
      PROVE  Answered' /\ \A r \in Receipts : rows[r] = 1 => rows'[r] = 1
  <2>1. /\ request[h].pc = "stored" /\ rows' = rows
        /\ request' = [request EXCEPT ![h].pc = "credited"]
    BY <1>3 DEF Credit, CreditFails
  <2> QED
    BY <2>1 DEF TypeOK, Answered
<1>4. CASE Restart
  BY <1>4 DEF TypeOK, Restart, Answered
<1> QED
  BY <1>1, <1>2, <1>3, <1>4, BookStep

LEMMA AnsweredAlways == Spec => []Answered
<1>1. Init => Answered
  BY DEF Init, Answered, IdleRequest
<1> QED
  BY <1>1, AnsweredNext, TypeCorrect, PTL DEF Spec

\* Most steps change neither a form that is kept nor the queue.
LEMMA FormStep ==
  ASSUME TypeOK, Answered, [Next]_vars, NEW r \in Receipts, form'[r] = "kept"
  PROVE  \/ r \in queue' \/ rows[r] = 1
         \/ form[r] = "kept" /\ (r \in queue => r \in queue')
<1> USE DEF TypeOK
<1>1. ASSUME UNCHANGED <<form, queue>>
      PROVE  form[r] = "kept" /\ (r \in queue => r \in queue')
  BY <1>1
<1>2. ASSUME NEW q \in Receipts, NEW otherwise \in {"stuck", "dropped"}, Keep(q, otherwise)
      PROVE  r \in queue' \/ (form[r] = "kept" /\ (r \in queue => r \in queue'))
  BY <1>2 DEF Keep
<1>3. CASE Driver
  <2>1. CASE \E q \in Receipts : SubmitOffline(q)
    BY <1>2, <2>1 DEF SubmitOffline
  <2>2. CASE \E q \in Receipts, h \in Handlers : Submit(q, h)
    BY <2>2 DEF Submit
  <2>3. CASE (\E s \in Syncs : PressSync(s)) \/ ShowScreen
    BY <1>1, <2>3 DEF PressSync, ShowScreen
  <2>4. CASE LeaveScreen
    BY <2>4 DEF LeaveScreen
  <2>5. CASE CloseApp
    BY <2>5 DEF CloseApp
  <2> QED
    BY <1>3, <2>1, <2>2, <2>3, <2>4, <2>5 DEF Driver
<1>4. ASSUME NEW h \in Handlers, request[h].pc # "idle", Fail(h)
      PROVE  r \in queue' \/ (form[r] = "kept" /\ (r \in queue => r \in queue'))
  BY <1>1, <1>2, <1>4, Carried DEF Fail
<1>5. ASSUME NEW h \in Handlers, request[h].pc = "reply", request[h].ok, Succeed(h)
      PROVE  rows[r] = 1 \/ (form[r] = "kept" /\ (r \in queue => r \in queue'))
  <2>1. rows[request[h].rec] = 1 /\ request[h].rec \in Receipts
    BY <1>5, Carried DEF Answered
  <2> QED
    BY <1>5, <2>1 DEF Succeed
<1>6. ASSUME NEW h \in Handlers, Answer(h) \/ ConnectionFails(h)
      PROVE  \/ r \in queue' \/ rows[r] = 1
             \/ form[r] = "kept" /\ (r \in queue => r \in queue')
  BY <1>4, <1>5, <1>6 DEF Answer, ConnectionFails
<1>7. CASE GoOffline \/ GoOnline \/ Restart \/ Reassign
  BY <1>1, <1>7 DEF GoOffline, GoOnline, Restart, Reassign, phone
<1>8. CASE \E s \in Syncs : SyncStep(s)
  BY <1>1, <1>8 DEF SyncStep, SyncPost, SyncPostFails, SyncEnds
<1>9. ASSUME NEW h \in Handlers,
             \/ Check(h) \/ Store(h) \/ Credit(h) \/ Finish(h) \/ Unheard(h)
             \/ CreditFails(h) \/ ServerFails(h)
      PROVE  form[r] = "kept" /\ (r \in queue => r \in queue')
  <2>1. UNCHANGED phone
    BY <1>9 DEF Check, Store, Credit, Finish, Unheard, CreditFails, ServerFails
  <2> QED
    BY <1>1, <2>1 DEF phone
<1>10. CASE UNCHANGED vars
  BY <1>1, <1>10 DEF vars
<1> QED
  BY <1>3, <1>6, <1>7, <1>8, <1>9, <1>10 DEF Next, Handle, Upset

\* A receipt the form has let go of is in the queue or in the books: a sync removes only what
\* was answered as stored, and what is answered as stored is.
THEOREM NothingLostAlways == Spec => []NothingLost
<1>1. Init => NothingLost
  BY DEF Init, NothingLost
<1>2. TypeOK /\ Answered /\ NothingLost /\ [Next]_vars => NothingLost'
  BY FormStep, AnsweredNext DEF NothingLost
<1> QED
  BY <1>1, <1>2, AnsweredAlways, TypeCorrect, PTL DEF Spec

-----------------------------------------------------------------------------
(* Credits                                                                 *)

\* Whoever is about to credit a receipt is alone in that, and it has not been credited.
Entitled ==
  \A h \in Handlers : request[h].pc = "stored" =>
    /\ credited[request[h].rec] = 0
    /\ \A g \in Handlers \ {h} : request[g].pc = "stored" => request[g].rec # request[h].rec

LEMMA EntitledNext ==
  ASSUME TypeOK, Answered, Entitled, CreditedOnce, [Next]_vars
  PROVE  Entitled' /\ CreditedOnce'
<1> USE DEF TypeOK
<1>1. CASE Quiet
  <2>1. \A h \in Handlers : request'[h].pc = "stored" =>
          request[h].pc = "stored" /\ request'[h].rec = request[h].rec
    BY <1>1 DEF Quiet, SameWork, Harmless
  <2> QED
    BY <1>1, <2>1 DEF Quiet, server, Entitled, CreditedOnce
<1>2. CASE Restart
  <2>1. \A h \in Handlers : request'[h].pc # "stored"
    BY <1>2 DEF Restart
  <2> QED
    BY <1>2, <2>1 DEF Restart, Entitled, CreditedOnce
<1>3. ASSUME NEW h \in Handlers, Insert(h) PROVE Entitled' /\ CreditedOnce'
  <2>1. /\ request[h].rec \in Receipts /\ rows[request[h].rec] = 0
        /\ rows' = [rows EXCEPT ![request[h].rec] = 1] /\ credited' = credited
        /\ request' = [request EXCEPT ![h].pc = "stored"]
    BY <1>3, Carried DEF Insert, Store
  <2>2. CreditedOnce'
    BY <2>1 DEF CreditedOnce
  <2>3. credited[request[h].rec] = 0
    BY <2>1 DEF CreditedOnce
  <2>4. \A g \in Handlers \ {h} :
          /\ request'[g] = request[g]
          /\ request[g].pc = "stored" => request[g].rec # request[h].rec
    BY <2>1 DEF Answered
  <2>5. request'[h].pc = "stored" /\ request'[h].rec = request[h].rec
    BY <2>1
  <2> QED
    BY <2>1, <2>2, <2>3, <2>4, <2>5 DEF Entitled
<1>4. ASSUME NEW h \in Handlers, Credit(h) \/ CreditFails(h) PROVE Entitled' /\ CreditedOnce'
  <2>1. /\ request[h].rec \in Receipts /\ request[h].pc = "stored" /\ rows' = rows
        /\ request' = [request EXCEPT ![h].pc = "credited"]
        /\ \/ credited' = credited
           \/ credited' = [credited EXCEPT ![request[h].rec] = @ + 1]
    BY <1>4, Carried DEF Credit, CreditFails
  <2>2. credited[request[h].rec] = 0 /\ rows[request[h].rec] = 1
    BY <2>1 DEF Entitled, Answered
  <2>3. CreditedOnce'
    BY <2>1, <2>2 DEF CreditedOnce
  <2>4. request'[h].pc = "credited" /\ \A g \in Handlers \ {h} : request'[g] = request[g]
    BY <2>1
  <2>5. \A g \in Handlers \ {h} : request[g].pc = "stored" =>
          credited'[request[g].rec] = credited[request[g].rec]
    BY <2>1, Carried DEF Entitled
  <2>6. ASSUME NEW g \in Handlers, request'[g].pc = "stored"
        PROVE  /\ credited'[request'[g].rec] = 0
               /\ \A k \in Handlers \ {g} :
                    request'[k].pc = "stored" => request'[k].rec # request'[g].rec
    <3>1. g # h /\ request'[g] = request[g]
      BY <2>4, <2>6
    <3>2. \A k \in Handlers : request'[k].pc = "stored" => request'[k] = request[k]
      BY <2>4
    <3> QED
      BY <2>5, <2>6, <3>1, <3>2 DEF Entitled
  <2> QED
    BY <2>3, <2>6 DEF Entitled
<1> QED
  BY <1>1, <1>2, <1>3, <1>4, BookStep

LEMMA EntitledAlways == Spec => [](Entitled /\ CreditedOnce)
<1>1. Init => Entitled /\ CreditedOnce
  BY DEF Init, Entitled, CreditedOnce, IdleRequest
<1>2. TypeOK /\ Answered /\ (Entitled /\ CreditedOnce) /\ [Next]_vars => (Entitled /\ CreditedOnce)'
  BY EntitledNext
<1> QED
  BY <1>1, <1>2, AnsweredAlways, TypeCorrect, PTL DEF Spec

\* A receipt is credited once, however often it is posted: the unique index lets one request
\* store it, and only that request credits it.
THEOREM CreditedOnceAlways == Spec => []CreditedOnce
  BY EntitledAlways, PTL

LEMMA CreditedUnlessSkippedNext ==
  ASSUME TypeOK, Answered, Entitled, CreditedUnlessSkipped, [Next]_vars
  PROVE  CreditedUnlessSkipped'
<1> USE DEF TypeOK
<1>1. CASE Quiet
  <2>1. \A h \in Handlers : request[h].pc = "stored" =>
          request'[h].pc = "stored" /\ request'[h].rec = request[h].rec
    BY <1>1 DEF Quiet, SameWork, Harmless
  <2> QED
    BY <1>1, <2>1 DEF Quiet, server, CreditedUnlessSkipped
<1>2. CASE Restart
  <2>1. \A h \in Handlers : request[h].pc = "stored" => request[h].rec \in skipped'
    BY <1>2 DEF Restart
  <2>2. skipped \subseteq skipped' /\ rows' = rows /\ credited' = credited
    BY <1>2 DEF Restart
  <2> QED
    BY <2>1, <2>2 DEF CreditedUnlessSkipped
<1>3. ASSUME NEW h \in Handlers, Insert(h) PROVE CreditedUnlessSkipped'
  <2>1. /\ request[h].rec \in Receipts /\ skipped' = skipped /\ credited' = credited
        /\ rows' = [rows EXCEPT ![request[h].rec] = 1]
        /\ request' = [request EXCEPT ![h].pc = "stored"]
    BY <1>3, Carried DEF Insert, Store
  <2>2. /\ request'[h].pc = "stored" /\ request'[h].rec = request[h].rec
        /\ \A g \in Handlers \ {h} : request'[g] = request[g]
        /\ request[h].pc # "stored"
    BY <1>3, <2>1 DEF Insert, Store
  <2>3. \A r \in Receipts : rows'[r] = 1 => rows[r] = 1 \/ r = request[h].rec
    BY <2>1
  <2> QED
    BY <2>1, <2>2, <2>3 DEF CreditedUnlessSkipped
<1>4. ASSUME NEW h \in Handlers, Credit(h) \/ CreditFails(h) PROVE CreditedUnlessSkipped'
  <2>1. /\ request[h].rec \in Receipts /\ request[h].pc = "stored" /\ rows' = rows
        /\ request' = [request EXCEPT ![h].pc = "credited"]
        /\ \/ /\ skipped' = skipped
              /\ credited' = [credited EXCEPT ![request[h].rec] = @ + 1]
           \/ /\ skipped' = skipped \union {request[h].rec}
              /\ credited' = credited
    BY <1>4, Carried DEF Credit, CreditFails
  <2>2. credited[request[h].rec] = 0
    BY <2>1 DEF Entitled
  <2>3. request[h].rec \in skipped' \/ credited'[request[h].rec] = 1
    BY <2>1, <2>2
  <2>4. \A r \in Receipts \ {request[h].rec} :
          credited'[r] = credited[r] /\ (r \in skipped' <=> r \in skipped)
    BY <2>1
  <2>5. \A g \in Handlers : request[g].pc = "stored" /\ request[g].rec # request[h].rec =>
          request'[g] = request[g]
    BY <2>1
  <2> QED
    BY <2>1, <2>3, <2>4, <2>5 DEF CreditedUnlessSkipped
<1> QED
  BY <1>1, <1>2, <1>3, <1>4, BookStep

\* A stored receipt is credited unless the credit failed: the handler that stored it goes on to
\* credit it whether or not anyone waits for the answer.
THEOREM CreditedUnlessSkippedAlways == Spec => []CreditedUnlessSkipped
<1>1. Init => CreditedUnlessSkipped
  BY DEF Init, CreditedUnlessSkipped
<1>2. TypeOK /\ Answered /\ (Entitled /\ CreditedOnce) /\ CreditedUnlessSkipped /\ [Next]_vars
      => CreditedUnlessSkipped'
  BY CreditedUnlessSkippedNext
<1> QED
  BY <1>1, <1>2, EntitledAlways, AnsweredAlways, TypeCorrect, PTL DEF Spec

-----------------------------------------------------------------------------
(* The books                                                               *)

\* The form waits for at most one request of a receipt, and while it does, the receipt is not kept.
Awaited ==
  \A h \in Handlers : request[h].by = Form =>
    /\ request[h].pc # "idle" /\ form[request[h].rec] \in {"filing", "left"}
    /\ \A g \in Handlers \ {h} : request[g].by = Form => request[g].rec # request[h].rec

\* A step that starts no request of the form leaves the others to wait as they did.
LEMMA StillAwaited ==
  ASSUME Awaited,
         \A h \in Handlers : request'[h].by = Form =>
           /\ request[h].by = Form /\ request'[h].rec = request[h].rec
           /\ request'[h].pc # "idle" /\ form'[request[h].rec] \in {"filing", "left"}
  PROVE  Awaited'
  BY DEF Awaited

LEMMA AwaitedNext == TypeOK /\ Awaited /\ [Next]_vars => Awaited'
<1> SUFFICES ASSUME TypeOK, Awaited, [Next]_vars PROVE Awaited'
  OBVIOUS
<1> USE ReceiptConstants DEF TypeOK
<1>1. ASSUME UNCHANGED <<form, request>> PROVE Awaited'
  BY <1>1 DEF Awaited
<1>2. ASSUME NEW h \in Handlers, request'[h].by # Form, form' = form,
             \A g \in Handlers \ {h} : request'[g] = request[g]
      PROVE  Awaited'
  BY <1>2, StillAwaited DEF Awaited
<1>3. ASSUME NEW r \in Receipts, SubmitOffline(r) PROVE Awaited'
  <2>1. form[r] = "new" /\ request' = request /\ \A q \in Receipts \ {r} : form'[q] = form[q]
    BY <1>3 DEF SubmitOffline, Keep
  <2>2. \A h \in Handlers : request[h].by = Form => request[h].rec \in Receipts \ {r}
    BY <2>1, Carried DEF Awaited
  <2> QED
    BY <2>1, <2>2, StillAwaited DEF Awaited
<1>4. ASSUME NEW r \in Receipts, NEW h \in Handlers, Submit(r, h) PROVE Awaited'
  <2>1. /\ form[r] = "new" /\ form' = [form EXCEPT ![r] = "filing"]
        /\ request' = [request EXCEPT ![h] = [pc |-> "sent", rec |-> r, by |-> Form, ok |-> FALSE]]
    BY <1>4 DEF Submit, Post
  <2>2. request'[h].rec = r /\ request'[h].pc = "sent" /\ form'[r] = "filing"
    BY <2>1
  <2>3. \A g \in Handlers \ {h} : request'[g] = request[g]
    BY <2>1
  <2>4. \A g \in Handlers : request[g].by = Form => request[g].rec \in Receipts \ {r}
    BY <2>1, Carried DEF Awaited
  <2>5. \A q \in Receipts \ {r} : form'[q] = form[q]
    BY <2>1
  <2>6. \A g \in Handlers \ {h} : request'[g].by = Form =>
          /\ request'[g].pc # "idle" /\ request'[g].rec # r
          /\ form'[request'[g].rec] \in {"filing", "left"}
    BY <2>3, <2>4, <2>5 DEF Awaited
  <2>7. \A g, k \in Handlers \ {h} : g # k /\ request'[g].by = Form /\ request'[k].by = Form =>
          request'[g].rec # request'[k].rec
    BY <2>3 DEF Awaited
  <2> HIDE DEF TypeOK
  <2> QED
    BY <2>2, <2>6, <2>7 DEF Awaited
<1>5. CASE LeaveScreen
  <2>1. request' = request /\ \A r \in Receipts : form[r] \in {"filing", "left"} => form'[r] = "left"
    BY <1>5 DEF LeaveScreen
  <2>2. \A h \in Handlers : request[h].by = Form => request[h].rec \in Receipts
    BY Carried DEF Awaited
  <2> QED
    BY <2>1, <2>2, StillAwaited DEF Awaited
<1>6. CASE CloseApp
  <2>1. \A h \in Handlers : request'[h].by = None
    BY <1>6 DEF CloseApp
  <2> QED
    BY <2>1 DEF Awaited
<1>7. ASSUME NEW s \in Syncs, NEW r \in Receipts, NEW h \in Handlers, SyncPost(s, r, h) PROVE Awaited'
  <2>1. /\ request'[h].by = s /\ form' = form
        /\ \A g \in Handlers \ {h} : request'[g] = request[g]
    BY <1>7 DEF SyncPost, Post
  <2>2. Form # s
    OBVIOUS
  <2> QED
    BY <1>2, <2>1, <2>2
<1>8. CASE \/ (\E s \in Syncs : PressSync(s)) \/ ShowScreen \/ GoOffline \/ GoOnline \/ Reassign
           \/ (\E s \in Syncs, r \in Receipts : SyncPostFails(s, r)) \/ (\E s \in Syncs : SyncEnds(s))
  BY <1>1, <1>8 DEF PressSync, ShowScreen, GoOffline, GoOnline, Reassign, phone, SyncPostFails, SyncEnds
<1>9. ASSUME NEW h \in Handlers,
             Check(h) \/ Store(h) \/ Credit(h) \/ Finish(h) \/ CreditFails(h) \/ ServerFails(h)
      PROVE  Awaited'
  <2>1. /\ form' = form /\ request'[h].by = request[h].by /\ request'[h].rec = request[h].rec
        /\ request'[h].pc # "idle" /\ \A g \in Handlers \ {h} : request'[g] = request[g]
    BY <1>9 DEF Check, Store, Credit, Finish, CreditFails, ServerFails, Reply, phone
  <2> QED
    BY <2>1, StillAwaited DEF Awaited
<1>10. ASSUME NEW h \in Handlers, Unheard(h) PROVE Awaited'
  <2>1. /\ form' = form /\ request'[h].by = None
        /\ \A g \in Handlers \ {h} : request'[g] = request[g]
    BY <1>10 DEF Unheard, IdleRequest, phone
  <2> QED
    BY <1>2, <2>1
<1>11. ASSUME NEW h \in Handlers, Answer(h) \/ ConnectionFails(h) PROVE Awaited'
  <2>1. /\ request[h].pc # "idle" /\ (Succeed(h) \/ Fail(h))
        /\ request'[h].by = None /\ \A g \in Handlers \ {h} : request'[g] = request[g]
    BY <1>11 DEF Answer, ConnectionFails, IdleRequest
  <2>2. request[h].rec \in Receipts
    BY <2>1, Carried
  <2>3. form' = form \/ (request[h].by = Form /\ \A q \in Receipts \ {request[h].rec} : form'[q] = form[q])
    BY <2>1, <2>2 DEF Succeed, Fail, Keep
  <2>4. ASSUME NEW g \in Handlers \ {h}, request[g].by = Form
        PROVE  form'[request[g].rec] = form[request[g].rec]
    BY <2>3, <2>4, Carried DEF Awaited
  <2> QED
    BY <2>1, <2>4, StillAwaited DEF Awaited
<1>12. CASE Restart
  <2>1. /\ form' = form
        /\ \A h \in Handlers : /\ request'[h].by = request[h].by /\ request'[h].rec = request[h].rec
                               /\ request[h].pc # "idle" => request'[h].pc # "idle"
    BY <1>12 DEF Restart, phone
  <2> QED
    BY <2>1, StillAwaited DEF Awaited
<1>13. CASE UNCHANGED vars
  BY <1>1, <1>13 DEF vars
<1> QED
  BY <1>3, <1>4, <1>5, <1>6, <1>7, <1>8, <1>9, <1>10, <1>11, <1>12, <1>13
  DEF Next, Driver, SyncStep, Handle, Upset

LEMMA AwaitedAlways == Spec => []Awaited
<1>1. Init => Awaited
  BY ReceiptConstants DEF Init, Awaited, IdleRequest
<1> QED
  BY <1>1, AwaitedNext, TypeCorrect, PTL DEF Spec

\* A receipt that was given up is stored and not credited, and nobody is about to credit it.
NotTaken ==
  \A r \in skipped : /\ rows[r] = 1 /\ credited[r] = 0
                     /\ \A h \in Handlers : request[h].pc = "stored" => request[h].rec # r

LEMMA NotTakenNext == TypeOK /\ Answered /\ Entitled /\ NotTaken /\ [Next]_vars => NotTaken'
<1> SUFFICES ASSUME TypeOK, Answered, Entitled, NotTaken, [Next]_vars PROVE NotTaken'
  OBVIOUS
<1> USE DEF TypeOK
<1>1. CASE Quiet
  <2>1. \A h \in Handlers : request'[h].pc = "stored" =>
          request[h].pc = "stored" /\ request'[h].rec = request[h].rec
    BY <1>1 DEF Quiet, SameWork, Harmless
  <2> QED
    BY <1>1, <2>1 DEF Quiet, server, NotTaken
<1>2. CASE Restart
  <2>1. \A h \in Handlers : request'[h].pc # "stored"
    BY <1>2 DEF Restart
  <2>2. \A h \in Handlers : request[h].pc = "stored" =>
          rows[request[h].rec] = 1 /\ credited[request[h].rec] = 0
    BY DEF Answered, Entitled
  <2>3. /\ UNCHANGED <<rows, credited>>
        /\ skipped' = skipped \union
             {request[h].rec : h \in {g \in Handlers : request[g].pc = "stored"}}
    BY <1>2 DEF Restart
  <2>4. \A r \in skipped' : rows[r] = 1 /\ credited[r] = 0
    BY <2>2, <2>3 DEF NotTaken
  <2> QED
    BY <2>1, <2>3, <2>4 DEF NotTaken
<1>3. ASSUME NEW h \in Handlers, Insert(h) PROVE NotTaken'
  <2>1. /\ request[h].rec \in Receipts /\ rows[request[h].rec] = 0
        /\ rows' = [rows EXCEPT ![request[h].rec] = 1] /\ UNCHANGED <<credited, skipped>>
        /\ request' = [request EXCEPT ![h].pc = "stored"]
    BY <1>3, Carried DEF Insert, Store
  <2>2. /\ request'[h].rec = request[h].rec
        /\ \A g \in Handlers \ {h} : request'[g] = request[g]
    BY <2>1
  <2>3. \A r \in skipped : r # request[h].rec /\ rows'[r] = rows[r]
    BY <2>1 DEF NotTaken
  <2> QED
    BY <2>1, <2>2, <2>3 DEF NotTaken
<1>4. ASSUME NEW h \in Handlers, Credit(h) \/ CreditFails(h) PROVE NotTaken'
  <2>1. /\ request[h].rec \in Receipts /\ request[h].pc = "stored" /\ rows' = rows
        /\ request' = [request EXCEPT ![h].pc = "credited"]
        /\ \/ skipped' = skipped /\ credited' = [credited EXCEPT ![request[h].rec] = @ + 1]
           \/ skipped' = skipped \union {request[h].rec} /\ credited' = credited
    BY <1>4, Carried DEF Credit, CreditFails
  <2>2. /\ credited[request[h].rec] = 0 /\ rows[request[h].rec] = 1
        /\ \A g \in Handlers \ {h} : request[g].pc = "stored" => request[g].rec # request[h].rec
    BY <2>1 DEF Entitled, Answered
  <2>3. request'[h].pc = "credited" /\ \A g \in Handlers \ {h} : request'[g] = request[g]
    BY <2>1
  <2>4. \A r \in skipped : r # request[h].rec
    BY <2>1 DEF NotTaken
  <2>5. \A r \in skipped : credited'[r] = credited[r]
    BY <2>1, <2>4
  <2>6. \A r \in skipped' : r \in skipped \/ (r = request[h].rec /\ credited' = credited)
    BY <2>1
  <2> QED
    BY <2>1, <2>2, <2>3, <2>5, <2>6 DEF NotTaken
<1> QED
  BY <1>1, <1>2, <1>3, <1>4, BookStep

LEMMA NotTakenAlways == Spec => []NotTaken
<1>1. Init => NotTaken
  BY DEF Init, NotTaken
<1>2. TypeOK /\ Answered /\ (Entitled /\ CreditedOnce) /\ NotTaken /\ [Next]_vars => NotTaken'
  BY NotTakenNext
<1> QED
  BY <1>1, <1>2, EntitledAlways, AnsweredAlways, TypeCorrect, PTL DEF Spec

\* What a step means to the driver: nothing, or a receipt is held and told, or what is in the
\* books is told, or forgotten by the queue.
PhoneStep ==
  \/ Kept' = Kept /\ queue' = queue
  \/ \E r \in Receipts : Kept' = Kept \union {r} /\ queue' = queue \union {r}
  \/ \E r \in Receipts : rows[r] = 1 /\ Kept' = Kept \union {r} /\ queue' = queue
  \/ \E r \in Receipts : rows[r] = 1 /\ Kept' = Kept /\ queue' = queue \ {r}

LEMMA KeepIsStep ==
  ASSUME TypeOK, NEW r \in Receipts, NEW otherwise \in {"stuck", "dropped"}, form[r] # "kept",
         Keep(r, otherwise)
  PROVE  PhoneStep
<1>1. CASE queue' = queue \union {r} /\ form' = [form EXCEPT ![r] = "kept"]
  <2>1. Kept' = Kept \union {r}
    BY <1>1 DEF TypeOK, Kept
  <2> QED
    BY <1>1, <2>1 DEF PhoneStep
<1>2. CASE form' = [form EXCEPT ![r] = otherwise] /\ UNCHANGED queue
  <2>1. Kept' = Kept
    BY <1>2 DEF TypeOK, Kept
  <2> QED
    BY <1>2, <2>1 DEF PhoneStep
<1> QED
  BY <1>1, <1>2 DEF Keep

LEMMA PhoneStepAlways ==
  ASSUME TypeOK, Answered, Awaited, [Next]_vars
  PROVE  PhoneStep
<1> USE DEF TypeOK
<1>1. ASSUME UNCHANGED queue, \A r \in Receipts : form'[r] = "kept" <=> form[r] = "kept" PROVE PhoneStep
  BY <1>1 DEF PhoneStep, Kept
<1>2. ASSUME UNCHANGED <<form, queue>> PROVE PhoneStep
  BY <1>1, <1>2
<1>3. ASSUME NEW r \in Receipts, SubmitOffline(r) PROVE PhoneStep
  BY <1>3, KeepIsStep DEF SubmitOffline
<1>4. ASSUME NEW r \in Receipts, NEW h \in Handlers, Submit(r, h) PROVE PhoneStep
  BY <1>1, <1>4 DEF Submit
<1>5. CASE LeaveScreen
  BY <1>1, <1>5 DEF LeaveScreen
<1>6. CASE CloseApp
  BY <1>1, <1>6 DEF CloseApp
<1>7. CASE \/ (\E s \in Syncs : PressSync(s) \/ SyncStep(s)) \/ ShowScreen \/ GoOffline \/ GoOnline
  BY <1>2, <1>7 DEF PressSync, ShowScreen, GoOffline, GoOnline, SyncStep, SyncPostFails, SyncPost, SyncEnds
<1>8. ASSUME NEW h \in Handlers, request[h].pc # "idle", Fail(h) PROVE PhoneStep
  <2>1. CASE UNCHANGED <<form, queue>>
    BY <1>2, <2>1
  <2>2. CASE request[h].by = Form /\ Keep(request[h].rec, "dropped")
    <3>1. request[h].rec \in Receipts /\ form[request[h].rec] # "kept"
      BY <1>8, <2>2, Carried DEF Awaited
    <3> QED
      BY <2>2, <3>1, KeepIsStep
  <2> QED
    BY <1>8, <2>1, <2>2 DEF Fail
<1>9. ASSUME NEW h \in Handlers, request[h].pc = "reply", request[h].ok, Succeed(h) PROVE PhoneStep
  <2>1. request[h].rec \in Receipts /\ rows[request[h].rec] = 1
    BY <1>9, Carried DEF Answered
  <2>2. CASE queue' = queue \ {request[h].rec} /\ UNCHANGED form
    BY <2>1, <2>2 DEF PhoneStep, Kept
  <2>3. CASE form' = [form EXCEPT ![request[h].rec] = "kept"] /\ UNCHANGED queue
    <3>1. Kept' = Kept \union {request[h].rec}
      BY <2>1, <2>3 DEF Kept
    <3> QED
      BY <2>1, <2>3, <3>1 DEF PhoneStep
  <2> QED
    BY <1>9, <2>2, <2>3 DEF Succeed
<1>10. ASSUME NEW h \in Handlers, Answer(h) \/ ConnectionFails(h) PROVE PhoneStep
  BY <1>8, <1>9, <1>10 DEF Answer, ConnectionFails
<1>11. ASSUME NEW h \in Handlers,
              \/ Check(h) \/ Store(h) \/ Credit(h) \/ Finish(h) \/ Unheard(h)
              \/ CreditFails(h) \/ ServerFails(h)
       PROVE  PhoneStep
  <2>1. UNCHANGED phone
    BY <1>11 DEF Check, Store, Credit, Finish, Unheard, CreditFails, ServerFails
  <2> QED
    BY <1>2, <2>1 DEF phone
<1>12. CASE Restart \/ Reassign \/ UNCHANGED vars
  BY <1>2, <1>12 DEF Restart, Reassign, phone, vars
<1> QED
  BY <1>3, <1>4, <1>5, <1>6, <1>7, <1>10, <1>11, <1>12 DEF Next, Driver, Handle, Upset

books == <<Kept, queue, Stored, credited, skipped>>

LEMMA BooksNext ==
  ASSUME TypeOK, Answered, Awaited, Entitled, NotTaken, [Next]_vars
  PROVE  [Books!Next]_books
<1> USE DEF TypeOK
<1>1. CASE Quiet
  <2>1. UNCHANGED <<Stored, credited, skipped>>
    BY <1>1 DEF Quiet, server, Stored
  <2>2. PhoneStep
    BY PhoneStepAlways
  <2>3. CASE Kept' = Kept /\ queue' = queue
    BY <2>1, <2>3 DEF books
  <2>4. ASSUME NEW r \in Receipts, Kept' = Kept \union {r}, queue' = queue \union {r} PROVE Books!Next
    <3>1. Books!Hold(r)
      BY <2>1, <2>4 DEF Books!Hold
    <3> QED
      BY <3>1 DEF Books!Next
  <2>5. ASSUME NEW r \in Receipts, rows[r] = 1, Kept' = Kept \union {r}, queue' = queue PROVE Books!Next
    <3>1. Books!Confirm(r)
      BY <2>1, <2>5 DEF Books!Confirm, Stored
    <3> QED
      BY <3>1 DEF Books!Next
  <2>6. ASSUME NEW r \in Receipts, rows[r] = 1, Kept' = Kept, queue' = queue \ {r} PROVE Books!Next
    <3>1. Books!Forget(r)
      BY <2>1, <2>6 DEF Books!Forget, Stored
    <3> QED
      BY <3>1 DEF Books!Next
  <2> QED
    BY <2>2, <2>3, <2>4, <2>5, <2>6 DEF PhoneStep
<1>m. ASSUME UNCHANGED phone PROVE UNCHANGED <<Kept, queue>>
  BY <1>m DEF phone, Kept
<1>2. CASE Restart
  <2>1. UNCHANGED <<Kept, queue, Stored, credited>>
    BY <1>2, <1>m DEF Restart, Stored
  <2> DEFINE R == {request[h].rec : h \in {g \in Handlers : request[g].pc = "stored"}}
  <2>2. \A h \in Handlers : request[h].pc = "stored" => request[h].rec \in Receipts /\ Books!Open(request[h].rec)
    BY Carried DEF Books!Open, Answered, Entitled, NotTaken, Stored
  <2>3. R \in SUBSET {r \in Receipts : Books!Open(r)}
    BY <2>2
  <2>4. skipped' = skipped \union R
    BY <1>2 DEF Restart
  <2>5. Books!GiveUp
    BY <2>1, <2>3, <2>4 DEF Books!GiveUp
  <2> QED
    BY <2>5 DEF Books!Next
<1>3. ASSUME NEW h \in Handlers, Insert(h) PROVE Books!Next
  <2>1. /\ request[h].rec \in Receipts /\ rows[request[h].rec] = 0
        /\ rows' = [rows EXCEPT ![request[h].rec] = 1] /\ UNCHANGED <<phone, credited, skipped>>
    BY <1>3, Carried DEF Insert, Store
  <2>2. request[h].rec \notin Stored /\ Stored' = Stored \union {request[h].rec}
    BY <2>1 DEF Stored
  <2>3. Books!File(request[h].rec)
    BY <1>m, <2>1, <2>2 DEF Books!File
  <2> QED
    BY <2>1, <2>3 DEF Books!Next
<1>4. ASSUME NEW h \in Handlers, Credit(h) \/ CreditFails(h) PROVE Books!Next
  <2>1. /\ request[h].rec \in Receipts /\ request[h].pc = "stored" /\ UNCHANGED <<phone, rows>>
        /\ \/ skipped' = skipped /\ credited' = [credited EXCEPT ![request[h].rec] = @ + 1]
           \/ skipped' = skipped \union {request[h].rec} /\ credited' = credited
    BY <1>4, Carried DEF Credit, CreditFails
  <2>2. credited[request[h].rec] = 0 /\ Books!Open(request[h].rec)
    BY <2>1 DEF Books!Open, Answered, Entitled, NotTaken, Stored
  <2>3. UNCHANGED <<Kept, queue, Stored>>
    BY <1>m, <2>1 DEF Stored
  <2>4. CASE skipped' = skipped /\ credited' = [credited EXCEPT ![request[h].rec] = @ + 1]
    <3>1. Books!Credit(request[h].rec)
      BY <2>2, <2>3, <2>4 DEF Books!Credit
    <3> QED
      BY <2>1, <3>1 DEF Books!Next
  <2>5. CASE skipped' = skipped \union {request[h].rec} /\ credited' = credited
    <3>1. {request[h].rec} \in SUBSET {r \in Receipts : Books!Open(r)}
      BY <2>1, <2>2
    <3>2. Books!GiveUp
      BY <2>3, <2>5, <3>1 DEF Books!GiveUp
    <3> QED
      BY <3>2 DEF Books!Next
  <2> QED
    BY <2>1, <2>4, <2>5
<1> QED
  BY <1>1, <1>2, <1>3, <1>4, BookStep

\* The way of a receipt implements the books: what the driver was told is kept is held or filed,
\* a receipt is filed once, and credited once or given up.  Each step of phone, network and server is
\* one step of the books or none.
THEOREM ImplementsBooks == Spec => BooksSpec
<1>1. Init => Books!Init
  BY DEF Init, Books!Init, Kept, Stored
<1>2. TypeOK /\ Answered /\ Awaited /\ (Entitled /\ CreditedOnce) /\ NotTaken /\ [Next]_vars
        => [Books!Next]_<<Kept, queue, Stored, credited, skipped>>
  BY BooksNext DEF books
<1> QED
  BY <1>1, <1>2, TypeCorrect, AnsweredAlways, AwaitedAlways, EntitledAlways, NotTakenAlways, PTL
  DEF Spec, BooksSpec, Books!Spec

=============================================================================
