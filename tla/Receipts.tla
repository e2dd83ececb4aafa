-------------------------------- MODULE Receipts --------------------------------
(***************************************************************************)
(* How a fuel receipt gets from a driver's phone into the books: the       *)
(* driver's screen (DriverFuelScreen.tsx) and its queue in localStorage    *)
(* (driver-offline-queue.ts), over a network that comes and goes, and      *)
(* POST /receipts of driver-portal.routes.ts, which looks for a duplicate, *)
(* stores the receipt and its purchase in one transaction and then credits *)
(* the virtual tank.                                                       *)
(*                                                                         *)
(* A receipt is its client_receipt_id.  A request is a handler of the      *)
(* server from the moment it is sent until its caller has the answer; one  *)
(* whose caller has lost the connection goes on with nobody to answer.     *)
(* What creditRefuel does to the tank, and how it races a reading, is the  *)
(* subject of module FuelLedger: here a credit is counted.  A sync posts   *)
(* its receipts one at a time, oldest first; each is posted whatever       *)
(* becomes of the others, so the model leaves their order open.            *)
(***************************************************************************)
EXTENDS Naturals, FiniteSets

CONSTANTS Receipts,     \* client_receipt_ids
          Syncs,        \* calls of syncQueue that can be suspended at once
          Handlers,     \* requests that can be under way at once
          MaxSwitches,  \* bound on changes of the network and of what the phone shows
          MaxUpsets,    \* bound on failures while online, server restarts and vehicles reassigned
          Form,         \* the caller of a request that handleSubmit made
          None

ASSUME ReceiptConstants ==
  /\ {MaxSwitches, MaxUpsets} \subseteq Nat
  /\ Form # None /\ {Form, None} \cap Syncs = {} /\ None \notin Receipts

VARIABLES
  form,      \* what became of a receipt on the driver's screen, see TypeOK
  queue,     \* the receipts in localStorage
  sync,      \* calls of syncQueue: [Syncs -> [pc, left]]
  online,    \* navigator.onLine
  app,       \* the tab of the driver's app that is shown, or closed
  request,   \* POST /receipts: [Handlers -> [pc, rec, by, ok]]
  rows,      \* rows of fuel_receipts (and fuel_purchases) with this id
  credited,  \* times the tank was credited
  refused,   \* receipts the server does not take: their vehicle is not the driver's any more
  switches, upsets,  \* how much of each bound is used
  skipped,   \* history: receipts whose credit failed or died with the server
  aborted    \* history: a sync was cut short by a refused receipt, and none was started since

phone == <<form, queue, sync, online, app, switches, aborted>>
server == <<rows, credited, skipped, refused>>
vars == <<form, queue, sync, online, app, request, rows, credited, refused, switches, upsets,
          skipped, aborted>>

IdleRequest == [pc |-> "idle", rec |-> None, by |-> None, ok |-> FALSE]
IdleSync == [pc |-> "idle", left |-> {}]

\* A form is filing while handleSubmit waits for the server, left if the driver has gone to
\* another tab meanwhile, kept when handleSubmit has stored or queued the receipt, stuck if it
\* threw before it could say so, and dropped if nothing was kept.
TypeOK ==
  /\ form \in [Receipts -> {"new", "filing", "left", "kept", "stuck", "dropped"}]
  /\ queue \in SUBSET Receipts
  /\ sync \in [Syncs -> [pc : {"idle", "next", "posted"}, left : SUBSET Receipts]]
  /\ online \in BOOLEAN /\ app \in {"fuel", "other", "closed"}
  /\ request \in [Handlers -> [pc : {"idle", "sent", "checked", "stored", "credited", "reply"},
                               rec : Receipts \union {None},
                               by : Syncs \union {Form, None}, ok : BOOLEAN]]
  /\ \A h \in Handlers : request[h].pc # "idle" => request[h].rec # None
  /\ rows \in [Receipts -> 0..1] /\ credited \in [Receipts -> Nat]
  /\ switches \in 0..MaxSwitches /\ upsets \in 0..MaxUpsets
  /\ skipped \in SUBSET Receipts /\ refused \in SUBSET Receipts /\ aborted \in BOOLEAN

Init ==
  /\ form = [r \in Receipts |-> "new"]
  /\ queue = {}
  /\ sync = [s \in Syncs |-> IdleSync]
  /\ online = TRUE /\ app = "fuel"
  /\ request = [h \in Handlers |-> IdleRequest]
  /\ rows = [r \in Receipts |-> 0] /\ credited = [r \in Receipts |-> 0]
  /\ switches = 0 /\ upsets = 0 /\ skipped = {} /\ refused = {} /\ aborted = FALSE

-----------------------------------------------------------------------------
(* The phone                                                               *)

\* enqueueOfflineReceipt.  localStorage has room for one receipt with its photo; whether it has
\* for more depends on the photos.  If it has not, setItem throws, and handleSubmit with it.
Keep(r, otherwise) ==
  \/ /\ queue' = queue \union {r}
     /\ form' = [form EXCEPT ![r] = "kept"]
  \/ /\ queue # {}
     /\ form' = [form EXCEPT ![r] = otherwise]
     /\ UNCHANGED queue

\* The submit button is disabled while a submission of this form is under way.
Submitting == \E r \in Receipts : form[r] \in {"filing", "stuck"}

\* A new receipt gets a fresh id (crypto.randomUUID), a new request or sync a place that is
\* free; which one makes no difference.
FreshId == CHOOSE r \in Receipts : form[r] = "new"
FreeHandler == CHOOSE h \in Handlers : request[h].pc = "idle"
FreeSync == CHOOSE s \in Syncs : sync[s].pc = "idle"

Post(h, r, caller) ==
  /\ request[h].pc = "idle" /\ h = FreeHandler
  /\ request' = [request EXCEPT ![h] = [pc |-> "sent", rec |-> r, by |-> caller, ok |-> FALSE]]

\* handleSubmit while online: the receipt is posted with a fresh id.
Submit(r, h) ==
  /\ app = "fuel" /\ online /\ form[r] = "new" /\ r = FreshId /\ ~Submitting
  /\ Post(h, r, Form)
  /\ form' = [form EXCEPT ![r] = "filing"]
  /\ UNCHANGED <<queue, sync, online, app, switches, upsets, aborted, server>>

\* handleSubmit while offline.  If it throws the form never leaves its submitting state.
SubmitOffline(r) ==
  /\ app = "fuel" /\ ~online /\ form[r] = "new" /\ r = FreshId /\ ~Submitting
  /\ Keep(r, "stuck")
  /\ UNCHANGED <<sync, online, app, request, switches, upsets, aborted, server>>

\* syncQueue up to its first await: it works on a copy of the queue.
StartSync(s) ==
  /\ sync[s].pc = "idle" /\ s = FreeSync
  /\ sync' = [sync EXCEPT ![s] = [pc |-> "next", left |-> queue]]
  /\ aborted' = FALSE

\* The driver presses "Sync n".
PressSync(s) ==
  /\ app = "fuel" /\ online /\ queue # {}
  /\ StartSync(s)
  /\ UNCHANGED <<form, queue, online, app, request, switches, upsets, server>>

\* The next receipt of the copy is posted; while offline that fails at once.
SyncPost(s, r, h) ==
  /\ sync[s].pc = "next" /\ r \in sync[s].left /\ online
  /\ Post(h, r, s)
  /\ sync' = [sync EXCEPT ![s] = [pc |-> "posted", left |-> sync[s].left \ {r}]]
  /\ UNCHANGED <<form, queue, online, app, switches, upsets, aborted, server>>

\* The catch of syncQueue: markOfflineReceiptError writes the queue again, a little longer, and
\* the sync goes on with what is left; if localStorage has no room for that, it throws
\* out of the loop and the sync is over.  A receipt that is not queued any more is not marked.
Mark(s, r, left) ==
  \/ sync' = [sync EXCEPT ![s] = [pc |-> "next", left |-> left]] /\ UNCHANGED aborted
  \/ r \in queue /\ sync' = [sync EXCEPT ![s] = IdleSync] /\ aborted' = (aborted \/ r \in refused)

SyncPostFails(s, r) ==
  /\ sync[s].pc = "next" /\ r \in sync[s].left /\ ~online
  /\ Mark(s, r, sync[s].left \ {r})
  /\ UNCHANGED <<form, queue, online, app, request, switches, upsets, server>>

SyncEnds(s) ==
  /\ sync[s].pc = "next" /\ sync[s].left = {}
  /\ sync' = [sync EXCEPT ![s] = IdleSync]
  /\ UNCHANGED <<form, queue, online, app, request, switches, upsets, aborted, server>>

\* The caller's await ends well: a form is done, a sync removes the receipt from the queue.
Succeed(h) ==
  LET r == request[h].rec IN
  \/ /\ request[h].by \in Syncs
     /\ queue' = queue \ {r}
     /\ sync' = [sync EXCEPT ![request[h].by].pc = "next"]
     /\ UNCHANGED <<form, aborted>>
  \/ /\ request[h].by = Form
     /\ form' = [form EXCEPT ![r] = "kept"]
     /\ UNCHANGED <<queue, sync, aborted>>

\* Mutant: the receipt leaves the queue whatever the answer.
Fail_Removes(h) ==
  LET r == request[h].rec IN
  \/ /\ request[h].by \in Syncs
     /\ queue' = queue \ {r}
     /\ sync' = [sync EXCEPT ![request[h].by].pc = "next"]
     /\ UNCHANGED <<form, aborted>>
  \/ /\ request[h].by = Form
     /\ Keep(r, "dropped")
     /\ UNCHANGED <<sync, aborted>>

\* It throws: a sync leaves the receipt in the queue and marks it, a form puts it there.
Fail(h) ==
  LET r == request[h].rec IN
  \/ /\ request[h].by \in Syncs
     /\ Mark(request[h].by, r, sync[request[h].by].left)
     /\ UNCHANGED <<form, queue>>
  \/ /\ request[h].by = Form
     /\ Keep(r, "dropped")
     /\ UNCHANGED <<sync, aborted>>

\* The answer arrives.
Answer(h) ==
  /\ request[h].pc = "reply" /\ request[h].by # None /\ online
  /\ IF request[h].ok THEN Succeed(h) ELSE Fail(h)
  /\ request' = [request EXCEPT ![h] = IdleRequest]
  /\ UNCHANGED <<online, app, switches, upsets, server>>

\* The connection of a request is lost: the caller's fetch throws.  The request may never have
\* arrived; if it has, the handler goes on.
ConnectionFails(h) ==
  /\ request[h].pc # "idle" /\ request[h].by # None
  /\ online => upsets < MaxUpsets
  /\ upsets' = IF online THEN upsets + 1 ELSE upsets
  /\ Fail(h)
  /\ \/ request' = [request EXCEPT ![h].by = None]
     \/ request[h].pc = "sent" /\ request' = [request EXCEPT ![h] = IdleRequest]
  /\ UNCHANGED <<online, app, switches, server>>

Switch == switches < MaxSwitches /\ switches' = switches + 1

GoOffline ==
  /\ Switch /\ online
  /\ online' = FALSE
  /\ UNCHANGED <<form, queue, sync, app, request, upsets, aborted, server>>

\* The 'online' event starts a sync, if the fuel screen is there to listen.
GoOnline ==
  /\ Switch /\ ~online
  /\ online' = TRUE
  /\ IF app = "fuel" THEN \E s \in Syncs : StartSync(s) ELSE UNCHANGED <<sync, aborted>>
  /\ UNCHANGED <<form, queue, app, request, upsets, server>>

\* The driver goes to another tab: the screen is unmounted, its listener and its form are gone,
\* what it awaits goes on.
LeaveScreen ==
  /\ Switch /\ app = "fuel"
  /\ app' = "other"
  /\ form' = [r \in Receipts |-> CASE form[r] = "filing" -> "left"
                                   [] form[r] = "stuck" -> "dropped"
                                   [] OTHER -> form[r]]
  /\ UNCHANGED <<queue, sync, online, request, upsets, aborted, server>>

\* ... and comes back, or opens the app: the queue is counted and shown, not sent.
ShowScreen ==
  /\ Switch /\ app # "fuel"
  /\ app' = "fuel"
  /\ UNCHANGED <<form, queue, sync, online, request, upsets, aborted, server>>

\* The app is closed: only localStorage and the requests that have arrived remain.
CloseApp ==
  /\ Switch /\ app # "closed"
  /\ app' = "closed"
  /\ form' = [r \in Receipts |-> IF form[r] \in {"filing", "left", "stuck"} THEN "dropped" ELSE form[r]]
  /\ sync' = [s \in Syncs |-> IdleSync]
  /\ request' = [h \in Handlers |-> [request[h] EXCEPT !.by = None]]
  /\ UNCHANGED <<queue, online, upsets, aborted, server>>

-----------------------------------------------------------------------------
(* The server                                                              *)

Reply(h, ok) == request' = [request EXCEPT ![h].pc = "reply", ![h].ok = ok]

\* Mutant: a duplicate is answered with an error.
Check_Conflict(h) ==
  /\ request[h].pc = "sent"
  /\ IF rows[request[h].rec] = 1 \/ request[h].rec \in refused
       THEN Reply(h, FALSE)
       ELSE request' = [request EXCEPT ![h].pc = "checked"]
  /\ UNCHANGED <<phone, upsets, server>>

\* The SELECTs: a receipt that is stored is "already synced"; one whose vehicle is not the
\* driver's is refused (403), now and whenever it is posted again.
Check(h) ==
  /\ request[h].pc = "sent"
  /\ \/ rows[request[h].rec] = 1 /\ Reply(h, TRUE)
     \/ rows[request[h].rec] = 0 /\ request[h].rec \in refused /\ Reply(h, FALSE)
     \/ /\ rows[request[h].rec] = 0 /\ request[h].rec \notin refused
        /\ request' = [request EXCEPT ![h].pc = "checked"]
  /\ UNCHANGED <<phone, upsets, server>>

\* Mutant: no unique index on client_receipt_id.
Store_NoIndex(h) ==
  /\ request[h].pc = "checked"
  /\ rows' = [rows EXCEPT ![request[h].rec] = @ + 1]
  /\ request' = [request EXCEPT ![h].pc = "stored"]
  /\ UNCHANGED <<phone, upsets, credited, skipped, refused>>

\* Mutant: the second INSERT does nothing and the handler goes on.
Store_OnConflictDoNothing(h) ==
  /\ request[h].pc = "checked"
  /\ rows' = [rows EXCEPT ![request[h].rec] = 1]
  /\ request' = [request EXCEPT ![h].pc = "stored"]
  /\ UNCHANGED <<phone, upsets, credited, skipped, refused>>

\* The transaction; the unique index refuses a second row and the request ends with an error.
Store(h) ==
  /\ request[h].pc = "checked"
  /\ \/ /\ rows[request[h].rec] = 0
        /\ rows' = [rows EXCEPT ![request[h].rec] = 1]
        /\ request' = [request EXCEPT ![h].pc = "stored"]
     \/ /\ rows[request[h].rec] = 1
        /\ Reply(h, FALSE)
        /\ UNCHANGED rows
  /\ UNCHANGED <<phone, upsets, credited, skipped, refused>>

\* Mutant: work for a caller that is gone is given up.
Credit_IfAwaited(h) ==
  /\ request[h].pc = "stored"
  /\ credited' = IF request[h].by = None THEN credited
                 ELSE [credited EXCEPT ![request[h].rec] = @ + 1]
  /\ request' = [request EXCEPT ![h].pc = "credited"]
  /\ UNCHANGED <<phone, upsets, rows, skipped, refused>>

\* creditRefuel, after the commit.
Credit(h) ==
  /\ request[h].pc = "stored"
  /\ credited' = [credited EXCEPT ![request[h].rec] = @ + 1]
  /\ request' = [request EXCEPT ![h].pc = "credited"]
  /\ UNCHANGED <<phone, upsets, rows, skipped, refused>>

\* Its failure is logged and the handler goes on.
CreditFails(h) ==
  /\ request[h].pc = "stored" /\ upsets < MaxUpsets
  /\ upsets' = upsets + 1
  /\ skipped' = skipped \union {request[h].rec}
  /\ request' = [request EXCEPT ![h].pc = "credited"]
  /\ UNCHANGED <<phone, rows, credited, refused>>

\* Reconciliation and notification, which swallow their errors; then 201.
Finish(h) ==
  /\ request[h].pc = "credited"
  /\ Reply(h, TRUE)
  /\ UNCHANGED <<phone, upsets, server>>

\* A query throws; after the credit, the query for the purchase to reconcile.
ServerFails(h) ==
  /\ request[h].pc \in {"sent", "checked", "credited"} /\ upsets < MaxUpsets
  /\ upsets' = upsets + 1
  /\ Reply(h, FALSE)
  /\ UNCHANGED <<phone, server>>

\* A manager gives the driver another vehicle, and the receipts of the old one are refused
\* from here on.  (One that an older build queued without a field the route asks for is
\* answered 400 each time, and stands for one refused from the start.)
Reassign ==
  /\ upsets < MaxUpsets
  /\ upsets' = upsets + 1
  /\ \E R \in SUBSET {r \in Receipts \ refused : form[r] # "new"} :
       R # {} /\ refused' = refused \union R
  /\ UNCHANGED <<phone, request, rows, credited, skipped>>

\* Nobody waits for the answer.
Unheard(h) ==
  /\ request[h].pc = "reply" /\ request[h].by = None
  /\ request' = [request EXCEPT ![h] = IdleRequest]
  /\ UNCHANGED <<phone, upsets, server>>

\* The server restarts: every request ends, those who wait for one see its connection reset.
Restart ==
  /\ upsets < MaxUpsets
  /\ upsets' = upsets + 1
  /\ skipped' = skipped \union
       {request[h].rec : h \in {g \in Handlers : request[g].pc = "stored"}}
  /\ request' = [h \in Handlers |->
       IF request[h].pc = "idle" THEN request[h]
       ELSE [request[h] EXCEPT !.pc = "reply", !.ok = FALSE]]
  /\ UNCHANGED <<phone, rows, credited, refused>>

-----------------------------------------------------------------------------

Handle(h) == Check(h) \/ Store(h) \/ Credit(h) \/ Finish(h) \/ Answer(h) \/ Unheard(h)

Upset(h) == CreditFails(h) \/ ServerFails(h) \/ ConnectionFails(h)

SyncStep(s) ==
  \/ \E r \in Receipts : SyncPostFails(s, r) \/ (\E h \in Handlers : SyncPost(s, r, h))
  \/ SyncEnds(s)

Driver ==
  \/ \E r \in Receipts : SubmitOffline(r) \/ (\E h \in Handlers : Submit(r, h))
  \/ \E s \in Syncs : PressSync(s)
  \/ LeaveScreen \/ ShowScreen \/ CloseApp

Next ==
  \/ Driver \/ GoOffline \/ GoOnline \/ Restart \/ Reassign
  \/ \E s \in Syncs : SyncStep(s)
  \/ \E h \in Handlers : Handle(h) \/ Upset(h)

Spec == Init /\ [][Next]_vars

\* Neither a handler nor a sync stops between two awaits.
FairSpec == Spec /\ (\A h \in Handlers : WF_vars(Handle(h))) /\ (\A s \in Syncs : WF_vars(SyncStep(s)))

\* ... and a driver who sees "Sync n" presses it sooner or later.
PatientSpec == FairSpec /\ WF_vars(\E s \in Syncs : PressSync(s))

-----------------------------------------------------------------------------
(* What is checked                                                         *)

\* A receipt the driver's form has let go of is in the queue or in the books: the queue only
\* forgets what the server has stored, whichever of two syncs, a lost answer, a duplicate or
\* a closed app comes in between.
NothingLost == \A r \in Receipts : form[r] = "kept" => r \in queue \/ rows[r] = 1

\* However often a receipt is posted, and even if two requests pass the check for duplicates
\* together, the tank is credited with it once, and never for a receipt that is not stored.
CreditedOnce == \A r \in Receipts : credited[r] <= rows[r]

\* A stored receipt is credited, though its caller may have lost the connection and its retry
\* be answered as a duplicate, unless the credit itself failed or the server went down there.
CreditedUnlessSkipped ==
  \A r \in Receipts :
    rows[r] = 1 /\ r \notin skipped =>
      credited[r] = 1 \/ \E h \in Handlers : request[h].pc = "stored" /\ request[h].rec = r

Kept == {r \in Receipts : form[r] = "kept"}
Stored == {r \in Receipts : rows[r] = 1}

Books == INSTANCE ReceiptBooks
           WITH told <- Kept, held <- queue, filed <- Stored, credits <- credited, givenUp <- skipped

\* However the phone, the network, the syncs and the requests interleave, the books see one
\* receipt: the queue forgets only what is stored, the unique index (config/db/index.ts) lets one
\* request store it, and only that request credits it or fails to.
BooksSpec == Books!Spec

\* Once the phone stays online with the fuel screen shown, all that the server takes leaves the
\* queue for good: what is refused again and again does not hold up the receipts behind it.
\* It does if localStorage is full: the receipt in front cannot be marked, and every sync
\* is cut short before it comes to the others.
Drained ==
  <>[](online /\ app = "fuel" /\ (queue \cap refused = {} \/ ~aborted)) => <>[](queue \subseteq refused)

\* "Saved offline [...] will sync when connected" (DriverFuelScreen.tsx:314): with nobody pressing
\* the button, the connection alone gets the queue to the server.  In the code a queue is only sent on
\* the 'online' event of a mounted screen, and tried once.
SavedOfflineSyncs == Drained

=============================================================================
