------------------------------- MODULE ExpirySweep -------------------------------
(***************************************************************************)
(* Deadlines a manager is told of twice, when they are near and when they  *)
(* have passed: sweepCertificateExpiry of                                  *)
(* certificate-expiry-sweep.service.ts for one vehicle licence, and        *)
(* sweepServiceReminders of service-reminder-sweep.service.ts for one      *)
(* service interval.  Both select what is due and not stamped, insert the  *)
(* alert and then stamp the row; the first asks for the two stages in two  *)
(* queries.  A new date, which the routes of certificates and of           *)
(* maintenance store, clears both stamps and makes a new deadline; a new   *)
(* service interval makes one too, and leaves the stamps.                  *)
(***************************************************************************)
EXTENDS CallsInFlight

CONSTANT MaxDeadlines   \* bound: deadlines that follow one another in the row

ASSUME ExpiryConstants == MaxDeadlines \in Nat \ {0}

VARIABLES
  paper,        \* certificate or service
  deadline,     \* which deadline the row holds
  stage,        \* how far off it is
  stamped,      \* stages with a stamp: expiry_alert_sent_at, expired_alert_sent_at
  notice,       \* alerts raised, per deadline and stage
  notifier,     \* calls of the sweep: [Calls -> [pc, due]], due the deadline found per stage
  unstamped,    \* history: notices whose stamp failed or died with the server
  misstamped,   \* history: a stamp stands at a later deadline than its notice
  noticeRaced   \* history: two sweeps held the same notice at once

expiryVars == <<paper, deadline, stage, stamped, notice, notifier, unstamped, misstamped, noticeRaced>>
calendar == <<paper, deadline, stage>>

Stages == {"soon", "past"}
Deadlines == 1..MaxDeadlines
NothingDue == [k \in Stages |-> 0]
IdleNotifier == [pc |-> "idle", due |-> NothingDue]

ExpiryTypeOK ==
  /\ paper \in {"certificate", "service"}
  /\ deadline \in Deadlines /\ stage \in Stages \union {"far"} /\ stamped \in SUBSET Stages
  /\ notice \in [Deadlines -> [Stages -> 0..(MaxLosses + 2)]]
  /\ notifier \in [Calls -> [pc : {"idle", "select", "raise", "stamp"},
                             due : [Stages -> 0..MaxDeadlines]]]
  /\ unstamped \in 0..MaxLosses /\ {misstamped, noticeRaced} \subseteq BOOLEAN

ExpiryInit ==
  /\ paper \in {"certificate", "service"}
  /\ deadline = 1 /\ stage = "far" /\ stamped = {}
  /\ notice = [d \in Deadlines |-> [k \in Stages |-> 0]]
  /\ notifier = [w \in Calls |-> IdleNotifier]
  /\ unstamped = 0 /\ misstamped = FALSE /\ noticeRaced = FALSE

TimePasses ==
  /\ \/ stage = "far" /\ stage' = "soon"
     \/ stage = "soon" /\ stage' = "past"
  /\ UNCHANGED <<paper, deadline, stamped, notice, notifier, unstamped, misstamped, noticeRaced>>

\* Mutant: the new date leaves the stamps of the old one.
Renew_KeepsStamps ==
  /\ deadline < MaxDeadlines
  /\ deadline' = deadline + 1
  /\ stage' \in Stages \union {"far"}
  /\ UNCHANGED <<paper, stamped, notice, notifier, unstamped, misstamped, noticeRaced>>

\* The manager stores a new date, which may be near or past itself.
Renew ==
  /\ deadline < MaxDeadlines
  /\ deadline' = deadline + 1
  /\ stage' \in Stages \union {"far"}
  /\ stamped' = {}
  /\ UNCHANGED <<paper, notice, notifier, unstamped, misstamped, noticeRaced>>

\* The manager stores a new service interval without a new baseline.
ChangeInterval ==
  /\ paper = "service" /\ deadline < MaxDeadlines
  /\ deadline' = deadline + 1
  /\ stage' \in Stages \union {"far"}
  /\ misstamped' = (misstamped \/ stamped # {})
  /\ UNCHANGED <<paper, stamped, notice, notifier, unstamped, noticeRaced>>

\* What a query for one stage finds.
Found(k) == IF stage = k /\ k \notin stamped THEN deadline ELSE 0

Holds(w, k) == notifier[w].due[k] = deadline

\* The first query of the certificates, or the only one of the services.
SelectDue(w) ==
  /\ notifier[w].pc = "idle"
  /\ LET due == [k \in Stages |-> IF k = "soon" \/ paper = "service" THEN Found(k) ELSE 0] IN
     /\ notifier' = [notifier EXCEPT ![w] =
          [pc |-> IF paper = "service" THEN "raise" ELSE "select", due |-> due]]
     /\ noticeRaced' = (noticeRaced \/ \E k \in Stages : due[k] # 0 /\ \E x \in Calls \ {w} : Holds(x, k))
  /\ UNCHANGED <<calendar, stamped, notice, unstamped, misstamped>>

\* The second query of the certificates, before any alert of the first is raised.
SelectPast(w) ==
  /\ notifier[w].pc = "select"
  /\ notifier' = [notifier EXCEPT ![w].pc = "raise", ![w].due["past"] = Found("past")]
  /\ noticeRaced' = (noticeRaced \/ (Found("past") # 0 /\ \E x \in Calls \ {w} : Holds(x, "past")))
  /\ UNCHANGED <<calendar, stamped, notice, unstamped, misstamped>>

\* The stage whose notice comes next: the near deadlines go first.
NextStage(w) == IF notifier[w].due["soon"] # 0 THEN "soon" ELSE "past"
Due(w) == notifier[w].due # NothingDue
NoticeDone(w, k) == notifier' = [notifier EXCEPT ![w].pc = "raise", ![w].due[k] = 0]

RaiseNotice(w) ==
  LET k == NextStage(w) IN
  /\ notifier[w].pc = "raise" /\ Due(w)
  /\ notice' = [notice EXCEPT ![notifier[w].due[k]][k] = IF @ < MaxLosses + 2 THEN @ + 1 ELSE @]
  /\ notifier' = [notifier EXCEPT ![w].pc = "stamp"]
  /\ UNCHANGED <<calendar, stamped, unstamped, misstamped, noticeRaced>>

\* Mutant: both notices share the stamp of the near deadline.
StampNotice_OneColumn(w) ==
  LET k == NextStage(w) IN
  /\ notifier[w].pc = "stamp"
  /\ stamped' = stamped \union {"soon"}
  /\ NoticeDone(w, k)
  /\ misstamped' = (misstamped \/ notifier[w].due[k] # deadline)
  /\ UNCHANGED <<calendar, notice, unstamped, noticeRaced>>

\* The stamp goes to the row by its id, whatever deadline it holds by now.
StampNotice(w) ==
  LET k == NextStage(w) IN
  /\ notifier[w].pc = "stamp"
  /\ stamped' = stamped \union {k}
  /\ NoticeDone(w, k)
  /\ misstamped' = (misstamped \/ notifier[w].due[k] # deadline)
  /\ UNCHANGED <<calendar, notice, unstamped, noticeRaced>>

\* The insert or the stamp fails: the row is left for the next sweep, which goes on with the
\* next notice.
NoticeFails(w) ==
  /\ notifier[w].pc \in {"raise", "stamp"} /\ Due(w)
  /\ unstamped < MaxLosses /\ unstamped' = unstamped + 1
  /\ NoticeDone(w, NextStage(w))
  /\ UNCHANGED <<calendar, stamped, notice, misstamped, noticeRaced>>

NoticesEnd(w) ==
  /\ notifier[w].pc = "raise" /\ ~Due(w)
  /\ notifier' = [notifier EXCEPT ![w] = IdleNotifier]
  /\ UNCHANGED <<calendar, stamped, notice, unstamped, misstamped, noticeRaced>>

ExpiryRestart ==
  /\ unstamped < MaxLosses /\ unstamped' = unstamped + 1
  /\ notifier' = [w \in Calls |-> IdleNotifier]
  /\ UNCHANGED <<calendar, stamped, notice, misstamped, noticeRaced>>

ExpiryNext ==
  \/ TimePasses
  \/ Renew
  \/ ChangeInterval
  \/ \E w \in Calls : \/ SelectDue(w) \/ SelectPast(w) \/ RaiseNotice(w) \/ StampNotice(w)
                      \/ NoticeFails(w) \/ NoticesEnd(w)
  \/ ExpiryRestart

ExpirySpec == ExpiryInit /\ [][ExpiryNext]_expiryVars

\* A manager is told of each stage of a deadline once, and once more only for a notice whose
\* stamp was lost or that two sweeps held at once.
NoticeOnce ==
  ~noticeRaced => \A d \in Deadlines, k \in Stages : notice[d][k] <= 1 + unstamped

\* A stamp silences the sweeps, so it must stand for a notice: whatever fails, restarts or is
\* renewed in between, a stage that is stamped has been told for the deadline in the row, unless
\* the row carries a stamp of the deadline before it (a renewal between the insert of an alert
\* and its stamp, or a new interval, which clears none).
StampMeansTold ==
  ~misstamped => \A k \in stamped : notice[deadline][k] >= 1

=============================================================================
