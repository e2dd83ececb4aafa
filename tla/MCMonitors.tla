------------------------------- MODULE MCMonitors -------------------------------
(***************************************************************************)
(* The monitors, sweeps and guards for TLC, side by side: they share no    *)
(* state, so a behaviour is one of any of them, the part, while the others *)
(* rest in their initial state, and the state space is the sum of theirs.  *)
(***************************************************************************)
EXTENDS PowerMonitor, TripNotifier, StationVisits, IdleDetector, OfflineWatchdog, ReportMailer,
        ExpirySweep, GoogleBudget, FuelBrainDrafts, TripSegmentation

VARIABLE part   \* whose behaviour this is

Parts == {"power", "trip", "visits", "idle", "watchdog", "report", "expiry", "budget", "drafts", "rows"}

monitorVars == <<part, powerVars, tripVars, visitVars, idleVars, watchdogVars, reportVars,
                 expiryVars, budgetVars, draftVars, rows>>

MonitorsTypeOK ==
  /\ part \in Parts
  /\ PowerTypeOK /\ TripTypeOK /\ VisitTypeOK /\ IdleTypeOK /\ WatchdogTypeOK
  /\ ReportTypeOK /\ ExpiryTypeOK /\ BudgetTypeOK /\ DraftTypeOK /\ SegTypeOK

\* A part that rests makes no choice of its own.
Init ==
  /\ part \in Parts
  /\ PowerInit /\ TripInit /\ VisitInit /\ IdleInit /\ WatchdogInit
  /\ ReportInit /\ ExpiryInit /\ BudgetInit /\ DraftInit /\ SegInit
  /\ part # "visits" => zonePurpose = "depot"
  /\ part # "expiry" => paper = "service"

Power == part = "power" /\ UNCHANGED <<part, tripVars, visitVars, idleVars, watchdogVars, reportVars,
                                       expiryVars, budgetVars, draftVars, rows>>
Trip == part = "trip" /\ UNCHANGED <<part, powerVars, visitVars, idleVars, watchdogVars, reportVars,
                                     expiryVars, budgetVars, draftVars, rows>>
Visits == part = "visits" /\ UNCHANGED <<part, powerVars, tripVars, idleVars, watchdogVars, reportVars,
                                         expiryVars, budgetVars, draftVars, rows>>
Idle == part = "idle" /\ UNCHANGED <<part, powerVars, tripVars, visitVars, watchdogVars, reportVars,
                                     expiryVars, budgetVars, draftVars, rows>>
Watchdog == part = "watchdog" /\ UNCHANGED <<part, powerVars, tripVars, visitVars, idleVars, reportVars,
                                             expiryVars, budgetVars, draftVars, rows>>
Report == part = "report" /\ UNCHANGED <<part, powerVars, tripVars, visitVars, idleVars, watchdogVars,
                                         expiryVars, budgetVars, draftVars, rows>>
Expiry == part = "expiry" /\ UNCHANGED <<part, powerVars, tripVars, visitVars, idleVars, watchdogVars,
                                         reportVars, budgetVars, draftVars, rows>>
Budget == part = "budget" /\ UNCHANGED <<part, powerVars, tripVars, visitVars, idleVars, watchdogVars,
                                         reportVars, expiryVars, draftVars, rows>>
DraftMails == part = "drafts" /\ UNCHANGED <<part, powerVars, tripVars, visitVars, idleVars,
                                             watchdogVars, reportVars, expiryVars, budgetVars, rows>>
Segmented == part = "rows" /\ UNCHANGED <<part, powerVars, tripVars, visitVars, idleVars, watchdogVars,
                                          reportVars, expiryVars, budgetVars, draftVars>>

Next ==
  \/ Power /\ PowerNext
  \/ Trip /\ TripNext
  \/ Visits /\ VisitNext
  \/ Idle /\ IdleNext
  \/ Watchdog /\ WatchdogNext
  \/ Report /\ ReportNext
  \/ Expiry /\ ExpiryNext
  \/ Budget /\ BudgetNext
  \/ DraftMails /\ DraftNext
  \/ Segmented /\ SegNext

\* What a row says: parked with the engine off, idling, in slow traffic, driving.
Fix(engine, pace, moved) == [engine |-> engine, pace |-> pace, moved |-> moved]
MCFixes == {Fix(FALSE, "halted", FALSE), Fix(TRUE, "halted", FALSE),
            Fix(TRUE, "crawling", TRUE), Fix(TRUE, "driving", TRUE)}

Spec == Init /\ [][Next]_monitorVars

\* The watchdog's fairness, where the watchdog is the part: see WatchdogFairSpec.
FairSpec ==
  /\ Spec
  /\ WF_monitorVars(Watchdog /\ WatchdogTick)
  /\ \A w \in Calls : WF_monitorVars(Watchdog /\ SweepStep(w))

=============================================================================
