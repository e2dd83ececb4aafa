------------------------------- MODULE ReportMailer -------------------------------
(***************************************************************************)
(* The daily report of one customer: runDailyReports of                    *)
(* daily-report-mailer.service.ts, which runs every quarter of an hour and *)
(* at start, mails the report of the day that the clock says it covers     *)
(* unless report_runs has a row for it, and inserts the row once the mail  *)
(* has been accepted; and sendMail of shared/mailer.ts, whose false does   *)
(* not mean that nothing was mailed: the answer may have been lost.        *)
(*                                                                         *)
(* Building and rendering the report is part of sending it.  Customers     *)
(* are dealt with one after the other; what fails for one ends the run.    *)
(***************************************************************************)
EXTENDS CallsInFlight

CONSTANT MaxDays   \* bound: the days that pass

ASSUME ReportConstants == MaxDays \in Nat \ {0}

VARIABLES
  today,        \* the day a report that starts now would cover
  hourPassed,   \* SEND_HOUR_WAT has passed
  wanted,       \* the report is switched on and has an address
  reportRun,    \* calls of runDailyReports: [Calls -> [pc, day]]
  recorded,     \* days with a row in report_runs
  mails,        \* mails accepted for delivery, per day
  unrecorded,   \* history: accepted mails whose answer or whose row was lost, per day
  reportRaced   \* history: two runs were past the check for the same day at once

reportVars == <<today, hourPassed, wanted, reportRun, recorded, mails, unrecorded, reportRaced>>

Days == 1..MaxDays
IdleRun == [pc |-> "idle", day |-> 1]

ReportTypeOK ==
  /\ today \in Days /\ {hourPassed, wanted, reportRaced} \subseteq BOOLEAN
  /\ reportRun \in [Calls -> [pc : {"idle", "check", "recipient", "send", "record"}, day : Days]]
  /\ recorded \in SUBSET Days
  /\ mails \in [Days -> 0..(MaxLosses + 2)] /\ unrecorded \in [Days -> 0..MaxLosses]

ReportInit ==
  /\ today = 1 /\ hourPassed = FALSE /\ wanted = TRUE
  /\ reportRun = [w \in Calls |-> IdleRun]
  /\ recorded = {}
  /\ mails = [d \in Days |-> 0] /\ unrecorded = [d \in Days |-> 0]
  /\ reportRaced = FALSE

ClockWaits == UNCHANGED <<today, hourPassed, wanted>>
RunGoesTo(w, pc) == reportRun' = [reportRun EXCEPT ![w].pc = pc]
RunEnds(w) == reportRun' = [reportRun EXCEPT ![w] = IdleRun]
Sent(d) == mails' = [mails EXCEPT ![d] = IF @ < MaxLosses + 2 THEN @ + 1 ELSE @]
Unrecorded(d) == unrecorded[d] < MaxLosses /\ unrecorded' = [unrecorded EXCEPT ![d] = @ + 1]

HourComes ==
  /\ ~hourPassed /\ hourPassed' = TRUE
  /\ UNCHANGED <<today, wanted, reportRun, recorded, mails, unrecorded, reportRaced>>

DayPasses ==
  /\ today < MaxDays
  /\ today' = today + 1 /\ hourPassed' = FALSE
  /\ UNCHANGED <<wanted, reportRun, recorded, mails, unrecorded, reportRaced>>

PreferenceChanges ==
  /\ wanted' = ~wanted
  /\ UNCHANGED <<today, hourPassed, reportRun, recorded, mails, unrecorded, reportRaced>>

\* reportDateFor: the day is fixed for the whole run.
StartReports(w) ==
  /\ reportRun[w].pc = "idle" /\ hourPassed
  /\ reportRun' = [reportRun EXCEPT ![w] = [pc |-> "check", day |-> today]]
  /\ ClockWaits /\ UNCHANGED <<recorded, mails, unrecorded, reportRaced>>

PastCheck(w, d) == reportRun[w].pc \in {"recipient", "send", "record"} /\ reportRun[w].day = d

\* alreadySent.
CheckSent(w) ==
  LET d == reportRun[w].day IN
  /\ reportRun[w].pc = "check"
  /\ IF d \in recorded THEN RunEnds(w) ELSE RunGoesTo(w, "recipient")
  /\ reportRaced' = (reportRaced \/ (d \notin recorded /\ \E x \in Calls \ {w} : PastCheck(x, d)))
  /\ ClockWaits /\ UNCHANGED <<recorded, mails, unrecorded>>

\* dailyReportRecipient.
FindRecipient(w) ==
  /\ reportRun[w].pc = "recipient"
  /\ IF wanted THEN RunGoesTo(w, "send") ELSE RunEnds(w)
  /\ ClockWaits /\ UNCHANGED <<recorded, mails, unrecorded, reportRaced>>

SendReport(w) ==
  /\ reportRun[w].pc = "send"
  /\ Sent(reportRun[w].day)
  /\ RunGoesTo(w, "record")
  /\ ClockWaits /\ UNCHANGED <<recorded, unrecorded, reportRaced>>

\* Mutant: what sendMail returns is not looked at.
SendRefused_Recorded(w) ==
  /\ reportRun[w].pc = "send"
  /\ RunGoesTo(w, "record")
  /\ ClockWaits /\ UNCHANGED <<recorded, mails, unrecorded, reportRaced>>

\* There is no report, it cannot be built, or the mail is refused: false, and nothing recorded.
SendRefused(w) ==
  /\ reportRun[w].pc = "send"
  /\ RunEnds(w)
  /\ ClockWaits /\ UNCHANGED <<recorded, mails, unrecorded, reportRaced>>

\* The mail is accepted but the answer does not come back, or the server stops waiting for it.
SendAnswerLost(w) ==
  LET d == reportRun[w].day IN
  /\ reportRun[w].pc = "send"
  /\ Sent(d) /\ Unrecorded(d)
  /\ RunEnds(w)
  /\ ClockWaits /\ UNCHANGED <<recorded, reportRaced>>

RecordReport(w) ==
  /\ reportRun[w].pc = "record"
  /\ recorded' = recorded \union {reportRun[w].day}
  /\ RunEnds(w)
  /\ ClockWaits /\ UNCHANGED <<mails, unrecorded, reportRaced>>

\* A failed query ends the run, a restart ends any; a mail that was out is then not recorded.
ReportRunDies(w) ==
  /\ reportRun[w].pc # "idle"
  /\ IF reportRun[w].pc = "record" THEN Unrecorded(reportRun[w].day) ELSE UNCHANGED unrecorded
  /\ RunEnds(w)
  /\ ClockWaits /\ UNCHANGED <<recorded, mails, reportRaced>>

ReportNext ==
  \/ HourComes
  \/ DayPasses
  \/ PreferenceChanges
  \/ \E w \in Calls : \/ StartReports(w) \/ CheckSent(w) \/ FindRecipient(w) \/ SendReport(w)
                      \/ SendRefused(w) \/ SendAnswerLost(w) \/ RecordReport(w) \/ ReportRunDies(w)

ReportSpec == ReportInit /\ [][ReportNext]_reportVars

\* A recorded day has been mailed, however often sending it failed before; and it is mailed
\* again only where a mail was accepted and the record of it lost, or two runs overlap.
ReportOnce ==
  \A d \in Days : /\ d \in recorded => mails[d] >= 1
                  /\ ~reportRaced => mails[d] <= 1 + unrecorded[d]

=============================================================================
