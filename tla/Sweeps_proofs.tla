------------------------------ MODULE Sweeps_proofs ------------------------------
(***************************************************************************)
(* What the sweeps and the guards promise for any number of overlapping    *)
(* sweeps and callers, of days, deadlines and failures.  The report mailer *)
(* and the expiry sweep tell somebody first and record it afterwards; the  *)
(* draft mails and the Google budget record first and act afterwards.  The *)
(* invariants say who still owes what.                                     *)
(***************************************************************************)
EXTENDS ReportMailer, ExpirySweep, FuelBrainDrafts, GoogleBudget, FiniteSetTheorems, TLAPS

-----------------------------------------------------------------------------
(* ReportMailer                                                            *)

\* A run that has mailed a day and not recorded it yet.
ToRecord(w, d) == reportRun[w].pc = "record" /\ reportRun[w].day = d

\* What is recorded, or about to be, has been mailed.
Mailed ==
  /\ \A d \in recorded : mails[d] >= 1
  /\ \A w \in Calls : reportRun[w].pc = "record" => mails[reportRun[w].day] >= 1

\* Unless two runs overlapped: a day has one run past its check, and is not recorded while it
\* has one; its mails are those that were never recorded and the one that is, or will be.
OneRunPerDay ==
  ~reportRaced =>
    \A d \in Days :
      /\ \A w, x \in Calls : PastCheck(w, d) /\ PastCheck(x, d) => w = x
      /\ \A w \in Calls : PastCheck(w, d) => d \notin recorded
      /\ mails[d] <= 1 + unrecorded[d]
      /\ d \notin recorded /\ (\A w \in Calls : ~ToRecord(w, d)) => mails[d] <= unrecorded[d]

ReportInv == ReportTypeOK /\ Mailed /\ OneRunPerDay

LEMMA ReportBounds == MaxDays \in Nat \ {0} /\ MaxLosses \in Nat /\ 1 \in Days
  BY ReportConstants, CallConstants DEF Days

ReportPcs == {"idle", "check", "recipient", "send", "record"}

\* A run that goes on or ends keeps its day; the other runs stay where they are.
LEMMA RunMoves ==
  ASSUME ReportTypeOK, NEW w \in Calls, NEW pc \in ReportPcs, RunGoesTo(w, pc) \/ (RunEnds(w) /\ pc = "idle")
  PROVE  /\ reportRun' \in [Calls -> [pc : ReportPcs, day : Days]]
         /\ reportRun'[w].pc = pc
         /\ pc # "idle" => reportRun'[w].day = reportRun[w].day
         /\ \A x \in Calls \ {w} : reportRun'[x] = reportRun[x]
<1>1. IdleRun \in [pc : ReportPcs, day : Days] /\ IdleRun.pc = "idle"
  BY ReportBounds DEF IdleRun, ReportPcs
<1>2. CASE RunGoesTo(w, pc)
  BY <1>2 DEF ReportTypeOK, RunGoesTo, ReportPcs
<1>3. CASE RunEnds(w) /\ pc = "idle"
  BY <1>1, <1>3 DEF ReportTypeOK, RunEnds, ReportPcs
<1> QED
  BY <1>2, <1>3

LEMMA ReportInvInit == ReportInit => ReportInv
<1> SUFFICES ASSUME ReportInit PROVE ReportInv
  OBVIOUS
<1>1. IdleRun \in [pc : ReportPcs, day : Days] /\ IdleRun.pc = "idle"
  BY ReportBounds DEF IdleRun, ReportPcs
<1>2. ReportTypeOK
  <2>1. today \in Days /\ {hourPassed, wanted, reportRaced} \subseteq BOOLEAN /\ recorded \in SUBSET Days
    BY ReportBounds DEF ReportInit
  <2>2. reportRun \in [Calls -> [pc : ReportPcs, day : Days]]
    BY <1>1 DEF ReportInit
  <2>3. mails \in [Days -> 0..(MaxLosses + 2)] /\ unrecorded \in [Days -> 0..MaxLosses]
    BY ReportBounds DEF ReportInit
  <2> QED
    BY <2>1, <2>2, <2>3 DEF ReportTypeOK, ReportPcs
<1>3. \A w \in Calls : reportRun[w].pc = "idle"
  BY <1>1 DEF ReportInit
<1>4. Mailed
  BY <1>3 DEF ReportInit, Mailed
<1>5. OneRunPerDay
  <2>1. \A d \in Days : mails[d] = 0 /\ unrecorded[d] = 0
    BY DEF ReportInit
  <2> QED
    BY <1>3, <2>1 DEF OneRunPerDay, PastCheck, ToRecord, ReportInit
<1> QED
  BY <1>2, <1>4, <1>5 DEF ReportInv

\* What the clock and the preference do, nobody's run sees.
LEMMA ReportClockNext ==
  ASSUME ReportInv, HourComes \/ DayPasses \/ PreferenceChanges \/ UNCHANGED reportVars
  PROVE  ReportInv'
<1>1. UNCHANGED <<reportRun, recorded, mails, unrecorded, reportRaced>>
  BY DEF HourComes, DayPasses, PreferenceChanges, reportVars
<1>2. today' \in Days /\ {hourPassed', wanted'} \subseteq BOOLEAN
  <2>1. DayPasses => today' \in Days
    BY ReportBounds DEF ReportInv, ReportTypeOK, DayPasses, Days
  <2> QED
    BY <2>1 DEF ReportInv, ReportTypeOK, HourComes, DayPasses, PreferenceChanges, reportVars
<1> QED
  BY <1>1, <1>2 DEF ReportInv, ReportTypeOK, Mailed, OneRunPerDay, PastCheck, ToRecord

\* A run up to its mail: the books stay as they are.
LEMMA BeforeMailNext ==
  ASSUME ReportInv, NEW w \in Calls,
         StartReports(w) \/ CheckSent(w) \/ FindRecipient(w) \/ SendRefused(w)
  PROVE  ReportInv'
<1> DEFINE d == reportRun[w].day
<1>1. /\ UNCHANGED <<recorded, mails, unrecorded>> /\ (reportRaced => reportRaced')
      /\ reportRaced' \in BOOLEAN /\ today' = today /\ hourPassed' = hourPassed /\ wanted' = wanted
  <2>1. CASE StartReports(w)
    BY <2>1 DEF StartReports, ClockWaits, ReportInv, ReportTypeOK
  <2>2. CASE CheckSent(w)
    BY <2>2 DEF CheckSent, ClockWaits, ReportInv, ReportTypeOK
  <2>3. CASE FindRecipient(w)
    BY <2>3 DEF FindRecipient, ClockWaits, ReportInv, ReportTypeOK
  <2>4. CASE SendRefused(w)
    BY <2>4 DEF SendRefused, ClockWaits, ReportInv, ReportTypeOK
  <2> QED
    BY <2>1, <2>2, <2>3, <2>4
<1>2. /\ reportRun' \in [Calls -> [pc : ReportPcs, day : Days]]
      /\ reportRun'[w].pc # "record"
      /\ \A x \in Calls \ {w} : reportRun'[x] = reportRun[x]
  <2>1. CASE StartReports(w)
    <3>1. reportRun \in [Calls -> [pc : ReportPcs, day : Days]] /\ today \in Days
      BY DEF ReportInv, ReportTypeOK, ReportPcs
    <3> QED
      BY <2>1, <3>1 DEF StartReports, ReportPcs
  <2>2. CASE CheckSent(w) \/ FindRecipient(w) \/ SendRefused(w)
    <3>1. RunGoesTo(w, "recipient") \/ RunGoesTo(w, "send") \/ RunEnds(w)
      BY <2>2 DEF CheckSent, FindRecipient, SendRefused
    <3>2. CASE RunGoesTo(w, "recipient")
      <4>1. "recipient" \in ReportPcs /\ ReportTypeOK
        BY DEF ReportPcs, ReportInv
      <4>2. reportRun' \in [Calls -> [pc : ReportPcs, day : Days]] /\ reportRun'[w].pc = "recipient"
        BY <3>2, <4>1 DEF RunGoesTo, ReportTypeOK, ReportPcs
      <4>3. \A x \in Calls \ {w} : reportRun'[x] = reportRun[x]
        BY <3>2, <4>1 DEF RunGoesTo, ReportTypeOK
      <4> QED
        BY <4>2, <4>3
    <3>3. CASE RunGoesTo(w, "send")
      <4>1. "send" \in ReportPcs /\ ReportTypeOK
        BY DEF ReportPcs, ReportInv
      <4>2. reportRun' \in [Calls -> [pc : ReportPcs, day : Days]] /\ reportRun'[w].pc = "send"
        BY <3>3, <4>1 DEF RunGoesTo, ReportTypeOK, ReportPcs
      <4>3. \A x \in Calls \ {w} : reportRun'[x] = reportRun[x]
        BY <3>3, <4>1 DEF RunGoesTo, ReportTypeOK
      <4> QED
        BY <4>2, <4>3
    <3>4. CASE RunEnds(w)
      BY <3>4, RunMoves DEF ReportInv, ReportPcs
    <3> QED
      BY <3>1, <3>2, <3>3, <3>4
  <2> QED
    BY <2>1, <2>2
<1>3. ReportTypeOK'
  BY <1>1, <1>2 DEF ReportInv, ReportTypeOK, ReportPcs
<1>4. Mailed'
  BY <1>1, <1>2 DEF ReportInv, Mailed
<1>5. reportRun[w].pc # "record"
  BY DEF StartReports, CheckSent, FindRecipient, SendRefused
<1>6. \A e \in Days, x \in Calls : PastCheck(x, e)' /\ ~PastCheck(x, e) =>
        x = w /\ e = d /\ CheckSent(w) /\ d \notin recorded
  <2>1. \A e \in Days : PastCheck(w, e)' => PastCheck(w, e) \/ (e = d /\ CheckSent(w) /\ d \notin recorded)
    <3>1. CASE StartReports(w)
      BY <3>1 DEF StartReports, PastCheck, ReportInv, ReportTypeOK
    <3>2. CASE CheckSent(w)
      <4>1. CASE d \in recorded
        BY <3>2, <4>1, RunMoves DEF CheckSent, PastCheck, ReportInv, ReportPcs
      <4>2. CASE d \notin recorded
        <5>1. RunGoesTo(w, "recipient")
          BY <3>2, <4>2 DEF CheckSent
        <5>2. reportRun'[w].day = reportRun[w].day
          BY <5>1, RunMoves DEF RunGoesTo, ReportInv, ReportPcs
        <5> QED
          BY <3>2, <4>2, <5>2 DEF PastCheck
      <4> QED
        BY <4>1, <4>2
    <3>3. CASE FindRecipient(w)
      <4>1. CASE wanted
        <5>1. RunGoesTo(w, "send")
          BY <3>3, <4>1 DEF FindRecipient
        <5>2. reportRun'[w].day = reportRun[w].day
          BY <5>1, RunMoves DEF RunGoesTo, ReportInv, ReportPcs
        <5> QED
          BY <3>3, <5>2 DEF PastCheck, FindRecipient
      <4>2. CASE ~wanted
        BY <3>3, <4>2, RunMoves DEF FindRecipient, PastCheck, ReportInv, ReportPcs
      <4> QED
        BY <4>1, <4>2
    <3>4. CASE SendRefused(w)
      BY <3>4, RunMoves DEF SendRefused, PastCheck, ReportInv, ReportPcs
    <3> QED
      BY <3>1, <3>2, <3>3, <3>4
  <2>2. \A e \in Days, x \in Calls \ {w} : PastCheck(x, e)' => PastCheck(x, e)
    BY <1>2 DEF PastCheck
  <2> QED
    BY <2>1, <2>2
<1>7. \A e \in Days, x \in Calls : ToRecord(x, e) => ToRecord(x, e)'
  BY <1>2, <1>5 DEF ToRecord
<1>8. CheckSent(w) /\ d \notin recorded /\ ~reportRaced' => \A x \in Calls \ {w} : ~PastCheck(x, d)
  BY DEF CheckSent
<1>9. OneRunPerDay'
  <2> SUFFICES ASSUME ~reportRaced', NEW e \in Days
               PROVE  /\ \A v, x \in Calls : PastCheck(v, e)' /\ PastCheck(x, e)' => v = x
                      /\ \A v \in Calls : PastCheck(v, e)' => e \notin recorded'
                      /\ mails'[e] <= 1 + unrecorded'[e]
                      /\ e \notin recorded' /\ (\A v \in Calls : ~ToRecord(v, e)') => mails'[e] <= unrecorded'[e]
    BY DEF OneRunPerDay
  <2>1. /\ \A v, x \in Calls : PastCheck(v, e) /\ PastCheck(x, e) => v = x
        /\ \A v \in Calls : PastCheck(v, e) => e \notin recorded
        /\ mails[e] <= 1 + unrecorded[e]
        /\ e \notin recorded /\ (\A v \in Calls : ~ToRecord(v, e)) => mails[e] <= unrecorded[e]
    BY <1>1 DEF ReportInv, OneRunPerDay
  <2> QED
    BY <1>1, <1>6, <1>7, <1>8, <2>1
<1> QED
  BY <1>3, <1>4, <1>9 DEF ReportInv

\* Only mails and unrecorded count; each stays within its bound.
LEMMA MailCounts ==
  ASSUME ReportTypeOK, NEW d \in Days
  PROVE  /\ mails \in [Days -> 0..(MaxLosses + 2)] /\ unrecorded \in [Days -> 0..MaxLosses]
         /\ Sent(d) => /\ mails' \in [Days -> 0..(MaxLosses + 2)]
                       /\ mails'[d] >= 1 /\ mails'[d] <= mails[d] + 1
                       /\ \A e \in Days \ {d} : mails'[e] = mails[e]
         /\ Unrecorded(d) => /\ unrecorded' \in [Days -> 0..MaxLosses]
                             /\ unrecorded'[d] = unrecorded[d] + 1
                             /\ \A e \in Days \ {d} : unrecorded'[e] = unrecorded[e]
<1>1. mails \in [Days -> 0..(MaxLosses + 2)] /\ unrecorded \in [Days -> 0..MaxLosses]
  BY DEF ReportTypeOK
<1>2. ASSUME Sent(d)
      PROVE  /\ mails' \in [Days -> 0..(MaxLosses + 2)]
             /\ mails'[d] >= 1 /\ mails'[d] <= mails[d] + 1
             /\ \A e \in Days \ {d} : mails'[e] = mails[e]
  <2>1. mails[d] \in 0..(MaxLosses + 2) /\ MaxLosses \in Nat
    BY <1>1, ReportBounds
  <2>2. (IF mails[d] < MaxLosses + 2 THEN mails[d] + 1 ELSE mails[d]) \in 1..(MaxLosses + 2)
    BY <2>1
  <2> QED
    BY <1>1, <1>2, <2>1, <2>2 DEF Sent
<1>3. ASSUME Unrecorded(d)
      PROVE  /\ unrecorded' \in [Days -> 0..MaxLosses]
             /\ unrecorded'[d] = unrecorded[d] + 1
             /\ \A e \in Days \ {d} : unrecorded'[e] = unrecorded[e]
  <2>1. unrecorded[d] \in 0..MaxLosses /\ MaxLosses \in Nat /\ unrecorded[d] < MaxLosses
    BY <1>1, <1>3, ReportBounds DEF Unrecorded
  <2>2. unrecorded[d] + 1 \in 0..MaxLosses
    BY <2>1
  <2> QED
    BY <1>1, <1>3, <2>1, <2>2 DEF Unrecorded
<1> QED
  BY <1>1, <1>2, <1>3

\* The mail and its record, or what is lost between them: one run acts for its day.
LEMMA MailNext ==
  ASSUME ReportInv, NEW w \in Calls,
         SendReport(w) \/ SendAnswerLost(w) \/ RecordReport(w) \/ ReportRunDies(w)
  PROVE  ReportInv'
<1> DEFINE d == reportRun[w].day
<1>1. /\ ReportTypeOK /\ reportRun \in [Calls -> [pc : ReportPcs, day : Days]] /\ d \in Days
      /\ mails \in [Days -> 0..(MaxLosses + 2)] /\ unrecorded \in [Days -> 0..MaxLosses]
      /\ recorded \in SUBSET Days
  BY DEF ReportInv, ReportTypeOK, ReportPcs
<1>2. reportRaced' = reportRaced /\ today' = today /\ hourPassed' = hourPassed /\ wanted' = wanted
  BY DEF SendReport, SendAnswerLost, RecordReport, ReportRunDies, ClockWaits
<1>3. /\ reportRun' \in [Calls -> [pc : ReportPcs, day : Days]]
      /\ \A x \in Calls \ {w} : reportRun'[x] = reportRun[x]
      /\ SendReport(w) => reportRun'[w].pc = "record" /\ reportRun'[w].day = d
      /\ ~SendReport(w) => reportRun'[w].pc = "idle"
  <2>1. CASE SendReport(w)
    BY <1>1, <2>1 DEF SendReport, RunGoesTo, ReportPcs
  <2>2. CASE SendAnswerLost(w) \/ RecordReport(w) \/ ReportRunDies(w)
    <3>1. RunEnds(w)
      BY <2>2 DEF SendAnswerLost, RecordReport, ReportRunDies
    <3>2. IdleRun \in [pc : ReportPcs, day : Days] /\ IdleRun.pc = "idle"
      BY ReportBounds DEF IdleRun, ReportPcs
    <3>3. /\ reportRun' \in [Calls -> [pc : ReportPcs, day : Days]] /\ reportRun'[w].pc = "idle"
          /\ \A x \in Calls \ {w} : reportRun'[x] = reportRun[x]
      BY <1>1, <3>1, <3>2 DEF RunEnds
    <3>4. SendReport(w) => reportRun'[w].pc = "record"
      BY <1>1 DEF SendReport, RunGoesTo
    <3> QED
      BY <3>3, <3>4
  <2> QED
    BY <2>1, <2>2
<1>4. /\ mails' \in [Days -> 0..(MaxLosses + 2)] /\ unrecorded' \in [Days -> 0..MaxLosses]
      /\ \A e \in Days \ {d} : mails'[e] = mails[e] /\ unrecorded'[e] = unrecorded[e]
      /\ mails'[d] >= mails[d]
  <2>1. Sent(d) \/ mails' = mails
    BY DEF SendReport, SendAnswerLost, RecordReport, ReportRunDies
  <2>2. Unrecorded(d) \/ unrecorded' = unrecorded
    BY DEF SendReport, SendAnswerLost, RecordReport, ReportRunDies
  <2>3. mails'[d] >= mails[d]
    <3>1. mails[d] \in Nat
      BY <1>1, ReportBounds
    <3>2. Sent(d) => mails'[d] = (IF mails[d] < MaxLosses + 2 THEN mails[d] + 1 ELSE mails[d])
      BY <1>1 DEF Sent
    <3> QED
      BY <2>1, <3>1, <3>2
  <2> QED
    BY <1>1, <2>1, <2>2, <2>3, MailCounts
<1>5. /\ recorded' = recorded \/ (recorded' = recorded \union {d} /\ RecordReport(w))
      /\ recorded' \in SUBSET Days
  <2>1. SendReport(w) \/ SendAnswerLost(w) \/ ReportRunDies(w) => recorded' = recorded
    BY DEF SendReport, SendAnswerLost, ReportRunDies
  <2>2. RecordReport(w) => recorded' = recorded \union {d}
    BY DEF RecordReport
  <2>3. recorded' \in SUBSET Days
    <3>1. recorded \union {d} \in SUBSET Days
      BY <1>1
    <3> QED
      BY <1>1, <2>1, <2>2, <3>1
  <2>4. recorded' = recorded \/ (recorded' = recorded \union {d} /\ RecordReport(w))
    BY <2>1, <2>2, Zenon
  <2> QED
    BY <2>3, <2>4
<1>6. ReportTypeOK'
  BY <1>1, <1>2, <1>3, <1>4, <1>5 DEF ReportTypeOK, ReportPcs
<1>7. Mailed'
  <2>1. \A e \in Days : mails[e] >= 1 => mails'[e] >= 1
    <3>1. mails[d] \in Nat /\ mails'[d] \in Nat
      BY <1>1, <1>4, ReportBounds
    <3> QED
      BY <1>4, <3>1
  <2>2. RecordReport(w) => mails[d] >= 1
    BY DEF RecordReport, ReportInv, Mailed
  <2>3. SendReport(w) => mails'[d] >= 1
    BY <1>1, MailCounts DEF SendReport
  <2>4. \A e \in recorded' : mails'[e] >= 1
    BY <1>1, <1>5, <2>1, <2>2 DEF ReportInv, Mailed
  <2>5. \A x \in Calls : reportRun'[x].pc = "record" => mails'[reportRun'[x].day] >= 1
    BY <1>1, <1>3, <2>1, <2>3 DEF ReportInv, Mailed
  <2> QED
    BY <2>4, <2>5 DEF Mailed
<1>8. OneRunPerDay'
  <2> SUFFICES ASSUME ~reportRaced', NEW e \in Days
               PROVE  /\ \A v, x \in Calls : PastCheck(v, e)' /\ PastCheck(x, e)' => v = x
                      /\ \A v \in Calls : PastCheck(v, e)' => e \notin recorded'
                      /\ mails'[e] <= 1 + unrecorded'[e]
                      /\ e \notin recorded' /\ (\A v \in Calls : ~ToRecord(v, e)') => mails'[e] <= unrecorded'[e]
    BY DEF OneRunPerDay
  <2>1. /\ \A v, x \in Calls : PastCheck(v, e) /\ PastCheck(x, e) => v = x
        /\ \A v \in Calls : PastCheck(v, e) => e \notin recorded
        /\ mails[e] <= 1 + unrecorded[e]
        /\ e \notin recorded /\ (\A v \in Calls : ~ToRecord(v, e)) => mails[e] <= unrecorded[e]
    BY <1>2 DEF ReportInv, OneRunPerDay
  <2>2. \A x \in Calls : PastCheck(x, e)' => PastCheck(x, e)
    BY <1>3 DEF PastCheck, SendReport
  <2>3. CASE e # d
    <3>1. mails'[e] = mails[e] /\ unrecorded'[e] = unrecorded[e] /\ (e \in recorded' <=> e \in recorded)
      BY <1>4, <1>5, <2>3
    <3>2. \A x \in Calls : ToRecord(x, e)' <=> ToRecord(x, e)
      BY <1>3, <2>3 DEF ToRecord
    <3> QED
      BY <2>1, <2>2, <3>1, <3>2
  <2>4. CASE e = d
    <3>0. mails[d] \in Nat /\ unrecorded[d] \in Nat /\ mails'[d] \in Nat /\ unrecorded'[d] \in Nat
      BY <1>1, <1>4, ReportBounds
    <3>1. CASE SendReport(w)
      <4>1. PastCheck(w, e) /\ ~ToRecord(w, e) /\ ToRecord(w, e)'
        BY <1>3, <2>4, <3>1 DEF SendReport, PastCheck, ToRecord
      <4>2. \A v \in Calls : ~ToRecord(v, e)
        BY <2>1, <2>4, <4>1 DEF PastCheck, ToRecord
      <4>3. mails[d] <= unrecorded[d] /\ d \notin recorded
        BY <2>1, <2>4, <4>1, <4>2
      <4>4. mails'[d] <= 1 + unrecorded'[d] /\ recorded' = recorded
        <5>1. mails'[d] <= mails[d] + 1 /\ unrecorded' = unrecorded /\ recorded' = recorded
          BY <1>1, <3>1, MailCounts DEF SendReport
        <5> QED
          BY <3>0, <4>3, <5>1
      <4> QED
        BY <2>1, <2>2, <2>4, <4>1, <4>4
    <3>2. CASE SendAnswerLost(w)
      <4>1. PastCheck(w, e) /\ ~ToRecord(w, e)
        BY <2>4, <3>2 DEF SendAnswerLost, PastCheck, ToRecord
      <4>2. \A v \in Calls : ~ToRecord(v, e)
        BY <2>1, <2>4, <4>1 DEF PastCheck, ToRecord
      <4>3. mails[d] <= unrecorded[d]
        BY <2>1, <2>4, <4>1, <4>2
      <4>4. mails'[d] <= unrecorded'[d] /\ recorded' = recorded
        <5>1. mails'[d] <= mails[d] + 1 /\ unrecorded'[d] = unrecorded[d] + 1 /\ recorded' = recorded
          BY <1>1, <3>2, MailCounts DEF SendAnswerLost
        <5> QED
          BY <3>0, <4>3, <5>1
      <4> QED
        BY <2>1, <2>2, <2>4, <3>0, <4>4
    <3>3. CASE RecordReport(w)
      <4>1. PastCheck(w, e) /\ mails' = mails /\ unrecorded' = unrecorded /\ recorded' = recorded \union {d}
        BY <2>4, <3>3 DEF RecordReport, PastCheck
      <4>2. ~PastCheck(w, e)'
        BY <1>3, <3>3 DEF RecordReport, SendReport, PastCheck
      <4>3. \A v \in Calls : ~PastCheck(v, e)'
        BY <2>1, <2>2, <2>4, <4>1, <4>2
      <4> QED
        BY <2>1, <2>4, <4>1, <4>3
    <3>4. CASE ReportRunDies(w)
      <4>1. mails' = mails /\ recorded' = recorded
        BY <3>4 DEF ReportRunDies
      <4>2. CASE reportRun[w].pc = "record"
        <5>1. unrecorded'[d] = unrecorded[d] + 1
          BY <1>1, <3>4, <4>2, MailCounts DEF ReportRunDies
        <5>2. mails'[d] <= unrecorded'[d]
          BY <2>1, <2>4, <3>0, <4>1, <5>1
        <5> QED
          BY <2>1, <2>2, <2>4, <3>0, <4>1, <5>2
      <4>3. CASE reportRun[w].pc # "record"
        <5>1. unrecorded' = unrecorded
          BY <3>4, <4>3 DEF ReportRunDies
        <5>2. \A v \in Calls : ToRecord(v, e) => ToRecord(v, e)'
          BY <1>3, <4>3 DEF ToRecord
        <5> QED
          BY <2>1, <2>2, <2>4, <4>1, <5>1, <5>2
      <4> QED
        BY <4>2, <4>3
    <3> QED
      BY <3>1, <3>2, <3>3, <3>4
  <2> QED
    BY <2>3, <2>4
<1> QED
  BY <1>6, <1>7, <1>8 DEF ReportInv

LEMMA ReportInvNext ==
  ASSUME ReportInv, [ReportNext]_reportVars
  PROVE  ReportInv'
  BY ReportClockNext, BeforeMailNext, MailNext DEF ReportNext

\* A recorded day has been mailed (runDailyReports), and it is mailed again only where a mail was
\* accepted and the record of it lost, or two runs overlap.
THEOREM ReportOnceAlways == ReportSpec => []ReportOnce
<1>1. ReportInit => ReportInv
  BY ReportInvInit
<1>2. ReportInv /\ [ReportNext]_reportVars => ReportInv'
  BY ReportInvNext
<1>3. ReportInv => ReportOnce
  BY DEF ReportInv, Mailed, OneRunPerDay, ReportOnce
<1> QED
  BY <1>1, <1>2, <1>3, PTL DEF ReportSpec

-----------------------------------------------------------------------------
(* ExpirySweep                                                             *)

\* The notice that a sweep has raised and is about to stamp.
ToStamp(w, k) == notifier[w].pc = "stamp" /\ NextStage(w) = k

\* A sweep about to stamp has told; what is stamped has been told.
Told ==
  /\ \A w \in Calls : notifier[w].pc = "stamp" =>
       Due(w) /\ notice[notifier[w].due[NextStage(w)]][NextStage(w)] >= 1
  /\ StampMeansTold

\* A sweep that has selected nothing holds nothing, and none holds a deadline to come.
HeldIsDue ==
  \A w \in Calls : /\ notifier[w].pc = "idle" => ~Due(w)
                   /\ notifier[w].pc = "select" => notifier[w].due["past"] = 0
                   /\ \A k \in Stages : notifier[w].due[k] <= deadline

\* Unless two sweeps held the same notice: its alerts are those never stamped and one that is.
Counted ==
  /\ \A d \in Deadlines, k \in Stages : d > deadline => notice[d][k] = 0
  /\ ~noticeRaced =>
       \A k \in Stages :
         /\ \A w, x \in Calls : notifier[w].due[k] # 0 /\ notifier[w].due[k] = notifier[x].due[k] => w = x
         /\ \A d \in Deadlines : notice[d][k] <= 1 + unstamped
         /\ \A w \in Calls : notifier[w].due[k] # 0 /\ ~ToStamp(w, k) =>
              notice[notifier[w].due[k]][k] <= unstamped
         /\ k \notin stamped /\ (\A w \in Calls : ~Holds(w, k)) => notice[deadline][k] <= unstamped

ExpiryInv == ExpiryTypeOK /\ Told /\ HeldIsDue /\ Counted

LEMMA ExpiryBounds == MaxDeadlines \in Nat \ {0} /\ MaxLosses \in Nat /\ Deadlines \subseteq Nat \ {0}
  BY ExpiryConstants, CallConstants DEF Deadlines

NotifierState == [pc : {"idle", "select", "raise", "stamp"}, due : [Stages -> 0..MaxDeadlines]]

\* The types of the row and of what it has been told, and those of the sweeps.
RowTypes ==
  /\ paper \in {"certificate", "service"} /\ stage \in Stages \union {"far"}
  /\ stamped \in SUBSET Stages
  /\ misstamped \in BOOLEAN /\ noticeRaced \in BOOLEAN
NoticeTypes ==
  /\ deadline \in Deadlines /\ unstamped \in 0..MaxLosses
  /\ notice \in [Deadlines -> [Stages -> 0..(MaxLosses + 2)]]
SweepTypes == notifier \in [Calls -> NotifierState]

LEMMA ExpiryTypesSplit == ExpiryTypeOK <=> RowTypes /\ NoticeTypes /\ SweepTypes
  BY DEF ExpiryTypeOK, RowTypes, NoticeTypes, SweepTypes, NotifierState

\* What a sweep holds is nothing or one of the deadlines.
LEMMA DueTypes ==
  ASSUME SweepTypes, NEW w \in Calls
  PROVE  /\ notifier[w] \in NotifierState
         /\ \A k \in Stages : /\ notifier[w].due[k] \in Nat
                              /\ notifier[w].due[k] # 0 => notifier[w].due[k] \in Deadlines
         /\ Due(w) <=> \E k \in Stages : notifier[w].due[k] # 0
         /\ NextStage(w) \in Stages
         /\ Due(w) => notifier[w].due[NextStage(w)] \in Deadlines
<1>1. notifier[w] \in NotifierState /\ notifier[w].due \in [Stages -> 0..MaxDeadlines]
  BY DEF SweepTypes, NotifierState
<1>2. \A k \in Stages : /\ notifier[w].due[k] \in Nat
                        /\ notifier[w].due[k] # 0 => notifier[w].due[k] \in Deadlines
  BY <1>1, ExpiryBounds DEF Deadlines
<1>3. Due(w) <=> \E k \in Stages : notifier[w].due[k] # 0
  <2>1. NothingDue \in [Stages -> 0..MaxDeadlines] /\ \A k \in Stages : NothingDue[k] = 0
    BY ExpiryBounds DEF NothingDue
  <2> QED
    BY <1>1, <2>1 DEF Due
<1>4. NextStage(w) \in Stages
  BY DEF NextStage, Stages
<1>5. Due(w) => notifier[w].due[NextStage(w)] # 0
  BY <1>3 DEF NextStage, Stages
<1> QED
  BY <1>1, <1>2, <1>3, <1>4, <1>5

LEMMA NothingHeld ==
  /\ IdleNotifier \in NotifierState /\ IdleNotifier.pc = "idle" /\ IdleNotifier.due = NothingDue
  /\ NothingDue \in [Stages -> 0..MaxDeadlines] /\ \A k \in Stages : NothingDue[k] = 0
  BY ExpiryBounds DEF IdleNotifier, NotifierState, NothingDue

LEMMA ExpiryInvInit == ExpiryInit => ExpiryInv
<1> SUFFICES ASSUME ExpiryInit PROVE ExpiryInv
  OBVIOUS
<1>1. SweepTypes /\ \A w \in Calls : notifier[w] = IdleNotifier
  BY NothingHeld DEF ExpiryInit, SweepTypes
<1>2. RowTypes
  BY DEF ExpiryInit, RowTypes
<1>3. \A d \in Deadlines, k \in Stages : notice[d][k] = 0
  BY DEF ExpiryInit
<1>4. NoticeTypes
  BY ExpiryBounds DEF ExpiryInit, NoticeTypes, Deadlines
<1>5. Told
  BY <1>1, NothingHeld DEF Told, StampMeansTold, ExpiryInit
<1>6. HeldIsDue
  BY <1>1, <1>4, NothingHeld, ExpiryBounds DEF HeldIsDue, Due, NoticeTypes, Stages
<1>7. Counted
  <2>1. unstamped = 0 /\ deadline \in Deadlines
    BY <1>4 DEF ExpiryInit, NoticeTypes
  <2> QED
    BY <1>1, <1>3, <2>1, NothingHeld DEF Counted
<1> QED
  BY <1>2, <1>4, <1>1, <1>5, <1>6, <1>7, ExpiryTypesSplit DEF ExpiryInv

\* What the invariant says once the deadline, the stamps or the sweeps have changed.
CountedFor(k) ==
  /\ \A w, x \in Calls : notifier[w].due[k] # 0 /\ notifier[w].due[k] = notifier[x].due[k] => w = x
  /\ \A d \in Deadlines : notice[d][k] <= 1 + unstamped
  /\ \A w \in Calls : notifier[w].due[k] # 0 /\ ~ToStamp(w, k) => notice[notifier[w].due[k]][k] <= unstamped
  /\ k \notin stamped /\ (\A w \in Calls : ~Holds(w, k)) => notice[deadline][k] <= unstamped

NothingAhead == \A d \in Deadlines, k \in Stages : d > deadline => notice[d][k] = 0

LEMMA CountedParts == Counted <=> NothingAhead /\ (~noticeRaced => \A k \in Stages : CountedFor(k))
  BY DEF Counted, NothingAhead, CountedFor

LEMMA NoticeNumbers ==
  ASSUME NoticeTypes
  PROVE  /\ deadline \in Nat /\ unstamped \in Nat
         /\ \A d \in Deadlines, k \in Stages : notice[d][k] \in Nat
         /\ \A d \in Deadlines : d \in Nat /\ d # 0
<1>1. \A d \in Deadlines, k \in Stages : notice[d][k] \in 0..(MaxLosses + 2)
  BY DEF NoticeTypes
<1> QED
  BY <1>1, ExpiryBounds DEF NoticeTypes

LEMMA TimePassesNext ==
  ASSUME ExpiryInv, TimePasses \/ UNCHANGED expiryVars
  PROVE  ExpiryInv'
<1>1. UNCHANGED <<paper, deadline, stamped, notice, notifier, unstamped, misstamped, noticeRaced>>
  BY DEF TimePasses, expiryVars
<1>2. stage' \in Stages \union {"far"}
  BY DEF TimePasses, expiryVars, ExpiryInv, ExpiryTypeOK, Stages
<1>3. ExpiryTypeOK'
  BY <1>1, <1>2 DEF ExpiryInv, ExpiryTypeOK
<1>4. Told' /\ HeldIsDue' /\ Counted'
  BY <1>1 DEF ExpiryInv, Told, StampMeansTold, HeldIsDue, Counted, NextStage, Due, Holds, ToStamp
<1> QED
  BY <1>3, <1>4 DEF ExpiryInv

\* A new deadline has not been told, whatever the sweeps still hold of the old one.
LEMMA NewDeadlineNext ==
  ASSUME ExpiryInv, Renew \/ ChangeInterval
  PROVE  ExpiryInv'
<1>1. /\ UNCHANGED <<paper, notice, notifier, unstamped, noticeRaced>>
      /\ deadline < MaxDeadlines /\ deadline' = deadline + 1 /\ stage' \in Stages \union {"far"}
  BY DEF Renew, ChangeInterval
<1>2. (stamped' = {} /\ misstamped' = misstamped) \/ (stamped' = stamped /\ misstamped' = (misstamped \/ stamped # {}))
  BY DEF Renew, ChangeInterval
<1>3. /\ RowTypes /\ NoticeTypes /\ SweepTypes /\ deadline \in Nat /\ unstamped \in Nat
      /\ \A d \in Deadlines, k \in Stages : notice[d][k] \in Nat
  BY ExpiryTypesSplit, NoticeNumbers DEF ExpiryInv
<1>4. deadline' \in Deadlines /\ deadline' > deadline
  BY <1>1, <1>3, ExpiryBounds DEF Deadlines, NoticeTypes
<1>5. ExpiryTypeOK'
  <2>1. RowTypes'
    BY <1>1, <1>2, <1>3 DEF RowTypes
  <2>2. NoticeTypes' /\ SweepTypes'
    BY <1>1, <1>3, <1>4 DEF NoticeTypes, SweepTypes
  <2> QED
    BY <2>1, <2>2 DEF ExpiryTypeOK, RowTypes, NoticeTypes, SweepTypes, NotifierState
<1>6. Told'
  <2>1. ~misstamped' => stamped' = {}
    BY <1>2
  <2> QED
    BY <1>1, <2>1 DEF ExpiryInv, Told, StampMeansTold, NextStage, Due
<1>7. HeldIsDue'
  <2>1. \A w \in Calls, k \in Stages : notifier[w].due[k] \in Nat
    BY <1>3, DueTypes
  <2>2. \A w \in Calls, k \in Stages : notifier[w].due[k] <= deadline'
    BY <1>1, <1>3, <2>1 DEF ExpiryInv, HeldIsDue
  <2> QED
    BY <1>1, <2>2 DEF ExpiryInv, HeldIsDue, Due
<1>8. \A k \in Stages : notice[deadline'][k] = 0
  BY <1>4 DEF ExpiryInv, Counted
<1>9. Counted'
  <2>1. NothingAhead'
    <3>1. \A d \in Deadlines : d > deadline' => d > deadline
      BY <1>1, <1>3, ExpiryBounds
    <3> QED
      BY <1>1, <3>1 DEF ExpiryInv, Counted, NothingAhead
  <2>2. ASSUME ~noticeRaced', NEW k \in Stages
        PROVE  CountedFor(k)'
    <3>1. CountedFor(k)
      BY <1>1, <2>2, CountedParts DEF ExpiryInv
    <3>2. notice'[deadline'][k] <= unstamped'
      BY <1>1, <1>3, <1>8
    <3> QED
      BY <1>1, <3>1, <3>2 DEF CountedFor, ToStamp, NextStage
  <2> QED
    BY <2>1, <2>2 DEF Counted, NothingAhead, CountedFor
<1> QED
  BY <1>5, <1>6, <1>7, <1>9 DEF ExpiryInv

LEMMA ExpiryRestartNext ==
  ASSUME ExpiryInv, ExpiryRestart
  PROVE  ExpiryInv'
<1>1. /\ UNCHANGED <<paper, deadline, stage, stamped, notice, misstamped, noticeRaced>>
      /\ unstamped < MaxLosses /\ unstamped' = unstamped + 1
      /\ notifier' = [w \in Calls |-> IdleNotifier]
  BY DEF ExpiryRestart, calendar
<1>2. /\ RowTypes /\ NoticeTypes /\ SweepTypes /\ deadline \in Nat /\ unstamped \in Nat
      /\ \A d \in Deadlines, k \in Stages : notice[d][k] \in Nat
  BY ExpiryTypesSplit, NoticeNumbers DEF ExpiryInv
<1>3. \A w \in Calls : notifier'[w] = IdleNotifier
  BY <1>1
<1>4. unstamped' \in 0..MaxLosses
  BY <1>1, <1>2, ExpiryBounds
<1>5. ExpiryTypeOK'
  <2>1. RowTypes' /\ NoticeTypes'
    BY <1>1, <1>2, <1>4 DEF RowTypes, NoticeTypes
  <2>2. SweepTypes'
    BY <1>1, NothingHeld DEF SweepTypes
  <2> QED
    BY <2>1, <2>2 DEF ExpiryTypeOK, RowTypes, NoticeTypes, SweepTypes, NotifierState
<1>6. Told'
  BY <1>1, <1>3, NothingHeld DEF ExpiryInv, Told, StampMeansTold
<1>7. HeldIsDue'
  BY <1>1, <1>2, <1>3, NothingHeld DEF HeldIsDue, Due, Stages
<1>8. Counted'
  <2>1. NothingAhead'
    BY <1>1 DEF ExpiryInv, Counted, NothingAhead
  <2>2. ASSUME ~noticeRaced', NEW k \in Stages
        PROVE  CountedFor(k)'
    <3>1. \A d \in Deadlines : notice'[d][k] <= unstamped'
      <4>1. \A d \in Deadlines : notice[d][k] <= 1 + unstamped
        BY <1>1, <2>2 DEF ExpiryInv, Counted
      <4> QED
        BY <1>1, <1>2, <4>1
    <3>2. \A d \in Deadlines : notice'[d][k] <= 1 + unstamped'
      BY <1>1, <1>2, <3>1
    <3>3. deadline' \in Deadlines
      BY <1>1, <1>2 DEF NoticeTypes
    <3> QED
      BY <1>3, <3>1, <3>2, <3>3, NothingHeld DEF CountedFor
  <2> QED
    BY <2>1, <2>2 DEF Counted, NothingAhead, CountedFor
<1> QED
  BY <1>5, <1>6, <1>7, <1>8 DEF ExpiryInv

\* What sweep w selects: what it held already, or the deadline in the row, unstamped, that no
\* other sweep holds.
Selection(w, n) ==
  \A k \in Stages :
    \/ n.due[k] = notifier[w].due[k]
    \/ /\ n.due[k] = deadline /\ notifier[w].due[k] = 0 /\ k \notin stamped
       /\ noticeRaced' \/ \A x \in Calls \ {w} : ~Holds(x, k)

LEMMA SelectionNext ==
  ASSUME ExpiryInv, NEW w \in Calls, NEW n \in NotifierState,
         notifier' = [notifier EXCEPT ![w] = n], notifier[w].pc # "stamp", n.pc \in {"select", "raise"},
         n.pc = "select" => n.due["past"] = 0, Selection(w, n),
         UNCHANGED <<paper, deadline, stage, stamped, notice, unstamped, misstamped>>,
         noticeRaced' \in BOOLEAN, noticeRaced => noticeRaced'
  PROVE  ExpiryInv'
<1>1. /\ RowTypes /\ NoticeTypes /\ SweepTypes /\ deadline \in Nat /\ unstamped \in Nat
      /\ deadline \in Deadlines /\ deadline # 0
  BY ExpiryTypesSplit, NoticeNumbers DEF ExpiryInv, NoticeTypes
<1>2. notifier'[w] = n /\ \A x \in Calls \ {w} : notifier'[x] = notifier[x]
  BY <1>1 DEF SweepTypes
<1>3. ExpiryTypeOK'
  <2>1. RowTypes' /\ NoticeTypes'
    BY <1>1 DEF RowTypes, NoticeTypes
  <2>2. SweepTypes'
    BY <1>1 DEF SweepTypes
  <2> QED
    BY <2>1, <2>2 DEF ExpiryTypeOK, RowTypes, NoticeTypes, SweepTypes, NotifierState
<1>4. Told'
  <2>1. StampMeansTold'
    BY DEF ExpiryInv, Told, StampMeansTold
  <2>2. ASSUME NEW x \in Calls, notifier'[x].pc = "stamp"
        PROVE  Due(x)' /\ notice'[notifier'[x].due[NextStage(x)']][NextStage(x)'] >= 1
    BY <1>2, <2>2 DEF ExpiryInv, Told, Due, NextStage
  <2> QED
    BY <2>1, <2>2 DEF Told
<1>5. \A k \in Stages : n.due[k] = notifier[w].due[k] \/ n.due[k] = deadline
  BY DEF Selection
<1>6. HeldIsDue'
  <2>1. \A x \in Calls, k \in Stages : notifier'[x].due[k] <= deadline
    BY <1>1, <1>2, <1>5 DEF ExpiryInv, HeldIsDue
  <2> QED
    BY <1>2, <2>1 DEF ExpiryInv, HeldIsDue, Due
<1>7. ASSUME ~noticeRaced', NEW k \in Stages
      PROVE  CountedFor(k)'
  <2>1. CountedFor(k)
    BY <1>7, CountedParts DEF ExpiryInv
  <2>2. ~ToStamp(w, k) /\ ~ToStamp(w, k)'
    BY <1>2 DEF ToStamp
  <2>3. \A x \in Calls \ {w} : (ToStamp(x, k)' <=> ToStamp(x, k)) /\ (Holds(x, k)' <=> Holds(x, k))
    BY <1>2 DEF ToStamp, NextStage, Holds
  <2>4. CASE n.due[k] = notifier[w].due[k]
    <3>1. \A x \in Calls : notifier'[x].due[k] = notifier[x].due[k]
      BY <1>2, <2>4
    <3>2. \A x \in Calls : ToStamp(x, k)' <=> ToStamp(x, k)
      BY <2>2, <2>3
    <3> QED
      BY <2>1, <3>1, <3>2 DEF CountedFor, Holds
  <2>5. CASE n.due[k] # notifier[w].due[k]
    <3>1. /\ n.due[k] = deadline /\ notifier[w].due[k] = 0 /\ k \notin stamped
          /\ \A x \in Calls \ {w} : ~Holds(x, k)
      BY <1>7, <2>5 DEF Selection
    <3>2. ~Holds(w, k)
      BY <1>1, <3>1 DEF Holds
    <3>3. notice[deadline][k] <= unstamped
      BY <2>1, <3>1, <3>2 DEF CountedFor
    <3>4. \A x \in Calls \ {w} : notifier'[x].due[k] # deadline
      BY <1>2, <3>1 DEF Holds
    <3>5. \A v, x \in Calls : notifier'[v].due[k] # 0 /\ notifier'[v].due[k] = notifier'[x].due[k] => v = x
      BY <1>2, <2>1, <3>1, <3>4 DEF CountedFor
    <3>6. \A x \in Calls : notifier'[x].due[k] # 0 /\ ~ToStamp(x, k)' => notice[notifier'[x].due[k]][k] <= unstamped
      BY <1>2, <2>1, <2>3, <3>1, <3>3 DEF CountedFor
    <3> QED
      BY <2>1, <3>3, <3>5, <3>6 DEF CountedFor
  <2> QED
    BY <2>4, <2>5
<1>8. Counted'
  <2>1. NothingAhead'
    BY DEF ExpiryInv, Counted, NothingAhead
  <2> QED
    BY <1>7, <2>1 DEF Counted, NothingAhead, CountedFor
<1> QED
  BY <1>3, <1>4, <1>6, <1>8 DEF ExpiryInv

LEMMA SelectNext ==
  ASSUME ExpiryInv, NEW w \in Calls, SelectDue(w) \/ SelectPast(w)
  PROVE  ExpiryInv'
<1>1. /\ RowTypes /\ NoticeTypes /\ SweepTypes /\ deadline \in Deadlines /\ deadline \in 0..MaxDeadlines
      /\ notifier[w].due \in [Stages -> 0..MaxDeadlines] /\ notifier[w] \in NotifierState
  BY ExpiryTypesSplit, DueTypes, ExpiryBounds DEF ExpiryInv, NoticeTypes, NotifierState, Deadlines
<1>2. \A k \in Stages : Found(k) \in {0, deadline} /\ (Found(k) # 0 => k \notin stamped)
  BY DEF Found
<1>3. CASE SelectDue(w)
  <2> DEFINE due == [k \in Stages |-> IF k = "soon" \/ paper = "service" THEN Found(k) ELSE 0]
             n == [pc |-> IF paper = "service" THEN "raise" ELSE "select", due |-> due]
  <2>1. /\ notifier[w].pc = "idle" /\ notifier' = [notifier EXCEPT ![w] = n]
        /\ UNCHANGED <<paper, deadline, stage, stamped, notice, unstamped, misstamped>>
        /\ noticeRaced' = (noticeRaced \/ \E k \in Stages : due[k] # 0 /\ \E x \in Calls \ {w} : Holds(x, k))
    BY <1>3 DEF SelectDue, calendar
  <2>2. due \in [Stages -> 0..MaxDeadlines] /\ \A k \in Stages : due[k] = 0 \/ (due[k] = deadline /\ k \notin stamped)
    BY <1>1, <1>2, ExpiryBounds
  <2>3. n \in NotifierState /\ n.due = due /\ n.pc \in {"select", "raise"}
    BY <2>2 DEF NotifierState
  <2>4. n.pc = "select" => n.due["past"] = 0
    BY DEF Stages
  <2>5. \A k \in Stages : notifier[w].due[k] = 0
    BY <1>1, <2>1, DueTypes DEF ExpiryInv, HeldIsDue
  <2>6. deadline # 0
    BY <1>1, ExpiryBounds
  <2>7. Selection(w, n)
    <3> HIDE DEF due, n
    <3>1. \A k \in Stages : noticeRaced' \/ due[k] = 0 \/ \A x \in Calls \ {w} : ~Holds(x, k)
      BY <2>1
    <3> QED
      BY <2>2, <2>3, <2>5, <3>1 DEF Selection
  <2>8. noticeRaced' \in BOOLEAN /\ (noticeRaced => noticeRaced')
    BY <1>1, <2>1 DEF RowTypes
  <2> HIDE DEF due, n
  <2> QED
    BY <2>1, <2>3, <2>4, <2>7, <2>8, SelectionNext
<1>4. CASE SelectPast(w)
  <2> DEFINE n == [notifier[w] EXCEPT !.pc = "raise", !.due["past"] = Found("past")]
  <2>1. /\ notifier[w].pc = "select" /\ notifier' = [notifier EXCEPT ![w] = n]
        /\ UNCHANGED <<paper, deadline, stage, stamped, notice, unstamped, misstamped>>
        /\ noticeRaced' = (noticeRaced \/ (Found("past") # 0 /\ \E x \in Calls \ {w} : Holds(x, "past")))
    BY <1>4 DEF SelectPast, calendar
  <2>2. /\ n \in NotifierState /\ n.pc = "raise" /\ n.due["past"] = Found("past")
        /\ \A k \in Stages \ {"past"} : n.due[k] = notifier[w].due[k]
    <3>1. "past" \in Stages /\ Found("past") \in 0..MaxDeadlines
      BY <1>1, <1>2, ExpiryBounds DEF Stages
    <3> QED
      BY <1>1, <3>1 DEF NotifierState
  <2>3. notifier[w].due["past"] = 0 /\ "past" \in Stages
    BY <2>1 DEF ExpiryInv, HeldIsDue, Stages
  <2>4. Selection(w, n)
    <3> HIDE DEF n
    <3> QED
      BY <1>2, <2>1, <2>2, <2>3 DEF Selection
  <2>5. noticeRaced' \in BOOLEAN /\ (noticeRaced => noticeRaced')
    BY <1>1, <2>1 DEF RowTypes
  <2> HIDE DEF n
  <2> QED
    BY <2>1, <2>2, <2>4, <2>5, SelectionNext
<1> QED
  BY <1>3, <1>4

LEMMA RaiseNext ==
  ASSUME ExpiryInv, NEW w \in Calls, RaiseNotice(w)
  PROVE  ExpiryInv'
<1> DEFINE told == NextStage(w)
           due == notifier[w].due[told]
           more == IF notice[due][told] < MaxLosses + 2 THEN notice[due][told] + 1 ELSE notice[due][told]
<1>1. /\ RowTypes /\ NoticeTypes /\ SweepTypes /\ deadline \in Nat /\ unstamped \in Nat /\ MaxLosses \in Nat
      /\ \A d \in Deadlines, k \in Stages : notice[d][k] \in Nat
      /\ \A d \in Deadlines : d \in Nat /\ d # 0
  BY ExpiryTypesSplit, NoticeNumbers, ExpiryBounds DEF ExpiryInv
<1>2. /\ notifier[w].pc = "raise" /\ Due(w)
      /\ notice' = [notice EXCEPT ![due][told] = more]
      /\ notifier' = [notifier EXCEPT ![w].pc = "stamp"]
      /\ UNCHANGED <<paper, deadline, stage, stamped, unstamped, misstamped, noticeRaced>>
  BY DEF RaiseNotice, calendar
<1>3. told \in Stages /\ due \in Deadlines /\ due # 0 /\ notifier[w] \in NotifierState
  BY <1>1, <1>2, DueTypes
<1>4. more \in 1..(MaxLosses + 2) /\ more <= notice[due][told] + 1 /\ more >= notice[due][told]
  <2>1. notice[due][told] \in 0..(MaxLosses + 2)
    BY <1>1, <1>3 DEF NoticeTypes
  <2> QED
    BY <1>1, <2>1
<1>5. /\ notice'[due][told] = more
      /\ \A d \in Deadlines, k \in Stages : d # due \/ k # told => notice'[d][k] = notice[d][k]
      /\ NoticeTypes'
  <2> HIDE DEF told, due, more
  <2> QED
    BY <1>1, <1>2, <1>3, <1>4 DEF NoticeTypes
<1>6. /\ notifier'[w].pc = "stamp" /\ notifier'[w].due = notifier[w].due
      /\ \A x \in Calls \ {w} : notifier'[x] = notifier[x]
      /\ SweepTypes'
  BY <1>1, <1>2, <1>3 DEF SweepTypes, NotifierState
<1>7. \A x \in Calls : /\ notifier'[x].due = notifier[x].due /\ NextStage(x)' = NextStage(x)
                       /\ Due(x)' <=> Due(x)
                       /\ \A k \in Stages : Holds(x, k)' <=> Holds(x, k)
  BY <1>2, <1>6 DEF NextStage, Due, Holds
<1>8. ExpiryTypeOK'
  <2>1. RowTypes'
    BY <1>1, <1>2 DEF RowTypes
  <2> QED
    BY <1>5, <1>6, <2>1 DEF ExpiryTypeOK, RowTypes, NoticeTypes, SweepTypes, NotifierState
<1>9. \A d \in Deadlines, k \in Stages : notice'[d][k] \in Nat /\ notice'[d][k] >= notice[d][k]
  <2> HIDE DEF told, due, more
  <2>1. more \in Nat
    BY <1>1, <1>4
  <2> QED
    BY <1>1, <1>3, <1>4, <1>5, <2>1
<1>10. Told'
  <2>1. StampMeansTold'
    <3> SUFFICES ASSUME ~misstamped, NEW k \in stamped PROVE notice'[deadline][k] >= 1
      BY <1>2 DEF StampMeansTold
    <3>1. deadline \in Deadlines /\ k \in Stages
      BY <1>1 DEF NoticeTypes, RowTypes
    <3>2. notice[deadline][k] >= 1
      BY DEF ExpiryInv, Told, StampMeansTold
    <3> QED
      BY <1>1, <1>9, <3>1, <3>2
  <2>2. ASSUME NEW x \in Calls, notifier'[x].pc = "stamp"
        PROVE  Due(x)' /\ notice'[notifier'[x].due[NextStage(x)']][NextStage(x)'] >= 1
    <3>1. CASE x = w
      <4>1. Due(w)' /\ notifier'[w].due[NextStage(w)'] = due /\ NextStage(w)' = told
        BY <1>2, <1>6, <1>7
      <4>2. notice'[due][told] >= 1
        <5> HIDE DEF told, due, more
        <5> QED
          BY <1>1, <1>4, <1>5
      <4> QED
        BY <3>1, <4>1, <4>2
    <3>2. CASE x # w
      <4>1. Due(x) /\ notice[notifier[x].due[NextStage(x)]][NextStage(x)] >= 1
        BY <1>6, <2>2, <3>2 DEF ExpiryInv, Told
      <4>2. notifier[x].due[NextStage(x)] \in Deadlines /\ NextStage(x) \in Stages
        BY <1>1, <4>1, DueTypes
      <4> QED
        BY <1>1, <1>7, <1>9, <4>1, <4>2
    <3> QED
      BY <3>1, <3>2
  <2> QED
    BY <2>1, <2>2 DEF Told
<1>11. HeldIsDue'
  BY <1>2, <1>6, <1>7 DEF ExpiryInv, HeldIsDue
<1>12. NothingAhead'
  <2>1. due <= deadline
    BY <1>3 DEF ExpiryInv, HeldIsDue
  <2> HIDE DEF told, due, more
  <2>2. \A d \in Deadlines : d > deadline => d # due
    BY <1>1, <1>3, <2>1
  <2>3. \A d \in Deadlines, k \in Stages : d > deadline => notice[d][k] = 0
    BY DEF ExpiryInv, Counted
  <2>4. \A d \in Deadlines, k \in Stages : d > deadline => notice'[d][k] = 0
    BY <1>5, <2>2, <2>3
  <2> QED
    BY <1>2, <2>4 DEF NothingAhead
<1>13. ASSUME ~noticeRaced', NEW k \in Stages
       PROVE  CountedFor(k)'
  <2>1. CountedFor(k)
    BY <1>2, <1>13, CountedParts DEF ExpiryInv
  <2>2. \A x \in Calls \ {w} : ToStamp(x, k)' <=> ToStamp(x, k)
    BY <1>6, <1>7 DEF ToStamp
  <2>3. ~ToStamp(w, k) /\ (ToStamp(w, k)' <=> told = k)
    BY <1>2, <1>6, <1>7 DEF ToStamp
  <2>4. CASE k # told
    <3>1. \A d \in Deadlines : notice'[d][k] = notice[d][k]
      BY <1>5, <2>4
    <3>2. \A x \in Calls : notifier[x].due[k] # 0 => notifier[x].due[k] \in Deadlines
      BY <1>1, DueTypes
    <3>3. deadline \in Deadlines
      BY <1>1 DEF NoticeTypes
    <3>4. \A x \in Calls : ToStamp(x, k)' <=> ToStamp(x, k)
      BY <2>2, <2>3, <2>4
    <3> QED
      BY <1>2, <1>7, <2>1, <3>1, <3>2, <3>3, <3>4 DEF CountedFor
  <2>5. CASE k = told
    <3>1. \A v, x \in Calls : notifier'[v].due[k] # 0 /\ notifier'[v].due[k] = notifier'[x].due[k] => v = x
      BY <1>7, <2>1 DEF CountedFor
    <3>2. notice[due][k] <= unstamped
      BY <1>3, <2>1, <2>3, <2>5 DEF CountedFor
    <3>3. \A d \in Deadlines : notice'[d][k] <= 1 + unstamped
      <4>1. more <= 1 + unstamped
        <5> HIDE DEF told, due, more
        <5>1. notice[due][told] \in Nat /\ more \in Nat
          BY <1>1, <1>3, <1>4
        <5> QED
          BY <1>1, <1>4, <2>5, <3>2, <5>1
      <4> HIDE DEF told, due, more
      <4> QED
        BY <1>3, <1>5, <2>1, <2>5, <4>1 DEF CountedFor
    <3>4. ASSUME NEW x \in Calls, notifier'[x].due[k] # 0, ~ToStamp(x, k)'
          PROVE  notice'[notifier'[x].due[k]][k] <= unstamped
      <4>1. x # w /\ ~ToStamp(x, k)
        BY <2>2, <2>3, <2>5, <3>4
      <4>2. notifier[x].due[k] # 0 /\ notifier[x].due[k] # due /\ notifier[x].due[k] \in Deadlines
        BY <1>1, <1>7, <2>1, <2>5, <3>4, <4>1, DueTypes DEF CountedFor
      <4>3. notice[notifier[x].due[k]][k] <= unstamped
        BY <2>1, <4>1, <4>2 DEF CountedFor
      <4> QED
        BY <1>5, <1>7, <4>2, <4>3
    <3>5. k \notin stamped /\ (\A x \in Calls : ~Holds(x, k)') => notice'[deadline][k] <= unstamped
      <4> SUFFICES ASSUME k \notin stamped, \A x \in Calls : ~Holds(x, k)
                   PROVE  notice'[deadline][k] <= unstamped
        BY <1>7
      <4>1. due # deadline /\ deadline \in Deadlines
        BY <1>1, <2>5 DEF Holds, NoticeTypes
      <4> QED
        BY <1>5, <2>1, <4>1 DEF CountedFor
    <3> QED
      BY <1>2, <3>1, <3>3, <3>4, <3>5 DEF CountedFor
  <2> QED
    BY <2>4, <2>5
<1>14. Counted'
  BY <1>12, <1>13 DEF Counted, NothingAhead, CountedFor
<1> QED
  BY <1>8, <1>10, <1>11, <1>14 DEF ExpiryInv

\* The sweep lets go of its next notice: told and stamped, or failed.
LEMMA NoticeDoneMoves ==
  ASSUME SweepTypes, NEW w \in Calls, notifier[w].pc \in {"raise", "stamp"}, Due(w), NoticeDone(w, NextStage(w))
  PROVE  /\ notifier'[w].pc = "raise" /\ notifier'[w].due[NextStage(w)] = 0
         /\ \A k \in Stages \ {NextStage(w)} : notifier'[w].due[k] = notifier[w].due[k]
         /\ \A x \in Calls \ {w} : notifier'[x] = notifier[x]
         /\ SweepTypes'
<1> DEFINE told == NextStage(w)
<1>1. notifier[w] \in NotifierState /\ told \in Stages /\ 0 \in 0..MaxDeadlines
  BY DueTypes, ExpiryBounds
<1>2. notifier' = [notifier EXCEPT ![w].pc = "raise", ![w].due[told] = 0]
  BY DEF NoticeDone
<1> HIDE DEF told
<1>3. [notifier[w] EXCEPT !.pc = "raise", !.due[told] = 0] \in NotifierState
  BY <1>1 DEF NotifierState
<1>4. notifier' = [notifier EXCEPT ![w] = [notifier[w] EXCEPT !.pc = "raise", !.due[told] = 0]]
  BY <1>2
<1>5. /\ notifier'[w].pc = "raise" /\ notifier'[w].due[told] = 0
      /\ \A k \in Stages \ {told} : notifier'[w].due[k] = notifier[w].due[k]
  BY <1>1, <1>2 DEF SweepTypes, NotifierState
<1>6. SweepTypes' /\ \A x \in Calls \ {w} : notifier'[x] = notifier[x]
  BY <1>3, <1>4 DEF SweepTypes
<1> QED
  BY <1>5, <1>6 DEF told

LEMMA DoneNext ==
  ASSUME ExpiryInv, NEW w \in Calls, StampNotice(w) \/ NoticeFails(w)
  PROVE  ExpiryInv'
<1> DEFINE told == NextStage(w)
           due == notifier[w].due[told]
<1>1. /\ RowTypes /\ NoticeTypes /\ SweepTypes /\ deadline \in Nat /\ unstamped \in Nat /\ MaxLosses \in Nat
      /\ \A d \in Deadlines, k \in Stages : notice[d][k] \in Nat
      /\ deadline \in Deadlines
  BY ExpiryTypesSplit, NoticeNumbers, ExpiryBounds DEF ExpiryInv, NoticeTypes
<1>2. /\ notifier[w].pc \in {"raise", "stamp"} /\ Due(w) /\ NoticeDone(w, told)
      /\ UNCHANGED <<paper, deadline, stage, notice, noticeRaced>>
  <2>1. StampNotice(w) => Due(w)
    BY DEF StampNotice, ExpiryInv, Told
  <2> QED
    BY <2>1 DEF StampNotice, NoticeFails, calendar
<1>3. told \in Stages /\ due \in Deadlines /\ due # 0
  BY <1>1, <1>2, DueTypes, ExpiryBounds
<1>4. /\ notifier'[w].pc = "raise" /\ notifier'[w].due[told] = 0
      /\ \A k \in Stages \ {told} : notifier'[w].due[k] = notifier[w].due[k]
      /\ \A x \in Calls \ {w} : notifier'[x] = notifier[x]
      /\ SweepTypes'
  BY <1>1, <1>2, NoticeDoneMoves
<1>6. /\ RowTypes' /\ NoticeTypes' /\ stamped \subseteq stamped' /\ unstamped' \in Nat /\ unstamped' >= unstamped
  <2>1. CASE StampNotice(w)
    <3>1. /\ stamped' = stamped \union {told} /\ unstamped' = unstamped
          /\ misstamped' = (misstamped \/ due # deadline)
      BY <2>1 DEF StampNotice
    <3>2. RowTypes'
      BY <1>1, <1>2, <1>3, <3>1 DEF RowTypes
    <3> QED
      BY <1>1, <1>2, <3>1, <3>2 DEF NoticeTypes
  <2>2. CASE NoticeFails(w)
    <3>1. unstamped < MaxLosses /\ unstamped' = unstamped + 1 /\ stamped' = stamped /\ misstamped' = misstamped
      BY <2>2 DEF NoticeFails
    <3>2. unstamped' \in 0..MaxLosses
      BY <1>1, <3>1
    <3> QED
      BY <1>1, <1>2, <3>1, <3>2 DEF RowTypes, NoticeTypes
  <2> QED
    BY <2>1, <2>2
<1>7. ExpiryTypeOK'
  BY <1>4, <1>6 DEF ExpiryTypeOK, RowTypes, NoticeTypes, SweepTypes, NotifierState
<1>8. Told'
  <2>1. StampMeansTold'
    <3> SUFFICES ASSUME ~misstamped', NEW k \in stamped' PROVE notice[deadline][k] >= 1
      BY <1>2 DEF StampMeansTold
    <3>1. CASE k \in stamped /\ ~misstamped
      BY <3>1 DEF ExpiryInv, Told, StampMeansTold
    <3>2. CASE ~(k \in stamped /\ ~misstamped)
      <4>1. StampNotice(w) /\ k = told /\ due = deadline
        <5>1. ~NoticeFails(w)
          BY <3>2 DEF NoticeFails
        <5>2. StampNotice(w)
          BY <5>1
        <5>3. misstamped' = (misstamped \/ due # deadline) /\ stamped' = stamped \union {told}
          BY <5>2 DEF StampNotice
        <5> QED
          BY <3>2, <5>2, <5>3
      <4> QED
        BY <4>1 DEF StampNotice, ExpiryInv, Told
    <3> QED
      BY <3>1, <3>2
  <2>2. ASSUME NEW x \in Calls, notifier'[x].pc = "stamp"
        PROVE  Due(x)' /\ notice'[notifier'[x].due[NextStage(x)']][NextStage(x)'] >= 1
    <3>1. x # w /\ notifier'[x] = notifier[x]
      BY <1>4, <2>2
    <3> QED
      BY <1>2, <2>2, <3>1 DEF ExpiryInv, Told, Due, NextStage
  <2> QED
    BY <2>1, <2>2 DEF Told
<1>9. HeldIsDue'
  <2>1. \A x \in Calls, k \in Stages : notifier'[x].due[k] <= deadline
    BY <1>1, <1>4 DEF ExpiryInv, HeldIsDue
  <2> QED
    BY <1>2, <1>4, <2>1 DEF ExpiryInv, HeldIsDue, Due
<1>10. NothingAhead'
  BY <1>2 DEF ExpiryInv, Counted, NothingAhead
<1>11. ASSUME ~noticeRaced', NEW k \in Stages
       PROVE  CountedFor(k)'
  <2>1. CountedFor(k)
    BY <1>2, <1>11, CountedParts DEF ExpiryInv
  <2>2. \A x \in Calls \ {w} : ToStamp(x, k)' <=> ToStamp(x, k)
    BY <1>4 DEF ToStamp, NextStage
  <2>3. \A x \in Calls : notifier'[x].due[k] # 0 => notifier'[x].due[k] = notifier[x].due[k]
    BY <1>4
  <2>4. \A v, x \in Calls : notifier'[v].due[k] # 0 /\ notifier'[v].due[k] = notifier'[x].due[k] => v = x
    BY <2>1, <2>3 DEF CountedFor
  <2>5. \A d \in Deadlines : notice[d][k] <= 1 + unstamped'
    BY <1>1, <1>6, <2>1 DEF CountedFor
  <2>6. CASE StampNotice(w)
    <3>1. stamped' = stamped \union {told} /\ unstamped' = unstamped
      BY <2>6 DEF StampNotice
    <3>2. ASSUME NEW x \in Calls, notifier'[x].due[k] # 0, ~ToStamp(x, k)'
          PROVE  notice[notifier'[x].due[k]][k] <= unstamped
      <4>1. ~ToStamp(x, k)
        <5>1. x = w => k # told
          BY <1>4, <3>2
        <5> QED
          BY <2>2, <3>2, <5>1 DEF ToStamp
      <4> QED
        BY <2>1, <2>3, <3>2, <4>1 DEF CountedFor
    <3>3. k \notin stamped' /\ (\A x \in Calls : ~Holds(x, k)') => notice[deadline][k] <= unstamped
      <4> SUFFICES ASSUME k \notin stamped', \A x \in Calls : ~Holds(x, k)'
                   PROVE  notice[deadline][k] <= unstamped
        OBVIOUS
      <4>1. k # told /\ k \notin stamped
        BY <3>1
      <4>2. \A x \in Calls : ~Holds(x, k)
        BY <1>2, <1>4, <4>1 DEF Holds
      <4> QED
        BY <2>1, <4>1, <4>2 DEF CountedFor
    <3> QED
      BY <1>2, <2>4, <2>5, <3>1, <3>2, <3>3 DEF CountedFor
  <2>7. CASE NoticeFails(w)
    <3>1. unstamped' = unstamped + 1
      BY <2>7 DEF NoticeFails
    <3>2. \A d \in Deadlines : notice[d][k] <= unstamped'
      BY <1>1, <2>1, <3>1 DEF CountedFor
    <3>3. \A x \in Calls : notifier'[x].due[k] # 0 => notifier'[x].due[k] \in Deadlines
      BY <1>1, <2>3, DueTypes
    <3> QED
      BY <1>1, <1>2, <2>4, <2>5, <3>2, <3>3 DEF CountedFor
  <2> QED
    BY <2>6, <2>7
<1>12. Counted'
  BY <1>10, <1>11 DEF Counted, NothingAhead, CountedFor
<1> QED
  BY <1>7, <1>8, <1>9, <1>12 DEF ExpiryInv

LEMMA NoticesEndNext ==
  ASSUME ExpiryInv, NEW w \in Calls, NoticesEnd(w)
  PROVE  ExpiryInv'
<1>1. /\ RowTypes /\ NoticeTypes /\ SweepTypes /\ deadline \in Nat
  BY ExpiryTypesSplit, NoticeNumbers DEF ExpiryInv
<1>2. /\ notifier' = [notifier EXCEPT ![w] = IdleNotifier] /\ notifier[w].pc = "raise" /\ ~Due(w)
      /\ UNCHANGED <<paper, deadline, stage, stamped, notice, unstamped, misstamped, noticeRaced>>
  BY DEF NoticesEnd, calendar
<1>3. notifier'[w] = IdleNotifier /\ \A x \in Calls \ {w} : notifier'[x] = notifier[x]
  BY <1>1, <1>2 DEF SweepTypes
<1>4. \A k \in Stages : notifier[w].due[k] = 0 /\ notifier'[w].due[k] = 0
  BY <1>1, <1>2, <1>3, DueTypes, NothingHeld
<1>5. \A x \in Calls, k \in Stages : notifier'[x].due[k] = notifier[x].due[k]
  BY <1>3, <1>4
<1>6. ExpiryTypeOK'
  <2>1. SweepTypes'
    BY <1>1, <1>2, NothingHeld DEF SweepTypes
  <2> QED
    BY <1>1, <1>2, <2>1 DEF ExpiryTypeOK, RowTypes, NoticeTypes, SweepTypes, NotifierState
<1>7. Told'
  <2>1. \A x \in Calls : notifier'[x].pc = "stamp" => notifier'[x] = notifier[x]
    BY <1>3, NothingHeld
  <2> QED
    BY <1>2, <2>1 DEF ExpiryInv, Told, StampMeansTold, Due, NextStage
<1>8. HeldIsDue'
  <2>1. \A x \in Calls \ {w} : Due(x)' <=> Due(x)
    BY <1>3 DEF Due
  <2>2. ~Due(w)'
    BY <1>3, NothingHeld DEF Due
  <2> QED
    BY <1>2, <1>3, <1>5, <2>1, <2>2, NothingHeld DEF ExpiryInv, HeldIsDue
<1>9. Counted'
  <2>1. \A x \in Calls, k \in Stages : notifier'[x].due[k] # 0 => (ToStamp(x, k)' <=> ToStamp(x, k))
    BY <1>3, <1>4 DEF ToStamp, NextStage
  <2> QED
    BY <1>2, <1>5, <2>1 DEF ExpiryInv, Counted, Holds
<1> QED
  BY <1>6, <1>7, <1>8, <1>9 DEF ExpiryInv

LEMMA ExpiryInvNext ==
  ASSUME ExpiryInv, [ExpiryNext]_expiryVars
  PROVE  ExpiryInv'
  BY TimePassesNext, NewDeadlineNext, ExpiryRestartNext, SelectNext, RaiseNext, DoneNext, NoticesEndNext DEF ExpiryNext

\* A manager is told of each stage of a deadline once (sweepCertificateExpiry,
\* sweepServiceReminders), and once more only for a notice whose stamp was lost or that two
\* sweeps held at once.
THEOREM NoticeOnceAlways == ExpirySpec => []NoticeOnce
<1>1. ExpiryInit => ExpiryInv
  BY ExpiryInvInit
<1>2. ExpiryInv /\ [ExpiryNext]_expiryVars => ExpiryInv'
  BY ExpiryInvNext
<1>3. ExpiryInv => NoticeOnce
  BY DEF ExpiryInv, Counted, NoticeOnce
<1> QED
  BY <1>1, <1>2, <1>3, PTL DEF ExpirySpec

\* What silences the sweeps has been told (the two stamps of certificates and services), unless
\* the row carries a stamp of the deadline before.
THEOREM StampMeansToldAlways == ExpirySpec => []StampMeansTold
<1>1. ExpiryInit => ExpiryInv
  BY ExpiryInvInit
<1>2. ExpiryInv /\ [ExpiryNext]_expiryVars => ExpiryInv'
  BY ExpiryInvNext
<1>3. ExpiryInv => StampMeansTold
  BY DEF ExpiryInv, Told
<1> QED
  BY <1>1, <1>2, <1>3, PTL DEF ExpirySpec

-----------------------------------------------------------------------------
(* FuelBrainDrafts                                                         *)

ClickState == [pc : {"idle", "count", "claim", "mail", "revert", "cancel"},
               draft : Drafts \union {NoDraft}]

\* The parts of DraftTypeOK that a step on one click may disturb.
ClickTypes ==
  /\ click \in [Calls -> ClickState]
  /\ \A c \in Calls : click[c].pc # "idle" => click[c].draft \in Drafts

\* A click that moves on, starts or ends keeps its type, and no other click changes.
LEMMA ClickMoves ==
  ASSUME ClickTypes, NEW c \in Calls,
         \/ click[c].pc # "idle" /\ \E pc \in {"count", "claim", "mail", "revert", "cancel"} :
              ClickGoesTo(c, pc)
         \/ \E pc \in {"count", "cancel"}, d \in Drafts :
              click' = [click EXCEPT ![c] = [pc |-> pc, draft |-> d]]
         \/ ClickEnds(c)
  PROVE  ClickTypes' /\ \A b \in Calls \ {c} : click'[b] = click[b]
<1>1. click \in [Calls -> ClickState] /\ click[c] \in ClickState
  BY DEF ClickTypes
<1>2. CASE click[c].pc # "idle" /\ \E pc \in {"count", "claim", "mail", "revert", "cancel"} : ClickGoesTo(c, pc)
  <2>1. PICK pc \in {"count", "claim", "mail", "revert", "cancel"} : ClickGoesTo(c, pc)
    BY <1>2
  <2>2. [click[c] EXCEPT !.pc = pc] \in ClickState /\ [click[c] EXCEPT !.pc = pc].draft = click[c].draft
    BY <1>1 DEF ClickState
  <2>3. click[c].draft \in Drafts
    BY <1>2 DEF ClickTypes
  <2> QED
    BY <1>1, <2>1, <2>2, <2>3 DEF ClickTypes, ClickGoesTo
<1>3. CASE \E pc \in {"count", "cancel"}, d \in Drafts :
             click' = [click EXCEPT ![c] = [pc |-> pc, draft |-> d]]
  BY <1>1, <1>3 DEF ClickTypes, ClickState
<1>4. CASE ClickEnds(c)
  BY <1>1, <1>4 DEF ClickTypes, ClickState, ClickEnds, IdleClick
<1> QED
  BY <1>2, <1>3, <1>4

DraftStep(c) ==
  \/ PressSend(c) \/ PressCancel(c) \/ CountSent(c) \/ Claim(c) \/ MailDriver(c)
  \/ MailRefused(c) \/ MailAnswerLost(c) \/ Revert(c) \/ Cancel(c) \/ ClickDies(c)
  \/ ClaimUnanswered(c)

LEMMA DraftClicks ==
  ASSUME DraftTypeOK, NEW c \in Calls, DraftStep(c)
  PROVE  ClickTypes' /\ \A b \in Calls \ {c} : click'[b] = click[b]
<1>1. ClickTypes
  BY DEF DraftTypeOK, ClickTypes, ClickState
<1> QED
  BY <1>1, ClickMoves DEF DraftStep, PressSend, PressCancel, CountSent, Claim, MailDriver, MailRefused,
       MailAnswerLost, Revert, Cancel, ClickDies, ClaimUnanswered

\* Statuses, mails and the histories keep their types.
LEMMA DraftTypesStep ==
  ASSUME DraftTypeOK, NEW c \in Calls, DraftStep(c)
  PROVE  DraftTypeOK'
<1>1. ClickTypes'
  BY DraftClicks
<1>2. click[c].pc # "idle" => click[c].draft \in Drafts
  BY DEF DraftTypeOK
<1>3. status' \in [Drafts -> {"pending", "sent", "cancelled"}]
  BY <1>2 DEF DraftTypeOK, DraftStep, PressSend, PressCancel, CountSent, Claim, MailDriver, MailRefused,
       MailAnswerLost, Revert, Cancel, ClickDies, ClaimUnanswered
<1>4. /\ driverMails' \in [Drafts -> Nat] /\ answersLost' \in [Drafts -> Nat]
      /\ claimsLost' \in SUBSET Drafts
  <2>1. CASE MailDriver(c) \/ MailAnswerLost(c)
    <3>1. click[c].draft \in Drafts
      BY <1>2, <2>1 DEF MailDriver, MailAnswerLost
    <3> QED
      BY <2>1, <3>1 DEF DraftTypeOK, MailDriver, MailAnswerLost
  <2>2. CASE ClickDies(c) \/ ClaimUnanswered(c)
    BY <1>2, <2>2 DEF DraftTypeOK, ClickDies, ClaimUnanswered
  <2>3. CASE UNCHANGED <<driverMails, answersLost, claimsLost>>
    BY <2>3 DEF DraftTypeOK
  <2> QED
    BY <2>1, <2>2, <2>3 DEF DraftStep, PressSend, PressCancel, CountSent, Claim, MailRefused, Revert,
         Cancel, MailsWait
<1> QED
  BY <1>1, <1>3, <1>4 DEF DraftTypeOK, ClickTypes, ClickState

\* The request that has claimed the draft d and is not done with it.
HasClaimed(c, d) == click[c].draft = d /\ click[c].pc \in {"mail", "revert"}

\* What DraftSentOnce needs to be inductive: a claim belongs to one request and the draft is shown
\* as sent meanwhile; what that request has mailed so far, and nobody else anything, came with a
\* lost answer.
Claimed ==
  \A d \in Drafts :
    /\ \A b, c \in Calls : HasClaimed(b, d) /\ HasClaimed(c, d) => b = c
    /\ BeingSent(d) => status[d] = "sent"
    /\ status[d] # "sent" \/ BeingSent(d) => driverMails[d] <= answersLost[d]

DraftInv == DraftTypeOK /\ Claimed /\ DraftSentOnce

LEMMA DraftInvInit == DraftInit => DraftInv
<1> SUFFICES ASSUME DraftInit PROVE DraftInv
  OBVIOUS
<1>1. \A c \in Calls : click[c].pc = "idle"
  BY DEF DraftInit, IdleClick
<1>2. DraftTypeOK
  BY <1>1 DEF DraftInit, DraftTypeOK, IdleClick
<1> QED
  BY <1>1, <1>2 DEF DraftInit, DraftInv, Claimed, DraftSentOnce, HasClaimed, BeingSent

LEMMA DraftInvNext ==
  ASSUME DraftInv, [DraftNext]_draftVars
  PROVE  DraftInv'
<1> USE DEF DraftInv
<1>1. CASE UNCHANGED draftVars
  BY <1>1 DEF draftVars, DraftTypeOK, Claimed, DraftSentOnce, HasClaimed, BeingSent
<1>2. ASSUME NEW c \in Calls, DraftStep(c) PROVE DraftInv'
  <2>1. DraftTypeOK'
    BY <1>2, DraftTypesStep
  <2>2. click' \in [Calls -> ClickState] /\ \A b \in Calls \ {c} : click'[b] = click[b]
    BY <1>2, DraftClicks DEF ClickTypes
  <2>3. SUFFICES ASSUME NEW d \in Drafts
        PROVE  /\ \A a, b \in Calls : HasClaimed(a, d)' /\ HasClaimed(b, d)' => a = b
               /\ BeingSent(d)' => status'[d] = "sent"
               /\ status'[d] # "sent" \/ BeingSent(d)' => driverMails'[d] <= answersLost'[d]
               /\ driverMails'[d] <= 1 + answersLost'[d]
               /\ status'[d] = "cancelled" => driverMails'[d] <= answersLost'[d]
               /\ status'[d] = "sent" /\ ~BeingSent(d)' /\ d \notin claimsLost' => driverMails'[d] >= 1
    BY <2>1 DEF Claimed, DraftSentOnce
  <2>4. /\ \A b \in Calls \ {c} : HasClaimed(b, d)' <=> HasClaimed(b, d)
        /\ BeingSent(d) <=> \E b \in Calls : HasClaimed(b, d)
        /\ BeingSent(d)' <=> \E b \in Calls : HasClaimed(b, d)'
    BY <2>2 DEF HasClaimed, BeingSent
  <2>5. /\ \A a, b \in Calls : HasClaimed(a, d) /\ HasClaimed(b, d) => a = b
        /\ BeingSent(d) => status[d] = "sent"
        /\ status[d] # "sent" \/ BeingSent(d) => driverMails[d] <= answersLost[d]
        /\ driverMails[d] <= 1 + answersLost[d]
        /\ status[d] = "cancelled" => driverMails[d] <= answersLost[d]
        /\ status[d] = "sent" /\ ~BeingSent(d) /\ d \notin claimsLost => driverMails[d] >= 1
    BY DEF Claimed, DraftSentOnce
  <2>6. /\ driverMails[d] \in Nat /\ answersLost[d] \in Nat
        /\ status \in [Drafts -> {"pending", "sent", "cancelled"}]
        /\ driverMails \in [Drafts -> Nat] /\ answersLost \in [Drafts -> Nat]
        /\ click \in [Calls -> ClickState]
    BY DEF DraftTypeOK, ClickState
  <2> HIDE DEF DraftInv
  <2>7. CASE PressSend(c) \/ PressCancel(c) \/ CountSent(c)
    <3>1. ~HasClaimed(c, d) /\ ~HasClaimed(c, d)'
      BY <2>6, <2>7 DEF HasClaimed, PressSend, PressCancel, CountSent, ClickGoesTo, ClickEnds, IdleClick, ClickState
    <3>2. UNCHANGED <<status, driverMails, answersLost, claimsLost>>
      BY <2>7 DEF PressSend, PressCancel, CountSent, MailsWait
    <3> QED
      BY <2>4, <2>5, <3>1, <3>2
  <2>8. CASE Claim(c)
    <3>1. UNCHANGED <<driverMails, answersLost, claimsLost>> /\ ~HasClaimed(c, d)
      BY <2>8 DEF Claim, MailsWait, HasClaimed
    <3>2. CASE click[c].draft = d /\ status[d] = "pending"
      <4>1. HasClaimed(c, d)' /\ status'[d] = "sent"
        BY <2>6, <2>8, <3>2 DEF Claim, HasClaimed, ClickGoesTo, ClickState
      <4>2. ~BeingSent(d)
        BY <2>5, <3>2
      <4> QED
        BY <2>4, <2>5, <3>1, <3>2, <4>1, <4>2
    <3>3. CASE ~(click[c].draft = d /\ status[d] = "pending")
      <4>1. ~HasClaimed(c, d)' /\ status'[d] = status[d]
        BY <2>6, <2>8, <3>3 DEF Claim, HasClaimed, ClickGoesTo, ClickEnds, IdleClick, ClickState
      <4> QED
        BY <2>4, <2>5, <3>1, <4>1
    <3> QED
      BY <3>2, <3>3
  <2>9. CASE MailDriver(c)
    <3>1. ~HasClaimed(c, d)' /\ UNCHANGED <<status, answersLost, claimsLost>>
      BY <2>6, <2>9 DEF MailDriver, HasClaimed, ClickEnds, IdleClick
    <3>2. CASE click[c].draft = d
      <4>1. HasClaimed(c, d) /\ driverMails'[d] = driverMails[d] + 1
        BY <2>6, <2>9, <3>2 DEF MailDriver, HasClaimed
      <4>2. ~BeingSent(d)' /\ BeingSent(d)
        BY <2>4, <2>5, <3>1, <4>1
      <4>3. status[d] = "sent" /\ driverMails[d] <= answersLost[d]
        BY <2>5, <4>2
      <4> QED
        BY <2>4, <2>6, <3>1, <4>1, <4>2, <4>3
    <3>3. CASE click[c].draft # d
      <4>1. ~HasClaimed(c, d) /\ driverMails'[d] = driverMails[d]
        BY <2>6, <2>9, <3>3, <1>2 DEF MailDriver, HasClaimed
      <4> QED
        BY <2>4, <2>5, <3>1, <4>1
    <3> QED
      BY <3>2, <3>3
  <2>10. CASE MailRefused(c)
    <3>1. HasClaimed(c, d)' <=> HasClaimed(c, d)
      BY <2>6, <2>10 DEF MailRefused, HasClaimed, ClickGoesTo, ClickState
    <3>2. UNCHANGED <<status, driverMails, answersLost, claimsLost>>
      BY <2>10 DEF MailRefused, MailsWait
    <3> QED
      BY <2>4, <2>5, <3>1, <3>2
  <2>11. CASE MailAnswerLost(c)
    <3>1. (HasClaimed(c, d)' <=> HasClaimed(c, d)) /\ UNCHANGED <<status, claimsLost>>
      BY <2>6, <2>11 DEF MailAnswerLost, HasClaimed, ClickGoesTo, ClickState
    <3>2. CASE click[c].draft = d
      <4>1. /\ driverMails'[d] = driverMails[d] + 1
            /\ answersLost'[d] = answersLost[d] + 1
        BY <2>6, <2>11, <3>2 DEF MailAnswerLost
      <4> QED
        BY <2>4, <2>5, <2>6, <3>1, <4>1
    <3>3. CASE click[c].draft # d
      <4>1. driverMails'[d] = driverMails[d] /\ answersLost'[d] = answersLost[d]
        BY <2>6, <2>11, <3>3 DEF MailAnswerLost
      <4> QED
        BY <2>4, <2>5, <3>1, <4>1
    <3> QED
      BY <3>2, <3>3
  <2>12. CASE Revert(c)
    <3>1. ~HasClaimed(c, d)' /\ UNCHANGED <<driverMails, answersLost, claimsLost>>
      BY <2>6, <2>12 DEF Revert, HasClaimed, ClickEnds, IdleClick, MailsWait
    <3>2. CASE click[c].draft = d
      <4>1. HasClaimed(c, d) /\ status'[d] = "pending"
        BY <2>6, <2>12, <3>2 DEF Revert, HasClaimed
      <4>2. ~BeingSent(d)' /\ BeingSent(d)
        BY <2>4, <2>5, <3>1, <4>1
      <4> QED
        BY <2>4, <2>5, <3>1, <4>1, <4>2
    <3>3. CASE click[c].draft # d
      <4>1. ~HasClaimed(c, d) /\ status'[d] = status[d]
        BY <2>6, <2>12, <3>3 DEF Revert, HasClaimed
      <4> QED
        BY <2>4, <2>5, <3>1, <4>1
    <3> QED
      BY <3>2, <3>3
  <2>13. CASE Cancel(c)
    <3>1. ~HasClaimed(c, d) /\ ~HasClaimed(c, d)' /\ UNCHANGED <<driverMails, answersLost, claimsLost>>
      BY <2>6, <2>13 DEF Cancel, HasClaimed, ClickEnds, IdleClick, MailsWait
    <3>2. status'[d] = status[d] \/ (status[d] = "pending" /\ status'[d] = "cancelled")
      BY <2>6, <2>13 DEF Cancel
    <3> QED
      BY <2>4, <2>5, <3>1, <3>2
  <2>14. CASE ClickDies(c)
    <3>1. ~HasClaimed(c, d)' /\ UNCHANGED <<status, driverMails, answersLost>>
      BY <2>6, <2>14 DEF ClickDies, HasClaimed, ClickEnds, IdleClick
    <3>2. HasClaimed(c, d) => d \in claimsLost'
      BY <2>14 DEF ClickDies, HasClaimed
    <3>3. claimsLost \subseteq claimsLost'
      BY <2>14 DEF ClickDies
    <3> QED
      BY <2>4, <2>5, <2>6, <3>1, <3>2, <3>3
  <2>15. CASE ClaimUnanswered(c)
    <3>1. /\ UNCHANGED <<driverMails, answersLost>> /\ claimsLost \subseteq claimsLost'
          /\ ~HasClaimed(c, d) /\ ~HasClaimed(c, d)'
      BY <2>6, <2>15 DEF ClaimUnanswered, HasClaimed, ClickEnds, IdleClick
    <3>2. CASE click[c].draft = d
      <4>1. status[d] = "pending" /\ status'[d] = "sent" /\ d \in claimsLost'
        BY <2>6, <2>15, <3>2 DEF ClaimUnanswered
      <4>2. ~BeingSent(d)'
        BY <2>4, <2>5, <3>1, <4>1
      <4> QED
        BY <2>4, <2>5, <3>1, <4>1, <4>2
    <3>3. CASE click[c].draft # d
      <4>1. status'[d] = status[d]
        BY <2>6, <2>15, <3>3 DEF ClaimUnanswered
      <4> QED
        BY <2>4, <2>5, <3>1, <4>1
    <3> QED
      BY <3>2, <3>3
  <2> QED
    BY <1>2, <2>7, <2>8, <2>9, <2>10, <2>11, <2>12, <2>13, <2>14, <2>15 DEF DraftStep
<1> QED
  BY <1>1, <1>2 DEF DraftNext, DraftStep

\* A draft is mailed once, and what is shown of it is true (POST /actions/:id/send and cancel).
THEOREM DraftSentOnceAlways == DraftSpec => []DraftSentOnce
<1>1. DraftInit => DraftInv
  BY DraftInvInit
<1>2. DraftInv /\ [DraftNext]_draftVars => DraftInv'
  BY DraftInvNext
<1>3. DraftInv => DraftSentOnce
  BY DEF DraftInv
<1> QED
  BY <1>1, <1>2, <1>3, PTL DEF DraftSpec

-----------------------------------------------------------------------------
(* GoogleBudget                                                            *)

LookupState == [pc : {"idle", "month", "clock", "day", "fetch"}, month : Months, day : BudgetDays]

\* A period is a month of the calendar, and the first month is one.
LEMMA Calendar ==
  /\ \A d \in BudgetDays : MonthOf(d) \in Months
  /\ 1 \in Months /\ 1 \in BudgetDays
<1>1. LastDay \in Nat \ {0} /\ DaysAMonth \in Nat \ {0}
  BY BudgetConstants
<1>2. 1 \in BudgetDays
  BY <1>1 DEF BudgetDays
<1>3. 0 \div DaysAMonth = 0
  BY <1>1
<1>4. MonthOf(1) = 1
  BY <1>3 DEF MonthOf
<1> QED
  BY <1>2, <1>4 DEF Months

BudgetStep(c) ==
  AskMonth(c) \/ ReserveMonth(c) \/ AskDay(c) \/ ReserveDay(c) \/ ReserveFails(c) \/ MakeCall(c)

\* A lookup that moves on or ends keeps its type.
LEMMA LookupTypes ==
  ASSUME BudgetTypeOK, NEW c \in Calls, BudgetStep(c)
  PROVE  /\ lookup' \in [Calls -> LookupState]
         /\ \A b \in Calls \ {c} : lookup'[b] = lookup[b]
<1>1. lookup \in [Calls -> LookupState] /\ lookup[c] \in LookupState /\ utcDay \in BudgetDays
  BY DEF BudgetTypeOK, LookupState
<1>2. \A pc \in {"idle", "month", "clock", "day", "fetch"}, d \in BudgetDays :
        /\ [lookup[c] EXCEPT !.pc = pc] \in LookupState
        /\ [lookup[c] EXCEPT !.pc = pc, !.day = d] \in LookupState
        /\ [pc |-> pc, month |-> MonthOf(d), day |-> d] \in LookupState
  BY <1>1, Calendar DEF LookupState
<1>3. IdleLookup \in LookupState
  BY Calendar DEF IdleLookup, LookupState
<1>4. ASSUME NEW s \in LookupState, lookup' = [lookup EXCEPT ![c] = s]
      PROVE  /\ lookup' \in [Calls -> LookupState]
             /\ \A b \in Calls \ {c} : lookup'[b] = lookup[b]
  BY <1>1, <1>4
<1>5. PICK s \in LookupState : lookup' = [lookup EXCEPT ![c] = s]
  <2>1. CASE AskMonth(c)
    BY <1>1, <1>2, <2>1 DEF AskMonth
  <2>2. CASE AskDay(c)
    BY <1>1, <1>2, <2>2 DEF AskDay
  <2>3. CASE LookupEnds(c)
    BY <1>3, <2>3 DEF LookupEnds
  <2>4. CASE \E pc \in {"clock", "fetch"} : LookupGoesTo(c, pc)
    BY <1>1, <1>2, <2>4 DEF LookupGoesTo
  <2> QED
    BY <2>1, <2>2, <2>3, <2>4 DEF BudgetStep, ReserveMonth, ReserveDay, ReserveFails, MakeCall
<1> QED
  BY <1>4, <1>5

LEMMA BudgetTypesInit == BudgetInit => BudgetTypeOK
  BY Calendar DEF BudgetInit, BudgetTypeOK, IdleLookup

LEMMA BudgetTypesNext ==
  ASSUME BudgetTypeOK, [BudgetNext]_budgetVars
  PROVE  BudgetTypeOK'
<1> USE DEF BudgetTypeOK
<1>1. CASE UNCHANGED budgetVars
  BY <1>1 DEF budgetVars
<1>2. CASE BudgetDayPasses
  <2>1. utcDay' \in BudgetDays
    BY <1>2, BudgetConstants DEF BudgetDayPasses, BudgetDays
  <2> QED
    BY <1>2, <2>1 DEF BudgetDayPasses
<1>3. CASE BudgetRestart
  BY <1>3, Calendar DEF BudgetRestart, IdleLookup
<1>4. ASSUME NEW c \in Calls, BudgetStep(c) PROVE BudgetTypeOK'
  <2>1. lookup' \in [Calls -> LookupState]
    BY <1>4, LookupTypes
  <2>2. utcDay' = utcDay
    BY <1>4 DEF BudgetStep, AskMonth, ReserveMonth, AskDay, ReserveDay, ReserveFails, MakeCall
  <2>3. monthCalls' \in [Months -> Nat] /\ dayCalls' \in [BudgetDays -> Nat]
    BY <1>4 DEF BudgetStep, AskMonth, ReserveMonth, AskDay, ReserveDay, ReserveFails, MakeCall
  <2>4. made' \in [Months -> Nat] /\ strays' \in [Months -> Nat]
    BY <1>4, Calendar DEF BudgetStep, AskMonth, ReserveMonth, AskDay, ReserveDay, ReserveFails, MakeCall
  <2> QED
    BY <2>1, <2>2, <2>3, <2>4 DEF LookupState
<1> QED
  BY <1>1, <1>2, <1>3, <1>4 DEF BudgetNext, BudgetStep

\* The callers that hold a call of month m, counted and not made yet.
HoldsCall(c, m) == lookup[c].pc \in {"clock", "day", "fetch"} /\ lookup[c].month = m
Holders(m) == {c \in Calls : HoldsCall(c, m)}

\* Every call counted in a month is made, held or given up.
CountedOrStrayed ==
  \A m \in Months : /\ monthCalls[m] <= MonthCap
                    /\ made[m] + Cardinality(Holders(m)) <= monthCalls[m] + strays[m]

\* Holders come and go one at a time.
LEMMA HoldersFinite == \A m : IsFiniteSet(Holders(m)) /\ Cardinality(Holders(m)) \in Nat
  BY CallConstants, FS_Subset, FS_CardinalityType DEF Holders

LEMMA HolderLeaves ==
  ASSUME NEW m \in Months, NEW c \in Calls,
         \A b \in Calls \ {c} : lookup'[b] = lookup[b], ~HoldsCall(c, m)'
  PROVE  Cardinality(Holders(m))' = Cardinality(Holders(m)) - (IF HoldsCall(c, m) THEN 1 ELSE 0)
<1>1. Holders(m)' = Holders(m) \ {c}
  BY DEF Holders, HoldsCall
<1>2. c \in Holders(m) <=> HoldsCall(c, m)
  BY DEF Holders
<1>3. IsFiniteSet(Holders(m)) /\ Cardinality(Holders(m)) \in Nat
  BY HoldersFinite
<1>4. Cardinality(Holders(m) \ {c}) =
        IF c \in Holders(m) THEN Cardinality(Holders(m)) - 1 ELSE Cardinality(Holders(m))
  BY <1>3, FS_RemoveElement, Zenon
<1> QED
  BY <1>1, <1>2, <1>3, <1>4

LEMMA HolderComes ==
  ASSUME NEW m \in Months, NEW c \in Calls,
         \A b \in Calls \ {c} : lookup'[b] = lookup[b], HoldsCall(c, m)'
  PROVE  Cardinality(Holders(m))' = Cardinality(Holders(m)) + (IF HoldsCall(c, m) THEN 0 ELSE 1)
<1>1. Holders(m)' = Holders(m) \union {c}
  BY DEF Holders, HoldsCall
<1>2. c \in Holders(m) <=> HoldsCall(c, m)
  BY DEF Holders
<1>3. IsFiniteSet(Holders(m)) /\ Cardinality(Holders(m)) \in Nat
  BY HoldersFinite
<1>4. Cardinality(Holders(m) \union {c}) =
        IF c \in Holders(m) THEN Cardinality(Holders(m)) ELSE Cardinality(Holders(m)) + 1
  BY <1>3, FS_AddElement, Zenon
<1> QED
  BY <1>1, <1>2, <1>3, <1>4

BudgetInv == BudgetTypeOK /\ CountedOrStrayed

LEMMA BudgetInvInit == BudgetInit => BudgetInv
<1> SUFFICES ASSUME BudgetInit PROVE BudgetInv
  OBVIOUS
<1>1. BudgetTypeOK
  BY BudgetTypesInit
<1>2. \A m : Holders(m) = {}
  BY DEF BudgetInit, IdleLookup, Holders, HoldsCall
<1>3. Cardinality({}) = 0
  BY FS_EmptySet
<1>4. \A m \in Months : monthCalls[m] = 0 /\ made[m] = 0 /\ strays[m] = 0
  BY DEF BudgetInit
<1> QED
  BY <1>1, <1>2, <1>3, <1>4, BudgetConstants DEF BudgetInv, CountedOrStrayed

LEMMA BudgetInvNext ==
  ASSUME BudgetInv, [BudgetNext]_budgetVars
  PROVE  BudgetInv'
<1>1. BudgetTypeOK /\ BudgetTypeOK'
  BY BudgetTypesNext DEF BudgetInv
<1>2. SUFFICES ASSUME NEW m \in Months
      PROVE  /\ monthCalls'[m] <= MonthCap
             /\ made'[m] + Cardinality(Holders(m))' <= monthCalls'[m] + strays'[m]
  BY <1>1 DEF BudgetInv, CountedOrStrayed
<1>3. /\ monthCalls[m] <= MonthCap
      /\ made[m] + Cardinality(Holders(m)) <= monthCalls[m] + strays[m]
  BY DEF BudgetInv, CountedOrStrayed
<1>4. /\ {monthCalls[m], made[m], strays[m], Cardinality(Holders(m)), MonthCap} \subseteq Nat
      /\ {monthCalls'[m], made'[m], strays'[m]} \subseteq Nat
      /\ monthCalls \in [Months -> Nat] /\ made \in [Months -> Nat] /\ strays \in [Months -> Nat]
  BY <1>1, HoldersFinite, BudgetConstants DEF BudgetTypeOK
<1>5. CASE UNCHANGED budgetVars \/ BudgetDayPasses
  <2>1. UNCHANGED <<monthCalls, made, strays>> /\ Holders(m)' = Holders(m)
    BY <1>5 DEF budgetVars, BudgetDayPasses, Holders, HoldsCall
  <2> QED
    BY <1>3, <2>1
<1>6. CASE BudgetRestart
  <2>1. UNCHANGED <<monthCalls, made, strays>> /\ Holders(m)' = {}
    BY <1>6 DEF BudgetRestart, Holders, HoldsCall, IdleLookup
  <2>2. Cardinality({}) = 0
    BY FS_EmptySet
  <2> QED
    BY <1>3, <1>4, <2>1, <2>2
<1>7. ASSUME NEW c \in Calls, BudgetStep(c)
      PROVE  /\ monthCalls'[m] <= MonthCap
             /\ made'[m] + Cardinality(Holders(m))' <= monthCalls'[m] + strays'[m]
  <2>1. /\ lookup \in [Calls -> LookupState]
        /\ \A b \in Calls \ {c} : lookup'[b] = lookup[b]
    BY <1>1, <1>7, LookupTypes DEF BudgetTypeOK, LookupState
  <2>2. Cardinality(Holders(m))' <= Cardinality(Holders(m))
          \/ (~HoldsCall(c, m) /\ HoldsCall(c, m)' /\ Cardinality(Holders(m))' = Cardinality(Holders(m)) + 1)
    BY <1>4, <2>1, HolderLeaves, HolderComes
  <2>3. Cardinality(Holders(m))' \in Nat
    <3>1. Holders(m)' \in SUBSET Calls
      BY DEF Holders
    <3> QED
      BY <3>1, CallConstants, FS_Subset, FS_CardinalityType
  <2>4. CASE AskMonth(c) \/ AskDay(c) \/ ReserveDay(c) \/ ReserveFails(c)
    <3>1. UNCHANGED <<monthCalls, made, strays>>
      BY <2>4 DEF AskMonth, AskDay, ReserveDay, ReserveFails
    <3>2. ~HoldsCall(c, m) => ~HoldsCall(c, m)'
      BY <2>1, <2>4 DEF AskMonth, AskDay, ReserveDay, ReserveFails, LookupGoesTo, LookupEnds, IdleLookup,
           HoldsCall, LookupState
    <3> QED
      BY <1>3, <1>4, <2>2, <2>3, <3>1, <3>2
  <2>5. CASE ReserveMonth(c)
    <3>1. UNCHANGED <<made, strays>>
      BY <2>5 DEF ReserveMonth
    <3>2. CASE lookup[c].month = m /\ monthCalls[m] < MonthCap
      <4>1. monthCalls'[m] = monthCalls[m] + 1
        BY <1>4, <2>5, <3>2 DEF ReserveMonth
      <4> QED
        BY <1>3, <1>4, <2>2, <2>3, <3>1, <3>2, <4>1
    <3>3. CASE ~(lookup[c].month = m /\ monthCalls[m] < MonthCap)
      <4>1. monthCalls'[m] = monthCalls[m]
        BY <1>4, <2>1, <2>5, <3>3 DEF ReserveMonth, LookupState
      <4>2. ~HoldsCall(c, m)'
        BY <2>1, <2>5, <3>3 DEF ReserveMonth, LookupGoesTo, LookupEnds, IdleLookup, HoldsCall, LookupState
      <4> QED
        BY <1>3, <1>4, <2>2, <2>3, <3>1, <4>1, <4>2
    <3> QED
      BY <3>2, <3>3
  <2>6. CASE MakeCall(c)
    <3>1. ~HoldsCall(c, m)' /\ UNCHANGED monthCalls
      BY <2>1, <2>6 DEF MakeCall, LookupEnds, IdleLookup, HoldsCall
    <3>2. Cardinality(Holders(m))' = Cardinality(Holders(m)) - (IF HoldsCall(c, m) THEN 1 ELSE 0)
      BY <2>1, <3>1, HolderLeaves
    <3>3. CASE MonthOf(utcDay) = m
      <4>1. made'[m] = made[m] + 1
        BY <1>4, <2>6, <3>3 DEF MakeCall
      <4>2. strays'[m] = (IF lookup[c].month = m THEN strays[m] ELSE strays[m] + 1)
        BY <1>4, <2>6, <3>3 DEF MakeCall
      <4>3. lookup[c].month = m => HoldsCall(c, m)
        BY <2>6 DEF MakeCall, HoldsCall
      <4> QED
        BY <1>3, <1>4, <3>1, <3>2, <4>1, <4>2, <4>3
    <3>4. CASE MonthOf(utcDay) # m
      <4>1. made'[m] = made[m] /\ strays'[m] = strays[m]
        BY <1>4, <2>6, <3>4 DEF MakeCall
      <4> QED
        BY <1>3, <1>4, <3>1, <3>2, <4>1
    <3> QED
      BY <3>3, <3>4
  <2> QED
    BY <1>7, <2>4, <2>5, <2>6 DEF BudgetStep
<1> QED
  BY <1>5, <1>6, <1>7 DEF BudgetNext, BudgetStep

\* However many callers race at the caps, no month is billed for more calls than were counted in it,
\* but for those counted before it turned (chargeGoogleCall, fetchJson).
THEOREM BilledWithinCapAlways == BudgetSpec => []BilledWithinCap
<1>1. BudgetInit => BudgetInv
  BY BudgetInvInit
<1>2. BudgetInv /\ [BudgetNext]_budgetVars => BudgetInv'
  BY BudgetInvNext
<1>3. BudgetInv => BilledWithinCap
  <2> SUFFICES ASSUME BudgetInv, NEW m \in Months
      PROVE monthCalls[m] <= MonthCap /\ made[m] <= monthCalls[m] + strays[m]
    BY DEF BilledWithinCap
  <2> QED
    BY HoldersFinite DEF BudgetInv, BudgetTypeOK, CountedOrStrayed
<1> QED
  BY <1>1, <1>2, <1>3, PTL DEF BudgetSpec

=============================================================================
