------------------------------ MODULE IdleDetector ------------------------------
(***************************************************************************)
(* Idling of one vehicle: stepIdle and handleIdleForRecord of              *)
(* idle-detector.service.ts.  The pure step says what a reading makes of a *)
(* stretch of idling; the handler alerts when the idling it has observed   *)
(* passes the threshold, and stores the new stretch only after the alert   *)
(* is in.                                                                  *)
(*                                                                         *)
(* A reading is still, drifting (between the idle floor and the speed that *)
(* confirms a movement), driving, or with the ignition off.  The state is  *)
(* a DetectorState, taken as the cell of module DetectorCell.  The idling  *)
(* events, which are built from the same sums, are left out.               *)
(***************************************************************************)
EXTENDS CallsInFlight

CONSTANTS IdleEnd,      \* bound: readings carry times 1..IdleEnd
          MaxIdleGap,   \* MAX_IDLE_GAP_MS, in steps of that time
          MoveConfirm,  \* MOVE_CONFIRM_MS
          IdleAlert     \* IDLE_ALERT_MINUTES

ASSUME IdleConstants == {IdleEnd, MaxIdleGap, MoveConfirm, IdleAlert} \subseteq Nat \ {0}

VARIABLES
  stretch,    \* stateByImei: [on, seen, observed, alerted, pending], on = FALSE for null
  idleJob,    \* records whose alert is under way: [Calls -> [pc, next]]
  lastFrame,  \* history: the youngest record, and whether it is one of two drifting in a row
  witnessed,  \* history: time with the engine on and not driving, a silence counted to the cap
  idleTold,   \* history: alerts since the vehicle was last seen to leave, or was not seen
  idleUpset   \* history: see Disturbed

idleVars == <<stretch, idleJob, lastFrame, witnessed, idleTold, idleUpset>>

Kinds == {"still", "drift", "drive", "off"}
NoStretch == [on |-> FALSE, seen |-> 0, observed |-> 0, alerted |-> FALSE, pending |-> 0]
IdleIdleJob == [pc |-> "idle", next |-> NoStretch]
Stretches == [on : BOOLEAN, seen : 0..IdleEnd, observed : 0..IdleEnd, alerted : BOOLEAN,
              pending : 0..IdleEnd]

IdleTypeOK ==
  /\ stretch \in Stretches
  /\ idleJob \in [Calls -> [pc : {"idle", "got", "alert", "store"}, next : Stretches]]
  /\ lastFrame \in [at : 0..IdleEnd, kind : Kinds, twice : BOOLEAN]
  /\ witnessed \in 0..IdleEnd /\ idleTold \in 0..2 /\ idleUpset \in BOOLEAN

IdleInit ==
  /\ stretch = NoStretch
  /\ idleJob = [f \in Calls |-> IdleIdleJob]
  /\ lastFrame = [at |-> 0, kind |-> "off", twice |-> FALSE]
  /\ witnessed = 0 /\ idleTold = 0 /\ idleUpset = FALSE

BeginStretch(at) == [NoStretch EXCEPT !.on = TRUE, !.seen = at]
Gap(since, at) == IF at > since THEN at - since ELSE 0
CappedGap(since, at) == IF Gap(since, at) > MaxIdleGap THEN MaxIdleGap ELSE Gap(since, at)

StepStill(s, at) ==
  CASE ~s.on -> BeginStretch(at)
    [] s.on /\ s.pending # 0 -> [s EXCEPT !.pending = 0, !.seen = at]
    [] s.on /\ s.pending = 0 /\ Gap(s.seen, at) > MaxIdleGap -> BeginStretch(at)
    [] OTHER -> [s EXCEPT !.seen = at, !.observed = @ + Gap(s.seen, at)]

\* Mutant: as before the confirm speed, any movement closes the stretch.
StepDrift_Closes(s, at) == [s EXCEPT !.on = FALSE, !.observed = @ + CappedGap(s.seen, at)]

\* A wobble holds the stretch open; if it lasts it closes it.
StepDrift(s, at) ==
  CASE s.pending = 0 -> [s EXCEPT !.pending = at, !.seen = at, !.observed = @ + CappedGap(s.seen, at)]
    [] s.pending # 0 /\ at < s.pending + MoveConfirm -> s
    [] OTHER -> [s EXCEPT !.on = FALSE]

\* Mutant: as before observed time, the last hop counts whole.
StepLeaves_Uncapped(s, at) == [s EXCEPT !.on = FALSE, !.observed = @ + Gap(s.seen, at)]

\* Engine off or really moving: the last hop counts up to the cap.
StepLeaves(s, at) == [s EXCEPT !.on = FALSE, !.observed = @ + CappedGap(s.seen, at)]

\* stepIdle: the stretch after a reading; one that has ended keeps what was observed of it.
StepIdle(s, kind, at) ==
  CASE kind = "still" -> StepStill(s, at)
    [] kind # "still" /\ ~s.on -> NoStretch
    [] kind = "drift" /\ s.on -> StepDrift(s, at)
    [] OTHER -> StepLeaves(s, at)

\* A stretch is reported when what was observed of it passes the threshold, live or at its end.
IsLong(s) == ~s.alerted /\ s.observed >= IdleAlert

StoreStretch(s) == stretch' = IF s.on THEN s ELSE NoStretch

\* What a record adds to the histories.
Note(kind, at) ==
  LET left == lastFrame.kind \in {"drive", "off"}
      hop == CappedGap(lastFrame.at, at)
  IN /\ lastFrame' = [at |-> IF at > lastFrame.at THEN at ELSE lastFrame.at, kind |-> kind,
                      twice |-> kind = "drift" /\ lastFrame.kind = "drift"]
     /\ witnessed' = IF left THEN 0 ELSE witnessed + hop
     /\ idleTold' = IF left \/ lastFrame.twice \/ Gap(lastFrame.at, at) > MaxIdleGap
                    THEN 0 ELSE idleTold

\* What the properties do not survive: a record handled while another is (both may take the
\* stretch for unalerted), and one older than the last (time is counted twice).
Disturbed(at) == at < lastFrame.at \/ \E f \in Calls : idleJob[f].pc # "idle"

\* handleIdleForRecord is given the state: what the record makes of it is settled.  Bound: nothing
\* is followed, as nothing is claimed, once the histories are upset.
IdleRecord(f) ==
  /\ idleJob[f].pc = "idle" /\ ~idleUpset
  /\ \E kind \in Kinds, at \in 1..IdleEnd :
       /\ Note(kind, at)
       /\ idleUpset' = Disturbed(at)
       /\ idleJob' = [idleJob EXCEPT ![f] = [pc |-> "got", next |-> StepIdle(stretch, kind, at)]]
  /\ UNCHANGED stretch

\* It goes on: a long stretch is reported first, any other stored at once.
IdleStepped(f) ==
  /\ idleJob[f].pc = "got"
  /\ IF IsLong(idleJob[f].next)
     THEN idleJob' = [idleJob EXCEPT ![f].pc = "alert"] /\ UNCHANGED stretch
     ELSE idleJob' = [idleJob EXCEPT ![f] = IdleIdleJob] /\ StoreStretch(idleJob[f].next)
  /\ UNCHANGED <<lastFrame, witnessed, idleTold, idleUpset>>

\* raiseIdleAlert.
RaiseIdle(f) ==
  /\ idleJob[f].pc = "alert"
  /\ idleTold' = Capped(idleTold + 1)
  /\ idleJob' = [idleJob EXCEPT ![f].pc = "store", ![f].next.alerted = TRUE]
  /\ UNCHANGED <<stretch, lastFrame, witnessed, idleUpset>>

StoreIdle(f) ==
  /\ idleJob[f].pc = "store"
  /\ StoreStretch(idleJob[f].next)
  /\ idleJob' = [idleJob EXCEPT ![f] = IdleIdleJob]
  /\ UNCHANGED <<lastFrame, witnessed, idleTold, idleUpset>>

\* The alert fails and with it the handler, before the new stretch is stored: the next record
\* steps from the old one and tries again.  An ended stretch is then still there as well.
RaiseIdleFails(f) ==
  /\ idleJob[f].pc = "alert"
  /\ idleJob' = [idleJob EXCEPT ![f] = IdleIdleJob]
  /\ idleUpset' = (idleUpset \/ ~idleJob[f].next.on)
  /\ UNCHANGED <<stretch, lastFrame, witnessed, idleTold>>

\* The stretch is found again or forgotten.  A record that was being handled is lost, and an alert
\* that was in but not marked is repeated.
IdleRestart ==
  /\ idleJob' = [f \in Calls |-> IdleIdleJob]
  /\ idleUpset' = (idleUpset \/ \E f \in Calls : idleJob[f].pc # "idle")
  /\ \/ UNCHANGED <<stretch, idleTold>>
     \/ stretch' = NoStretch /\ idleTold' = 0
  /\ UNCHANGED <<lastFrame, witnessed>>

IdleNext ==
  \/ \E f \in Calls : \/ IdleRecord(f) \/ IdleStepped(f) \/ RaiseIdle(f) \/ StoreIdle(f)
                      \/ RaiseIdleFails(f)
  \/ IdleRestart

IdleSpec == IdleInit /\ [][IdleNext]_idleVars

\* One alert while the vehicle stands: as long as it is seen often enough and not driving, with
\* single readings of drift in between, one alert is raised however often the alert has to be
\* tried and whether or not the server restarts between records.
IdleAlertOnce == ~idleUpset => idleTold <= 1

\* No invented idling: what an alert reports was seen, each silence counted only up to the cap.
IdleWasObserved ==
  ~idleUpset => \A f \in Calls : idleJob[f].pc # "idle" => idleJob[f].next.observed <= witnessed

=============================================================================
