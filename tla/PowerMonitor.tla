------------------------------ MODULE PowerMonitor ------------------------------
(***************************************************************************)
(* Loss of main power of one tracker: handlePowerForRecord of              *)
(* power-monitor.service.ts, which reads the voltage in every record and   *)
(* keeps its verdict in memory only, and recordDeviceEvent and             *)
(* resolveClosedAlert of device-event-decoder.service.ts, through which it *)
(* and the AVL 252 scenario raise and close the alerts.  Jamming (AVL 249) *)
(* goes through the same two functions with one kind of alert.             *)
(*                                                                         *)
(* A job is what one record asks of this code: a voltage reading or an     *)
(* AVL 252 event; a record with both is two jobs.  A voltage is ok, or low *)
(* with the vehicle still or moving: a record without AVL 66 is no job.    *)
(* The row of device_events, which nothing reads back, is left out.        *)
(***************************************************************************)
EXTENDS CallsInFlight

CONSTANTS PowerEnd,       \* bound: readings carry times 1..PowerEnd, in any order
          LowFrames,      \* CONSECUTIVE_LOW_FRAMES
          SustainedLow    \* SUSTAINED_LOW_SECONDS, in steps of that time

ASSUME PowerConstants == PowerEnd \in Nat \ {0} /\ {LowFrames, SustainedLow} \subseteq Nat

VARIABLES
  power,       \* the entry of the Map state: [known, unplugged, streak, since, moved]
  powerJob,    \* jobs under way: [Calls -> [pc, kind, reading, seed]]
  lossAlert,   \* open alerts of this vehicle, per kind of loss
  powerRaced,  \* history: two jobs were past their decision at once, or the state was seeded twice
  powerUpset   \* history: a write failed or died with the server, or an alert came or went otherwise

powerVars == <<power, powerJob, lossAlert, powerRaced, powerUpset>>

Losses == {"unplug", "dropout"}
PowerReadings == [v : {"ok", "still", "moving"}, at : 1..PowerEnd]
NoPowerReading == [v |-> "ok", at |-> 1]
IdlePowerJob == [pc |-> "idle", kind |-> "none", reading |-> NoPowerReading, seed |-> FALSE]

PoweredState == [known |-> TRUE, unplugged |-> FALSE, streak |-> 0, since |-> 0, moved |-> FALSE]
UnknownPower == [known |-> FALSE, unplugged |-> FALSE, streak |-> 0, since |-> 0, moved |-> FALSE]

PowerTypeOK ==
  /\ power \in [known : BOOLEAN, unplugged : BOOLEAN, streak : 0..LowFrames,
                since : 0..PowerEnd, moved : BOOLEAN]
  /\ powerJob \in [Calls -> [pc : {"idle", "load", "seed", "insert", "raise", "close"},
                             kind : Losses \union {"restored", "none"},
                             reading : PowerReadings, seed : BOOLEAN]]
  /\ \A f \in Calls : /\ powerJob[f].pc = "insert" => powerJob[f].kind # "none"
                      /\ powerJob[f].pc = "raise" => powerJob[f].kind \in Losses
  /\ lossAlert \in [Losses -> 0..2]
  /\ powerRaced \in BOOLEAN /\ powerUpset \in BOOLEAN

PowerInit ==
  /\ power = UnknownPower
  /\ powerJob = [f \in Calls |-> IdlePowerJob]
  /\ lossAlert = [k \in Losses |-> 0]
  /\ powerRaced = FALSE /\ powerUpset = FALSE

WritesPower(f) == powerJob[f].pc \in {"insert", "raise", "close"}
AnotherWritesPower(f) == \E g \in Calls \ {f} : WritesPower(g)

\* decidePowerTransition, the state after: streak counts to the number that matters.
AfterLow(before, r) ==
  [before EXCEPT !.streak = IF @ < LowFrames THEN @ + 1 ELSE @,
                 !.since = IF @ = 0 THEN r.at ELSE @,
                 !.moved = @ \/ r.v = "moving"]

LowLongEnough(s, r) == s.streak >= LowFrames /\ r.at >= s.since + SustainedLow

PowerTransition(before, r) ==
  IF r.v = "ok" THEN IF before.unplugged THEN "restored" ELSE "none"
  ELSE LET s == AfterLow(before, r) IN
       IF before.unplugged \/ ~LowLongEnough(s, r) THEN "none"
       ELSE IF s.moved THEN "dropout" ELSE "unplug"

PowerStateAfter(before, r) ==
  IF r.v = "ok" THEN PoweredState
  ELSE [AfterLow(before, r) EXCEPT !.unplugged = @ \/ PowerTransition(before, r) # "none"]

\* recordDeviceEvent is entered with this event, up to its first await.
ReportPower(f, kind) ==
  /\ powerJob' = [powerJob EXCEPT ![f] =
                    IF kind = "none" THEN IdlePowerJob
                    ELSE [IdlePowerJob EXCEPT !.pc = "insert", !.kind = kind]]
  /\ powerRaced' = (powerRaced \/ (kind # "none" /\ AnotherWritesPower(f)))

\* A reading meets the state: it is replaced before the transition is written.
DecidePower(f, before, r) ==
  /\ power' = PowerStateAfter(before, r)
  /\ ReportPower(f, PowerTransition(before, r))

\* handlePowerForRecord with the state in memory runs to its insert: loadState answers at once.
ReadPower(f) ==
  /\ powerJob[f].pc = "idle" /\ power.known
  /\ \E r \in PowerReadings : DecidePower(f, power, r)
  /\ UNCHANGED <<lossAlert, powerUpset>>

\* loadState: the first reading after a start asks for an open alert.
LoadPower(f) ==
  /\ powerJob[f].pc = "idle" /\ ~power.known
  /\ \E r \in PowerReadings :
       powerJob' = [powerJob EXCEPT ![f] = [IdlePowerJob EXCEPT !.pc = "load", !.reading = r]]
  /\ UNCHANGED <<power, lossAlert, powerRaced, powerUpset>>

\* hasOpenUnplugAlert is evaluated in the database.
AnyLossOpen == \E k \in Losses : lossAlert[k] > 0

\* Mutant: only an unplug alert is looked for.
PowerSeedRead_UnplugOnly(f) ==
  /\ powerJob[f].pc = "load"
  /\ powerJob' = [powerJob EXCEPT ![f].pc = "seed", ![f].seed = lossAlert["unplug"] > 0]
  /\ UNCHANGED <<power, lossAlert, powerRaced, powerUpset>>

PowerSeedRead(f) ==
  /\ powerJob[f].pc = "load"
  /\ powerJob' = [powerJob EXCEPT ![f].pc = "seed", ![f].seed = AnyLossOpen]
  /\ UNCHANGED <<power, lossAlert, powerRaced, powerUpset>>

\* Its answer replaces whatever the Map holds by now.
PowerSeeded(f) ==
  /\ powerJob[f].pc = "seed"
  /\ LET r == powerJob[f].reading
         seeded == [PoweredState EXCEPT !.unplugged = powerJob[f].seed]
     IN /\ power' = PowerStateAfter(seeded, r)
        /\ powerJob' = [powerJob EXCEPT ![f] =
             IF PowerTransition(seeded, r) = "none" THEN IdlePowerJob
             ELSE [IdlePowerJob EXCEPT !.pc = "insert", !.kind = PowerTransition(seeded, r)]]
        /\ powerRaced' = (powerRaced \/ power.known
                            \/ (PowerTransition(seeded, r) # "none" /\ AnotherWritesPower(f)))
  /\ UNCHANGED <<lossAlert, powerUpset>>

\* An AVL 252 event, on or off, after the detectors of its record.
ScenarioEvent(f) ==
  /\ powerJob[f].pc = "idle"
  /\ \E kind \in {"unplug", "restored"} : ReportPower(f, kind)
  /\ powerUpset' = TRUE
  /\ UNCHANGED <<power, lossAlert>>

\* Mutant: an event without an alert message is not told apart.
CheckOpenLoss_AnyEvent(f) ==
  /\ powerJob[f].pc = "insert"
  /\ powerJob' = [powerJob EXCEPT ![f] = IF AnyLossOpen THEN IdlePowerJob ELSE [@ EXCEPT !.pc = "raise"]]
  /\ UNCHANGED <<power, lossAlert, powerRaced, powerUpset>>

\* Mutant: the open alert is not looked for.
CheckOpenLoss_Blind(f) ==
  /\ powerJob[f].pc = "insert"
  /\ LET k == powerJob[f].kind IN
     powerJob' = [powerJob EXCEPT ![f].pc = IF k = "restored" THEN "close" ELSE "raise"]
  /\ UNCHANGED <<power, lossAlert, powerRaced, powerUpset>>

\* recordDeviceEvent after its insert: a restoration has no alert of its own, a loss is
\* dropped if an alert of its kind is open.
CheckOpenLoss(f) ==
  /\ powerJob[f].pc = "insert"
  /\ LET k == powerJob[f].kind IN
     powerJob' = [powerJob EXCEPT ![f] =
       IF k = "restored" THEN [@ EXCEPT !.pc = "close"]
       ELSE IF lossAlert[k] > 0 THEN IdlePowerJob ELSE [@ EXCEPT !.pc = "raise"]]
  /\ UNCHANGED <<power, lossAlert, powerRaced, powerUpset>>

RaiseLoss(f) ==
  /\ powerJob[f].pc = "raise"
  /\ lossAlert' = [lossAlert EXCEPT ![powerJob[f].kind] = Capped(@ + 1)]
  /\ powerJob' = [powerJob EXCEPT ![f] = IdlePowerJob]
  /\ UNCHANGED <<power, powerRaced, powerUpset>>

\* resolveClosedAlert: power that comes back closes both kinds.
CloseLosses(f) ==
  /\ powerJob[f].pc = "close"
  /\ lossAlert' = [k \in Losses |-> 0]
  /\ powerJob' = [powerJob EXCEPT ![f] = IdlePowerJob]
  /\ UNCHANGED <<power, powerRaced, powerUpset>>

\* A database call fails.  Once the state has been replaced nobody retries what it stands for.
PowerFails(f) ==
  /\ powerJob[f].pc \notin {"idle", "seed"}
  /\ powerUpset' = (powerUpset \/ WritesPower(f))
  /\ powerJob' = [powerJob EXCEPT ![f] = IdlePowerJob]
  /\ UNCHANGED <<power, lossAlert, powerRaced>>

\* A manager closes the alerts of a kind.
LossDismissed ==
  /\ \E k \in Losses : lossAlert[k] > 0 /\ lossAlert' = [lossAlert EXCEPT ![k] = 0]
  /\ powerUpset' = TRUE
  /\ UNCHANGED <<power, powerJob, powerRaced>>

\* The Map starts empty again.
PowerRestart ==
  /\ power.known
  /\ power' = UnknownPower
  /\ powerJob' = [f \in Calls |-> IdlePowerJob]
  /\ powerUpset' = (powerUpset \/ \E f \in Calls : WritesPower(f))
  /\ UNCHANGED <<lossAlert, powerRaced>>

PowerNext ==
  \/ \E f \in Calls : \/ ReadPower(f) \/ LoadPower(f) \/ PowerSeedRead(f) \/ PowerSeeded(f)
                      \/ ScenarioEvent(f) \/ CheckOpenLoss(f) \/ RaiseLoss(f) \/ CloseLosses(f)
                      \/ PowerFails(f)
  \/ LossDismissed
  \/ PowerRestart

PowerSpec == PowerInit /\ [][PowerNext]_powerVars

\* However readings and scenario events interleave, and across restarts, failures and
\* dismissals, at most one alert of a kind is open, unless two jobs wrote at once
\* (hasOpenAlert, then the insert).
PowerAlertOnce == ~powerRaced => \A k \in Losses : lossAlert[k] <= 1

\* With nothing being written, what the monitor believes is what the manager is shown: an alert
\* is open exactly while the tracker is held to be unplugged.  A restart in between does not
\* change that, because the state is seeded from the alerts.
LossIsTold ==
  power.known /\ ~powerRaced /\ ~powerUpset /\ (\A f \in Calls : ~WritesPower(f))
    => (power.unplugged <=> AnyLossOpen)

=============================================================================
