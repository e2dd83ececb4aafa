----------------------------- MODULE OfflineWatchdog -----------------------------
(***************************************************************************)
(* The alert for a tracker that has gone quiet: sweepDeviceOffline of      *)
(* device-offline-watchdog.service.ts, which runs on an interval and at    *)
(* start, for one vehicle with one tracker.  A sweep selects the vehicles  *)
(* to speak of, raises an alert for each, then closes those whose tracker  *)
(* is heard again.                                                         *)
(*                                                                         *)
(* Time is kept as ages that stop growing once they pass what the queries  *)
(* compare them with, so it needs no bound.  The mail, sent between the    *)
(* two halves of a sweep, only makes it longer.                            *)
(***************************************************************************)
EXTENDS CallsInFlight

CONSTANTS Quiet,       \* the threshold in minutes, in steps of the clock
          Realert      \* REALERT_AFTER_HOURS

ASSUME WatchdogConstants == {Quiet, Realert} \subseteq Nat \ {0}

VARIABLES
  silence,      \* age of devices.last_seen_at
  sinceAlert,   \* age of the youngest device_offline alert
  offline,      \* open device_offline alerts
  sweep,        \* calls of sweepDeviceOffline: what each does next
  losses,       \* failed queries, restarts and dismissals so far, at most MaxLosses
  sweepRaced    \* history: two sweeps were about to raise at once

watchdogVars == <<silence, sinceAlert, offline, sweep, losses, sweepRaced>>

WatchdogTypeOK ==
  /\ silence \in 0..(Quiet + 1) /\ sinceAlert \in 0..Realert
  /\ offline \in 0..2
  /\ sweep \in [Calls -> {"idle", "raise", "resolve"}]
  /\ losses \in 0..MaxLosses /\ sweepRaced \in BOOLEAN

WatchdogInit ==
  /\ silence = 0 /\ sinceAlert = Realert
  /\ offline = 0
  /\ sweep = [w \in Calls |-> "idle"]
  /\ losses = 0 /\ sweepRaced = FALSE

SweepGoesTo(w, step) == sweep' = [sweep EXCEPT ![w] = step]
OneMoreLoss == losses < MaxLosses /\ losses' = losses + 1

\* A record of the tracker has been handled.
TrackerSeen ==
  /\ silence' = 0
  /\ UNCHANGED <<sinceAlert, offline, sweep, losses, sweepRaced>>

WatchdogTick ==
  /\ silence' = IF silence <= Quiet THEN silence + 1 ELSE silence
  /\ sinceAlert' = IF sinceAlert < Realert THEN sinceAlert + 1 ELSE sinceAlert
  /\ UNCHANGED <<offline, sweep, losses, sweepRaced>>

\* Mutant: as before the re-alert window, only an open alert counts.
AlreadyAlerted_OpenOnly == offline > 0

\* alreadyAlertedGuard.
AlreadyAlerted == offline > 0 \/ sinceAlert < Realert

\* Mutant: a sweep that has nothing to raise returns.
SelectStale_Returns(w) ==
  /\ sweep[w] = "idle"
  /\ silence > Quiet /\ ~AlreadyAlerted
  /\ SweepGoesTo(w, "raise")
  /\ sweepRaced' = (sweepRaced \/ \E x \in Calls \ {w} : sweep[x] = "raise")
  /\ UNCHANGED <<silence, sinceAlert, offline, losses>>

\* raiseOfflineAlerts: the rows to speak of.
SelectStale(w) ==
  /\ sweep[w] = "idle"
  /\ LET stale == silence > Quiet /\ ~AlreadyAlerted IN
     /\ SweepGoesTo(w, IF stale THEN "raise" ELSE "resolve")
     /\ sweepRaced' = (sweepRaced \/ (stale /\ \E x \in Calls \ {w} : sweep[x] = "raise"))
  /\ UNCHANGED <<silence, sinceAlert, offline, losses>>

RaiseOffline(w) ==
  /\ sweep[w] = "raise"
  /\ offline' = Capped(offline + 1) /\ sinceAlert' = 0
  /\ SweepGoesTo(w, "resolve")
  /\ UNCHANGED <<silence, losses, sweepRaced>>

\* A failed insert is logged and the sweep goes on.
RaiseOfflineFails(w) ==
  /\ sweep[w] = "raise"
  /\ OneMoreLoss
  /\ SweepGoesTo(w, "resolve")
  /\ UNCHANGED <<silence, sinceAlert, offline, sweepRaced>>

\* resolveRecoveredAlerts.
ResolveRecovered(w) ==
  /\ sweep[w] = "resolve"
  /\ offline' = IF silence < Quiet THEN 0 ELSE offline
  /\ SweepGoesTo(w, "idle")
  /\ UNCHANGED <<silence, sinceAlert, losses, sweepRaced>>

\* A failed query ends the sweep; the next one comes with the timer.
SweepFails(w) ==
  /\ sweep[w] # "idle"
  /\ OneMoreLoss
  /\ SweepGoesTo(w, "idle")
  /\ UNCHANGED <<silence, sinceAlert, offline, sweepRaced>>

OfflineDismissed ==
  /\ offline > 0 /\ offline' = 0
  /\ OneMoreLoss
  /\ UNCHANGED <<silence, sinceAlert, sweep, sweepRaced>>

WatchdogRestart ==
  /\ OneMoreLoss
  /\ sweep' = [w \in Calls |-> "idle"]
  /\ UNCHANGED <<silence, sinceAlert, offline, sweepRaced>>

SweepStep(w) == SelectStale(w) \/ RaiseOffline(w) \/ ResolveRecovered(w)

WatchdogNext ==
  \/ TrackerSeen
  \/ WatchdogTick
  \/ \E w \in Calls : SweepStep(w) \/ RaiseOfflineFails(w) \/ SweepFails(w)
  \/ OfflineDismissed
  \/ WatchdogRestart

WatchdogSpec == WatchdogInit /\ [][WatchdogNext]_watchdogVars

\* Time passes and the interval timer keeps sweeping; whether the tracker reports is up to it.
WatchdogFairSpec ==
  WatchdogSpec /\ WF_watchdogVars(WatchdogTick)
               /\ \A w \in Calls : WF_watchdogVars(SweepStep(w))

\* At most one alert a day: none is raised within the re-alert window of the one before, however
\* often the tracker comes and goes, alerts are dismissed or the server restarts, unless two
\* sweeps overlap.
OutageOncePerDay ==
  [][offline' > offline /\ ~sweepRaced => sinceAlert >= Realert]_watchdogVars

\* The list of open alerts ends up telling the truth: a tracker that stays quiet is shown as
\* offline again and again, one that stays in touch is shown as offline no more.
OutageSettles ==
  /\ <>[](silence > Quiet) => []<>(offline > 0)
  /\ <>[](silence < Quiet) => <>[](offline = 0)

=============================================================================
