------------------------------ MODULE TripNotifier ------------------------------
(***************************************************************************)
(* Trip starts and ends of one vehicle: handleIgnitionForTripStart and     *)
(* closeTripStartAlert of trip-notifier.service.ts, called for every       *)
(* record by saveTelemetry.  An ignition edge that the remembered state    *)
(* shows is announced, unless the alerts table shows a start that is open  *)
(* or younger than the debounce; ignition off closes the start and raises  *)
(* the end.                                                                *)
(*                                                                         *)
(* The remembered state is a DetectorState, taken here as the cell of      *)
(* module DetectorCell: a restart finds it or does not.  What a record     *)
(* makes of the state it was given is worked out when it is given it, and  *)
(* stored when the handler goes on.  The row of device_events and the mail *)
(* are left out.                                                           *)
(***************************************************************************)
EXTENDS CallsInFlight

CONSTANTS TripEnd,   \* bound: the clock stops here
          Debounce   \* TRIP_START_DEBOUNCE_MS in steps of the clock

ASSUME TripConstants == TripEnd \in Nat \ {0} /\ Debounce \in Nat \ {0}

VARIABLES
  tripNow,    \* the database's clock
  trip,       \* stateByImei: [ign, last], last = 0 for null
  tripJob,    \* records being handled: [Calls -> [pc, after, edge, recent]]
  starts,     \* open trip_start alerts
  ends,       \* open trip_end alerts
  lastStart,  \* created_at of the youngest trip_start, 0 for none
  tripRaced   \* history: two records were past their decision at once

tripVars == <<tripNow, trip, tripJob, starts, ends, lastStart, tripRaced>>

TripStates == [ign : {"unknown", "off", "on"}, last : 0..TripEnd]
UnknownTrip == [ign |-> "unknown", last |-> 0]
IdleTripJob == [pc |-> "idle", after |-> UnknownTrip, edge |-> FALSE, recent |-> FALSE]

TripTypeOK ==
  /\ tripNow \in 1..TripEnd /\ lastStart \in 0..TripEnd
  /\ trip \in TripStates
  /\ tripJob \in [Calls -> [pc : {"idle", "got", "check", "supersede", "raise", "close", "end"},
                            after : TripStates, edge : BOOLEAN, recent : BOOLEAN]]
  /\ starts \in 0..2 /\ ends \in 0..2
  /\ tripRaced \in BOOLEAN

TripInit ==
  /\ tripNow = 1 /\ lastStart = 0
  /\ trip = UnknownTrip
  /\ tripJob = [f \in Calls |-> IdleTripJob]
  /\ starts = 0 /\ ends = 0
  /\ tripRaced = FALSE

AlertsWait == UNCHANGED <<starts, ends, lastStart>>
WritesTrip(f) == tripJob[f].pc \notin {"idle", "got"}
GoesTo(f, pc) == tripJob' = [tripJob EXCEPT ![f].pc = pc]
TripJobEnds(f) == tripJob' = [tripJob EXCEPT ![f] = IdleTripJob]

\* A start is announced on an off-to-on edge outside the debounce of the last one remembered.
IsStart(prior, on, at) ==
  on /\ prior.ign = "off" /\ (prior.last = 0 \/ at >= prior.last + Debounce)

\* handleIgnitionForTripStart is given the state; the record may be late.
TripRecord(f) ==
  /\ tripJob[f].pc = "idle"
  /\ \E on \in BOOLEAN, at \in 1..tripNow :
       LET edge == IsStart(trip, on, at) IN
       tripJob' = [tripJob EXCEPT ![f] =
         [IdleTripJob EXCEPT !.pc = "got", !.edge = edge,
                             !.after = [ign |-> IF on THEN "on" ELSE "off",
                                        last |-> IF edge THEN at ELSE trip.last]]]
  /\ AlertsWait /\ UNCHANGED <<tripNow, trip, tripRaced>>

\* It stores the new state and goes on to announce, or to close the trip, or is done.
TripDecided(f) ==
  LET job == tripJob[f]
      next == IF job.edge THEN "check" ELSE IF job.after.ign = "off" THEN "close" ELSE "idle"
  IN /\ job.pc = "got"
     /\ trip' = job.after
     /\ tripJob' = [tripJob EXCEPT ![f] = [IdleTripJob EXCEPT !.pc = next]]
     /\ tripRaced' = (tripRaced \/ (next # "idle" /\ \E g \in Calls \ {f} : WritesTrip(g)))
     /\ AlertsWait /\ UNCHANGED tripNow

\* Mutant: as before the recency guard, only an open start counts.
RecentStart_OpenOnly == starts > 0

\* A start that is open, or was raised within the debounce whether resolved or not.
RecentStart == starts > 0 \/ (lastStart # 0 /\ lastStart + Debounce > tripNow)

CheckStart(f) ==
  /\ tripJob[f].pc = "check"
  /\ tripJob' = [tripJob EXCEPT ![f].pc = "supersede", ![f].recent = RecentStart]
  /\ AlertsWait /\ UNCHANGED <<tripNow, trip, tripRaced>>

\* Mutant: the open end is left to the retention sweep.
SupersedeEnd_Not(f) ==
  /\ tripJob[f].pc = "supersede"
  /\ IF tripJob[f].recent THEN TripJobEnds(f) ELSE GoesTo(f, "raise")
  /\ AlertsWait /\ UNCHANGED <<tripNow, trip, tripRaced>>

\* A new start closes the last end, announced or not.
SupersedeEnd(f) ==
  /\ tripJob[f].pc = "supersede"
  /\ ends' = 0
  /\ IF tripJob[f].recent THEN TripJobEnds(f) ELSE GoesTo(f, "raise")
  /\ UNCHANGED <<tripNow, trip, starts, lastStart, tripRaced>>

RaiseStart(f) ==
  /\ tripJob[f].pc = "raise"
  /\ starts' = Capped(starts + 1) /\ lastStart' = tripNow
  /\ TripJobEnds(f)
  /\ UNCHANGED <<tripNow, trip, ends, tripRaced>>

\* closeTripStartAlert: an end is raised only if a start was open.
CloseStart(f) ==
  /\ tripJob[f].pc = "close"
  /\ starts' = 0
  /\ IF starts > 0 THEN GoesTo(f, "end") ELSE TripJobEnds(f)
  /\ UNCHANGED <<tripNow, trip, ends, lastStart, tripRaced>>

RaiseEnd(f) ==
  /\ tripJob[f].pc = "end"
  /\ ends' = Capped(ends + 1)
  /\ TripJobEnds(f)
  /\ UNCHANGED <<tripNow, trip, starts, lastStart, tripRaced>>

\* A database call fails: saveTelemetry catches it, the state stays as stored.
TripFails(f) ==
  /\ WritesTrip(f)
  /\ TripJobEnds(f)
  /\ AlertsWait /\ UNCHANGED <<tripNow, trip, tripRaced>>

\* A manager or the retention sweep closes what is open.
TripDismissed ==
  /\ \/ starts > 0 /\ starts' = 0 /\ UNCHANGED ends
     \/ ends > 0 /\ ends' = 0 /\ UNCHANGED starts
  /\ UNCHANGED <<tripNow, trip, tripJob, lastStart, tripRaced>>

TripRestart ==
  /\ tripJob' = [f \in Calls |-> IdleTripJob]
  /\ trip' \in {trip, UnknownTrip}
  /\ AlertsWait /\ UNCHANGED <<tripNow, tripRaced>>

TripTick ==
  /\ tripNow < TripEnd
  /\ tripNow' = tripNow + 1
  /\ AlertsWait /\ UNCHANGED <<trip, tripJob, tripRaced>>

TripNext ==
  \/ \E f \in Calls : \/ TripRecord(f) \/ TripDecided(f) \/ CheckStart(f) \/ SupersedeEnd(f)
                      \/ RaiseStart(f) \/ CloseStart(f) \/ RaiseEnd(f) \/ TripFails(f)
  \/ TripDismissed
  \/ TripRestart
  \/ TripTick

TripSpec == TripInit /\ [][TripNext]_tripVars

\* The manager sees a vehicle as out or as back, never both and never twice: across flickering
\* ignition, late records, failures and restarts at any step, one start or one end is open,
\* unless two records wrote at once.
OneTripAtATime == ~tripRaced => starts + ends <= 1

\* A journey is announced once: no start is raised within the debounce of the one before, not
\* even when a restart has wiped the remembered state and the earlier alert is already closed.
StartsSpaced ==
  [][starts' > starts /\ ~tripRaced => lastStart = 0 \/ tripNow >= lastStart + Debounce]_tripVars

=============================================================================
