------------------------------ MODULE StationVisits ------------------------------
(***************************************************************************)
(* One vehicle and one zone: handleGeofenceForRecord of                    *)
(* geofence-monitor.service.ts, called for every fix, and openVisit,       *)
(* closeVisit and noteInsideFix of fuel-station-visits.service.ts, which   *)
(* turn containment in a fuel station's zone into a log of visits and one  *)
(* arrival alert each.  A zone of another purpose alerts on the crossing   *)
(* itself; this one notifies of both directions.                           *)
(*                                                                         *)
(* A fix is its signed distance to the boundary, negative inside, in steps *)
(* of the hysteresis, and whether by it the vehicle stands and has been    *)
(* inside for a minute.  The mails are left out.                           *)
(***************************************************************************)
EXTENDS CallsInFlight, Integers

CONSTANT MaxVisits   \* bound: rows of fuel_station_visits that are followed

ASSUME VisitConstants == MaxVisits \in Nat

VARIABLES
  zonePurpose,  \* fuel_station or depot
  zoneInside,   \* the row of geofence_states: none, in or out
  visits,       \* rows of fuel_station_visits, in the order of their insertion
  arrivals,     \* fuel_station_arrival alerts, per visit
  announced,    \* the zone and vehicle are in the Set announced
  told,         \* direction of the last geofence_entry or geofence_exit alert
  fixJob,       \* fixes being handled: [Calls -> [pc, to, stands, visit]]
  crossed,      \* history: a crossing has followed the silent baseline
  fixRaced,     \* history: two fixes were handled at once
  fixMissed     \* history: the row was written and what should follow failed or died

visitVars == <<zonePurpose, zoneInside, visits, arrivals, announced, told, fixJob, crossed,
               fixRaced, fixMissed>>
visitLog == <<visits, arrivals, announced>>

VisitIds == 1..MaxVisits
BoundaryHysteresis == 1
IdleFix == [pc |-> "idle", to |-> "none", stands |-> FALSE, visit |-> 0]

VisitTypeOK ==
  /\ zonePurpose \in {"fuel_station", "depot"}
  /\ zoneInside \in {"none", "in", "out"} /\ told \in {"none", "in", "out"}
  /\ visits \in [VisitIds -> {"none", "open", "stopped", "left"}]
  /\ arrivals \in [VisitIds -> 0..2]
  /\ fixJob \in [Calls -> [pc : {"idle", "baseline", "cross", "after", "note", "marking", "marked",
                                 "arrive"},
                           to : {"none", "in", "out"}, stands : BOOLEAN, visit : 0..MaxVisits]]
  /\ {announced, crossed, fixRaced, fixMissed} \subseteq BOOLEAN

VisitInit ==
  /\ zonePurpose \in {"fuel_station", "depot"}
  /\ zoneInside = "none" /\ told = "none"
  /\ visits = [n \in VisitIds |-> "none"] /\ arrivals = [n \in VisitIds |-> 0]
  /\ fixJob = [f \in Calls |-> IdleFix]
  /\ announced = FALSE /\ crossed = FALSE /\ fixRaced = FALSE /\ fixMissed = FALSE

FixEnds(f) == fixJob' = [fixJob EXCEPT ![f] = IdleFix]
FixGoesTo(f, pc) == fixJob' = [fixJob EXCEPT ![f].pc = pc]

\* The first fix decides by the boundary; a later one flips only beyond the hysteresis.
Verdict(was, signed) ==
  CASE was = "none" -> IF signed < 0 THEN "in" ELSE "out"
    [] was = "in" /\ signed > BoundaryHysteresis -> "out"
    [] was = "out" /\ signed < -BoundaryHysteresis -> "in"
    [] OTHER -> was

\* The prior state is read; nothing else is, so the verdict is settled here.
FixRead(f) ==
  /\ fixJob[f].pc = "idle"
  /\ \E signed \in {-2, -1, 1, 2}, stands \in BOOLEAN :
       LET to == Verdict(zoneInside, signed)
           pc == CASE zoneInside = "none" -> "baseline"
                   [] zoneInside # to -> "cross"
                   [] OTHER -> IF zonePurpose = "fuel_station" /\ to = "in" THEN "note" ELSE "idle"
       IN fixJob' = [fixJob EXCEPT ![f] =
            IF pc = "idle" THEN IdleFix
            ELSE [pc |-> pc, to |-> to, stands |-> pc = "note" /\ stands, visit |-> 0]]
  /\ fixRaced' = (fixRaced \/ \E g \in Calls \ {f} : fixJob[g].pc # "idle")
  /\ UNCHANGED <<zonePurpose, zoneInside, visitLog, told, crossed, fixMissed>>

\* A first sighting is recorded silently.
StoreBaseline(f) ==
  /\ fixJob[f].pc = "baseline"
  /\ zoneInside' = fixJob[f].to
  /\ FixEnds(f)
  /\ UNCHANGED <<zonePurpose, visitLog, told, crossed, fixRaced, fixMissed>>

StoreCrossing(f) ==
  /\ fixJob[f].pc = "cross"
  /\ zoneInside' = fixJob[f].to
  /\ crossed' = TRUE
  /\ FixGoesTo(f, "after")
  /\ UNCHANGED <<zonePurpose, visitLog, told, fixRaced, fixMissed>>

TellCrossing(f) ==
  /\ fixJob[f].pc = "after" /\ zonePurpose = "depot"
  /\ told' = fixJob[f].to
  /\ FixEnds(f)
  /\ UNCHANGED <<zonePurpose, zoneInside, visitLog, crossed, fixRaced, fixMissed>>

OpenVisits == {n \in VisitIds : visits[n] \in {"open", "stopped"}}
NextVisit == {n \in VisitIds : visits[n] = "none" /\ \A m \in VisitIds : m < n => visits[m] # "none"}

\* openVisit: one open row per vehicle and zone, an insert that meets one does nothing.
OpenVisit(f) ==
  /\ fixJob[f].pc = "after" /\ zonePurpose = "fuel_station" /\ fixJob[f].to = "in"
  /\ \/ OpenVisits # {} /\ UNCHANGED visits
     \/ OpenVisits = {} /\ \E n \in NextVisit : visits' = [visits EXCEPT ![n] = "open"]
  /\ announced' = FALSE
  /\ FixEnds(f)
  /\ UNCHANGED <<zonePurpose, zoneInside, arrivals, told, crossed, fixRaced, fixMissed>>

\* Mutant: a visit that was marked as a stop is not found.
LeaveVisits_Unmarked == visits' = [n \in VisitIds |-> IF visits[n] = "open" THEN "left" ELSE visits[n]]

\* What closeVisit's UPDATE does: exited_at is set where it is NULL.
LeaveVisits == visits' = [n \in VisitIds |-> IF n \in OpenVisits THEN "left" ELSE visits[n]]

\* Mutant: the Set is not told that the visit is over.
CloseVisit_StillAnnounced(f) ==
  /\ fixJob[f].pc = "after" /\ zonePurpose = "fuel_station" /\ fixJob[f].to = "out"
  /\ LeaveVisits
  /\ FixEnds(f)
  /\ UNCHANGED <<zonePurpose, zoneInside, arrivals, announced, told, crossed, fixRaced, fixMissed>>

\* closeVisit.
CloseVisit(f) ==
  /\ fixJob[f].pc = "after" /\ zonePurpose = "fuel_station" /\ fixJob[f].to = "out"
  /\ LeaveVisits
  /\ announced' = FALSE
  /\ FixEnds(f)
  /\ UNCHANGED <<zonePurpose, zoneInside, arrivals, told, crossed, fixRaced, fixMissed>>

\* noteInsideFix up to its UPDATE.
NoteInsideFix(f) ==
  /\ fixJob[f].pc = "note"
  /\ IF announced \/ ~fixJob[f].stands THEN FixEnds(f) ELSE FixGoesTo(f, "marking")
  /\ UNCHANGED <<zonePurpose, zoneInside, visitLog, told, crossed, fixRaced, fixMissed>>

\* Mutant: the UPDATE does not ask for stopped_at IS NULL.
Unstopped_Any == OpenVisits

\* What the UPDATE matches: the open visit that has not been marked yet.
Unstopped == {n \in VisitIds : visits[n] = "open"}

MarkStopped(f) ==
  /\ fixJob[f].pc = "marking"
  /\ \/ Unstopped = {} /\ FixEnds(f) /\ UNCHANGED visits
     \/ \E n \in Unstopped :
          /\ visits' = [visits EXCEPT ![n] = "stopped"]
          /\ fixJob' = [fixJob EXCEPT ![f].pc = "marked", ![f].visit = n]
  /\ UNCHANGED <<zonePurpose, zoneInside, arrivals, announced, told, crossed, fixRaced, fixMissed>>

RememberArrival(f) ==
  /\ fixJob[f].pc = "marked"
  /\ announced' = TRUE
  /\ FixGoesTo(f, "arrive")
  /\ UNCHANGED <<zonePurpose, zoneInside, visits, arrivals, told, crossed, fixRaced, fixMissed>>

RaiseArrival(f) ==
  /\ fixJob[f].pc = "arrive"
  /\ arrivals' = [arrivals EXCEPT ![fixJob[f].visit] = Capped(@ + 1)]
  /\ FixEnds(f)
  /\ UNCHANGED <<zonePurpose, zoneInside, visits, announced, told, crossed, fixRaced, fixMissed>>

\* A database call fails: saveTelemetry catches it, and what the row already says stays.
FixFails(f) ==
  /\ fixJob[f].pc \in {"baseline", "cross", "after", "marking", "arrive"}
  /\ fixMissed' = (fixMissed \/ fixJob[f].pc = "after")
  /\ announced' = (announced /\ ~(fixJob[f].pc = "after" /\ zonePurpose = "fuel_station"))
  /\ FixEnds(f)
  /\ UNCHANGED <<zonePurpose, zoneInside, visits, arrivals, told, crossed, fixRaced>>

\* ... or commits with its answer lost, and what should follow is not done.  (Where nothing
\* follows the write this is the step itself.)
FixUnanswered(f) ==
  /\ \/ /\ fixJob[f].pc = "cross"
        /\ zoneInside' = fixJob[f].to
        /\ crossed' = TRUE /\ fixMissed' = TRUE
        /\ UNCHANGED visits
     \/ /\ fixJob[f].pc = "marking"
        /\ \E n \in Unstopped : visits' = [visits EXCEPT ![n] = "stopped"]
        /\ UNCHANGED <<zoneInside, crossed, fixMissed>>
  /\ FixEnds(f)
  /\ UNCHANGED <<zonePurpose, arrivals, announced, told, fixRaced>>

VisitRestart ==
  /\ announced' = FALSE
  /\ fixJob' = [f \in Calls |-> IdleFix]
  /\ fixMissed' = (fixMissed \/ \E f \in Calls : fixJob[f].pc = "after")
  /\ UNCHANGED <<zonePurpose, zoneInside, visits, arrivals, told, crossed, fixRaced>>

VisitNext ==
  \/ \E f \in Calls : \/ FixRead(f) \/ StoreBaseline(f) \/ StoreCrossing(f) \/ TellCrossing(f)
                      \/ OpenVisit(f) \/ CloseVisit(f) \/ NoteInsideFix(f) \/ MarkStopped(f)
                      \/ RememberArrival(f) \/ RaiseArrival(f) \/ FixFails(f)
                      \/ FixUnanswered(f)
  \/ VisitRestart

VisitSpec == VisitInit /\ [][VisitNext]_visitVars

\* A visit is announced at most once, whatever fixes are handled at once, whatever fails and
\* however often the Set of announced visits is lost.
ArrivalOnce == \A n \in VisitIds : arrivals[n] <= 1

\* The Set never silences a visit that has not been marked as a stop: between fixes the vehicle
\* is in it only while its open visit is marked.
SilencedIsMarked ==
  announced /\ ~fixRaced /\ (\A f \in Calls : fixJob[f].pc = "idle")
    => \E n \in VisitIds : visits[n] = "stopped"

\* What the manager has been told follows the vehicle: once it has crossed, the last alert of a
\* depot, or an open visit of a station, says where it is, unless two fixes were handled at once
\* or a step after the row was written was lost (nothing repeats it).
CrossingIsTold ==
  crossed /\ ~fixRaced /\ ~fixMissed /\ (\A f \in Calls : fixJob[f].pc = "idle")
    => IF zonePurpose = "depot" THEN told = zoneInside
       ELSE OpenVisits # {} <=> zoneInside = "in"

=============================================================================
