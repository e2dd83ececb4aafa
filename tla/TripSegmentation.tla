----------------------------- MODULE TripSegmentation -----------------------------
(***************************************************************************)
(* The trips and stops made of a vehicle's rows: segmentTrips, buildTrip   *)
(* and findStops of trip-segmentation.service.ts.  Rows come in the order  *)
(* of their time and the functions are run on what has come so far, as     *)
(* the route for trips does.  Of a row the model keeps when it was sent,   *)
(* whether the engine was on, how fast the vehicle went (halted, crawling  *)
(* or driving) and whether it had moved since the row before.  A hop is    *)
(* plausible and longer than a trip has to be, or none at all.  A creep    *)
(* below the stopped speed with the engine off is, to every test here, a   *)
(* halt with it on; an unknown engine is on if the vehicle moves.          *)
(* Distances, paths, speeds and the confidence score are left out.         *)
(***************************************************************************)
EXTENDS Naturals, Sequences

CONSTANTS Fixes,        \* what a row can say: a set of [engine, pace, moved]
          Spacings,     \* bound: the time from one row to the next
          MaxRows,      \* bound: rows that are sent
          TripBreak, MinStop, MinPause, MinTraffic, Slack   \* the thresholds, in one unit of time

ASSUME SegmentationConstants ==
  /\ Fixes \subseteq [engine : BOOLEAN, pace : {"halted", "crawling", "driving"}, moved : BOOLEAN]
  /\ Spacings \subseteq Nat \ {0} /\ MaxRows \in Nat
  /\ {TripBreak, MinStop, MinPause, MinTraffic, Slack} \subseteq Nat \ {0}

VARIABLE rows   \* telemetry of the vehicle: [at, fix]

SegTypeOK == rows \in Seq([at : Nat, fix : Fixes])

SegInit == rows = <<>>

\* The tracker sends another row.
RowCame(dt, f) ==
  /\ Len(rows) < MaxRows
  /\ rows' = Append(rows, [at |-> IF rows = <<>> THEN 1 ELSE rows[Len(rows)].at + dt, fix |-> f])

SegNext == \E dt \in Spacings, f \in Fixes : RowCame(dt, f)
SegSpec == SegInit /\ [][SegNext]_rows

-----------------------------------------------------------------------------
(* segmentTrips: rows cut into segments                                    *)

Active(r) == r.fix.engine \/ r.fix.pace # "halted"
LastOf(s) == s[Len(s)]

\* buildTrip keeps nothing of a segment that went nowhere.
IsTrip(s) == Len(s) >= 2 /\ \E i \in 2..Len(s) : s[i].fix.moved

\* Mutant: only silence ends a trip, so one with the engine off for long goes on.
TripOver_Silence(cut, r) ==
  /\ cut.open # <<>>
  /\ r.at - LastOf(cut.open).at >= TripBreak

\* The trip is over when the tracker was silent, or the vehicle inactive, for long.
TripOver(cut, r) ==
  /\ cut.open # <<>>
  /\ r.at - LastOf(cut.open).at >= TripBreak \/ r.at - cut.active >= TripBreak

Close(cut) ==
  [cut EXCEPT !.done = IF IsTrip(cut.open) THEN Append(@, cut.open) ELSE @, !.open = <<>>]

\* One turn of the loop: a trip starts when the vehicle wakes up.
TakeRow(cut, r) ==
  LET c == IF TripOver(cut, r) THEN Close(cut) ELSE cut IN
  IF c.open = <<>> /\ ~Active(r) THEN c
  ELSE [c EXCEPT !.open = Append(@, r), !.active = IF Active(r) THEN r.at ELSE @]

\* What the loop has after each of the rows; active is only looked at while a segment is open.
Cuts(s) ==
  LET cut[n \in 0..Len(s)] ==
        IF n = 0 THEN [done |-> <<>>, open |-> <<>>, active |-> 0] ELSE TakeRow(cut[n - 1], s[n])
  IN cut

Segments(s) == Close(Cuts(s)[Len(s)]).done

-----------------------------------------------------------------------------
(* findStops: the halts of one segment.  They are kept as a set: the code   *)
(* sorts its list by the time of arrival.                                  *)

Halted(r) == r.fix.pace = "halted"
Crawling(r) == r.fix.pace = "crawling" /\ r.fix.engine

\* The longest runs of rows between the bookends that are all among the good ones.
RunsOf(good) ==
  {run \in good \X good :
     /\ run[1] < run[2] /\ run[1]..run[2] \subseteq good
     /\ run[1] - 1 \notin good /\ run[2] + 1 \notin good}

Between(s) == 2..Len(s) - 1
StopOf(s, i, j, kind) == [arrived |-> s[i].at, departed |-> s[j].at, kind |-> kind]
Lasted(s, run) == s[run[2]].at - s[run[1]].at

HaltStops(s) ==
  {StopOf(s, run[1], run[2], IF Lasted(s, run) >= MinStop THEN "stop" ELSE "pause") :
     run \in {x \in RunsOf({k \in Between(s) : Halted(s[k])}) : Lasted(s, x) >= MinPause}}

TrafficStops(s) ==
  {StopOf(s, run[1], run[2], "traffic") :
     run \in {x \in RunsOf({k \in Between(s) : Crawling(s[k])}) : Lasted(s, x) >= MinTraffic}}

\* Mutant: a gap is known by its ends alone, as it was before.
AlreadyTold_ByEnds(stops, a, b) ==
  \E s \in stops : s.arrived = a.at /\ s.departed = b.at

\* A gap that overlaps, or nearly, a stop already found is not told again.
AlreadyTold(stops, a, b) ==
  \E s \in stops : a.at < s.departed + Slack /\ b.at + Slack > s.arrived

\* Two rows far apart in time but not in space are a stop, if nothing told of it.
TellGap(s, stops, i) ==
  LET a == s[i - 1]
      b == s[i] IN
  IF b.at - a.at < MinStop \/ b.fix.moved \/ AlreadyTold(stops, a, b) THEN stops
  ELSE stops \union {StopOf(s, i - 1, i, "stop")}

WithGaps(s, stops) ==
  LET found[i \in 1..Len(s)] == IF i = 1 THEN stops ELSE TellGap(s, found[i - 1], i)
  IN found[Len(s)]

Mid(s) == WithGaps(s, {StopOf(s, 1, 1, "origin")} \union HaltStops(s) \union TrafficStops(s))

Trailing(stops) == CHOOSE x \in stops : \A y \in stops : y.arrived <= x.arrived

\* A halt that runs to the end becomes the destination.
FindStops(s) ==
  LET trailing == Trailing(Mid(s))
      end == LastOf(s).at
      terminal == trailing.kind \in {"stop", "pause"} /\ end - trailing.departed < Slack IN
  (IF terminal THEN Mid(s) \ {trailing} ELSE Mid(s)) \union
    {[arrived |-> IF terminal THEN trailing.arrived ELSE end, departed |-> end, kind |-> "destination"]}

-----------------------------------------------------------------------------
(* buildTrip, and the time parked between trips                            *)

BuildTrip(s, now) ==
  [start |-> s[1].at, end |-> LastOf(s).at, active |-> now - LastOf(s).at < TripBreak,
   stops |-> FindStops(s)]

\* The destination's time runs until the next trip starts, or to now.
Parked(trip, until) ==
  IF trip.active \/ until <= trip.end THEN trip
  ELSE [trip EXCEPT !.stops =
          {IF x.kind = "destination" THEN [x EXCEPT !.departed = until] ELSE x : x \in @}]

TripsOf(s, now) ==
  LET built == [i \in DOMAIN Segments(s) |-> BuildTrip(Segments(s)[i], now)] IN
  [i \in DOMAIN built |->
     Parked(built[i], IF i < Len(built) THEN built[i + 1].start ELSE now)]

-----------------------------------------------------------------------------
(* What is checked                                                         *)

\* What a trip is, said without a loop: rows with activity less than a break apart are one
\* trip, which ends with the rows that follow its last activity within a break.
Near(s, i, j) == i < j /\ Active(s[i]) /\ s[j].at - s[i].at < TripBreak
Opens(s, j) == Active(s[j]) /\ \A i \in DOMAIN s : ~Near(s, i, j)
Belongs(s, j) == Active(s[j]) \/ \E i \in DOMAIN s : Near(s, i, j)
TripFrom(s, o) == {s[j] : j \in {k \in o..Len(s) : Belongs(s, k) /\ \A p \in o + 1..k : ~Opens(s, p)}}
Went(trip) == \E r \in trip : r.fix.moved /\ \E q \in trip : q.at < r.at

SegmentsAreTrips ==
  {{segment[k] : k \in DOMAIN segment} : segment \in {Segments(rows)[i] : i \in DOMAIN Segments(rows)}}
  = {trip \in {TripFrom(rows, o) : o \in {j \in DOMAIN rows : Opens(rows, j)}} : Went(trip)}

\* The stops of all the trips are one line of time, however halts, crawls and silences fall: none
\* overlaps another, although three passes look for them ("a second 'Stopped 23m' four metres from
\* a 'Stopped 29m'").
OneLine(trips) ==
  \A i \in DOMAIN trips, j \in DOMAIN trips : \A x \in trips[i].stops, y \in trips[j].stops :
    /\ x.arrived <= x.departed
    /\ i < j => x.departed <= y.arrived
    /\ i = j /\ x # y => x.departed <= y.arrived \/ y.departed <= x.arrived

\* A halt seen in the rows between the ends of a trip is inside a stop if it lasts long enough
\* ("silently discarding a halt ...").
EveryHalt(s, trips) ==
  \A n \in DOMAIN trips, i \in DOMAIN s, j \in DOMAIN s :
    /\ trips[n].start < s[i].at /\ s[j].at < trips[n].end /\ s[j].at - s[i].at >= MinPause
    /\ \A k \in i..j : Halted(s[k])
    => \E x \in trips[n].stops : x.arrived <= s[i].at /\ s[j].at <= x.departed

\* A long silence in which the vehicle did not move is a stop, or comes within the slack of one:
\* such a silence is not told of by itself, even if the stop it touches is mere traffic.
LongGap(s, i) == s[i].at - s[i - 1].at >= MinStop /\ ~s[i].fix.moved

EveryGap(s, trips) ==
  \A n \in DOMAIN trips, i \in 2..Len(s) :
    trips[n].start <= s[i - 1].at /\ s[i].at <= trips[n].end /\ LongGap(s, i)
      => AlreadyTold(trips[n].stops, s[i - 1], s[i])

HaltsToldOnce ==
  rows # <<>> => \A lag \in {0, TripBreak} :
    LET trips == TripsOf(rows, LastOf(rows).at + lag) IN
      OneLine(trips) /\ EveryHalt(rows, trips) /\ EveryGap(rows, trips)

\* Trips and stops are what was driven (segmentTrips, findStops), whatever the tracker sent and
\* left out.
TripsAsDriven == SegmentsAreTrips /\ HaltsToldOnce

=============================================================================
