----------------------------- MODULE Monitors_proofs -----------------------------
(***************************************************************************)
(* What the monitors promise for any number of sweeps and records handled  *)
(* at once and for any thresholds: the station visits, the power monitor,  *)
(* the offline watchdog, the trip notifier and the idle detector.  All but *)
(* the last read, go on over some awaits, and write or raise an alert: the *)
(* invariants say what one that has read may still rely on by then.  The   *)
(* idle detector folds records into a stretch: its invariant relates the   *)
(* stretch to what was sent.                                               *)
(***************************************************************************)
EXTENDS StationVisits, PowerMonitor, OfflineWatchdog, TripNotifier, IdleDetector, TLAPS

-----------------------------------------------------------------------------
(* StationVisits                                                           *)

\* A fix that has marked a visit and not announced it yet.
Announces(f, n) == fixJob[f].pc \in {"marked", "arrive"} /\ fixJob[f].visit = n

\* A visit is marked by one fix, which alone announces it, and never loses its mark.
MarkedOnce ==
  \A n \in VisitIds :
    /\ arrivals[n] <= 1
    /\ arrivals[n] = 1 => visits[n] \in {"stopped", "left"}
    /\ \A f \in Calls : Announces(f, n) => visits[n] \in {"stopped", "left"} /\ arrivals[n] = 0
    /\ \A f, g \in Calls : Announces(f, n) /\ Announces(g, n) => f = g

VisitInv == VisitTypeOK /\ MarkedOnce

FixState == [pc : {"idle", "baseline", "cross", "after", "note", "marking", "marked", "arrive"},
             to : {"none", "in", "out"}, stands : BOOLEAN, visit : 0..MaxVisits]

\* The types of the flags, of the log and of the fixes being handled.
FlagTypes ==
  /\ zonePurpose \in {"fuel_station", "depot"}
  /\ zoneInside \in {"none", "in", "out"} /\ told \in {"none", "in", "out"}
  /\ announced \in BOOLEAN /\ crossed \in BOOLEAN /\ fixRaced \in BOOLEAN /\ fixMissed \in BOOLEAN
LogTypes ==
  /\ visits \in [VisitIds -> {"none", "open", "stopped", "left"}]
  /\ arrivals \in [VisitIds -> 0..2]
FixTypes == fixJob \in [Calls -> FixState]

LEMMA VisitTypesSplit == VisitTypeOK <=> FlagTypes /\ LogTypes /\ FixTypes
  BY DEF VisitTypeOK, FlagTypes, LogTypes, FixTypes, FixState

LEMMA IdleFixType == IdleFix \in FixState /\ IdleFix.pc = "idle"
  BY VisitConstants DEF IdleFix, FixState

LEMMA VisitInvInit == VisitInit => VisitInv
<1> SUFFICES ASSUME VisitInit PROVE VisitInv
  OBVIOUS
<1>1. FlagTypes
  BY DEF VisitInit, FlagTypes
<1>2. LogTypes
  BY DEF VisitInit, LogTypes
<1>3. FixTypes /\ \A f \in Calls : fixJob[f].pc = "idle"
  BY IdleFixType DEF VisitInit, FixTypes
<1>4. MarkedOnce
  BY <1>3 DEF VisitInit, MarkedOnce, Announces
<1> QED
  BY <1>1, <1>2, <1>3, <1>4, VisitTypesSplit DEF VisitInv

\* A step of a fix keeps the types if what the fix becomes has the type of one.
LEMMA FixMoves ==
  ASSUME FixTypes, NEW f \in Calls, NEW j \in FixState, fixJob' = [fixJob EXCEPT ![f] = j]
  PROVE  FixTypes' /\ fixJob'[f] = j /\ \A g \in Calls \ {f} : fixJob'[g] = fixJob[g]
  BY DEF FixTypes

LEMMA FixGoes ==
  ASSUME FixTypes, NEW f \in Calls,
         NEW pc \in {"after", "marking", "arrive"}, fixJob' = [fixJob EXCEPT ![f].pc = pc]
  PROVE  /\ FixTypes' /\ fixJob'[f].pc = pc /\ fixJob'[f].visit = fixJob[f].visit
         /\ \A g \in Calls \ {f} : fixJob'[g] = fixJob[g]
  BY DEF FixTypes, FixState

\* A step that raises no arrival, unmarks no visit and lets no fix begin to announce one.
LEMMA QuietStep ==
  ASSUME VisitInv, arrivals' = arrivals,
         \A n \in VisitIds : visits[n] \in {"stopped", "left"} => visits'[n] \in {"stopped", "left"},
         \A f \in Calls, n \in VisitIds : Announces(f, n)' => Announces(f, n)
  PROVE  MarkedOnce'
  BY DEF VisitInv, MarkedOnce

LEMMA FixReadNext ==
  ASSUME VisitInv, NEW f \in Calls, FixRead(f)
  PROVE  VisitInv'
<1>1. FlagTypes /\ LogTypes /\ FixTypes
  BY VisitTypesSplit DEF VisitInv
<1>2. PICK signed \in {-2, -1, 1, 2}, stands \in BOOLEAN :
        LET to == Verdict(zoneInside, signed)
            pc == CASE zoneInside = "none" -> "baseline"
                    [] zoneInside # to -> "cross"
                    [] OTHER -> IF zonePurpose = "fuel_station" /\ to = "in" THEN "note" ELSE "idle"
        IN fixJob' = [fixJob EXCEPT ![f] =
             IF pc = "idle" THEN IdleFix
             ELSE [pc |-> pc, to |-> to, stands |-> pc = "note" /\ stands, visit |-> 0]]
  BY DEF FixRead
<1> DEFINE to == Verdict(zoneInside, signed)
           pc == CASE zoneInside = "none" -> "baseline"
                   [] zoneInside # to -> "cross"
                   [] OTHER -> IF zonePurpose = "fuel_station" /\ to = "in" THEN "note" ELSE "idle"
           j == IF pc = "idle" THEN IdleFix
                ELSE [pc |-> pc, to |-> to, stands |-> pc = "note" /\ stands, visit |-> 0]
<1>3. to \in {"none", "in", "out"}
  BY <1>1 DEF Verdict, FlagTypes
<1>4. pc \in {"baseline", "cross", "note", "idle"}
  <2> HIDE DEF to
  <2> QED
    OBVIOUS
<1>5. j \in FixState /\ j.pc \notin {"marked", "arrive"}
  <2> HIDE DEF to, pc
  <2> QED
    BY <1>3, <1>4, IdleFixType, VisitConstants DEF FixState
<1>6. fixJob' = [fixJob EXCEPT ![f] = j]
  BY <1>2
<1> HIDE DEF to, pc, j
<1>7. FixTypes' /\ fixJob'[f] = j /\ \A g \in Calls \ {f} : fixJob'[g] = fixJob[g]
  BY <1>1, <1>5, <1>6, FixMoves
<1>8. FlagTypes' /\ LogTypes' /\ arrivals' = arrivals /\ visits' = visits
  BY <1>1 DEF FixRead, FlagTypes, LogTypes, visitLog
<1>9. MarkedOnce'
  BY <1>5, <1>7, <1>8, QuietStep DEF Announces
<1> QED
  BY <1>7, <1>8, <1>9 DEF VisitInv, VisitTypeOK, FlagTypes, LogTypes, FixTypes, FixState

\* What a fix does next, when it ends or goes on quietly.
LEMMA FixQuiet ==
  ASSUME FixTypes, NEW f \in Calls,
         \/ FixEnds(f)
         \/ FixGoesTo(f, "after")
         \/ FixGoesTo(f, "marking")
         \/ fixJob[f].pc = "marked" /\ FixGoesTo(f, "arrive")
  PROVE  FixTypes' /\ \A g \in Calls, n \in VisitIds : Announces(g, n)' => Announces(g, n)
<1>1. CASE FixEnds(f)
  BY <1>1, FixMoves, IdleFixType DEF FixEnds, Announces
<1>2. CASE FixGoesTo(f, "after")
  BY <1>2, FixGoes DEF FixGoesTo, Announces
<1>3. CASE FixGoesTo(f, "marking")
  BY <1>3, FixGoes DEF FixGoesTo, Announces
<1>4. CASE fixJob[f].pc = "marked" /\ FixGoesTo(f, "arrive")
  BY <1>4, FixGoes DEF FixGoesTo, Announces
<1> QED
  BY <1>1, <1>2, <1>3, <1>4

\* The steps that leave the log alone.
LEMMA OutsideLogNext ==
  ASSUME VisitInv, NEW f \in Calls,
         \/ StoreBaseline(f) \/ StoreCrossing(f) \/ TellCrossing(f)
         \/ NoteInsideFix(f) \/ RememberArrival(f) \/ FixFails(f)
  PROVE  VisitInv'
<1>1. FlagTypes /\ LogTypes /\ FixTypes
  BY VisitTypesSplit DEF VisitInv
<1>2. \/ FixEnds(f)
      \/ FixGoesTo(f, "after")
      \/ FixGoesTo(f, "marking")
      \/ fixJob[f].pc = "marked" /\ FixGoesTo(f, "arrive")
  BY DEF StoreBaseline, StoreCrossing, TellCrossing, NoteInsideFix, RememberArrival, FixFails
<1>3. FixTypes' /\ \A g \in Calls, n \in VisitIds : Announces(g, n)' => Announces(g, n)
  BY <1>1, <1>2, FixQuiet
<1>4. visits' = visits /\ arrivals' = arrivals
  BY DEF StoreBaseline, StoreCrossing, TellCrossing, NoteInsideFix, RememberArrival, FixFails, visitLog
<1>5. FlagTypes'
  <2>1. CASE StoreBaseline(f) \/ StoreCrossing(f) \/ TellCrossing(f)
    <3>1. fixJob[f].to \in {"none", "in", "out"}
      BY <1>1 DEF FixTypes, FixState
    <3>2. CASE StoreBaseline(f)
      BY <1>1, <3>1, <3>2 DEF StoreBaseline, visitLog, FlagTypes
    <3>3. CASE StoreCrossing(f)
      BY <1>1, <3>1, <3>3 DEF StoreCrossing, visitLog, FlagTypes
    <3>4. CASE TellCrossing(f)
      BY <1>1, <3>1, <3>4 DEF TellCrossing, visitLog, FlagTypes
    <3> QED
      BY <2>1, <3>2, <3>3, <3>4
  <2>2. CASE NoteInsideFix(f)
    BY <1>1, <2>2 DEF NoteInsideFix, visitLog, FlagTypes
  <2>3. CASE RememberArrival(f)
    BY <1>1, <2>3 DEF RememberArrival, FlagTypes
  <2>4. CASE FixFails(f)
    BY <1>1, <2>4 DEF FixFails, FlagTypes
  <2> QED
    BY <2>1, <2>2, <2>3, <2>4
<1>6. MarkedOnce'
  BY <1>3, <1>4, QuietStep
<1> QED
  BY <1>1, <1>3, <1>4, <1>5, <1>6 DEF VisitInv, VisitTypeOK, FlagTypes, LogTypes, FixTypes, FixState

\* A new visit has not been announced; one that is left keeps its mark.
LEMMA CrossVisitNext ==
  ASSUME VisitInv, NEW f \in Calls, OpenVisit(f) \/ CloseVisit(f)
  PROVE  VisitInv'
<1>1. FlagTypes /\ LogTypes /\ FixTypes
  BY VisitTypesSplit DEF VisitInv
<1>2. FixEnds(f) /\ arrivals' = arrivals
  BY DEF OpenVisit, CloseVisit
<1>3. FixTypes' /\ \A g \in Calls, n \in VisitIds : Announces(g, n)' => Announces(g, n)
  BY <1>1, <1>2, FixQuiet
<1>4. FlagTypes'
  BY <1>1 DEF OpenVisit, CloseVisit, FlagTypes
<1>5. /\ visits' \in [VisitIds -> {"none", "open", "stopped", "left"}]
      /\ \A n \in VisitIds : visits[n] \in {"stopped", "left"} => visits'[n] \in {"stopped", "left"}
  <2>1. CASE OpenVisit(f)
    <3>1. visits' = visits \/ \E n \in NextVisit : visits' = [visits EXCEPT ![n] = "open"]
      BY <2>1 DEF OpenVisit
    <3> QED
      BY <1>1, <3>1 DEF LogTypes, NextVisit
  <2>2. CASE CloseVisit(f)
    BY <1>1, <2>2 DEF CloseVisit, LeaveVisits, LogTypes
  <2> QED
    BY <2>1, <2>2
<1>6. MarkedOnce'
  BY <1>2, <1>3, <1>5, QuietStep
<1> QED
  BY <1>1, <1>2, <1>3, <1>4, <1>5, <1>6 DEF VisitInv, VisitTypeOK, FlagTypes, LogTypes, FixTypes, FixState

\* The UPDATE matches a visit once: it has not been announced, and nobody else announces it.
LEMMA MarkNext ==
  ASSUME VisitInv, NEW f \in Calls, MarkStopped(f)
  PROVE  VisitInv'
<1>1. FlagTypes /\ LogTypes /\ FixTypes
  BY VisitTypesSplit DEF VisitInv
<1>2. FlagTypes' /\ arrivals' = arrivals
  BY <1>1 DEF MarkStopped, FlagTypes
<1>3. CASE FixEnds(f) /\ visits' = visits
  <2>1. FixTypes' /\ \A g \in Calls, n \in VisitIds : Announces(g, n)' => Announces(g, n)
    BY <1>1, <1>3, FixQuiet
  <2>2. MarkedOnce'
    BY <1>2, <1>3, <2>1, QuietStep
  <2> QED
    BY <1>1, <1>2, <1>3, <2>1, <2>2 DEF VisitInv, VisitTypeOK, FlagTypes, LogTypes, FixTypes, FixState
<1>4. ASSUME NEW n \in Unstopped, visits' = [visits EXCEPT ![n] = "stopped"],
             fixJob' = [fixJob EXCEPT ![f].pc = "marked", ![f].visit = n]
      PROVE  VisitInv'
  <2>1. n \in VisitIds /\ visits[n] = "open" /\ n \in 0..MaxVisits
    BY VisitConstants DEF Unstopped, VisitIds
  <2>2. /\ FixTypes' /\ fixJob'[f].pc = "marked" /\ fixJob'[f].visit = n
        /\ \A g \in Calls \ {f} : fixJob'[g] = fixJob[g]
    <3>1. [fixJob[f] EXCEPT !.pc = "marked", !.visit = n] \in FixState
      BY <1>1, <2>1 DEF FixTypes, FixState
    <3> QED
      BY <1>1, <1>4, <3>1 DEF FixTypes, FixState
  <2>3. /\ LogTypes' /\ visits'[n] = "stopped"
        /\ \A m \in VisitIds \ {n} : visits'[m] = visits[m]
    BY <1>1, <1>2, <1>4, <2>1 DEF LogTypes
  <2>4. arrivals[n] \in 0..2 /\ arrivals[n] <= 1 /\ arrivals[n] # 1 /\ \A g \in Calls : ~Announces(g, n)
    BY <1>1, <2>1 DEF LogTypes, VisitInv, MarkedOnce
  <2>5. arrivals[n] = 0
    BY <2>4
  <2>6. \A g \in Calls, m \in VisitIds : Announces(g, m)' => (g = f /\ m = n) \/ (g # f /\ m # n /\ Announces(g, m))
    <3>1. \A m \in VisitIds : Announces(f, m)' => m = n
      BY <2>2 DEF Announces
    <3>2. \A g \in Calls \ {f}, m \in VisitIds : Announces(g, m)' => Announces(g, m)
      BY <2>2 DEF Announces
    <3> QED
      BY <2>4, <3>1, <3>2
  <2>7. MarkedOnce'
    BY <1>2, <2>3, <2>5, <2>6 DEF VisitInv, MarkedOnce
  <2> QED
    BY <1>2, <2>2, <2>3, <2>7 DEF VisitInv, VisitTypeOK, FlagTypes, LogTypes, FixTypes, FixState
<1> QED
  BY <1>3, <1>4 DEF MarkStopped

LEMMA ArrivalNext ==
  ASSUME VisitInv, NEW f \in Calls, RaiseArrival(f)
  PROVE  VisitInv'
<1>1. FlagTypes /\ LogTypes /\ FixTypes
  BY VisitTypesSplit DEF VisitInv
<1> DEFINE n == fixJob[f].visit
<1>2. FlagTypes' /\ visits' = visits /\ FixEnds(f)
  BY <1>1 DEF RaiseArrival, FlagTypes
<1>3. /\ FixTypes' /\ fixJob'[f].pc = "idle" /\ \A g \in Calls \ {f} : fixJob'[g] = fixJob[g]
  BY <1>1, <1>2, FixMoves, IdleFixType DEF FixEnds
<1>4. /\ arrivals' \in [VisitIds -> 0..2]
      /\ \A m \in VisitIds : arrivals'[m] = IF m = n THEN Capped(arrivals[m] + 1) ELSE arrivals[m]
  <2>1. \A m \in VisitIds : arrivals[m] \in 0..2 /\ Capped(arrivals[m] + 1) \in 0..2
    BY <1>1 DEF LogTypes, Capped
  <2>2. arrivals' = [arrivals EXCEPT ![n] = Capped(arrivals[n] + 1)]
    BY DEF RaiseArrival
  <2> HIDE DEF n
  <2> QED
    BY <1>1, <2>1, <2>2 DEF LogTypes
<1>5. MarkedOnce'
  <2> SUFFICES ASSUME NEW m \in VisitIds
               PROVE  /\ arrivals'[m] <= 1
                      /\ arrivals'[m] = 1 => visits'[m] \in {"stopped", "left"}
                      /\ \A g \in Calls : Announces(g, m)' => visits'[m] \in {"stopped", "left"} /\ arrivals'[m] = 0
                      /\ \A g, h \in Calls : Announces(g, m)' /\ Announces(h, m)' => g = h
    BY DEF MarkedOnce
  <2>1. /\ arrivals[m] <= 1
        /\ arrivals[m] = 1 => visits[m] \in {"stopped", "left"}
        /\ \A g \in Calls : Announces(g, m) => visits[m] \in {"stopped", "left"} /\ arrivals[m] = 0
        /\ \A g, h \in Calls : Announces(g, m) /\ Announces(h, m) => g = h
    BY DEF VisitInv, MarkedOnce
  <2>2. \A g \in Calls : Announces(g, m)' => g # f /\ Announces(g, m)
    BY <1>3 DEF Announces
  <2>3. CASE m # n
    BY <1>2, <1>4, <2>1, <2>2, <2>3
  <2>4. CASE m = n
    <3>1. Announces(f, m)
      BY <2>4 DEF RaiseArrival, Announces
    <3>2. arrivals'[m] = 1
      BY <1>4, <2>1, <2>4, <3>1 DEF Capped
    <3>3. \A g \in Calls : ~Announces(g, m)'
      BY <2>1, <2>2, <3>1
    <3> QED
      BY <1>2, <2>1, <3>1, <3>2, <3>3
  <2> QED
    BY <2>3, <2>4
<1> QED
  BY <1>1, <1>2, <1>3, <1>4, <1>5 DEF VisitInv, VisitTypeOK, FlagTypes, LogTypes, FixTypes, FixState

\* A write that nobody follows up: the row of the state, or a mark that nobody announces.
LEMMA UnansweredNext ==
  ASSUME VisitInv, NEW f \in Calls, FixUnanswered(f)
  PROVE  VisitInv'
<1>1. FlagTypes /\ LogTypes /\ FixTypes
  BY VisitTypesSplit DEF VisitInv
<1>2. FixEnds(f) /\ UNCHANGED <<zonePurpose, arrivals, announced, told, fixRaced>>
  BY DEF FixUnanswered
<1>3. FixTypes' /\ \A g \in Calls, n \in VisitIds : Announces(g, n)' => Announces(g, n)
  BY <1>1, <1>2, FixQuiet
<1>4. /\ zoneInside' \in {"none", "in", "out"}
      /\ crossed' = crossed \/ crossed' = TRUE
      /\ fixMissed' = fixMissed \/ fixMissed' = TRUE
  BY <1>1 DEF FixUnanswered, FlagTypes, FixTypes, FixState
<1>5. FlagTypes'
  <2>1. zonePurpose' \in {"fuel_station", "depot"} /\ told' \in {"none", "in", "out"}
    BY <1>1, <1>2 DEF FlagTypes
  <2>2. {announced', crossed', fixRaced', fixMissed'} \subseteq BOOLEAN
    BY <1>1, <1>2, <1>4 DEF FlagTypes
  <2> QED
    BY <1>4, <2>1, <2>2 DEF FlagTypes
<1>6. visits' = visits \/ \E n \in Unstopped : visits' = [visits EXCEPT ![n] = "stopped"]
  BY DEF FixUnanswered
<1>7. /\ visits' \in [VisitIds -> {"none", "open", "stopped", "left"}]
      /\ \A n \in VisitIds : visits[n] \in {"stopped", "left"} => visits'[n] \in {"stopped", "left"}
  BY <1>1, <1>6 DEF LogTypes
<1>8. MarkedOnce'
  BY <1>2, <1>3, <1>7, QuietStep
<1> QED
  BY <1>1, <1>2, <1>3, <1>5, <1>7, <1>8 DEF VisitInv, VisitTypeOK, FlagTypes, LogTypes, FixTypes, FixState

LEMMA VisitRestartNext ==
  ASSUME VisitInv, VisitRestart \/ UNCHANGED visitVars
  PROVE  VisitInv'
<1>1. FlagTypes /\ LogTypes /\ FixTypes
  BY VisitTypesSplit DEF VisitInv
<1>2. visits' = visits /\ arrivals' = arrivals /\ FlagTypes'
  BY <1>1 DEF VisitRestart, visitVars, visitLog, FlagTypes
<1>3. FixTypes' /\ \A f \in Calls : fixJob'[f].pc = "idle" \/ fixJob' = fixJob
  BY <1>1, IdleFixType DEF VisitRestart, visitVars, FixTypes
<1>4. MarkedOnce'
  BY <1>2, <1>3, QuietStep DEF Announces
<1> QED
  BY <1>1, <1>2, <1>3, <1>4 DEF VisitInv, VisitTypeOK, FlagTypes, LogTypes, FixTypes, FixState

LEMMA VisitInvNext ==
  ASSUME VisitInv, [VisitNext]_visitVars
  PROVE  VisitInv'
  BY FixReadNext, OutsideLogNext, CrossVisitNext, MarkNext, ArrivalNext, UnansweredNext, VisitRestartNext
  DEF VisitNext

\* A visit is announced at most once (noteInsideFix), whatever fixes are handled at once, whatever
\* fails and however often the Set of announced visits is lost.
THEOREM ArrivalOnceAlways == VisitSpec => []ArrivalOnce
<1>1. VisitInit => VisitInv
  BY VisitInvInit
<1>2. VisitInv /\ [VisitNext]_visitVars => VisitInv'
  BY VisitInvNext
<1>3. VisitInv => ArrivalOnce
  BY DEF VisitInv, MarkedOnce, ArrivalOnce
<1> QED
  BY <1>1, <1>2, <1>3, PTL DEF VisitSpec

\* Which way a fix crosses is known, and after a crossing the row of the state exists.
Directed ==
  /\ \A f \in Calls : fixJob[f].pc \in {"baseline", "cross", "after"} => fixJob[f].to \in {"in", "out"}
  /\ crossed => zoneInside # "none"

\* What the manager has been told says where the vehicle is.
ToldInside == IF zonePurpose = "depot" THEN told = zoneInside
              ELSE OpenVisits # {} <=> zoneInside = "in"

\* What holds of a fix that nothing else can have interfered with.
NothingCameBetween(f) ==
  /\ fixJob[f].pc = "baseline" => zoneInside = "none"
  /\ fixJob[f].pc = "after" => fixJob[f].to = zoneInside
  /\ fixJob[f].pc = "marked" => \E n \in VisitIds : visits[n] = "stopped"

\* As long as fixes have come one by one: the Set silences only a marked visit, also while a fix
\* is being handled, and only a fix that has just crossed owes the manager something.
OneByOne ==
  ~fixRaced =>
    /\ \A f, g \in Calls : fixJob[f].pc # "idle" /\ fixJob[g].pc # "idle" => f = g
    /\ \A f \in Calls : NothingCameBetween(f)
    /\ announced => \E n \in VisitIds : visits[n] = "stopped"
    /\ crossed /\ ~fixMissed /\ (\A f \in Calls : fixJob[f].pc # "after") => ToldInside

FollowInv == VisitInv /\ Directed /\ OneByOne

\* The last two conditions, seen from the fix that is being handled.
Settled(f) ==
  /\ NothingCameBetween(f)
  /\ announced => \E n \in VisitIds : visits[n] = "stopped"
  /\ crossed /\ ~fixMissed /\ fixJob[f].pc # "after" => ToldInside

\* A step of a fix has only that fix to answer for: as long as fixes come one by one, the
\* others are idle.
LEMMA OneByOneStep ==
  ASSUME OneByOne, NEW f \in Calls, fixJob[f].pc # "idle", fixRaced' = fixRaced,
         \A g \in Calls \ {f} : fixJob'[g] = fixJob[g],
         ~fixRaced /\ Settled(f) => Settled(f)'
  PROVE  OneByOne'
<1> SUFFICES ASSUME ~fixRaced
             PROVE  /\ \A g, h \in Calls : fixJob'[g].pc # "idle" /\ fixJob'[h].pc # "idle" => g = h
                    /\ \A g \in Calls : NothingCameBetween(g)'
                    /\ announced' => \E n \in VisitIds : visits'[n] = "stopped"
                    /\ crossed' /\ ~fixMissed' /\ (\A g \in Calls : fixJob'[g].pc # "after") => ToldInside'
  BY DEF OneByOne
<1>1. \A g \in Calls \ {f} : fixJob[g].pc = "idle" /\ fixJob'[g].pc = "idle"
  BY DEF OneByOne
<1>2. Settled(f)
  BY <1>1 DEF OneByOne, Settled
<1>3. Settled(f)'
  BY <1>2
<1>4. \A g \in Calls \ {f} : NothingCameBetween(g)'
  BY <1>1 DEF NothingCameBetween
<1> QED
  BY <1>1, <1>3, <1>4 DEF Settled

\* Directions are kept by a step that gives its own fix no other and forgets no row.
LEMMA DirectedStep ==
  ASSUME Directed, NEW f \in Calls,
         \A g \in Calls \ {f} : fixJob'[g] = fixJob[g],
         fixJob'[f].pc \in {"baseline", "cross", "after"} => fixJob'[f].to \in {"in", "out"},
         crossed' => zoneInside' # "none"
  PROVE  Directed'
  BY DEF Directed

LEMMA DirectedInit == VisitInit => Directed /\ OneByOne
<1> SUFFICES ASSUME VisitInit PROVE Directed /\ OneByOne
  OBVIOUS
<1>1. \A f \in Calls : fixJob[f].pc = "idle"
  BY DEF VisitInit, IdleFix
<1>2. ~crossed /\ ~announced
  BY DEF VisitInit
<1> QED
  BY <1>1, <1>2 DEF Directed, OneByOne, NothingCameBetween

\* A fix is taken up while nothing else is, or two are handled at once from here on.
LEMMA FollowRead ==
  ASSUME FollowInv, NEW f \in Calls, FixRead(f)
  PROVE  Directed' /\ OneByOne'
<1>1. FlagTypes /\ LogTypes /\ FixTypes
  BY VisitTypesSplit DEF FollowInv, VisitInv
<1>2. PICK signed \in {-2, -1, 1, 2}, stands \in BOOLEAN :
        LET to == Verdict(zoneInside, signed)
            pc == CASE zoneInside = "none" -> "baseline"
                    [] zoneInside # to -> "cross"
                    [] OTHER -> IF zonePurpose = "fuel_station" /\ to = "in" THEN "note" ELSE "idle"
        IN fixJob' = [fixJob EXCEPT ![f] =
             IF pc = "idle" THEN IdleFix
             ELSE [pc |-> pc, to |-> to, stands |-> pc = "note" /\ stands, visit |-> 0]]
  BY DEF FixRead
<1> DEFINE to == Verdict(zoneInside, signed)
           pc == CASE zoneInside = "none" -> "baseline"
                   [] zoneInside # to -> "cross"
                   [] OTHER -> IF zonePurpose = "fuel_station" /\ to = "in" THEN "note" ELSE "idle"
           j == IF pc = "idle" THEN IdleFix
                ELSE [pc |-> pc, to |-> to, stands |-> pc = "note" /\ stands, visit |-> 0]
<1>3. to \in {"in", "out"}
  BY <1>1 DEF Verdict, FlagTypes
<1>4. pc \in {"baseline", "cross", "note", "idle"} /\ (pc = "baseline" => zoneInside = "none")
  <2> HIDE DEF to
  <2> QED
    OBVIOUS
<1>5. /\ j.pc \in {"baseline", "cross", "note", "idle"}
      /\ j.pc \in {"baseline", "cross", "after"} => j.to \in {"in", "out"}
      /\ j.pc = "baseline" => zoneInside = "none"
  <2> HIDE DEF to, pc
  <2> QED
    BY <1>3, <1>4 DEF IdleFix
<1>6. fixJob' = [fixJob EXCEPT ![f] = j]
  BY <1>2
<1> HIDE DEF to, pc, j
<1>7. fixJob'[f] = j /\ \A g \in Calls \ {f} : fixJob'[g] = fixJob[g]
  BY <1>1, <1>6 DEF FixTypes
<1>8. UNCHANGED <<zonePurpose, zoneInside, visits, arrivals, announced, told, crossed, fixMissed>>
  BY DEF FixRead, visitLog
<1>9. Directed'
  BY <1>5, <1>7, <1>8, DirectedStep DEF FollowInv, Directed
<1>10. OneByOne'
  <2> SUFFICES ASSUME ~fixRaced' PROVE OneByOne'
    BY DEF OneByOne
  <2>1. ~fixRaced /\ \A g \in Calls : fixJob[g].pc = "idle"
    BY DEF FixRead
  <2>2. /\ announced => \E n \in VisitIds : visits[n] = "stopped"
        /\ crossed /\ ~fixMissed => ToldInside
    BY <2>1 DEF FollowInv, OneByOne
  <2>3. \A g \in Calls \ {f} : fixJob'[g].pc = "idle"
    BY <1>7, <2>1
  <2>4. \A g \in Calls : NothingCameBetween(g)'
    BY <1>5, <1>7, <1>8, <2>3 DEF NothingCameBetween
  <2>5. ToldInside' = ToldInside
    BY <1>8 DEF ToldInside, OpenVisits
  <2> QED
    BY <1>8, <2>2, <2>3, <2>4, <2>5 DEF OneByOne
<1> QED
  BY <1>9, <1>10

\* The row of the state is written; what should follow is owed.
LEMMA FollowStore ==
  ASSUME FollowInv, NEW f \in Calls, StoreBaseline(f) \/ StoreCrossing(f)
  PROVE  Directed' /\ OneByOne'
<1>1. FixTypes
  BY VisitTypesSplit DEF FollowInv, VisitInv
<1>2. fixJob[f].to \in {"in", "out"} /\ zoneInside' = fixJob[f].to
  BY DEF StoreBaseline, StoreCrossing, FollowInv, Directed
<1>3. UNCHANGED <<zonePurpose, visits, announced, told, fixRaced, fixMissed>>
  BY DEF StoreBaseline, StoreCrossing, visitLog
<1>4. CASE StoreBaseline(f)
  <2>1. fixJob'[f].pc = "idle" /\ \A g \in Calls \ {f} : fixJob'[g] = fixJob[g]
    BY <1>1, <1>4, FixMoves, IdleFixType DEF StoreBaseline, FixEnds
  <2>2. ~fixRaced /\ Settled(f) => Settled(f)'
    <3> SUFFICES ASSUME ~fixRaced, Settled(f) PROVE Settled(f)'
      OBVIOUS
    <3>1. zoneInside = "none" /\ crossed' = crossed
      BY <1>4 DEF StoreBaseline, Settled, NothingCameBetween
    <3>2. ~crossed'
      BY <3>1 DEF FollowInv, Directed
    <3> QED
      BY <1>3, <2>1, <3>2 DEF Settled, NothingCameBetween
  <2>3. OneByOne'
    BY <1>3, <1>4, <2>1, <2>2, OneByOneStep DEF FollowInv, StoreBaseline
  <2> QED
    BY <1>2, <2>1, <2>3, DirectedStep DEF FollowInv
<1>5. CASE StoreCrossing(f)
  <2>1. /\ fixJob'[f].pc = "after" /\ fixJob'[f].to = fixJob[f].to
        /\ \A g \in Calls \ {f} : fixJob'[g] = fixJob[g]
    BY <1>1, <1>5 DEF StoreCrossing, FixGoesTo, FixTypes, FixState
  <2>2. ~fixRaced /\ Settled(f) => Settled(f)'
    BY <1>2, <1>3, <2>1 DEF Settled, NothingCameBetween
  <2>3. OneByOne'
    BY <1>3, <1>5, <2>1, <2>2, OneByOneStep DEF FollowInv, StoreCrossing
  <2> QED
    BY <1>2, <2>1, <2>3, DirectedStep DEF FollowInv
<1> QED
  BY <1>4, <1>5

\* The manager is told, or the visit opened or closed, and nothing is owed any more.
LEMMA FollowSettle ==
  ASSUME FollowInv, NEW f \in Calls, TellCrossing(f) \/ OpenVisit(f) \/ CloseVisit(f)
  PROVE  Directed' /\ OneByOne'
<1>1. FixTypes /\ LogTypes
  BY VisitTypesSplit DEF FollowInv, VisitInv
<1>2. /\ fixJob[f].pc = "after" /\ FixEnds(f)
      /\ UNCHANGED <<zonePurpose, zoneInside, crossed, fixRaced, fixMissed>>
  BY DEF TellCrossing, OpenVisit, CloseVisit
<1>3. fixJob'[f].pc = "idle" /\ \A g \in Calls \ {f} : fixJob'[g] = fixJob[g]
  BY <1>1, <1>2, FixMoves, IdleFixType DEF FixEnds
<1>4. Directed'
  BY <1>2, <1>3, DirectedStep DEF FollowInv, Directed
<1>5. ~fixRaced /\ Settled(f) => Settled(f)'
  <2> SUFFICES ASSUME ~fixRaced, Settled(f) PROVE Settled(f)'
    OBVIOUS
  <2>1. NothingCameBetween(f)'
    BY <1>3 DEF NothingCameBetween
  <2>2. fixJob[f].to = zoneInside
    BY <1>2 DEF Settled, NothingCameBetween
  <2>3. CASE TellCrossing(f)
    <3>1. zonePurpose = "depot" /\ told' = zoneInside /\ UNCHANGED <<visits, announced>>
      BY <2>2, <2>3 DEF TellCrossing, visitLog
    <3> QED
      BY <1>2, <2>1, <3>1 DEF Settled, ToldInside
  <2>4. CASE OpenVisit(f)
    <3>1. zonePurpose = "fuel_station" /\ zoneInside = "in" /\ ~announced'
      BY <2>2, <2>4 DEF OpenVisit
    <3>2. OpenVisits' # {}
      <4>1. CASE OpenVisits # {} /\ visits' = visits
        BY <4>1 DEF OpenVisits
      <4>2. ASSUME NEW n \in NextVisit, visits' = [visits EXCEPT ![n] = "open"] PROVE OpenVisits' # {}
        <5>1. n \in VisitIds /\ visits'[n] = "open"
          BY <1>1, <4>2 DEF NextVisit, LogTypes
        <5> QED
          BY <5>1 DEF OpenVisits
      <4> QED
        BY <2>4, <4>1, <4>2 DEF OpenVisit
    <3> QED
      BY <1>2, <2>1, <3>1, <3>2 DEF Settled, ToldInside
  <2>5. CASE CloseVisit(f)
    <3>1. zonePurpose = "fuel_station" /\ zoneInside = "out" /\ ~announced'
      BY <2>2, <2>5 DEF CloseVisit
    <3>2. OpenVisits' = {}
      BY <2>5 DEF CloseVisit, LeaveVisits, OpenVisits
    <3> QED
      BY <1>2, <2>1, <3>1, <3>2 DEF Settled, ToldInside
  <2> QED
    BY <2>3, <2>4, <2>5
<1> QED
  BY <1>2, <1>3, <1>4, <1>5, OneByOneStep DEF FollowInv

\* Steps of a fix inside the zone change no crossing: a visit that is marked stays open, and
\* the Set is told of a marked one.
LEMMA FollowInside ==
  ASSUME FollowInv, NEW f \in Calls,
         NoteInsideFix(f) \/ MarkStopped(f) \/ RememberArrival(f) \/ RaiseArrival(f)
  PROVE  Directed' /\ OneByOne'
<1>1. FixTypes /\ LogTypes
  BY VisitTypesSplit DEF FollowInv, VisitInv
<1>2. /\ fixJob[f].pc \in {"note", "marking", "marked", "arrive"}
      /\ UNCHANGED <<zonePurpose, zoneInside, told, crossed, fixRaced, fixMissed>>
  BY DEF NoteInsideFix, MarkStopped, RememberArrival, RaiseArrival, visitLog
<1>3. /\ \A g \in Calls \ {f} : fixJob'[g] = fixJob[g]
      /\ fixJob'[f].pc \in {"idle", "marking", "marked", "arrive"}
  <2>1. CASE FixEnds(f)
    BY <1>1, <2>1, FixMoves, IdleFixType DEF FixEnds
  <2>2. CASE FixGoesTo(f, "marking") \/ FixGoesTo(f, "arrive")
    BY <1>1, <2>2, FixGoes DEF FixGoesTo
  <2>3. ASSUME NEW n \in VisitIds, fixJob' = [fixJob EXCEPT ![f].pc = "marked", ![f].visit = n]
        PROVE  fixJob'[f].pc = "marked" /\ \A g \in Calls \ {f} : fixJob'[g] = fixJob[g]
    BY <1>1, <2>3 DEF FixTypes, FixState
  <2> QED
    BY <2>1, <2>2, <2>3 DEF NoteInsideFix, MarkStopped, RememberArrival, RaiseArrival, Unstopped
<1>4. Directed'
  BY <1>2, <1>3, DirectedStep DEF FollowInv, Directed
<1>5. CASE MarkStopped(f)
  <2>1. announced' = announced
    BY <1>5 DEF MarkStopped
  <2>2. CASE FixEnds(f) /\ visits' = visits
    <3>1. fixJob'[f].pc = "idle" /\ ToldInside' = ToldInside
      BY <1>1, <1>2, <2>2, FixMoves, IdleFixType DEF FixEnds, ToldInside, OpenVisits
    <3>2. ~fixRaced /\ Settled(f) => Settled(f)'
      BY <1>2, <2>1, <2>2, <3>1 DEF Settled, NothingCameBetween
    <3> QED
      BY <1>2, <1>3, <1>4, <3>2, OneByOneStep DEF FollowInv
  <2>3. ASSUME NEW n \in Unstopped, visits' = [visits EXCEPT ![n] = "stopped"]
        PROVE  Directed' /\ OneByOne'
    <3>1. n \in VisitIds /\ visits'[n] = "stopped"
      BY <1>1, <2>3 DEF Unstopped, LogTypes
    <3>2. \A m \in VisitIds : visits'[m] \in {"open", "stopped"} <=> visits[m] \in {"open", "stopped"}
      BY <1>1, <2>3 DEF Unstopped, LogTypes
    <3>3. OpenVisits' = OpenVisits
      BY <3>2 DEF OpenVisits
    <3>4. ToldInside' = ToldInside
      BY <1>2, <3>3 DEF ToldInside
    <3>5. ~fixRaced /\ Settled(f) => Settled(f)'
      BY <1>2, <1>3, <2>1, <3>1, <3>4 DEF Settled, NothingCameBetween
    <3> QED
      BY <1>2, <1>3, <1>4, <3>5, OneByOneStep DEF FollowInv
  <2> QED
    BY <1>5, <2>2, <2>3 DEF MarkStopped
<1>6. CASE NoteInsideFix(f) \/ RememberArrival(f) \/ RaiseArrival(f)
  <2>1. visits' = visits /\ (announced' => announced \/ fixJob[f].pc = "marked")
    BY <1>6 DEF NoteInsideFix, RememberArrival, RaiseArrival, visitLog
  <2>2. fixJob'[f].pc # "marked"
    BY <1>1, <1>6, FixMoves, FixGoes, IdleFixType
    DEF NoteInsideFix, RememberArrival, RaiseArrival, FixEnds, FixGoesTo
  <2>3. ToldInside' = ToldInside
    BY <1>2, <2>1 DEF ToldInside, OpenVisits
  <2>4. ~fixRaced /\ Settled(f) => Settled(f)'
    BY <1>2, <1>3, <2>1, <2>2, <2>3 DEF Settled, NothingCameBetween
  <2> QED
    BY <1>2, <1>3, <1>4, <2>4, OneByOneStep DEF FollowInv
<1> QED
  BY <1>5, <1>6

\* What a failure or a restart loses after the row was written is what fixMissed remembers.
LEMMA FollowUpset ==
  ASSUME FollowInv, (\E f \in Calls : FixFails(f)) \/ VisitRestart \/ UNCHANGED visitVars
  PROVE  Directed' /\ OneByOne'
<1>1. FixTypes
  BY VisitTypesSplit DEF FollowInv, VisitInv
<1>2. ASSUME NEW f \in Calls, FixFails(f) PROVE Directed' /\ OneByOne'
  <2>1. /\ UNCHANGED <<zonePurpose, zoneInside, visits, told, crossed, fixRaced>>
        /\ fixJob[f].pc # "idle" /\ (announced' => announced)
        /\ ~fixMissed' => ~fixMissed /\ fixJob[f].pc # "after"
    BY <1>2 DEF FixFails
  <2>2. fixJob'[f].pc = "idle" /\ \A g \in Calls \ {f} : fixJob'[g] = fixJob[g]
    BY <1>1, <1>2, FixMoves, IdleFixType DEF FixFails, FixEnds
  <2>3. ToldInside' = ToldInside
    BY <2>1 DEF ToldInside, OpenVisits
  <2>4. ~fixRaced /\ Settled(f) => Settled(f)'
    BY <2>1, <2>2, <2>3 DEF Settled, NothingCameBetween
  <2> QED
    BY <2>1, <2>2, <2>4, OneByOneStep, DirectedStep DEF FollowInv, Directed
<1>3. CASE VisitRestart
  <2>1. /\ UNCHANGED <<zonePurpose, zoneInside, visits, told, crossed, fixRaced>> /\ ~announced'
        /\ ~fixMissed' => ~fixMissed /\ \A f \in Calls : fixJob[f].pc # "after"
    BY <1>3 DEF VisitRestart
  <2>2. \A f \in Calls : fixJob'[f].pc = "idle"
    BY <1>3 DEF VisitRestart, IdleFix
  <2>3. ToldInside' = ToldInside
    BY <2>1 DEF ToldInside, OpenVisits
  <2> QED
    BY <2>1, <2>2, <2>3 DEF FollowInv, Directed, OneByOne, NothingCameBetween
<1>4. CASE UNCHANGED visitVars
  <2>1. UNCHANGED <<zonePurpose, zoneInside, visits, told, crossed, fixRaced, fixMissed, announced, fixJob>>
    BY <1>4 DEF visitVars
  <2>2. ToldInside' = ToldInside
    BY <2>1 DEF ToldInside, OpenVisits
  <2> QED
    BY <2>1, <2>2 DEF FollowInv, Directed, OneByOne, NothingCameBetween
<1> QED
  BY <1>2, <1>3, <1>4

\* A crossing that is written and not told is what fixMissed remembers; a visit that is marked
\* stays open.
LEMMA FollowUnanswered ==
  ASSUME FollowInv, NEW f \in Calls, FixUnanswered(f)
  PROVE  Directed' /\ OneByOne'
<1>1. FixTypes /\ LogTypes
  BY VisitTypesSplit DEF FollowInv, VisitInv
<1>2. /\ fixJob[f].pc \in {"cross", "marking"} /\ FixEnds(f)
      /\ UNCHANGED <<zonePurpose, announced, told, fixRaced>>
  BY DEF FixUnanswered
<1>3. fixJob'[f].pc = "idle" /\ \A g \in Calls \ {f} : fixJob'[g] = fixJob[g]
  BY <1>1, <1>2, FixMoves, IdleFixType DEF FixEnds
<1>4. NothingCameBetween(f)'
  BY <1>3 DEF NothingCameBetween
<1>5. CASE fixJob[f].pc = "cross"
  <2>1. zoneInside' = fixJob[f].to /\ fixMissed' /\ visits' = visits
    BY <1>5 DEF FixUnanswered
  <2>2. zoneInside' \in {"in", "out"}
    BY <1>5, <2>1 DEF FollowInv, Directed
  <2>3. Directed'
    BY <1>3, <2>2, DirectedStep DEF FollowInv
  <2>4. ~fixRaced /\ Settled(f) => Settled(f)'
    BY <1>2, <1>4, <2>1 DEF Settled
  <2> QED
    BY <1>2, <1>3, <1>5, <2>3, <2>4, OneByOneStep DEF FollowInv
<1>6. CASE fixJob[f].pc = "marking"
  <2>1. UNCHANGED <<zoneInside, crossed, fixMissed>>
    BY <1>6 DEF FixUnanswered
  <2>2. PICK n \in Unstopped : visits' = [visits EXCEPT ![n] = "stopped"]
    BY <1>6 DEF FixUnanswered
  <2>3. n \in VisitIds /\ visits'[n] = "stopped"
    BY <1>1, <2>2 DEF Unstopped, LogTypes
  <2>4. \A m \in VisitIds : visits'[m] \in {"open", "stopped"} <=> visits[m] \in {"open", "stopped"}
    BY <1>1, <2>2 DEF Unstopped, LogTypes
  <2>5. OpenVisits' = OpenVisits
    BY <2>4 DEF OpenVisits
  <2>6. ToldInside' = ToldInside
    BY <1>2, <2>1, <2>5 DEF ToldInside
  <2>7. Directed'
    BY <1>3, <2>1, DirectedStep DEF FollowInv, Directed
  <2>8. ~fixRaced /\ Settled(f) => Settled(f)'
    BY <1>2, <1>3, <1>4, <1>6, <2>1, <2>3, <2>6 DEF Settled
  <2> QED
    BY <1>2, <1>3, <1>6, <2>7, <2>8, OneByOneStep DEF FollowInv
<1> QED
  BY <1>2, <1>5, <1>6

LEMMA FollowInvNext ==
  ASSUME FollowInv, [VisitNext]_visitVars
  PROVE  FollowInv'
<1>1. VisitInv'
  BY VisitInvNext DEF FollowInv
<1>2. Directed' /\ OneByOne'
  BY FollowRead, FollowStore, FollowSettle, FollowInside, FollowUnanswered, FollowUpset DEF VisitNext
<1> QED
  BY <1>1, <1>2 DEF FollowInv

LEMMA FollowInvCorrect == VisitSpec => []FollowInv
<1>1. VisitInit => FollowInv
  BY VisitInvInit, DirectedInit DEF FollowInv
<1>2. FollowInv /\ [VisitNext]_visitVars => FollowInv'
  BY FollowInvNext
<1> QED
  BY <1>1, <1>2, PTL DEF VisitSpec

\* The Set of announced visits silences only a visit that is marked as a stop, as long as fixes
\* came one by one: closing a visit and forgetting it are one step, and a restart forgets all.
THEOREM SilencedIsMarkedAlways == VisitSpec => []SilencedIsMarked
<1>1. FollowInv => SilencedIsMarked
  BY DEF FollowInv, OneByOne, SilencedIsMarked
<1> QED
  BY <1>1, FollowInvCorrect, PTL

\* Once the vehicle has crossed, the last alert of a depot or the open visit of a station says
\* where it is, for any number of fixes, unless two were handled at once or a step was lost.
THEOREM CrossingIsToldAlways == VisitSpec => []CrossingIsTold
<1>1. FollowInv => CrossingIsTold
  <2> SUFFICES ASSUME FollowInv, crossed, ~fixRaced, ~fixMissed, \A f \in Calls : fixJob[f].pc = "idle"
               PROVE  ToldInside
    BY DEF CrossingIsTold, ToldInside
  <2> QED
    BY DEF FollowInv, OneByOne
<1> QED
  BY <1>1, FollowInvCorrect, PTL

\* The types of the visits, the fixes and the flags.
THEOREM VisitTypesCorrect == VisitSpec => []VisitTypeOK
<1>1. FollowInv => VisitTypeOK
  BY DEF FollowInv, VisitInv
<1> QED
  BY <1>1, FollowInvCorrect, PTL

-----------------------------------------------------------------------------
(* PowerMonitor                                                            *)

\* Unless two jobs wrote at once: one job writes, and what it found of the alerts still stands.
OneWriter ==
  ~powerRaced =>
    /\ \A f, g \in Calls : WritesPower(f) /\ WritesPower(g) => f = g
    /\ \A f \in Calls : powerJob[f].pc = "raise" => lossAlert[powerJob[f].kind] = 0
    /\ \A k \in Losses : lossAlert[k] <= 1

\* Unless upset, too: what is being written is the difference between the state and the alerts,
\* and what a seed has read of the alerts holds until the state is known.
Settles ==
  ~powerRaced /\ ~powerUpset =>
    /\ \A f \in Calls : WritesPower(f) =>
         /\ power.known
         /\ \/ powerJob[f].kind \in Losses /\ power.unplugged /\ ~AnyLossOpen
            \/ powerJob[f].kind = "restored" /\ ~power.unplugged
    /\ \A f \in Calls : powerJob[f].pc = "close" => powerJob[f].kind = "restored"
    /\ power.known /\ (\A f \in Calls : ~WritesPower(f)) => (power.unplugged <=> AnyLossOpen)
    /\ \A f \in Calls : powerJob[f].pc = "seed" /\ ~power.known => (powerJob[f].seed <=> AnyLossOpen)

PowerInv == PowerTypeOK /\ OneWriter /\ Settles

PowerState == [known : BOOLEAN, unplugged : BOOLEAN, streak : 0..LowFrames, since : 0..PowerEnd, moved : BOOLEAN]

JobState == [pc : {"idle", "load", "seed", "insert", "raise", "close"},
             kind : Losses \union {"restored", "none"}, reading : PowerReadings, seed : BOOLEAN]

JobTypes ==
  /\ powerJob \in [Calls -> JobState]
  /\ \A f \in Calls : /\ powerJob[f].pc = "insert" => powerJob[f].kind # "none"
                      /\ powerJob[f].pc = "raise" => powerJob[f].kind \in Losses
AlertTypes ==
  /\ lossAlert \in [Losses -> 0..2]
  /\ powerRaced \in BOOLEAN /\ powerUpset \in BOOLEAN

LEMMA PowerTypesSplit == PowerTypeOK <=> power \in PowerState /\ JobTypes /\ AlertTypes
  BY DEF PowerTypeOK, PowerState, JobTypes, JobState, AlertTypes

LEMMA PowerBounds == PowerEnd \in Nat \ {0} /\ LowFrames \in Nat /\ SustainedLow \in Nat
  BY PowerConstants

LEMMA InitialPower ==
  /\ UnknownPower \in PowerState /\ ~UnknownPower.known
  /\ PoweredState \in PowerState /\ PoweredState.known /\ ~PoweredState.unplugged
<1>1. PoweredState \in PowerState /\ PoweredState.known /\ ~PoweredState.unplugged
  BY PowerBounds DEF PoweredState, PowerState
<1>2. UnknownPower \in PowerState /\ ~UnknownPower.known
  BY PowerBounds DEF UnknownPower, PowerState
<1> QED
  BY <1>1, <1>2

\* What a reading makes of the state, and when that is a transition.
LEMMA ReadingDecides ==
  ASSUME NEW before \in PowerState, NEW r \in PowerReadings, before.known
  PROVE  /\ PowerStateAfter(before, r) \in PowerState /\ PowerStateAfter(before, r).known
         /\ PowerTransition(before, r) \in Losses \union {"restored", "none"}
         /\ PowerTransition(before, r) \in Losses => ~before.unplugged /\ PowerStateAfter(before, r).unplugged
         /\ PowerTransition(before, r) = "restored" => before.unplugged /\ ~PowerStateAfter(before, r).unplugged
         /\ PowerTransition(before, r) = "none" => (PowerStateAfter(before, r).unplugged <=> before.unplugged)
<1> DEFINE kind == PowerTransition(before, r)
           low == AfterLow(before, r)
<1>1. CASE r.v = "ok"
  <2>1. PowerStateAfter(before, r) = PoweredState /\ kind = IF before.unplugged THEN "restored" ELSE "none"
    BY <1>1 DEF PowerStateAfter, PowerTransition
  <2> QED
    BY <2>1, InitialPower DEF Losses
<1>2. CASE r.v # "ok"
  <2>1. low \in PowerState /\ low.known = before.known /\ low.unplugged = before.unplugged
    <3>1. r.at \in 0..PowerEnd /\ before.streak \in 0..LowFrames /\ before.since \in 0..PowerEnd
      BY PowerBounds DEF PowerReadings, PowerState
    <3>2. (IF before.streak < LowFrames THEN before.streak + 1 ELSE before.streak) \in 0..LowFrames
      BY <3>1, PowerBounds
    <3>3. (IF before.since = 0 THEN r.at ELSE before.since) \in 0..PowerEnd
      BY <3>1
    <3>4. (before.moved \/ r.v = "moving") \in BOOLEAN
      OBVIOUS
    <3> QED
      BY <3>2, <3>3, <3>4 DEF AfterLow, PowerState
  <2>2. kind = IF before.unplugged \/ ~LowLongEnough(low, r) THEN "none"
               ELSE IF low.moved THEN "dropout" ELSE "unplug"
    BY <1>2 DEF PowerTransition
  <2>3. PowerStateAfter(before, r) = [low EXCEPT !.unplugged = low.unplugged \/ kind # "none"]
    BY <1>2 DEF PowerStateAfter
  <2>4. /\ PowerStateAfter(before, r) \in PowerState /\ PowerStateAfter(before, r).known = low.known
        /\ PowerStateAfter(before, r).unplugged = (low.unplugged \/ kind # "none")
    <3> HIDE DEF low, kind
    <3> QED
      BY <2>1, <2>3 DEF PowerState
  <2>5. kind \in Losses \union {"none"} /\ (kind \in Losses => ~before.unplugged)
    <3> HIDE DEF low
    <3> QED
      BY <2>2 DEF Losses
  <2> QED
    BY <2>1, <2>4, <2>5 DEF Losses
<1> QED
  BY <1>1, <1>2

LEMMA IdleJob == IdlePowerJob \in JobState /\ IdlePowerJob.pc = "idle"
  BY PowerBounds DEF IdlePowerJob, JobState, NoPowerReading, PowerReadings

LEMMA PowerInvInit == PowerInit => PowerInv
<1> SUFFICES ASSUME PowerInit PROVE PowerInv
  OBVIOUS
<1>1. \A f \in Calls : powerJob[f] = IdlePowerJob /\ powerJob[f].pc = "idle"
  BY IdleJob DEF PowerInit
<1>2. \A k \in Losses : lossAlert[k] = 0
  BY DEF PowerInit
<1>3. AlertTypes
  <2>1. lossAlert \in [Losses -> 0..2]
    BY DEF PowerInit
  <2>2. powerRaced \in BOOLEAN /\ powerUpset \in BOOLEAN
    BY DEF PowerInit
  <2> QED
    BY <2>1, <2>2 DEF AlertTypes
<1>4. JobTypes
  BY <1>1, IdleJob DEF PowerInit, JobTypes
<1>5. power \in PowerState /\ ~power.known
  BY InitialPower DEF PowerInit
<1>6. OneWriter
  BY <1>1, <1>2 DEF OneWriter, WritesPower
<1>7. Settles
  BY <1>1, <1>5 DEF Settles, WritesPower
<1> QED
  BY <1>3, <1>4, <1>5, <1>6, <1>7, PowerTypesSplit DEF PowerInv

\* A job that becomes another, the rest staying where they are.
LEMMA JobMoves ==
  ASSUME JobTypes, NEW f \in Calls, NEW j \in JobState,
         j.pc = "insert" => j.kind # "none", j.pc = "raise" => j.kind \in Losses,
         powerJob' = [powerJob EXCEPT ![f] = j]
  PROVE  JobTypes' /\ powerJob'[f] = j /\ \A g \in Calls \ {f} : powerJob'[g] = powerJob[g]
<1>1. powerJob'[f] = j /\ \A g \in Calls \ {f} : powerJob'[g] = powerJob[g]
  BY DEF JobTypes
<1>2. powerJob' \in [Calls -> JobState]
  BY DEF JobTypes
<1> QED
  BY <1>1, <1>2 DEF JobTypes

\* The invariant of the next state from its parts.
LEMMA PowerInvPrimed ==
  ASSUME power' \in PowerState, JobTypes', AlertTypes', OneWriter', Settles'
  PROVE  PowerInv'
<1>1. PowerTypeOK'
  BY DEF PowerTypeOK, PowerState, JobTypes, JobState, AlertTypes
<1> QED
  BY <1>1 DEF PowerInv

\* A reading meets a state: what it writes next is the difference to the alerts.
LEMMA DecisionNext ==
  ASSUME PowerInv, NEW f \in Calls, NEW before \in PowerState, NEW r \in PowerReadings,
         before.known, ~WritesPower(f),
         power' = PowerStateAfter(before, r),
         powerJob' = [powerJob EXCEPT ![f] =
                        IF PowerTransition(before, r) = "none" THEN IdlePowerJob
                        ELSE [IdlePowerJob EXCEPT !.pc = "insert", !.kind = PowerTransition(before, r)]],
         powerRaced' \in BOOLEAN, powerRaced => powerRaced',
         ~powerRaced' /\ PowerTransition(before, r) # "none" => ~AnotherWritesPower(f),
         ~powerRaced' /\ ~powerUpset /\ AnotherWritesPower(f) => before = power,
         ~powerRaced' /\ ~powerUpset /\ ~AnotherWritesPower(f) => (before.unplugged <=> AnyLossOpen),
         UNCHANGED <<lossAlert, powerUpset>>
  PROVE  PowerInv'
<1> DEFINE kind == PowerTransition(before, r)
           after == PowerStateAfter(before, r)
           j == IF kind = "none" THEN IdlePowerJob ELSE [IdlePowerJob EXCEPT !.pc = "insert", !.kind = kind]
<1>1. power \in PowerState /\ JobTypes /\ AlertTypes
  BY PowerTypesSplit DEF PowerInv
<1>2. /\ after \in PowerState /\ after.known
      /\ kind \in Losses \union {"restored", "none"}
      /\ kind \in Losses => ~before.unplugged /\ after.unplugged
      /\ kind = "restored" => before.unplugged /\ ~after.unplugged
      /\ kind = "none" => (after.unplugged <=> before.unplugged)
  BY ReadingDecides
<1>3. power' = after /\ powerJob' = [powerJob EXCEPT ![f] = j]
  OBVIOUS
<1>4. /\ j \in JobState /\ j.pc \in {"idle", "insert"}
      /\ j.pc = "idle" <=> kind = "none"
      /\ kind # "none" => j.kind = kind
  <2> HIDE DEF kind, after
  <2>1. CASE kind = "none"
    BY <2>1, IdleJob
  <2>2. CASE kind # "none"
    BY <1>2, <2>2, IdleJob DEF JobState
  <2> QED
    BY <2>1, <2>2
<1>5. ~powerRaced' /\ kind # "none" => ~AnotherWritesPower(f)
  OBVIOUS
<1> HIDE DEF kind, after, j
<1>6. JobTypes' /\ powerJob'[f] = j /\ \A g \in Calls \ {f} : powerJob'[g] = powerJob[g]
  BY <1>1, <1>3, <1>4, JobMoves
<1>7. WritesPower(f)' <=> kind # "none"
  BY <1>4, <1>6 DEF WritesPower
<1>8. \A g \in Calls \ {f} : WritesPower(g)' <=> WritesPower(g)
  BY <1>6 DEF WritesPower
<1>9. AlertTypes'
  BY <1>1 DEF AlertTypes
<1>10. OneWriter'
  <2> SUFFICES ASSUME ~powerRaced'
               PROVE  /\ \A g, h \in Calls : WritesPower(g)' /\ WritesPower(h)' => g = h
                      /\ \A g \in Calls : powerJob'[g].pc = "raise" => lossAlert[powerJob'[g].kind] = 0
                      /\ \A k \in Losses : lossAlert[k] <= 1
    BY DEF OneWriter
  <2>1. /\ \A g, h \in Calls : WritesPower(g) /\ WritesPower(h) => g = h
        /\ \A g \in Calls : powerJob[g].pc = "raise" => lossAlert[powerJob[g].kind] = 0
        /\ \A k \in Losses : lossAlert[k] <= 1
    BY DEF PowerInv, OneWriter
  <2>2. kind # "none" => \A g \in Calls \ {f} : ~WritesPower(g)
    BY <1>5 DEF AnotherWritesPower
  <2>3. \A g, h \in Calls : WritesPower(g)' /\ WritesPower(h)' => g = h
    BY <1>7, <1>8, <2>1, <2>2
  <2> QED
    BY <1>4, <1>6, <2>1, <2>3
<1>11. Settles'
  <2> SUFFICES ASSUME ~powerRaced', ~powerUpset
               PROVE  /\ \A g \in Calls : WritesPower(g)' =>
                           /\ power'.known
                           /\ \/ powerJob'[g].kind \in Losses /\ power'.unplugged /\ ~AnyLossOpen'
                              \/ powerJob'[g].kind = "restored" /\ ~power'.unplugged
                      /\ \A g \in Calls : powerJob'[g].pc = "close" => powerJob'[g].kind = "restored"
                      /\ power'.known /\ (\A g \in Calls : ~WritesPower(g)') => (power'.unplugged <=> AnyLossOpen')
                      /\ \A g \in Calls : powerJob'[g].pc = "seed" /\ ~power'.known => (powerJob'[g].seed <=> AnyLossOpen')
    BY DEF Settles
  <2>1. /\ \A g \in Calls : WritesPower(g) =>
             /\ power.known
             /\ \/ powerJob[g].kind \in Losses /\ power.unplugged /\ ~AnyLossOpen
                \/ powerJob[g].kind = "restored" /\ ~power.unplugged
        /\ \A g \in Calls : powerJob[g].pc = "close" => powerJob[g].kind = "restored"
    BY DEF PowerInv, Settles
  <2>2. AnyLossOpen' <=> AnyLossOpen
    BY DEF AnyLossOpen
  <2>3. \A g \in Calls : powerJob'[g].pc = "close" => powerJob'[g].kind = "restored"
    BY <1>4, <1>6, <2>1
  <2>4. CASE AnotherWritesPower(f)
    <3>1. before = power /\ kind = "none"
      BY <1>5, <2>4
    <3>2. ASSUME NEW g \in Calls, WritesPower(g)'
          PROVE  g # f /\ WritesPower(g) /\ powerJob'[g] = powerJob[g]
      BY <1>6, <1>7, <1>8, <3>1, <3>2
    <3>3. ~(\A g \in Calls : ~WritesPower(g)')
      BY <1>8, <2>4 DEF AnotherWritesPower
    <3> QED
      BY <1>2, <1>3, <2>1, <2>2, <2>3, <3>1, <3>2, <3>3
  <2>5. CASE ~AnotherWritesPower(f)
    <3>1. before.unplugged <=> AnyLossOpen
      BY <2>5
    <3>2. \A g \in Calls : WritesPower(g)' => g = f /\ kind # "none"
      BY <1>7, <1>8, <2>5 DEF AnotherWritesPower
    <3>3. kind # "none" => powerJob'[f].kind = kind
      BY <1>4, <1>6
    <3>4. kind = "none" \/ WritesPower(f)'
      BY <1>7
    <3> QED
      BY <1>2, <1>3, <2>2, <2>3, <3>1, <3>2, <3>3, <3>4
  <2> QED
    BY <2>4, <2>5
<1> QED
  BY <1>2, <1>3, <1>6, <1>9, <1>10, <1>11, PowerInvPrimed

LEMMA ReadPowerNext ==
  ASSUME PowerInv, NEW f \in Calls, ReadPower(f)
  PROVE  PowerInv'
<1>1. power \in PowerState /\ JobTypes /\ AlertTypes
  BY PowerTypesSplit DEF PowerInv
<1>2. PICK r \in PowerReadings : DecidePower(f, power, r)
  BY DEF ReadPower
<1>3. /\ powerJob[f].pc = "idle" /\ power.known /\ UNCHANGED <<lossAlert, powerUpset>>
  BY DEF ReadPower
<1>4. ~WritesPower(f)
  BY <1>3 DEF WritesPower
<1> DEFINE kind == PowerTransition(power, r)
<1>5. /\ power' = PowerStateAfter(power, r)
      /\ powerJob' = [powerJob EXCEPT ![f] =
           IF kind = "none" THEN IdlePowerJob ELSE [IdlePowerJob EXCEPT !.pc = "insert", !.kind = kind]]
      /\ powerRaced' = (powerRaced \/ (kind # "none" /\ AnotherWritesPower(f)))
  BY <1>2 DEF DecidePower, ReportPower
<1>6. powerRaced' \in BOOLEAN /\ (powerRaced => powerRaced')
  BY <1>1, <1>5 DEF AlertTypes
<1>7. ~powerRaced' /\ kind # "none" => ~AnotherWritesPower(f)
  BY <1>5
<1>8. ~powerRaced' /\ ~powerUpset /\ ~AnotherWritesPower(f) => (power.unplugged <=> AnyLossOpen)
  BY <1>3, <1>4, <1>6 DEF PowerInv, Settles, AnotherWritesPower
<1> QED
  BY <1>1, <1>3, <1>4, <1>5, <1>6, <1>7, <1>8, DecisionNext

\* The seed replaces the state: unless somebody else got there first, it says what the alerts say.
LEMMA PowerSeededNext ==
  ASSUME PowerInv, NEW f \in Calls, PowerSeeded(f)
  PROVE  PowerInv'
<1> DEFINE r == powerJob[f].reading
           seeded == [PoweredState EXCEPT !.unplugged = powerJob[f].seed]
           kind == PowerTransition(seeded, r)
<1>1. power \in PowerState /\ JobTypes /\ AlertTypes
  BY PowerTypesSplit DEF PowerInv
<1>2. /\ powerJob[f].pc = "seed" /\ UNCHANGED <<lossAlert, powerUpset>>
      /\ power' = PowerStateAfter(seeded, r)
      /\ powerJob' = [powerJob EXCEPT ![f] =
           IF kind = "none" THEN IdlePowerJob ELSE [IdlePowerJob EXCEPT !.pc = "insert", !.kind = kind]]
      /\ powerRaced' = (powerRaced \/ power.known \/ (kind # "none" /\ AnotherWritesPower(f)))
  BY DEF PowerSeeded
<1>3. r \in PowerReadings /\ powerJob[f].seed \in BOOLEAN
  BY <1>1 DEF JobTypes, JobState
<1>4. seeded \in PowerState /\ seeded.known /\ (seeded.unplugged <=> powerJob[f].seed)
  BY <1>3, InitialPower DEF PowerState, PoweredState
<1> HIDE DEF r, seeded
<1>5. ~WritesPower(f)
  BY <1>2 DEF WritesPower
<1>6. powerRaced' \in BOOLEAN /\ (powerRaced => powerRaced') /\ (power.known => powerRaced')
  <2>1. power.known \in BOOLEAN
    BY <1>1 DEF PowerState
  <2> QED
    BY <1>1, <1>2, <2>1 DEF AlertTypes
<1>7. ~powerRaced' /\ kind # "none" => ~AnotherWritesPower(f)
  BY <1>2
<1>8. ~powerRaced' /\ ~powerUpset => ~AnotherWritesPower(f)
  BY <1>6 DEF PowerInv, Settles, AnotherWritesPower
<1>9. ~powerRaced' /\ ~powerUpset => (seeded.unplugged <=> AnyLossOpen)
  BY <1>2, <1>4, <1>6 DEF PowerInv, Settles
<1> QED
  BY <1>2, <1>3, <1>4, <1>5, <1>6, <1>7, <1>8, <1>9, DecisionNext

\* Steps before the decision: nothing is written and nothing believed.
LEMMA LoadNext ==
  ASSUME PowerInv, NEW f \in Calls, LoadPower(f) \/ PowerSeedRead(f)
  PROVE  PowerInv'
<1>1. power \in PowerState /\ JobTypes /\ AlertTypes
  BY PowerTypesSplit DEF PowerInv
<1>2. UNCHANGED <<power, lossAlert, powerRaced, powerUpset>> /\ powerJob[f].pc \in {"idle", "load"}
  BY DEF LoadPower, PowerSeedRead
<1>3. PICK j \in JobState : /\ powerJob' = [powerJob EXCEPT ![f] = j]
                            /\ j.pc = "load" \/ (j.pc = "seed" /\ (j.seed <=> AnyLossOpen))
  <2>1. CASE LoadPower(f)
    <3>1. PICK r \in PowerReadings :
            powerJob' = [powerJob EXCEPT ![f] = [IdlePowerJob EXCEPT !.pc = "load", !.reading = r]]
      BY <2>1 DEF LoadPower
    <3>2. [IdlePowerJob EXCEPT !.pc = "load", !.reading = r] \in JobState
      BY IdleJob DEF JobState
    <3>3. [IdlePowerJob EXCEPT !.pc = "load", !.reading = r].pc = "load"
      BY IdleJob DEF JobState
    <3> QED
      BY <3>1, <3>2, <3>3
  <2>2. CASE PowerSeedRead(f)
    <3>1. PICK open \in BOOLEAN : /\ powerJob' = [powerJob EXCEPT ![f].pc = "seed", ![f].seed = open]
                                  /\ open <=> AnyLossOpen
      <4>1. AnyLossOpen \in BOOLEAN
        BY DEF AnyLossOpen
      <4> QED
        BY <2>2, <4>1, Zenon DEF PowerSeedRead
    <3> DEFINE j == [powerJob[f] EXCEPT !.pc = "seed", !.seed = open]
    <3>2. j \in JobState /\ j.pc = "seed" /\ j.seed = open
      BY <1>1 DEF JobTypes, JobState
    <3>3. powerJob' = [powerJob EXCEPT ![f] = j]
      BY <1>1, <3>1 DEF JobTypes, JobState
    <3> QED
      BY <3>1, <3>2, <3>3
  <2> QED
    BY <2>1, <2>2
<1>4. JobTypes' /\ powerJob'[f] = j /\ \A g \in Calls \ {f} : powerJob'[g] = powerJob[g]
  BY <1>1, <1>3, JobMoves
<1>5. \A g \in Calls : (WritesPower(g)' <=> WritesPower(g)) /\ (WritesPower(g)' => powerJob'[g] = powerJob[g])
  BY <1>2, <1>3, <1>4 DEF WritesPower
<1>6. AlertTypes' /\ (AnyLossOpen' <=> AnyLossOpen)
  BY <1>1, <1>2 DEF AlertTypes, AnyLossOpen
<1>7. OneWriter'
  BY <1>2, <1>3, <1>4, <1>5 DEF PowerInv, OneWriter
<1>8. Settles'
  BY <1>2, <1>3, <1>4, <1>5, <1>6 DEF PowerInv, Settles
<1> QED
  BY <1>1, <1>2, <1>4, <1>6, <1>7, <1>8, PowerInvPrimed

\* An event of the scenario, or an alert that a manager closes: nothing is claimed of the rest.
LEMMA UpsettingNext ==
  ASSUME PowerInv, (\E f \in Calls : ScenarioEvent(f)) \/ LossDismissed
  PROVE  PowerInv'
<1>1. power \in PowerState /\ JobTypes /\ AlertTypes
  BY PowerTypesSplit DEF PowerInv
<1>2. power' = power /\ powerUpset'
  BY DEF ScenarioEvent, LossDismissed
<1>3. Settles'
  BY <1>2 DEF Settles
<1>4. CASE LossDismissed
  <2>1. /\ lossAlert' \in [Losses -> 0..2]
        /\ \A k \in Losses : lossAlert'[k] \in {0, lossAlert[k]}
        /\ powerJob' = powerJob /\ powerRaced' = powerRaced /\ powerUpset' = TRUE
    BY <1>1, <1>4 DEF LossDismissed, AlertTypes
  <2>2. JobTypes'
    BY <1>1, <2>1 DEF JobTypes
  <2>3. AlertTypes'
    BY <1>1, <2>1 DEF AlertTypes
  <2>4. OneWriter'
    <3>1. \A k \in Losses : lossAlert[k] <= 1 => lossAlert'[k] <= 1
      BY <2>1
    <3>2. \A k \in Losses : lossAlert[k] = 0 => lossAlert'[k] = 0
      BY <2>1
    <3>3. \A f \in Calls : powerJob[f].pc = "raise" => powerJob[f].kind \in Losses
      BY <1>1 DEF JobTypes
    <3> QED
      BY <2>1, <3>1, <3>2, <3>3 DEF PowerInv, OneWriter, WritesPower
  <2> QED
    BY <1>1, <1>2, <1>3, <2>2, <2>3, <2>4, PowerInvPrimed
<1>5. ASSUME NEW f \in Calls, ScenarioEvent(f)
      PROVE  PowerInv'
  <2>1. PICK kind \in {"unplug", "restored"} : ReportPower(f, kind)
    BY <1>5 DEF ScenarioEvent
  <2>2. /\ powerJob[f].pc = "idle" /\ powerUpset' = TRUE /\ lossAlert' = lossAlert
    BY <1>5 DEF ScenarioEvent
  <2>3. /\ powerJob' = [powerJob EXCEPT ![f] = [IdlePowerJob EXCEPT !.pc = "insert", !.kind = kind]]
        /\ powerRaced' = (powerRaced \/ AnotherWritesPower(f))
    <3>1. kind # "none"
      OBVIOUS
    <3> QED
      BY <2>1, <3>1 DEF ReportPower
  <2> DEFINE j == [IdlePowerJob EXCEPT !.pc = "insert", !.kind = kind]
  <2>4. j \in JobState /\ j.pc = "insert" /\ j.kind # "none"
    BY IdleJob DEF JobState, Losses
  <2> HIDE DEF j
  <2>5. JobTypes' /\ powerJob'[f] = j /\ \A g \in Calls \ {f} : powerJob'[g] = powerJob[g]
    BY <1>1, <2>3, <2>4, JobMoves DEF j
  <2>6. AlertTypes'
    BY <1>1, <2>2, <2>3 DEF AlertTypes
  <2>7. OneWriter'
    <3>1. ~powerRaced' => ~powerRaced /\ \A g \in Calls \ {f} : ~WritesPower(g)
      BY <2>3 DEF AnotherWritesPower
    <3>2. \A g \in Calls \ {f} : WritesPower(g)' <=> WritesPower(g)
      BY <2>5 DEF WritesPower
    <3> QED
      BY <2>2, <2>4, <2>5, <3>1, <3>2 DEF PowerInv, OneWriter
  <2> QED
    BY <1>1, <1>2, <1>3, <2>5, <2>6, <2>7, PowerInvPrimed
<1> QED
  BY <1>4, <1>5

\* What the alerts say when one of a kind is added.
LEMMA AlertAdded ==
  ASSUME AlertTypes, NEW kind \in Losses, lossAlert' = [lossAlert EXCEPT ![kind] = Capped(@ + 1)]
  PROVE  /\ lossAlert' \in [Losses -> 0..2] /\ lossAlert'[kind] > 0
         /\ lossAlert[kind] = 0 => lossAlert'[kind] = 1
         /\ \A k \in Losses \ {kind} : lossAlert'[k] = lossAlert[k]
<1>1. lossAlert[kind] \in 0..2
  BY DEF AlertTypes
<1>2. Capped(lossAlert[kind] + 1) \in 1..2 /\ (lossAlert[kind] = 0 => Capped(lossAlert[kind] + 1) = 1)
  BY <1>1 DEF Capped
<1>3. lossAlert' = [lossAlert EXCEPT ![kind] = Capped(lossAlert[kind] + 1)]
  OBVIOUS
<1> QED
  BY <1>2, <1>3 DEF AlertTypes

\* A writer looks for an open alert of its kind: it goes on to raise or to close, or is done.
LEMMA CheckOpenNext ==
  ASSUME PowerInv, NEW f \in Calls, CheckOpenLoss(f)
  PROVE  PowerInv'
<1>1. power \in PowerState /\ JobTypes /\ AlertTypes
  BY PowerTypesSplit DEF PowerInv
<1> DEFINE kind == powerJob[f].kind
           j == IF kind = "restored" THEN [powerJob[f] EXCEPT !.pc = "close"]
                ELSE IF lossAlert[kind] > 0 THEN IdlePowerJob ELSE [powerJob[f] EXCEPT !.pc = "raise"]
<1>2. /\ powerJob[f].pc = "insert" /\ powerJob' = [powerJob EXCEPT ![f] = j]
      /\ UNCHANGED <<power, lossAlert, powerRaced, powerUpset>>
  BY DEF CheckOpenLoss
<1>3. powerJob[f] \in JobState /\ kind \in Losses \union {"restored"}
  BY <1>1, <1>2 DEF JobTypes, JobState
<1>4. kind \in Losses => lossAlert[kind] \in 0..2
  BY <1>1 DEF AlertTypes
<1>5. /\ j \in JobState /\ j.pc \in {"close", "raise", "idle"}
      /\ j.pc # "idle" => j.kind = kind
      /\ j.pc = "close" => kind = "restored"
      /\ j.pc = "raise" => kind \in Losses /\ lossAlert[kind] = 0
      /\ j.pc = "idle" => kind \in Losses /\ lossAlert[kind] > 0
  <2>1. CASE kind = "restored"
    BY <1>3, <2>1 DEF JobState
  <2>2. CASE kind # "restored" /\ lossAlert[kind] > 0
    BY <1>3, <2>2, IdleJob
  <2>3. CASE kind # "restored" /\ ~(lossAlert[kind] > 0)
    BY <1>3, <1>4, <2>3 DEF JobState
  <2> QED
    BY <2>1, <2>2, <2>3
<1> HIDE DEF j
<1>6. JobTypes' /\ powerJob'[f] = j /\ \A g \in Calls \ {f} : powerJob'[g] = powerJob[g]
  BY <1>1, <1>2, <1>5, JobMoves
<1>7. WritesPower(f) /\ (WritesPower(f)' <=> j.pc # "idle")
  BY <1>2, <1>5, <1>6 DEF WritesPower
<1>8. \A g \in Calls \ {f} : WritesPower(g)' <=> WritesPower(g)
  BY <1>6 DEF WritesPower
<1>9. AlertTypes' /\ (AnyLossOpen' <=> AnyLossOpen)
  BY <1>1, <1>2 DEF AlertTypes, AnyLossOpen
<1>10. OneWriter'
  BY <1>2, <1>5, <1>6, <1>7, <1>8 DEF PowerInv, OneWriter
<1>11. ~powerRaced /\ ~powerUpset => j.pc # "idle"
  <2>1. j.pc = "idle" => kind \in Losses /\ AnyLossOpen
    BY <1>5 DEF AnyLossOpen
  <2>2. ~powerRaced /\ ~powerUpset => ~(kind \in Losses /\ AnyLossOpen)
    BY <1>7 DEF PowerInv, Settles, Losses
  <2> QED
    BY <2>1, <2>2
<1>12. Settles'
  <2> SUFFICES ASSUME ~powerRaced, ~powerUpset
               PROVE  /\ \A g \in Calls : WritesPower(g)' =>
                           /\ power.known
                           /\ \/ powerJob'[g].kind \in Losses /\ power.unplugged /\ ~AnyLossOpen
                              \/ powerJob'[g].kind = "restored" /\ ~power.unplugged
                      /\ \A g \in Calls : powerJob'[g].pc = "close" => powerJob'[g].kind = "restored"
                      /\ ~(\A g \in Calls : ~WritesPower(g)')
                      /\ power.known
    BY <1>2, <1>9 DEF Settles
  <2>1. /\ \A g \in Calls : WritesPower(g) =>
             /\ power.known
             /\ \/ powerJob[g].kind \in Losses /\ power.unplugged /\ ~AnyLossOpen
                \/ powerJob[g].kind = "restored" /\ ~power.unplugged
        /\ \A g \in Calls : powerJob[g].pc = "close" => powerJob[g].kind = "restored"
    BY DEF PowerInv, Settles
  <2>2. WritesPower(f)' /\ powerJob'[f].kind = kind
    BY <1>5, <1>6, <1>7, <1>11
  <2> QED
    BY <1>5, <1>6, <1>7, <1>8, <2>1, <2>2
<1> QED
  BY <1>1, <1>2, <1>6, <1>9, <1>10, <1>12, PowerInvPrimed

\* The writer writes: the alerts say again what the state says.
LEMMA WriteLossNext ==
  ASSUME PowerInv, NEW f \in Calls, RaiseLoss(f) \/ CloseLosses(f)
  PROVE  PowerInv'
<1>1. power \in PowerState /\ JobTypes /\ AlertTypes
  BY PowerTypesSplit DEF PowerInv
<1>2. /\ powerJob' = [powerJob EXCEPT ![f] = IdlePowerJob] /\ WritesPower(f)
      /\ UNCHANGED <<power, powerRaced, powerUpset>>
  BY DEF RaiseLoss, CloseLosses, WritesPower
<1>3. JobTypes' /\ powerJob'[f] = IdlePowerJob /\ \A g \in Calls \ {f} : powerJob'[g] = powerJob[g]
  BY <1>1, <1>2, IdleJob, JobMoves
<1>4. ~WritesPower(f)' /\ \A g \in Calls \ {f} : WritesPower(g)' <=> WritesPower(g)
  BY <1>3, IdleJob DEF WritesPower
<1>5. /\ lossAlert' \in [Losses -> 0..2]
      /\ ~powerRaced => \A k \in Losses : lossAlert'[k] <= 1
      /\ RaiseLoss(f) => AnyLossOpen'
      /\ CloseLosses(f) => ~AnyLossOpen'
  <2>1. CASE RaiseLoss(f)
    <3>1. powerJob[f].kind \in Losses /\ lossAlert' = [lossAlert EXCEPT ![powerJob[f].kind] = Capped(@ + 1)]
      BY <1>1, <2>1 DEF RaiseLoss, JobTypes
    <3>2. /\ lossAlert' \in [Losses -> 0..2] /\ lossAlert'[powerJob[f].kind] > 0
          /\ lossAlert[powerJob[f].kind] = 0 => lossAlert'[powerJob[f].kind] = 1
          /\ \A k \in Losses \ {powerJob[f].kind} : lossAlert'[k] = lossAlert[k]
      BY <1>1, <3>1, AlertAdded
    <3>3. ~powerRaced => \A k \in Losses : lossAlert'[k] <= 1
      BY <2>1, <3>1, <3>2 DEF RaiseLoss, PowerInv, OneWriter
    <3>4. AnyLossOpen'
      BY <3>1, <3>2 DEF AnyLossOpen
    <3>5. ~CloseLosses(f)
      BY <2>1 DEF RaiseLoss, CloseLosses
    <3> QED
      BY <3>2, <3>3, <3>4, <3>5
  <2>2. CASE CloseLosses(f)
    <3>1. lossAlert' = [k \in Losses |-> 0]
      BY <2>2 DEF CloseLosses
    <3>2. \A k \in Losses : lossAlert'[k] = 0
      BY <3>1
    <3>3. ~RaiseLoss(f)
      BY <2>2 DEF RaiseLoss, CloseLosses
    <3>4. ~AnyLossOpen'
      BY <3>2 DEF AnyLossOpen
    <3> QED
      BY <3>1, <3>2, <3>3, <3>4
  <2> QED
    BY <2>1, <2>2
<1>6. AlertTypes'
  BY <1>1, <1>2, <1>5 DEF AlertTypes
<1>7. ~powerRaced => \A g \in Calls : ~WritesPower(g)'
  BY <1>2, <1>4 DEF PowerInv, OneWriter
<1>8. OneWriter'
  <2>1. \A g \in Calls : ~WritesPower(g)' => powerJob'[g].pc # "raise"
    BY DEF WritesPower
  <2> QED
    BY <1>2, <1>5, <1>7, <2>1 DEF OneWriter
<1>9. Settles'
  <2> SUFFICES ASSUME ~powerRaced, ~powerUpset
               PROVE  /\ \A g \in Calls : ~WritesPower(g)'
                      /\ \A g \in Calls : powerJob'[g].pc # "close"
                      /\ power.known /\ (power.unplugged <=> AnyLossOpen')
    BY <1>2 DEF Settles
  <2>1. \A g \in Calls : ~WritesPower(g)'
    BY <1>7
  <2>2. \A g \in Calls : powerJob'[g].pc # "close"
    BY <2>1 DEF WritesPower
  <2>3. /\ power.known
        /\ \/ powerJob[f].kind \in Losses /\ power.unplugged
           \/ powerJob[f].kind = "restored" /\ ~power.unplugged
    BY <1>2 DEF PowerInv, Settles
  <2>4. RaiseLoss(f) => powerJob[f].kind \in Losses
    BY <1>1 DEF RaiseLoss, JobTypes
  <2>5. CloseLosses(f) => powerJob[f].kind = "restored"
    BY DEF CloseLosses, PowerInv, Settles
  <2>6. "restored" \notin Losses
    BY DEF Losses
  <2> QED
    BY <1>5, <2>1, <2>2, <2>3, <2>4, <2>5, <2>6
<1> QED
  BY <1>1, <1>2, <1>3, <1>6, <1>8, <1>9, PowerInvPrimed

\* A job dies, or all of them with the state: what was being written is upset.
LEMMA PowerFailsNext ==
  ASSUME PowerInv, NEW f \in Calls, PowerFails(f)
  PROVE  PowerInv'
<1>1. power \in PowerState /\ JobTypes /\ AlertTypes
  BY PowerTypesSplit DEF PowerInv
<1>2. /\ powerJob' = [powerJob EXCEPT ![f] = IdlePowerJob]
      /\ powerUpset' = (powerUpset \/ WritesPower(f))
      /\ UNCHANGED <<power, lossAlert, powerRaced>>
  BY DEF PowerFails
<1>3. JobTypes' /\ powerJob'[f] = IdlePowerJob /\ \A g \in Calls \ {f} : powerJob'[g] = powerJob[g]
  BY <1>1, <1>2, IdleJob, JobMoves
<1>4. ~WritesPower(f)' /\ \A g \in Calls \ {f} : WritesPower(g)' <=> WritesPower(g)
  BY <1>3, IdleJob DEF WritesPower
<1>5. AlertTypes' /\ (AnyLossOpen' <=> AnyLossOpen)
  <2>1. powerUpset' \in BOOLEAN
    BY <1>1, <1>2 DEF AlertTypes, WritesPower
  <2> QED
    BY <1>1, <1>2, <2>1 DEF AlertTypes, AnyLossOpen
<1>6. OneWriter'
  BY <1>2, <1>3, <1>4, IdleJob DEF PowerInv, OneWriter
<1>7. ~powerUpset' => ~powerUpset /\ \A g \in Calls : WritesPower(g)' <=> WritesPower(g)
  BY <1>2, <1>4
<1>8. Settles'
  BY <1>2, <1>3, <1>4, <1>5, <1>7, IdleJob DEF PowerInv, Settles
<1> QED
  BY <1>1, <1>2, <1>3, <1>5, <1>6, <1>8, PowerInvPrimed

LEMMA PowerRestartNext ==
  ASSUME PowerInv, PowerRestart
  PROVE  PowerInv'
<1>1. power \in PowerState /\ JobTypes /\ AlertTypes
  BY PowerTypesSplit DEF PowerInv
<1>2. /\ power' = UnknownPower /\ powerJob' = [f \in Calls |-> IdlePowerJob]
      /\ powerUpset' = (powerUpset \/ \E f \in Calls : WritesPower(f))
      /\ UNCHANGED <<lossAlert, powerRaced>>
  BY DEF PowerRestart
<1>3. \A f \in Calls : powerJob'[f] = IdlePowerJob /\ powerJob'[f].pc = "idle"
  BY <1>2, IdleJob
<1>4. JobTypes'
  BY <1>2, <1>3, IdleJob DEF JobTypes
<1>5. power' \in PowerState /\ ~power'.known
  BY <1>2, InitialPower
<1>6. AlertTypes'
  <2>1. powerUpset' \in BOOLEAN
    BY <1>1, <1>2 DEF AlertTypes
  <2> QED
    BY <1>1, <1>2, <2>1 DEF AlertTypes
<1>7. OneWriter'
  BY <1>2, <1>3 DEF PowerInv, OneWriter, WritesPower
<1>8. Settles'
  BY <1>3, <1>5 DEF Settles, WritesPower
<1> QED
  BY <1>4, <1>5, <1>6, <1>7, <1>8, PowerInvPrimed

LEMMA PowerInvNext ==
  ASSUME PowerInv, [PowerNext]_powerVars
  PROVE  PowerInv'
<1>1. CASE UNCHANGED powerVars
  <2>1. AnyLossOpen' <=> AnyLossOpen
    BY <1>1 DEF powerVars, AnyLossOpen
  <2> QED
    BY <1>1, <2>1 DEF powerVars, PowerInv, PowerTypeOK, OneWriter, Settles, WritesPower
<1>2. CASE PowerNext
  BY <1>2, ReadPowerNext, PowerSeededNext, LoadNext, UpsettingNext, CheckOpenNext, WriteLossNext,
     PowerFailsNext, PowerRestartNext DEF PowerNext
<1> QED
  BY <1>1, <1>2

\* At most one alert of a kind is open (recordDeviceEvent, resolveClosedAlert), whatever readings
\* and events come, fail or are lost in a restart, unless two jobs wrote at once.
THEOREM PowerAlertOnceAlways == PowerSpec => []PowerAlertOnce
<1>1. PowerInit => PowerInv
  BY PowerInvInit
<1>2. PowerInv /\ [PowerNext]_powerVars => PowerInv'
  BY PowerInvNext
<1>3. PowerInv => PowerAlertOnce
  BY DEF PowerInv, OneWriter, PowerAlertOnce
<1> QED
  BY <1>1, <1>2, <1>3, PTL DEF PowerSpec

\* What the monitor believes is what the manager is shown (handlePowerForRecord, loadState), also
\* after a restart, unless two jobs wrote at once, a write was lost or somebody else wrote.
THEOREM LossIsToldAlways == PowerSpec => []LossIsTold
<1>1. PowerInit => PowerInv
  BY PowerInvInit
<1>2. PowerInv /\ [PowerNext]_powerVars => PowerInv'
  BY PowerInvNext
<1>3. PowerInv => LossIsTold
  BY DEF PowerInv, Settles, LossIsTold
<1> QED
  BY <1>1, <1>2, <1>3, PTL DEF PowerSpec

-----------------------------------------------------------------------------
(* OfflineWatchdog                                                         *)

\* A sweep about to raise is the only one, and the last alert is a day old.
Alone ==
  ~sweepRaced =>
    \A w \in Calls : sweep[w] = "raise" =>
      /\ sinceAlert = Realert
      /\ \A x \in Calls : sweep[x] = "raise" => x = w

WatchdogInv == WatchdogTypeOK /\ Alone

LEMMA Bounds == Quiet \in Nat \ {0} /\ Realert \in Nat \ {0} /\ MaxLosses \in Nat
  BY WatchdogConstants, CallConstants

LEMMA WatchdogInvInit == WatchdogInit => WatchdogInv
<1> SUFFICES ASSUME WatchdogInit PROVE WatchdogInv
  OBVIOUS
<1>1. WatchdogTypeOK
  <2>1. silence \in 0..(Quiet + 1) /\ sinceAlert \in 0..Realert /\ offline \in 0..2 /\ losses \in 0..MaxLosses
    BY Bounds DEF WatchdogInit
  <2>2. sweep \in [Calls -> {"idle", "raise", "resolve"}] /\ sweepRaced \in BOOLEAN
    BY DEF WatchdogInit
  <2> QED
    BY <2>1, <2>2 DEF WatchdogTypeOK
<1>2. \A w \in Calls : sweep[w] # "raise"
  BY DEF WatchdogInit
<1> QED
  BY <1>1, <1>2 DEF WatchdogInv, Alone

\* What one sweep does next keeps the types; the other sweeps stay where they are.
LEMMA SweepMoves ==
  ASSUME WatchdogTypeOK, NEW w \in Calls, NEW step \in {"idle", "raise", "resolve"}, SweepGoesTo(w, step)
  PROVE  /\ sweep' \in [Calls -> {"idle", "raise", "resolve"}]
         /\ sweep'[w] = step
         /\ \A x \in Calls \ {w} : sweep'[x] = sweep[x]
  BY DEF WatchdogTypeOK, SweepGoesTo

LEMMA WatchdogInvNext ==
  ASSUME WatchdogInv, [WatchdogNext]_watchdogVars
  PROVE  WatchdogInv'
<1> USE DEF WatchdogInv
<1>1. CASE UNCHANGED watchdogVars
  BY <1>1 DEF watchdogVars, WatchdogTypeOK, Alone
<1>2. CASE TrackerSeen
  <2>1. silence' \in 0..(Quiet + 1)
    BY <1>2, Bounds DEF TrackerSeen
  <2> QED
    BY <1>2, <2>1 DEF TrackerSeen, WatchdogTypeOK, Alone
<1>3. CASE WatchdogTick
  <2>1. silence' \in 0..(Quiet + 1)
    BY <1>3, Bounds DEF WatchdogTick, WatchdogTypeOK
  <2>2. sinceAlert' \in 0..Realert /\ (sinceAlert = Realert => sinceAlert' = Realert)
    BY <1>3, Bounds DEF WatchdogTick, WatchdogTypeOK
  <2> QED
    BY <1>3, <2>1, <2>2 DEF WatchdogTick, WatchdogTypeOK, Alone
<1>4. CASE OfflineDismissed
  BY <1>4, Bounds DEF OfflineDismissed, OneMoreLoss, WatchdogTypeOK, Alone
<1>5. CASE WatchdogRestart
  BY <1>5, Bounds DEF WatchdogRestart, OneMoreLoss, WatchdogTypeOK, Alone
<1>6. ASSUME NEW w \in Calls, SelectStale(w) PROVE WatchdogInv'
  <2> DEFINE stale == silence > Quiet /\ ~AlreadyAlerted
  <2>1. SweepGoesTo(w, IF stale THEN "raise" ELSE "resolve")
    BY <1>6 DEF SelectStale
  <2>2. /\ sweep' \in [Calls -> {"idle", "raise", "resolve"}]
        /\ sweep'[w] = (IF stale THEN "raise" ELSE "resolve")
        /\ \A x \in Calls \ {w} : sweep'[x] = sweep[x]
    BY <2>1, SweepMoves
  <2>3. UNCHANGED <<silence, sinceAlert, offline, losses>>
    BY <1>6 DEF SelectStale
  <2>4. sweepRaced' = (sweepRaced \/ (stale /\ \E x \in Calls \ {w} : sweep[x] = "raise"))
    BY <1>6 DEF SelectStale
  <2>5. stale => sinceAlert = Realert
    BY Bounds DEF AlreadyAlerted, WatchdogTypeOK
  <2> HIDE DEF stale
  <2>6. WatchdogTypeOK'
    BY <2>2, <2>3, <2>4 DEF WatchdogTypeOK
  <2>7. Alone'
    BY <2>2, <2>3, <2>4, <2>5 DEF Alone, WatchdogTypeOK
  <2> QED
    BY <2>6, <2>7
<1>7. ASSUME NEW w \in Calls, RaiseOffline(w) PROVE WatchdogInv'
  <2>1. /\ sweep' \in [Calls -> {"idle", "raise", "resolve"}]
        /\ sweep'[w] = "resolve"
        /\ \A x \in Calls \ {w} : sweep'[x] = sweep[x]
    BY <1>7, SweepMoves DEF RaiseOffline
  <2>2. WatchdogTypeOK'
    BY <1>7, <2>1, Bounds DEF RaiseOffline, Capped, WatchdogTypeOK
  <2>3. Alone'
    BY <1>7, <2>1 DEF RaiseOffline, Alone
  <2> QED
    BY <2>2, <2>3
<1>8. ASSUME NEW w \in Calls, ResolveRecovered(w) \/ RaiseOfflineFails(w) \/ SweepFails(w)
      PROVE  WatchdogInv'
  <2>1. PICK step \in {"idle", "resolve"} : SweepGoesTo(w, step)
    BY <1>8 DEF ResolveRecovered, RaiseOfflineFails, SweepFails
  <2>2. /\ sweep' \in [Calls -> {"idle", "raise", "resolve"}]
        /\ sweep'[w] = step
        /\ \A x \in Calls \ {w} : sweep'[x] = sweep[x]
    BY <2>1, SweepMoves
  <2>3. /\ UNCHANGED <<silence, sinceAlert, sweepRaced>>
        /\ offline' \in {0, offline} /\ losses' \in 0..MaxLosses
    BY <1>8, Bounds
       DEF ResolveRecovered, RaiseOfflineFails, SweepFails, OneMoreLoss, WatchdogTypeOK
  <2>4. WatchdogTypeOK'
    BY <2>2, <2>3 DEF WatchdogTypeOK
  <2>5. Alone'
    BY <2>2, <2>3 DEF Alone
  <2> QED
    BY <2>4, <2>5
<1> QED
  BY <1>1, <1>2, <1>3, <1>4, <1>5, <1>6, <1>7, <1>8 DEF WatchdogNext, SweepStep

\* No offline alert is raised within the re-alert window of the one before (sweepDeviceOffline),
\* unless two sweeps overlap.
THEOREM OutageOncePerDayAlways == WatchdogSpec => OutageOncePerDay
<1>1. WatchdogInit => WatchdogInv
  BY WatchdogInvInit
<1>2. WatchdogInv /\ [WatchdogNext]_watchdogVars => WatchdogInv'
  BY WatchdogInvNext
<1>3. ASSUME WatchdogInv, [WatchdogNext]_watchdogVars
      PROVE  [offline' > offline /\ ~sweepRaced => sinceAlert >= Realert]_watchdogVars
  <2> SUFFICES ASSUME offline' > offline, ~sweepRaced PROVE sinceAlert >= Realert
    OBVIOUS
  <2>1. offline \in 0..2 /\ sinceAlert \in 0..Realert
    BY <1>3 DEF WatchdogInv, WatchdogTypeOK
  <2>2. PICK w \in Calls : RaiseOffline(w)
    BY <1>3, <2>1 DEF watchdogVars, WatchdogNext, TrackerSeen, WatchdogTick, SweepStep, SelectStale,
         ResolveRecovered, RaiseOfflineFails, SweepFails, OfflineDismissed, WatchdogRestart
  <2> QED
    BY <1>3, <2>1, <2>2, Bounds DEF RaiseOffline, WatchdogInv, Alone
<1> QED
  BY <1>1, <1>2, <1>3, PTL DEF WatchdogSpec, OutageOncePerDay

-----------------------------------------------------------------------------
(* TripNotifier                                                            *)

TripJobs == [pc : {"idle", "got", "check", "supersede", "raise", "close", "end"},
             after : TripStates, edge : BOOLEAN, recent : BOOLEAN]

LEMMA TripBounds == TripEnd \in Nat \ {0} /\ Debounce \in Nat \ {0}
  BY TripConstants

\* The last start is out of the debounce.
Spaced == lastStart = 0 \/ lastStart + Debounce <= tripNow

\* The record past its decision is alone, and what it found of the alerts still stands.
StillTrue(f) ==
  /\ tripJob[f].pc = "supersede" /\ ~tripJob[f].recent => starts = 0 /\ Spaced
  /\ tripJob[f].pc = "raise" => starts = 0 /\ ends = 0 /\ Spaced
  /\ tripJob[f].pc = "end" => starts = 0 /\ ends = 0

Undisturbed ==
  ~tripRaced => /\ \A f, g \in Calls : WritesTrip(f) /\ WritesTrip(g) => f = g
                /\ \A f \in Calls : StillTrue(f)
                /\ starts + ends <= 1

TripInv == TripTypeOK /\ Undisturbed

\* A record that ends or moves on keeps the type of the job; the other records stay.
LEMMA TripJobMoves ==
  ASSUME TripTypeOK, NEW f \in Calls, NEW job \in TripJobs, tripJob' = [tripJob EXCEPT ![f] = job]
  PROVE  /\ tripJob' \in [Calls -> TripJobs] /\ tripJob'[f] = job
         /\ \A g \in Calls \ {f} : tripJob'[g] = tripJob[g]
  BY DEF TripTypeOK, TripJobs

LEMMA TripJobTypes ==
  ASSUME TripTypeOK, NEW f \in Calls
  PROVE  /\ IdleTripJob \in TripJobs
         /\ tripJob[f] \in TripJobs /\ tripJob \in [Calls -> TripJobs]
         /\ \A pc \in {"check", "supersede", "raise", "close", "end"} :
              [tripJob[f] EXCEPT !.pc = pc] \in TripJobs
<1>1. UnknownTrip \in TripStates
  BY TripBounds DEF UnknownTrip, TripStates
<1> QED
  BY <1>1 DEF IdleTripJob, TripJobs, TripTypeOK

LEMMA TripInvInit == TripInit => TripInv
<1> SUFFICES ASSUME TripInit PROVE TripInv
  OBVIOUS
<1>1. UnknownTrip \in TripStates
  BY TripBounds DEF UnknownTrip, TripStates
<1>2. \A f \in Calls : tripJob[f] = IdleTripJob
  BY DEF TripInit
<1>3. TripTypeOK
  <2>1. tripJob \in [Calls -> TripJobs]
    BY <1>1 DEF TripInit, IdleTripJob, TripJobs
  <2>2. tripNow \in 1..TripEnd /\ lastStart \in 0..TripEnd /\ starts \in 0..2 /\ ends \in 0..2
    BY TripBounds DEF TripInit
  <2> QED
    BY <1>1, <2>1, <2>2 DEF TripInit, TripTypeOK, TripJobs
<1>4. Undisturbed
  BY <1>2 DEF TripInit, Undisturbed, WritesTrip, StillTrue, IdleTripJob
<1> QED
  BY <1>3, <1>4 DEF TripInv

\* The clock, a dismissal and a restart disturb nothing.
LEMMA TripOutsideNext ==
  ASSUME TripInv, TripDismissed \/ TripRestart \/ TripTick \/ UNCHANGED tripVars
  PROVE  TripInv'
<1> USE DEF TripInv
<1>1. CASE UNCHANGED tripVars
  <2>1. TripTypeOK'
    BY <1>1 DEF tripVars, TripTypeOK
  <2>2. Undisturbed'
    BY <1>1 DEF tripVars, Undisturbed, StillTrue, WritesTrip, Spaced
  <2> QED
    BY <2>1, <2>2
<1>2. CASE TripDismissed
  <2>1. starts' \in {0, starts} /\ ends' \in {0, ends} /\ UNCHANGED <<tripNow, trip, tripJob, lastStart, tripRaced>>
    BY <1>2 DEF TripDismissed
  <2>2. TripTypeOK'
    BY <2>1 DEF TripTypeOK
  <2>3. starts + ends <= 1 => starts' + ends' <= 1
    <3>1. starts \in 0..2 /\ ends \in 0..2
      BY DEF TripTypeOK
    <3>2. (starts' = 0 \/ starts' = starts) /\ (ends' = 0 \/ ends' = ends)
      BY <2>1
    <3> QED
      BY <3>1, <3>2
  <2>4. \A f \in Calls : StillTrue(f) => StillTrue(f)'
    <3>1. (starts = 0 => starts' = 0) /\ (ends = 0 => ends' = 0) /\ (Spaced => Spaced')
      BY <2>1 DEF Spaced
    <3> QED
      BY <2>1, <3>1 DEF StillTrue
  <2>6. \A f \in Calls : WritesTrip(f)' <=> WritesTrip(f)
    BY <2>1 DEF WritesTrip
  <2>5. Undisturbed'
    BY <2>1, <2>3, <2>4, <2>6 DEF Undisturbed
  <2> QED
    BY <2>2, <2>5
<1>3. CASE TripRestart
  <2>1. \A f \in Calls : tripJob'[f] = IdleTripJob
    BY <1>3 DEF TripRestart
  <2>2. TripTypeOK'
    <3>1. UnknownTrip \in TripStates
      BY TripBounds DEF UnknownTrip, TripStates
    <3>2. tripJob' \in [Calls -> TripJobs]
      BY <1>3, <3>1 DEF TripRestart, IdleTripJob, TripJobs
    <3> QED
      BY <1>3, <3>1, <3>2 DEF TripRestart, AlertsWait, TripTypeOK, TripJobs
  <2>3. Undisturbed'
    BY <1>3, <2>1 DEF TripRestart, AlertsWait, Undisturbed, StillTrue, WritesTrip, IdleTripJob
  <2> QED
    BY <2>2, <2>3
<1>4. CASE TripTick
  <2>1. tripNow' \in 1..TripEnd /\ (Spaced => Spaced')
    BY <1>4, TripBounds DEF TripTick, AlertsWait, TripTypeOK, Spaced
  <2>2. TripTypeOK'
    BY <1>4, <2>1 DEF TripTick, AlertsWait, TripTypeOK
  <2>3. Undisturbed'
    BY <1>4, <2>1 DEF TripTick, AlertsWait, Undisturbed, StillTrue, WritesTrip
  <2> QED
    BY <2>2, <2>3
<1> QED
  BY <1>1, <1>2, <1>3, <1>4

\* What is left to show of a step of one record, once its job after the step is known.
LEMMA TripCallNext ==
  ASSUME TripInv, NEW f \in Calls, NEW job \in TripJobs, tripJob' = [tripJob EXCEPT ![f] = job],
         starts' \in 0..2, ends' \in 0..2, lastStart' \in {lastStart, tripNow}, trip' \in TripStates,
         tripRaced' \in BOOLEAN, UNCHANGED tripNow,
         ~tripRaced' =>
           /\ ~tripRaced /\ starts' + ends' <= 1
           /\ job.pc \notin {"idle", "got"} =>
                WritesTrip(f) \/ \A g \in Calls \ {f} : ~WritesTrip(g)
           /\ StillTrue(f)'
           /\ WritesTrip(f) \/ UNCHANGED <<starts, ends, lastStart>>
  PROVE  TripInv'
<1> USE DEF TripInv
<1>1. /\ tripJob' \in [Calls -> TripJobs] /\ tripJob'[f] = job
      /\ \A g \in Calls \ {f} : tripJob'[g] = tripJob[g]
  BY TripJobMoves
<1>2. TripTypeOK'
  <2>1. tripNow' \in 1..TripEnd /\ lastStart' \in 0..TripEnd
    BY DEF TripTypeOK
  <2> QED
    BY <1>1, <2>1 DEF TripTypeOK, TripJobs
<1>3. ASSUME ~tripRaced' PROVE \A g, h \in Calls : WritesTrip(g)' /\ WritesTrip(h)' => g = h
  BY <1>1, <1>3 DEF Undisturbed, WritesTrip
<1>4. ASSUME ~tripRaced', NEW g \in Calls PROVE StillTrue(g)'
  <2>1. CASE g = f
    BY <1>4, <2>1
  <2>2. CASE g # f /\ ~WritesTrip(g)
    BY <1>1, <2>2 DEF StillTrue, WritesTrip
  <2>3. CASE g # f /\ WritesTrip(g)
    <3>1. ~WritesTrip(f)
      BY <1>4, <2>3 DEF Undisturbed
    <3>2. UNCHANGED <<starts, ends, lastStart, tripNow>> /\ tripJob'[g] = tripJob[g] /\ StillTrue(g)
      BY <1>1, <1>4, <2>3, <3>1 DEF Undisturbed
    <3> QED
      BY <3>2 DEF StillTrue, Spaced
  <2> QED
    BY <2>1, <2>2, <2>3
<1> QED
  BY <1>2, <1>3, <1>4 DEF Undisturbed

LEMMA TripStepNext ==
  ASSUME TripInv, NEW f \in Calls,
         \/ TripRecord(f) \/ TripDecided(f) \/ CheckStart(f) \/ SupersedeEnd(f)
         \/ RaiseStart(f) \/ CloseStart(f) \/ RaiseEnd(f) \/ TripFails(f)
  PROVE  TripInv'
<1> USE DEF TripInv
<1>1. /\ IdleTripJob \in TripJobs /\ IdleTripJob.pc = "idle"
      /\ tripJob[f] \in TripJobs /\ tripJob \in [Calls -> TripJobs]
  BY TripJobTypes DEF IdleTripJob
<1>2. /\ starts \in 0..2 /\ ends \in 0..2 /\ trip \in TripStates /\ tripRaced \in BOOLEAN
      /\ tripNow \in 1..TripEnd /\ lastStart \in 0..TripEnd
  BY DEF TripTypeOK
<1>3. ~tripRaced => StillTrue(f) /\ starts + ends <= 1
  BY DEF Undisturbed
<1>4. CASE TripRecord(f)
  <2>1. PICK on \in BOOLEAN, at \in 1..tripNow :
          LET edge == IsStart(trip, on, at) IN
          tripJob' = [tripJob EXCEPT ![f] =
            [IdleTripJob EXCEPT !.pc = "got", !.edge = edge,
                                !.after = [ign |-> IF on THEN "on" ELSE "off",
                                           last |-> IF edge THEN at ELSE trip.last]]]
    BY <1>4 DEF TripRecord
  <2> DEFINE edge == IsStart(trip, on, at)
             after == [ign |-> IF on THEN "on" ELSE "off", last |-> IF edge THEN at ELSE trip.last]
             job == [IdleTripJob EXCEPT !.pc = "got", !.edge = edge, !.after = after]
  <2>2. edge \in BOOLEAN /\ after \in TripStates
    <3>1. edge \in BOOLEAN
      BY DEF IsStart
    <3>2. at \in 0..TripEnd /\ trip.last \in 0..TripEnd
      BY <1>2, TripBounds DEF TripStates
    <3> QED
      BY <3>1, <3>2 DEF TripStates
  <2>3. tripJob' = [tripJob EXCEPT ![f] = job]
    BY <2>1
  <2> HIDE DEF edge, after
  <2>6. job \in TripJobs /\ job.pc = "got"
    BY <1>1, <2>2 DEF TripJobs
  <2>4. StillTrue(f)'
    BY <1>1, <2>3, <2>6 DEF StillTrue
  <2>5. UNCHANGED <<starts, ends, lastStart, trip, tripRaced, tripNow>>
    BY <1>4 DEF TripRecord, AlertsWait
  <2> HIDE DEF job
  <2> QED
    BY <1>2, <1>3, <2>3, <2>4, <2>5, <2>6, TripCallNext
<1>5. CASE TripDecided(f)
  <2> DEFINE next == IF tripJob[f].edge THEN "check" ELSE IF tripJob[f].after.ign = "off" THEN "close" ELSE "idle"
             job == [IdleTripJob EXCEPT !.pc = next]
  <2>1. /\ tripJob' = [tripJob EXCEPT ![f] = job] /\ trip' = tripJob[f].after
        /\ tripRaced' = (tripRaced \/ (next # "idle" /\ \E g \in Calls \ {f} : WritesTrip(g)))
        /\ UNCHANGED <<starts, ends, lastStart, tripNow>>
    BY <1>5 DEF TripDecided, AlertsWait
  <2>2. job \in TripJobs /\ job.pc = next /\ next \in {"idle", "check", "close"}
    BY <1>1 DEF TripJobs
  <2>3. trip' \in TripStates
    BY <1>1, <2>1 DEF TripJobs
  <2>4. StillTrue(f)'
    BY <1>1, <2>1, <2>2 DEF StillTrue
  <2> HIDE DEF next, job
  <2>5. ~tripRaced' => ~tripRaced /\ (job.pc \notin {"idle", "got"} => \A g \in Calls \ {f} : ~WritesTrip(g))
    BY <2>1, <2>2
  <2>6. tripRaced' \in BOOLEAN
    BY <1>2, <2>1
  <2> QED
    BY <1>2, <1>3, <2>1, <2>2, <2>3, <2>4, <2>5, <2>6, TripCallNext
<1>6. CASE CheckStart(f)
  <2> DEFINE job == [tripJob[f] EXCEPT !.pc = "supersede", !.recent = RecentStart]
  <2>1. RecentStart \in BOOLEAN
    BY DEF RecentStart
  <2>2. job \in TripJobs /\ job.pc = "supersede" /\ job.recent = RecentStart
    BY <1>1, <2>1 DEF TripJobs
  <2>3. /\ tripJob' = [tripJob EXCEPT ![f] = job]
        /\ UNCHANGED <<starts, ends, lastStart, tripNow, trip, tripRaced>> /\ WritesTrip(f)
    BY <1>1, <1>6 DEF CheckStart, AlertsWait, WritesTrip, TripJobs
  <2>4. ~RecentStart => starts = 0 /\ Spaced
    BY <1>2, TripBounds DEF RecentStart, Spaced
  <2>5. StillTrue(f)'
    BY <1>1, <2>2, <2>3, <2>4 DEF StillTrue, Spaced
  <2> QED
    BY <1>2, <1>3, <2>2, <2>3, <2>5, TripCallNext
<1>7. CASE SupersedeEnd(f)
  <2>1. WritesTrip(f) /\ ends' = 0 /\ UNCHANGED <<starts, lastStart, tripNow, trip, tripRaced>>
    BY <1>7 DEF SupersedeEnd, WritesTrip
  <2>4. ends' \in 0..2 /\ (~tripRaced => starts' + ends' <= 1)
    BY <1>2, <1>3, <2>1
  <2>2. CASE tripJob[f].recent
    <3>1. tripJob' = [tripJob EXCEPT ![f] = IdleTripJob]
      BY <1>7, <2>2 DEF SupersedeEnd, TripJobEnds
    <3>2. StillTrue(f)'
      BY <1>1, <3>1 DEF StillTrue
    <3> QED
      BY <1>1, <1>2, <2>1, <2>4, <3>1, <3>2, TripCallNext
  <2>3. CASE ~tripJob[f].recent
    <3> DEFINE job == [tripJob[f] EXCEPT !.pc = "raise"]
    <3>1. tripJob' = [tripJob EXCEPT ![f] = job] /\ job \in TripJobs /\ job.pc = "raise"
      BY <1>1, <1>7, <2>3 DEF SupersedeEnd, GoesTo, TripJobs
    <3>2. ~tripRaced => starts = 0 /\ Spaced
      BY <1>3, <1>7, <2>3 DEF SupersedeEnd, StillTrue
    <3>3. ~tripRaced => StillTrue(f)'
      BY <1>1, <2>1, <3>1, <3>2 DEF StillTrue, Spaced
    <3> HIDE DEF job
    <3> QED
      BY <1>2, <2>1, <2>4, <3>1, <3>3, TripCallNext
  <2> QED
    BY <2>2, <2>3
<1>8. CASE CloseStart(f) /\ starts > 0
  <2> DEFINE job == [tripJob[f] EXCEPT !.pc = "end"]
  <2>1. tripJob' = [tripJob EXCEPT ![f] = job] /\ job \in TripJobs /\ job.pc = "end"
    BY <1>1, <1>8 DEF CloseStart, GoesTo, TripJobs
  <2>2. WritesTrip(f) /\ starts' = 0 /\ UNCHANGED <<ends, lastStart, tripNow, trip, tripRaced>>
    BY <1>8 DEF CloseStart, WritesTrip
  <2>3. ~tripRaced => ends = 0
    BY <1>2, <1>3, <1>8
  <2>4. ~tripRaced => StillTrue(f)'
    BY <1>1, <2>1, <2>2, <2>3 DEF StillTrue
  <2>5. starts' \in 0..2 /\ (~tripRaced => starts' + ends' <= 1)
    BY <1>2, <2>2, <2>3
  <2> HIDE DEF job
  <2> QED
    BY <1>2, <2>1, <2>2, <2>4, <2>5, TripCallNext
<1>9. CASE RaiseStart(f) \/ (CloseStart(f) /\ starts <= 0) \/ RaiseEnd(f) \/ TripFails(f)
  <2>1. tripJob' = [tripJob EXCEPT ![f] = IdleTripJob]
    BY <1>2, <1>9 DEF RaiseStart, CloseStart, RaiseEnd, TripFails, TripJobEnds
  <2>2. WritesTrip(f) /\ UNCHANGED <<tripNow, trip, tripRaced>>
    BY <1>9 DEF RaiseStart, CloseStart, RaiseEnd, TripFails, WritesTrip
  <2>3. starts' \in 0..2 /\ ends' \in 0..2 /\ lastStart' \in {lastStart, tripNow}
    BY <1>2, <1>9 DEF RaiseStart, CloseStart, RaiseEnd, TripFails, AlertsWait, Capped
  <2>4. ~tripRaced => starts' + ends' <= 1
    BY <1>2, <1>3, <1>9 DEF RaiseStart, CloseStart, RaiseEnd, TripFails, AlertsWait, Capped, StillTrue
  <2>5. StillTrue(f)'
    BY <1>1, <2>1 DEF StillTrue
  <2> QED
    BY <1>1, <1>2, <2>1, <2>2, <2>3, <2>4, <2>5, TripCallNext
<1> QED
  BY <1>2, <1>4, <1>5, <1>6, <1>7, <1>8, <1>9

LEMMA TripInvNext ==
  ASSUME TripInv, [TripNext]_tripVars
  PROVE  TripInv'
  BY TripOutsideNext, TripStepNext DEF TripNext

\* A vehicle is shown as out or as back, never both (handleIgnitionForTripStart, closeTripStartAlert),
\* unless two records wrote at once.
THEOREM OneTripAtATimeAlways == TripSpec => []OneTripAtATime
<1>1. TripInit => TripInv
  BY TripInvInit
<1>2. TripInv /\ [TripNext]_tripVars => TripInv'
  BY TripInvNext
<1>3. TripInv => OneTripAtATime
  BY DEF TripInv, Undisturbed, OneTripAtATime
<1> QED
  BY <1>1, <1>2, <1>3, PTL DEF TripSpec

\* No start is announced within the debounce of the one before (the recency guard of
\* handleIgnitionForTripStart), whatever a restart has wiped.
THEOREM StartsSpacedAlways == TripSpec => StartsSpaced
<1>1. TripInit => TripInv
  BY TripInvInit
<1>2. TripInv /\ [TripNext]_tripVars => TripInv'
  BY TripInvNext
<1>3. ASSUME TripInv, [TripNext]_tripVars
      PROVE  [starts' > starts /\ ~tripRaced => lastStart = 0 \/ tripNow >= lastStart + Debounce]_tripVars
  <2> SUFFICES ASSUME starts' > starts, ~tripRaced PROVE lastStart = 0 \/ tripNow >= lastStart + Debounce
    OBVIOUS
  <2>1. /\ starts \in 0..2 /\ tripNow \in Nat /\ lastStart \in Nat
    BY <1>3, TripBounds DEF TripInv, TripTypeOK
  <2>2. PICK f \in Calls : RaiseStart(f)
    <3>1. ~UNCHANGED tripVars /\ ~TripDismissed /\ ~TripRestart /\ ~TripTick
      BY <2>1 DEF tripVars, TripDismissed, TripRestart, TripTick, AlertsWait
    <3>2. PICK f \in Calls : \/ TripRecord(f) \/ TripDecided(f) \/ CheckStart(f) \/ SupersedeEnd(f)
                            \/ RaiseStart(f) \/ CloseStart(f) \/ RaiseEnd(f) \/ TripFails(f)
      BY <1>3, <3>1 DEF TripNext
    <3>3. starts' \in {0, starts} \/ RaiseStart(f)
      BY <3>2 DEF TripRecord, TripDecided, CheckStart, SupersedeEnd, CloseStart, RaiseEnd, TripFails, AlertsWait
    <3> QED
      BY <2>1, <3>3
  <2>3. Spaced
    BY <1>3, <2>2 DEF RaiseStart, TripInv, Undisturbed, StillTrue
  <2> QED
    BY <2>1, <2>3, TripBounds DEF Spaced
<1> QED
  BY <1>1, <1>2, <1>3, PTL DEF TripSpec, StartsSpaced

-----------------------------------------------------------------------------
(* IdleDetector                                                            *)

\* The vehicle was last seen to drive, or with its engine off.
Left == lastFrame.kind \in {"drive", "off"}

\* What a stretch has observed, with the silence since, has been witnessed.
Witnessed(s) ==
  /\ s.observed <= s.seen /\ s.seen <= lastFrame.at
  /\ s.observed + CappedGap(s.seen, lastFrame.at) <= witnessed

\* The stretch a reading leaves behind agrees with what was seen: it is open only while the
\* vehicle has not left, and an alert belongs to it, or to a stay that is over.
Follows(s) ==
  /\ s.on => /\ ~Left /\ Witnessed(s)
             /\ s.pending # 0 => lastFrame.kind = "drift"
             /\ s.alerted /\ s.pending = 0 => s.seen = lastFrame.at
  /\ idleTold # 0 => (s.on /\ s.alerted) \/ Left \/ lastFrame.twice

\* The stored stretch has no alert outstanding: it is stored after its alert.
Stored ==
  /\ stretch.on => Witnessed(stretch) /\ ~IsLong(stretch)
  /\ ~stretch.on => stretch = NoStretch

\* A record whose alert is outstanding: nothing has been told, and if it fails the stored stretch
\* is one the next record can go on from.
Reports(s) ==
  /\ idleTold = 0
  /\ IF s.on THEN stretch.on /\ ~stretch.alerted /\ stretch.pending = 0 ELSE Left

Handled(f) ==
  LET s == idleJob[f].next IN
  /\ s.observed <= witnessed /\ Follows(s)
  /\ idleJob[f].pc \in {"got", "alert"} =>
       (s.on /\ s.pending = 0 => s.seen = lastFrame.at) /\ (IsLong(s) => Reports(s))
  /\ idleJob[f].pc = "alert" => IsLong(s)
  /\ idleJob[f].pc = "store" => s.alerted

\* As long as records came one by one, in order.
Orderly ==
  ~idleUpset =>
    /\ \A f, g \in Calls : idleJob[f].pc # "idle" /\ idleJob[g].pc # "idle" => f = g
    /\ Stored /\ idleTold <= 1 /\ witnessed <= lastFrame.at
    /\ \A f \in Calls : idleJob[f].pc # "idle" => Handled(f)
    /\ (\A f \in Calls : idleJob[f].pc = "idle") => Follows(stretch)

IdleInv == IdleTypeOK /\ Orderly

LEMMA IdleBounds == /\ IdleEnd \in Nat \ {0} /\ MaxIdleGap \in Nat \ {0}
                    /\ MoveConfirm \in Nat \ {0} /\ IdleAlert \in Nat \ {0}
  BY IdleConstants

\* A silence is counted whole up to the cap, and no more in parts than at once.
LEMMA GapFacts ==
  ASSUME NEW since \in Nat, NEW at \in Nat
  PROVE  /\ Gap(since, at) \in Nat /\ CappedGap(since, at) \in Nat
         /\ CappedGap(since, at) <= Gap(since, at)
         /\ Gap(since, at) <= MaxIdleGap => CappedGap(since, at) = Gap(since, at)
         /\ since <= at => since + Gap(since, at) = at
         /\ at <= since => Gap(since, at) = 0 /\ CappedGap(since, at) = 0
         /\ \A between \in Nat : since <= between /\ between <= at =>
              CappedGap(since, at) <= CappedGap(since, between) + CappedGap(between, at)
  BY IdleBounds DEF Gap, CappedGap

\* The fields of a stretch, numbers apart from flags.
LEMMA StretchFields ==
  ASSUME NEW s \in Stretches
  PROVE  /\ s.on \in BOOLEAN /\ s.alerted \in BOOLEAN
         /\ s.seen \in Nat /\ s.observed \in Nat /\ s.pending \in Nat
         /\ s.seen <= IdleEnd /\ s.observed <= IdleEnd /\ s.pending <= IdleEnd
  BY IdleBounds DEF Stretches

LEMMA NoStretchType == NoStretch \in Stretches /\ ~NoStretch.on /\ NoStretch.observed = 0
  BY IdleBounds DEF NoStretch, Stretches

LEMMA BeginStretchFields ==
  ASSUME NEW at \in 0..IdleEnd
  PROVE  /\ BeginStretch(at) \in Stretches
         /\ BeginStretch(at).on /\ ~BeginStretch(at).alerted
         /\ BeginStretch(at).seen = at /\ BeginStretch(at).observed = 0 /\ BeginStretch(at).pending = 0
<1>1. BeginStretch(at) \in Stretches
  BY NoStretchType DEF BeginStretch, Stretches
<1> QED
  BY <1>1 DEF BeginStretch, NoStretch

\* The ways a reading goes on from a stretch.
Begins(s, new, kind, at) ==
  /\ kind = "still" /\ (s.on => s.pending = 0 /\ Gap(s.seen, at) > MaxIdleGap)
  /\ new = BeginStretch(at)
Resumes(s, new, kind, at) ==
  /\ kind = "still" /\ s.on /\ s.pending # 0
  /\ new = [s EXCEPT !.pending = 0, !.seen = at]
Extends(s, new, kind, at) ==
  /\ kind = "still" /\ s.on /\ s.pending = 0 /\ Gap(s.seen, at) <= MaxIdleGap
  /\ new = [s EXCEPT !.seen = at, !.observed = s.observed + Gap(s.seen, at)]
StaysOut(s, new, kind) == kind # "still" /\ ~s.on /\ new = NoStretch
Wobbles(s, new, kind, at) ==
  /\ kind = "drift" /\ s.on /\ s.pending = 0
  /\ new = [s EXCEPT !.pending = at, !.seen = at, !.observed = s.observed + CappedGap(s.seen, at)]
WobbleHolds(s, new, kind) == kind = "drift" /\ s.on /\ s.pending # 0 /\ new = s
Lasts(s, new, kind) == kind = "drift" /\ s.on /\ s.pending # 0 /\ new = [s EXCEPT !.on = FALSE]
Departs(s, new, kind, at) ==
  /\ kind \in {"drive", "off"} /\ s.on
  /\ new = [s EXCEPT !.on = FALSE, !.observed = s.observed + CappedGap(s.seen, at)]

LEMMA StepCases ==
  ASSUME NEW s \in Stretches, NEW kind \in Kinds, NEW at \in 1..IdleEnd, NEW new,
         new = StepIdle(s, kind, at)
  PROVE  \/ Begins(s, new, kind, at) \/ Resumes(s, new, kind, at) \/ Extends(s, new, kind, at)
         \/ StaysOut(s, new, kind) \/ Wobbles(s, new, kind, at) \/ WobbleHolds(s, new, kind)
         \/ Lasts(s, new, kind) \/ Departs(s, new, kind, at)
<1>1. s.pending \in Nat /\ s.seen \in Nat /\ at \in Nat /\ s.on \in BOOLEAN
  BY StretchFields, IdleBounds
<1>2. Gap(s.seen, at) \in Nat
  BY <1>1, GapFacts
<1>3. CASE kind = "still"
  <2>1. new = StepStill(s, at)
    BY <1>3 DEF StepIdle
  <2>3. CASE ~s.on
    BY <1>3, <2>1, <2>3 DEF StepStill, Begins
  <2>4. CASE s.on /\ s.pending # 0
    BY <1>3, <2>1, <2>4 DEF StepStill, Resumes
  <2>5. CASE s.on /\ s.pending = 0 /\ Gap(s.seen, at) > MaxIdleGap
    BY <1>3, <2>1, <2>5 DEF StepStill, Begins
  <2>6. CASE s.on /\ s.pending = 0 /\ ~(Gap(s.seen, at) > MaxIdleGap)
    <3>1. Gap(s.seen, at) <= MaxIdleGap
      BY <1>2, <2>6, IdleBounds
    <3>2. new = [s EXCEPT !.seen = at, !.observed = s.observed + Gap(s.seen, at)]
      BY <2>1, <2>6 DEF StepStill
    <3> QED
      BY <1>3, <2>6, <3>1, <3>2 DEF Extends
  <2> QED
    BY <1>1, <2>3, <2>4, <2>5, <2>6
<1>4. CASE kind # "still" /\ ~s.on
  BY <1>4 DEF StepIdle, StaysOut
<1>5. CASE kind = "drift" /\ s.on
  <2>1. new = StepDrift(s, at)
    BY <1>5 DEF StepIdle
  <2> QED
    BY <1>1, <1>5, <2>1 DEF StepDrift, Wobbles, WobbleHolds, Lasts
<1>6. CASE kind \in {"drive", "off"} /\ s.on
  <2>1. new = StepLeaves(s, at)
    BY <1>6 DEF StepIdle
  <2> QED
    BY <1>6, <2>1 DEF StepLeaves, Departs
<1> QED
  BY <1>1, <1>3, <1>4, <1>5, <1>6 DEF Kinds

\* What a reading leaves behind is a stretch, if the one it began with observed no more than it
\* lasted.
LEMMA StepType ==
  ASSUME NEW s \in Stretches, NEW kind \in Kinds, NEW at \in 1..IdleEnd, NEW new,
         new = StepIdle(s, kind, at), s.on => s.observed <= s.seen
  PROVE  new \in Stretches
<1>1. /\ s.on \in BOOLEAN /\ s.alerted \in BOOLEAN
      /\ s.seen \in Nat /\ s.observed \in Nat /\ s.pending \in Nat
      /\ s.seen <= IdleEnd /\ s.observed <= IdleEnd /\ s.pending <= IdleEnd
  BY StretchFields
<1>2. at \in Nat /\ at <= IdleEnd /\ at \in 0..IdleEnd /\ 0 \in 0..IdleEnd
  BY IdleBounds
<1>3. s.on => /\ s.observed + Gap(s.seen, at) \in 0..IdleEnd
              /\ s.observed + CappedGap(s.seen, at) \in 0..IdleEnd
  <2> DEFINE g == Gap(s.seen, at)
             c == CappedGap(s.seen, at)
  <2>1. /\ g \in Nat /\ c \in Nat /\ c <= g
        /\ s.seen <= at => s.seen + g = at
        /\ at <= s.seen => g = 0
    BY <1>1, <1>2, GapFacts
  <2> HIDE DEF g, c
  <2>2. s.on => s.observed + g <= IdleEnd /\ s.observed + g \in Nat
    BY <1>1, <1>2, <2>1, IdleBounds
  <2>3. s.on => s.observed + c <= IdleEnd /\ s.observed + c \in Nat
    BY <1>1, <2>1, <2>2, IdleBounds
  <2>4. s.on => s.observed + g \in 0..IdleEnd /\ s.observed + c \in 0..IdleEnd
    BY <2>2, <2>3, IdleBounds
  <2> QED
    BY <2>4 DEF g, c
<1>4. \/ Begins(s, new, kind, at) \/ Resumes(s, new, kind, at) \/ Extends(s, new, kind, at)
      \/ StaysOut(s, new, kind) \/ Wobbles(s, new, kind, at) \/ WobbleHolds(s, new, kind)
      \/ Lasts(s, new, kind) \/ Departs(s, new, kind, at)
  BY StepCases
<1>5. CASE Begins(s, new, kind, at)
  BY <1>2, <1>5, BeginStretchFields DEF Begins
<1>6. CASE Resumes(s, new, kind, at)
  BY <1>2, <1>6 DEF Resumes, Stretches
<1>7. CASE Extends(s, new, kind, at)
  BY <1>2, <1>3, <1>7 DEF Extends, Stretches
<1>8. CASE StaysOut(s, new, kind)
  BY <1>8, NoStretchType DEF StaysOut
<1>9. CASE Wobbles(s, new, kind, at)
  BY <1>2, <1>3, <1>9 DEF Wobbles, Stretches
<1>10. CASE WobbleHolds(s, new, kind) \/ Lasts(s, new, kind)
  BY <1>10 DEF WobbleHolds, Lasts, Stretches
<1>11. CASE Departs(s, new, kind, at)
  BY <1>3, <1>11 DEF Departs, Stretches
<1> QED
  BY <1>4, <1>5, <1>6, <1>7, <1>8, <1>9, <1>10, <1>11

IdleJobs == [pc : {"idle", "got", "alert", "store"}, next : Stretches]
Frames == [at : 0..IdleEnd, kind : Kinds, twice : BOOLEAN]

LEMMA IdleTypesSplit ==
  IdleTypeOK <=> /\ stretch \in Stretches /\ idleJob \in [Calls -> IdleJobs] /\ lastFrame \in Frames
                 /\ witnessed \in 0..IdleEnd /\ idleTold \in 0..2 /\ idleUpset \in BOOLEAN
  BY DEF IdleTypeOK, IdleJobs, Frames

LEMMA IdleJobMoves ==
  ASSUME idleJob \in [Calls -> IdleJobs], NEW f \in Calls, NEW j \in IdleJobs,
         idleJob' = [idleJob EXCEPT ![f] = j]
  PROVE  /\ idleJob' \in [Calls -> IdleJobs] /\ idleJob'[f] = j
         /\ \A g \in Calls \ {f} : idleJob'[g] = idleJob[g]
  OBVIOUS

LEMMA IdleIdleType == IdleIdleJob \in IdleJobs /\ IdleIdleJob.pc = "idle"
  BY NoStretchType DEF IdleIdleJob, IdleJobs

\* Nothing is known of a vehicle without a stretch, unless it was alerted.
LEMMA NoStretchFollows ==
  ASSUME idleTold # 0 => Left \/ lastFrame.twice
  PROVE  Follows(NoStretch)
  BY NoStretchType DEF Follows

LEMMA IdleInvInit == IdleInit => IdleInv
<1> SUFFICES ASSUME IdleInit PROVE IdleInv
  OBVIOUS
<1>1. IdleTypeOK
  <2>1. idleJob \in [Calls -> IdleJobs]
    BY IdleIdleType DEF IdleInit
  <2>2. lastFrame \in Frames
    BY IdleBounds DEF IdleInit, Frames, Kinds
  <2>3. witnessed \in 0..IdleEnd /\ idleTold \in 0..2 /\ idleUpset \in BOOLEAN
    <3>1. 0 \in 0..IdleEnd /\ 0 \in 0..2
      BY IdleBounds
    <3> QED
      BY <3>1 DEF IdleInit
  <2>4. stretch \in Stretches
    BY NoStretchType DEF IdleInit
  <2> QED
    BY <2>1, <2>2, <2>3, <2>4, IdleTypesSplit
<1>2. \A f \in Calls : idleJob[f].pc = "idle"
  BY IdleIdleType DEF IdleInit
<1>3. Stored
  BY NoStretchType DEF IdleInit, Stored
<1>4. Follows(stretch)
  BY NoStretchFollows DEF IdleInit
<1>5. idleTold <= 1 /\ witnessed <= lastFrame.at
  BY DEF IdleInit
<1> QED
  BY <1>1, <1>2, <1>3, <1>4, <1>5 DEF IdleInv, Orderly

\* The histories and the job after a record that comes in its turn.
LEMMA IdleRecordTypes ==
  ASSUME IdleInv, NEW f \in Calls, ~idleUpset, NEW kind \in Kinds, NEW at \in 1..IdleEnd,
         Note(kind, at), idleUpset' = Disturbed(at), stretch' = stretch,
         idleJob' = [idleJob EXCEPT ![f] = [pc |-> "got", next |-> StepIdle(stretch, kind, at)]]
  PROVE  /\ IdleTypeOK'
         /\ idleJob'[f].pc = "got" /\ idleJob'[f].next = StepIdle(stretch, kind, at)
         /\ StepIdle(stretch, kind, at) \in Stretches
         /\ \A g \in Calls \ {f} : idleJob'[g] = idleJob[g]
<1>1. /\ stretch \in Stretches /\ idleJob \in [Calls -> IdleJobs] /\ lastFrame \in Frames
      /\ witnessed \in 0..IdleEnd /\ idleTold \in 0..2 /\ idleUpset \in BOOLEAN
  BY IdleTypesSplit DEF IdleInv
<1>2. (stretch.on => stretch.observed <= stretch.seen) /\ witnessed <= lastFrame.at
  BY DEF IdleInv, Orderly, Stored, Witnessed
<1> DEFINE new == StepIdle(stretch, kind, at)
<1>3. new \in Stretches
  BY <1>1, <1>2, StepType
<1> HIDE DEF new
<1>4. [pc |-> "got", next |-> new] \in IdleJobs
  BY <1>3 DEF IdleJobs
<1>5. /\ idleJob' \in [Calls -> IdleJobs] /\ idleJob'[f] = [pc |-> "got", next |-> new]
      /\ \A g \in Calls \ {f} : idleJob'[g] = idleJob[g]
  BY <1>1, <1>4, IdleJobMoves DEF new
<1>6. at \in Nat /\ at <= IdleEnd /\ lastFrame.at \in Nat /\ lastFrame.at <= IdleEnd
  BY <1>1, IdleBounds DEF Frames
<1>7. lastFrame' \in Frames
  <2>1. PICK b \in BOOLEAN : b = (kind = "drift" /\ lastFrame.kind = "drift")
    BY Zenon
  <2>2. lastFrame' = [at |-> IF at > lastFrame.at THEN at ELSE lastFrame.at, kind |-> kind, twice |-> b]
    BY <2>1, Zenon DEF Note
  <2>3. (IF at > lastFrame.at THEN at ELSE lastFrame.at) \in 0..IdleEnd
    BY <1>6, IdleBounds
  <2> QED
    BY <2>2, <2>3 DEF Frames
<1>8. witnessed' \in 0..IdleEnd
  <2> DEFINE hop == CappedGap(lastFrame.at, at)
  <2>1. witnessed' = 0 \/ witnessed' = witnessed + hop
    BY DEF Note
  <2>2. /\ hop \in Nat /\ (lastFrame.at <= at => lastFrame.at + hop <= at) /\ (at <= lastFrame.at => hop = 0)
    <3> DEFINE gap == Gap(lastFrame.at, at)
    <3>1. /\ hop \in Nat /\ gap \in Nat /\ hop <= gap
          /\ lastFrame.at <= at => lastFrame.at + gap = at
          /\ at <= lastFrame.at => hop = 0
      BY <1>6, GapFacts
    <3> HIDE DEF gap, hop
    <3> QED
      BY <1>6, <3>1
  <2> HIDE DEF hop
  <2>3. witnessed \in Nat /\ witnessed + hop \in 0..IdleEnd
    BY <1>1, <1>2, <1>6, <2>2, IdleBounds
  <2> QED
    BY <2>1, <2>3, IdleBounds
<1>9. idleTold' \in 0..2 /\ idleUpset' \in BOOLEAN
  BY <1>1 DEF Note, Disturbed
<1> QED
  BY <1>1, <1>3, <1>5, <1>7, <1>8, <1>9 DEF IdleTypeOK, IdleJobs, Frames, new

\* What the record adds to the histories when it comes in its turn.
LEMMA InTurn ==
  ASSUME lastFrame \in Frames, witnessed \in Nat, NEW kind \in Kinds, NEW at \in 1..IdleEnd,
         Note(kind, at), ~(at < lastFrame.at)
  PROVE  /\ at \in Nat /\ lastFrame.at \in Nat /\ lastFrame.at <= at
         /\ lastFrame'.at = at /\ lastFrame'.kind = kind
         /\ kind = "drift" /\ lastFrame.kind = "drift" => lastFrame'.twice
         /\ witnessed' = IF Left THEN 0 ELSE witnessed + CappedGap(lastFrame.at, at)
         /\ idleTold' # 0 => /\ idleTold' = idleTold /\ ~Left /\ ~lastFrame.twice
                             /\ Gap(lastFrame.at, at) <= MaxIdleGap
         /\ idleTold' \in {0, idleTold}
<1>1. at \in Nat /\ lastFrame.at \in Nat /\ lastFrame.at <= at
  BY IdleBounds DEF Frames
<1>2. (IF at > lastFrame.at THEN at ELSE lastFrame.at) = at
  BY <1>1
<1>3. lastFrame'.at = at /\ lastFrame'.kind = kind
  BY <1>2 DEF Note
<1>4. kind = "drift" /\ lastFrame.kind = "drift" => lastFrame'.twice
  BY DEF Note
<1>5. Gap(lastFrame.at, at) \in Nat
  BY <1>1, GapFacts
<1>6. /\ idleTold' # 0 => /\ idleTold' = idleTold /\ ~Left /\ ~lastFrame.twice
                          /\ ~(Gap(lastFrame.at, at) > MaxIdleGap)
      /\ idleTold' \in {0, idleTold}
  BY DEF Note, Left
<1>7. witnessed' = IF Left THEN 0 ELSE witnessed + CappedGap(lastFrame.at, at)
  BY DEF Note, Left
<1> QED
  BY <1>1, <1>3, <1>4, <1>5, <1>6, <1>7, IdleBounds

\* The witnessed time covers a stretch that goes on, whatever silence came before the record.
LEMMA WitnessedOn ==
  ASSUME NEW s \in Stretches, Witnessed(s), lastFrame \in Frames, witnessed \in Nat, NEW at \in Nat,
         lastFrame.at <= at, lastFrame'.at = at, witnessed' = witnessed + CappedGap(lastFrame.at, at)
  PROVE  /\ Witnessed(s)'
         /\ s.observed + CappedGap(s.seen, at) <= witnessed'
         /\ s.seen <= at /\ s.observed + Gap(s.seen, at) <= at
         /\ CappedGap(s.seen, at) \in Nat /\ Gap(s.seen, at) \in Nat
         /\ CappedGap(s.seen, at) <= Gap(s.seen, at)
         /\ s.observed <= witnessed'
<1>1. /\ s.seen \in Nat /\ s.observed \in Nat /\ lastFrame.at \in Nat
  BY StretchFields, IdleBounds DEF Frames
<1>2. /\ s.observed <= s.seen /\ s.seen <= lastFrame.at
      /\ s.observed + CappedGap(s.seen, lastFrame.at) <= witnessed
  BY DEF Witnessed
<1> DEFINE before == CappedGap(s.seen, lastFrame.at)
           hop == CappedGap(lastFrame.at, at)
           whole == CappedGap(s.seen, at)
           gap == Gap(s.seen, at)
<1>3. before \in Nat /\ hop \in Nat
  BY <1>1, GapFacts
<1>4. /\ whole \in Nat /\ gap \in Nat /\ whole <= gap
      /\ s.seen <= at => s.seen + gap = at
      /\ s.seen <= lastFrame.at /\ lastFrame.at <= at => whole <= before + hop
  BY <1>1, GapFacts
<1>5. s.observed + before <= witnessed /\ witnessed' = witnessed + hop
  BY <1>2
<1>6. Witnessed(s)' <=> /\ s.observed <= s.seen /\ s.seen <= at
                        /\ s.observed + whole <= witnessed'
  BY DEF Witnessed
<1> HIDE DEF before, hop, whole, gap
<1>7. s.seen <= at /\ s.seen + gap = at /\ whole <= before + hop
  BY <1>1, <1>2, <1>4
<1>8. s.observed + whole <= witnessed'
  BY <1>1, <1>3, <1>4, <1>5, <1>7
<1>9. s.observed + gap <= at /\ s.observed <= witnessed'
  BY <1>1, <1>2, <1>4, <1>7, <1>8
<1> QED
  BY <1>2, <1>4, <1>6, <1>7, <1>8, <1>9 DEF whole, gap

\* A stretch last seen now has no silence behind it.
LEMMA WitnessedNow ==
  ASSUME NEW s, s.seen \in Nat, s.observed \in Nat, lastFrame'.at = s.seen,
         s.observed <= s.seen, s.observed <= witnessed'
  PROVE  Witnessed(s)'
<1>1. CappedGap(s.seen, s.seen) = 0
  BY GapFacts
<1>2. s.observed + 0 = s.observed
  OBVIOUS
<1>3. CappedGap(s.seen, lastFrame'.at) = 0
  BY <1>1
<1> QED
  BY <1>2, <1>3 DEF Witnessed

\* What a record in its turn leaves the handler with agrees with what was seen.
LEMMA StepFollows ==
  ASSUME IdleInv, ~idleUpset, \A g \in Calls : idleJob[g].pc = "idle",
         NEW kind \in Kinds, NEW at \in 1..IdleEnd, Note(kind, at), ~(at < lastFrame.at),
         NEW s \in Stretches, s = stretch, NEW new \in Stretches, new = StepIdle(s, kind, at)
  PROVE  /\ new.observed <= witnessed' /\ Follows(new)'
         /\ new.on /\ new.pending = 0 => new.seen = lastFrame'.at
         /\ IsLong(new) => /\ idleTold' = 0
                           /\ IF new.on THEN s.on /\ ~s.alerted /\ s.pending = 0
                              ELSE Left'
         /\ s.on => Witnessed(s)'
<1> DEFINE Goal == /\ new.observed <= witnessed' /\ Follows(new)'
                   /\ new.on /\ new.pending = 0 => new.seen = lastFrame'.at
                   /\ IsLong(new) => /\ idleTold' = 0
                                     /\ IF new.on THEN s.on /\ ~s.alerted /\ s.pending = 0
                                        ELSE Left'
<1>1. /\ lastFrame \in Frames /\ witnessed \in Nat /\ idleTold \in 0..2
  BY IdleTypesSplit DEF IdleInv
<1>2. Stored /\ Follows(s)
  BY DEF IdleInv, Orderly
<1>3. /\ at \in Nat /\ lastFrame.at \in Nat /\ lastFrame.at <= at
      /\ lastFrame'.at = at /\ lastFrame'.kind = kind
      /\ kind = "drift" /\ lastFrame.kind = "drift" => lastFrame'.twice
      /\ witnessed' = IF Left THEN 0 ELSE witnessed + CappedGap(lastFrame.at, at)
      /\ idleTold' # 0 => /\ idleTold' = idleTold /\ ~Left /\ ~lastFrame.twice
                          /\ Gap(lastFrame.at, at) <= MaxIdleGap
  BY <1>1, InTurn
<1>4. Left' <=> kind \in {"drive", "off"}
  BY <1>3 DEF Left
<1>5. /\ s.on \in BOOLEAN /\ s.alerted \in BOOLEAN
      /\ s.seen \in Nat /\ s.observed \in Nat /\ s.pending \in Nat
  BY <1>1, StretchFields
<1>6. /\ new.on \in BOOLEAN /\ new.alerted \in BOOLEAN
      /\ new.seen \in Nat /\ new.observed \in Nat /\ new.pending \in Nat
  BY StretchFields
<1>7. s.on => /\ Witnessed(s)'
              /\ s.observed + CappedGap(s.seen, at) <= witnessed'
              /\ s.seen <= at /\ s.observed + Gap(s.seen, at) <= at
              /\ CappedGap(s.seen, at) \in Nat /\ Gap(s.seen, at) \in Nat
              /\ CappedGap(s.seen, at) <= Gap(s.seen, at)
              /\ s.observed <= witnessed'
              /\ ~Left /\ Witnessed(s)
  <2>1. s.on => ~Left /\ Witnessed(s) /\ witnessed' = witnessed + CappedGap(lastFrame.at, at)
    BY <1>2, <1>3 DEF Follows
  <2> QED
    BY <1>1, <1>3, <2>1, WitnessedOn
\* An alert the histories still hold belongs to the stored stretch.
<1>8. idleTold' # 0 => s.on /\ s.alerted
  BY <1>2, <1>3 DEF Follows
\* A stretch that was alerted and is not interrupted was last seen at the last record.
<1>9. idleTold' # 0 /\ s.pending = 0 => Gap(s.seen, at) <= MaxIdleGap
  BY <1>2, <1>3, <1>8 DEF Follows
<1>10. witnessed' \in Nat
  <2>1. CappedGap(lastFrame.at, at) \in Nat
    BY <1>3, GapFacts
  <2> QED
    BY <1>1, <1>3, <2>1
<1>11. IsLong(new) <=> ~new.alerted /\ new.observed >= IdleAlert
  BY DEF IsLong
<1>12. s.on => ~IsLong(s)
  BY <1>2 DEF Stored
<1>13. \/ Begins(s, new, kind, at) \/ Resumes(s, new, kind, at) \/ Extends(s, new, kind, at)
       \/ StaysOut(s, new, kind) \/ Wobbles(s, new, kind, at) \/ WobbleHolds(s, new, kind)
       \/ Lasts(s, new, kind) \/ Departs(s, new, kind, at)
  BY <1>1, StepCases
<1> SUFFICES Goal
  BY <1>7
<1>20. CASE Begins(s, new, kind, at)
  <2>1. /\ new.on /\ ~new.alerted /\ new.seen = at /\ new.observed = 0 /\ new.pending = 0
        /\ kind = "still"
    BY <1>20, BeginStretchFields DEF Begins
  <2>2. idleTold' = 0
    <3>1. s.on => s.pending = 0 /\ ~(Gap(s.seen, at) <= MaxIdleGap)
      BY <1>7, <1>20, IdleBounds DEF Begins
    <3> QED
      BY <1>8, <1>9, <3>1
  <2>3. Witnessed(new)'
    BY <1>3, <1>10, <2>1, WitnessedNow
  <2>4. ~IsLong(new)
    BY <1>11, <2>1, IdleBounds
  <2> QED
    BY <1>3, <1>4, <1>10, <2>1, <2>2, <2>3, <2>4 DEF Follows
<1>21. CASE Resumes(s, new, kind, at)
  <2>1. /\ new.on /\ (new.alerted <=> s.alerted) /\ new.seen = at /\ new.observed = s.observed
        /\ new.pending = 0 /\ kind = "still" /\ s.on
    BY <1>1, <1>21 DEF Resumes, Stretches
  <2>2. Witnessed(new)'
    BY <1>3, <1>5, <1>7, <2>1, WitnessedNow DEF Witnessed
  <2>3. ~IsLong(new)
    BY <1>11, <1>12, <2>1 DEF IsLong
  <2> QED
    BY <1>3, <1>4, <1>7, <1>8, <2>1, <2>2, <2>3 DEF Follows
<1>22. CASE Extends(s, new, kind, at)
  <2>1. /\ new.on /\ (new.alerted <=> s.alerted) /\ new.seen = at /\ new.pending = 0
        /\ kind = "still" /\ s.on /\ s.pending = 0
        /\ new.observed = s.observed + CappedGap(s.seen, at)
    <3>1. Gap(s.seen, at) = CappedGap(s.seen, at)
      BY <1>3, <1>5, <1>22, GapFacts DEF Extends
    <3> QED
      BY <1>1, <1>22, <3>1 DEF Extends, Stretches
  <2>2. Witnessed(new)'
    BY <1>3, <1>5, <1>6, <1>7, <2>1, WitnessedNow
  <2> QED
    BY <1>3, <1>4, <1>7, <1>8, <1>11, <2>1, <2>2 DEF Follows
<1>23. CASE StaysOut(s, new, kind)
  <2>1. ~new.on /\ new.observed = 0 /\ ~s.on
    BY <1>23, NoStretchType DEF StaysOut
  <2>2. ~IsLong(new)
    BY <1>11, <2>1, IdleBounds
  <2> QED
    BY <1>8, <1>10, <2>1, <2>2 DEF Follows
<1>24. CASE Wobbles(s, new, kind, at)
  <2>1. /\ new.on /\ (new.alerted <=> s.alerted) /\ new.seen = at /\ new.pending = at
        /\ kind = "drift" /\ s.on /\ s.pending = 0
        /\ new.observed = s.observed + CappedGap(s.seen, at)
    BY <1>1, <1>24 DEF Wobbles, Stretches
  <2>2. Witnessed(new)'
    BY <1>3, <1>5, <1>6, <1>7, <2>1, WitnessedNow
  <2>3. new.pending # 0
    BY <2>1, IdleBounds
  <2> QED
    BY <1>3, <1>4, <1>7, <1>8, <1>11, <2>1, <2>2, <2>3 DEF Follows
<1>25. CASE WobbleHolds(s, new, kind)
  <2>1. new = s /\ kind = "drift" /\ s.on /\ s.pending # 0
    BY <1>25 DEF WobbleHolds
  <2> QED
    BY <1>3, <1>4, <1>7, <1>8, <1>12, <2>1 DEF Follows
<1>26. CASE Lasts(s, new, kind)
  <2>1. /\ ~new.on /\ (new.alerted <=> s.alerted) /\ new.observed = s.observed
        /\ kind = "drift" /\ s.on /\ s.pending # 0
    BY <1>1, <1>26 DEF Lasts, Stretches
  <2>2. lastFrame'.twice
    BY <1>2, <1>3, <2>1 DEF Follows
  <2>3. ~IsLong(new)
    BY <1>11, <1>12, <2>1 DEF IsLong
  <2> QED
    BY <1>7, <2>1, <2>2, <2>3 DEF Follows
<1>27. CASE Departs(s, new, kind, at)
  <2>1. /\ ~new.on /\ (new.alerted <=> s.alerted) /\ s.on /\ kind \in {"drive", "off"}
        /\ new.observed = s.observed + CappedGap(s.seen, at)
    BY <1>1, <1>27 DEF Departs, Stretches
  <2> QED
    BY <1>4, <1>7, <1>8, <1>11, <2>1 DEF Follows
<1> QED
  BY <1>13, <1>20, <1>21, <1>22, <1>23, <1>24, <1>25, <1>26, <1>27

LEMMA IdleRecordNext ==
  ASSUME IdleInv, NEW f \in Calls, IdleRecord(f)
  PROVE  IdleInv'
<1>1. PICK kind \in Kinds, at \in 1..IdleEnd :
        /\ Note(kind, at) /\ idleUpset' = Disturbed(at)
        /\ idleJob' = [idleJob EXCEPT ![f] = [pc |-> "got", next |-> StepIdle(stretch, kind, at)]]
  BY DEF IdleRecord
<1>2. ~idleUpset /\ stretch' = stretch /\ idleJob[f].pc = "idle"
  BY DEF IdleRecord
<1>3. PICK s : s = stretch
  OBVIOUS
<1>4. PICK new : new = StepIdle(s, kind, at)
  OBVIOUS
<1>5. /\ IdleTypeOK'
      /\ idleJob'[f].pc = "got" /\ idleJob'[f].next = new /\ new \in Stretches
      /\ \A g \in Calls \ {f} : idleJob'[g] = idleJob[g]
  BY <1>1, <1>2, <1>3, <1>4, IdleRecordTypes
<1>6. Orderly'
  <2> SUFFICES ASSUME ~idleUpset' PROVE Orderly'
    BY DEF Orderly
  <2>1. ~(at < lastFrame.at) /\ \A g \in Calls : idleJob[g].pc = "idle"
    BY <1>1, <1>2 DEF Disturbed
  <2>2. /\ lastFrame \in Frames /\ witnessed \in Nat /\ idleTold \in 0..2 /\ s \in Stretches
    BY <1>3, IdleTypesSplit DEF IdleInv
  <2>3. /\ new.observed <= witnessed' /\ Follows(new)'
        /\ new.on /\ new.pending = 0 => new.seen = lastFrame'.at
        /\ IsLong(new) => /\ idleTold' = 0
                          /\ IF new.on THEN s.on /\ ~s.alerted /\ s.pending = 0 ELSE Left'
        /\ s.on => Witnessed(s)'
    BY <1>1, <1>2, <1>3, <1>4, <1>5, <2>1, <2>2, StepFollows
  <2>4. Stored /\ idleTold <= 1 /\ witnessed <= lastFrame.at
    BY <1>2 DEF IdleInv, Orderly
  <2>5. Stored'
    BY <1>2, <1>3, <2>3, <2>4 DEF Stored, Witnessed, IsLong
  <2>6. Handled(f)'
    <3>1. Reports(new)' <=> /\ idleTold' = 0
                            /\ IF new.on THEN s.on /\ ~s.alerted /\ s.pending = 0 ELSE Left'
      BY <1>2, <1>3 DEF Reports
    <3>2. IsLong(new)' <=> IsLong(new)
      BY DEF IsLong
    <3>3. idleJob'[f].next = new
      BY <1>5
    <3> QED
      BY <1>5, <2>3, <3>1, <3>2, <3>3 DEF Handled, Follows, Reports, IsLong, Witnessed, Left
  <2>7. idleTold' <= 1 /\ witnessed' <= lastFrame'.at
    <3>1. /\ at \in Nat /\ lastFrame.at \in Nat /\ lastFrame.at <= at /\ lastFrame'.at = at
          /\ witnessed' = IF Left THEN 0 ELSE witnessed + CappedGap(lastFrame.at, at)
          /\ idleTold' \in {0, idleTold}
      BY <1>1, <2>1, <2>2, InTurn
    <3> DEFINE hop == CappedGap(lastFrame.at, at)
               gap == Gap(lastFrame.at, at)
    <3>2. hop \in Nat /\ gap \in Nat /\ hop <= gap /\ lastFrame.at + gap = at
      BY <3>1, GapFacts
    <3>3. witnessed' = 0 \/ witnessed' = witnessed + hop
      BY <3>1
    <3> HIDE DEF hop, gap
    <3>4. witnessed' <= at
      BY <2>2, <2>4, <3>1, <3>2, <3>3
    <3> QED
      BY <2>2, <2>4, <3>1, <3>4
  <2>8. \A g \in Calls \ {f} : idleJob'[g].pc = "idle"
    BY <1>5, <2>1
  <2> QED
    BY <1>5, <2>5, <2>6, <2>7, <2>8 DEF Orderly
<1> QED
  BY <1>5, <1>6 DEF IdleInv

\* Between records the stretch is stored, or dropped.
LEMMA StoredNext ==
  ASSUME NEW s \in Stretches, StoreStretch(s), Follows(s), ~IsLong(s),
         UNCHANGED <<lastFrame, witnessed, idleTold>>
  PROVE  stretch' \in Stretches /\ Stored' /\ Follows(stretch)'
<1>1. CASE s.on
  <2>1. stretch' = s
    BY <1>1 DEF StoreStretch
  <2> QED
    BY <1>1, <2>1 DEF Stored, Follows, Witnessed, IsLong, Left
<1>2. CASE ~s.on
  <2>1. stretch' = NoStretch
    BY <1>2 DEF StoreStretch
  <2>2. idleTold' # 0 => Left' \/ lastFrame'.twice
    BY <1>2 DEF Follows, Left
  <2> QED
    BY <2>1, <2>2, NoStretchType DEF Stored, Follows
<1> QED
  BY <1>1, <1>2

\* A job ends, and with it the record: the stretch is what the next one steps from.
LEMMA IdleEnds ==
  ASSUME IdleInv, NEW f \in Calls, idleJob[f].pc # "idle",
         idleJob' = [idleJob EXCEPT ![f] = IdleIdleJob],
         UNCHANGED <<lastFrame, witnessed, idleTold>>,
         stretch' \in Stretches, idleUpset' \in BOOLEAN,
         ~idleUpset' => ~idleUpset /\ Stored' /\ Follows(stretch)'
  PROVE  IdleInv'
<1>1. /\ idleJob \in [Calls -> IdleJobs] /\ lastFrame \in Frames
      /\ witnessed \in 0..IdleEnd /\ idleTold \in 0..2
  BY IdleTypesSplit DEF IdleInv
<1>2. /\ idleJob' \in [Calls -> IdleJobs] /\ idleJob'[f].pc = "idle"
      /\ \A g \in Calls \ {f} : idleJob'[g] = idleJob[g]
  BY <1>1, IdleJobMoves, IdleIdleType
<1>3. IdleTypeOK'
  BY <1>1, <1>2 DEF IdleTypeOK, IdleJobs, Frames
<1>4. Orderly'
  <2> SUFFICES ASSUME ~idleUpset' PROVE Orderly'
    BY DEF Orderly
  <2>1. \A g \in Calls : idleJob'[g].pc = "idle"
    BY <1>2 DEF IdleInv, Orderly
  <2>2. idleTold' <= 1 /\ witnessed' <= lastFrame'.at
    BY DEF IdleInv, Orderly
  <2> QED
    BY <2>1, <2>2 DEF Orderly
<1> QED
  BY <1>3, <1>4 DEF IdleInv

\* A handler goes on to its alert, or from its alert to the stretch it stores.
LEMMA IdleGoesOn ==
  ASSUME IdleInv, NEW f \in Calls, idleJob[f].pc # "idle", NEW j \in IdleJobs, j.pc # "idle",
         idleJob' = [idleJob EXCEPT ![f] = j], idleTold' \in 0..2,
         UNCHANGED <<stretch, lastFrame, witnessed, idleUpset>>,
         ~idleUpset => Handled(f)' /\ idleTold' <= 1
  PROVE  IdleInv'
<1>1. /\ stretch \in Stretches /\ idleJob \in [Calls -> IdleJobs] /\ lastFrame \in Frames
      /\ witnessed \in 0..IdleEnd /\ idleUpset \in BOOLEAN
  BY IdleTypesSplit DEF IdleInv
<1>2. /\ idleJob' \in [Calls -> IdleJobs] /\ idleJob'[f] = j
      /\ \A g \in Calls \ {f} : idleJob'[g] = idleJob[g]
  BY <1>1, IdleJobMoves
<1>3. IdleTypeOK'
  BY <1>1, <1>2 DEF IdleTypeOK, IdleJobs, Frames
<1>4. Orderly'
  <2> SUFFICES ASSUME ~idleUpset PROVE Orderly'
    BY DEF Orderly
  <2>1. \A g \in Calls \ {f} : idleJob'[g].pc = "idle"
    BY <1>2 DEF IdleInv, Orderly
  <2>2. Stored' /\ witnessed' <= lastFrame'.at
    BY DEF IdleInv, Orderly, Stored, Witnessed, IsLong
  <2> QED
    BY <1>2, <2>1, <2>2 DEF Orderly
<1> QED
  BY <1>3, <1>4 DEF IdleInv

LEMMA IdleStepNext ==
  ASSUME IdleInv, NEW f \in Calls,
         IdleStepped(f) \/ RaiseIdle(f) \/ StoreIdle(f) \/ RaiseIdleFails(f)
  PROVE  IdleInv'
<1> DEFINE s == idleJob[f].next
<1>1. /\ stretch \in Stretches /\ idleJob \in [Calls -> IdleJobs] /\ lastFrame \in Frames
      /\ witnessed \in 0..IdleEnd /\ idleTold \in 0..2 /\ idleUpset \in BOOLEAN /\ s \in Stretches
  BY IdleTypesSplit DEF IdleInv, IdleJobs
<1>2. idleJob[f].pc # "idle"
  BY DEF IdleStepped, RaiseIdle, StoreIdle, RaiseIdleFails
<1>3. ~idleUpset => Handled(f) /\ Stored /\ idleTold <= 1
  BY <1>2 DEF IdleInv, Orderly
<1>4. CASE IdleStepped(f)
  <2>1. idleJob[f].pc = "got" /\ UNCHANGED <<lastFrame, witnessed, idleTold, idleUpset>>
    BY <1>4 DEF IdleStepped
  <2>2. CASE IsLong(s)
    <3>1. idleJob' = [idleJob EXCEPT ![f].pc = "alert"] /\ stretch' = stretch
      BY <1>4, <2>2 DEF IdleStepped
    <3> DEFINE j == [idleJob[f] EXCEPT !.pc = "alert"]
    <3>2. j \in IdleJobs /\ j.pc = "alert" /\ j.next = s /\ idleJob' = [idleJob EXCEPT ![f] = j]
      BY <1>1, <3>1 DEF IdleJobs
    <3> HIDE DEF j
    <3>3. idleJob'[f] = j
      BY <1>1, <3>2
    <3>4. ~idleUpset => Handled(f)'
      BY <1>3, <2>1, <2>2, <3>1, <3>2, <3>3 DEF Handled, Follows, Reports, IsLong, Witnessed, Left
    <3> QED
      BY <1>1, <1>2, <1>3, <2>1, <3>1, <3>2, <3>4, IdleGoesOn
  <2>3. CASE ~IsLong(s)
    <3>1. idleJob' = [idleJob EXCEPT ![f] = IdleIdleJob] /\ StoreStretch(s)
      BY <1>4, <2>3 DEF IdleStepped
    <3>2. stretch' \in Stretches
      BY <1>1, <3>1, NoStretchType DEF StoreStretch
    <3>3. ~idleUpset => Stored' /\ Follows(stretch)'
      BY <1>1, <1>3, <2>1, <2>3, <3>1, StoredNext DEF Handled
    <3> QED
      BY <1>1, <1>2, <2>1, <3>1, <3>2, <3>3, IdleEnds
  <2> QED
    BY <2>2, <2>3
<1>5. CASE RaiseIdle(f)
  <2>1. /\ idleJob[f].pc = "alert" /\ idleTold' = Capped(idleTold + 1)
        /\ UNCHANGED <<stretch, lastFrame, witnessed, idleUpset>>
    BY <1>5 DEF RaiseIdle
  <2>8. PICK t : t = [s EXCEPT !.alerted = TRUE]
    OBVIOUS
  <2>9. PICK j : j = [idleJob[f] EXCEPT !.pc = "store", !.next = t]
    OBVIOUS
  <2>2. /\ t \in Stretches /\ t.alerted /\ (t.on <=> s.on) /\ t.seen = s.seen
        /\ t.observed = s.observed /\ t.pending = s.pending
    BY <1>1, <2>8 DEF Stretches
  <2>3. idleJob' = [idleJob EXCEPT ![f] = j]
    BY <1>1, <1>5, <2>8, <2>9 DEF RaiseIdle, IdleJobs
  <2>4. j \in IdleJobs /\ j.pc = "store" /\ j.next = t
    BY <1>1, <2>2, <2>9 DEF IdleJobs
  <2>5. idleJob'[f] = j
    BY <1>1, <2>3
  <2>6. idleTold' \in 0..2
    BY <1>1, <2>1 DEF Capped
  <2>7. ASSUME ~idleUpset PROVE Handled(f)' /\ idleTold' <= 1
    <3>1. Follows(s) /\ s.observed <= witnessed /\ Reports(s)
          /\ (s.on /\ s.pending = 0 => s.seen = lastFrame.at)
      BY <1>3, <2>1, <2>7 DEF Handled
    <3>2. idleTold' = 1
      BY <2>1, <3>1 DEF Reports, Capped
    <3>3. t.on => Witnessed(t)'
      BY <2>1, <2>2, <3>1 DEF Follows, Witnessed
    <3>4. Follows(t)'
      BY <2>1, <2>2, <3>1, <3>3 DEF Follows, Left, Reports
    <3>5. t.observed <= witnessed'
      BY <2>1, <2>2, <3>1
    <3> QED
      BY <2>4, <2>5, <3>2, <3>4, <3>5, <2>2 DEF Handled, Follows, Witnessed, Left
  <2> QED
    BY <1>1, <1>2, <2>1, <2>3, <2>4, <2>6, <2>7, IdleGoesOn
<1>6. CASE StoreIdle(f)
  <2>1. /\ idleJob[f].pc = "store" /\ StoreStretch(s) /\ idleJob' = [idleJob EXCEPT ![f] = IdleIdleJob]
        /\ UNCHANGED <<lastFrame, witnessed, idleTold, idleUpset>>
    BY <1>6 DEF StoreIdle
  <2>2. stretch' \in Stretches
    BY <1>1, <2>1, NoStretchType DEF StoreStretch
  <2>3. ~idleUpset => Stored' /\ Follows(stretch)'
    <3>1. ~idleUpset => Follows(s) /\ ~IsLong(s)
      BY <1>3, <2>1 DEF Handled, IsLong
    <3> QED
      BY <1>1, <2>1, <3>1, StoredNext
  <2> QED
    BY <1>1, <1>2, <2>1, <2>2, <2>3, IdleEnds
<1>7. CASE RaiseIdleFails(f)
  <2>1. /\ idleJob[f].pc = "alert" /\ idleJob' = [idleJob EXCEPT ![f] = IdleIdleJob]
        /\ idleUpset' = (idleUpset \/ ~s.on)
        /\ UNCHANGED <<stretch, lastFrame, witnessed, idleTold>>
    BY <1>7 DEF RaiseIdleFails
  <2>2. ASSUME ~idleUpset' PROVE ~idleUpset /\ Stored' /\ Follows(stretch)'
    <3>1. ~idleUpset /\ s.on
      BY <2>1, <2>2
    <3>2. Stored /\ Follows(s) /\ Reports(s)
      BY <1>3, <2>1, <3>1 DEF Handled
    <3>3. Stored'
      BY <2>1, <3>2 DEF Stored, Witnessed, IsLong
    <3>4. stretch.on /\ ~stretch.alerted /\ stretch.pending = 0 /\ idleTold = 0 /\ ~Left
      BY <3>1, <3>2 DEF Reports, Follows
    <3>5. Witnessed(stretch)'
      BY <2>1, <3>2, <3>4 DEF Stored, Witnessed
    <3>6. Follows(stretch)'
      BY <2>1, <3>4, <3>5 DEF Follows, Left
    <3> QED
      BY <3>1, <3>3, <3>6
  <2>3. idleUpset' \in BOOLEAN
    BY <2>1
  <2> QED
    BY <1>1, <1>2, <2>1, <2>2, <2>3, IdleEnds
<1> QED
  BY <1>4, <1>5, <1>6, <1>7

LEMMA IdleRestartNext ==
  ASSUME IdleInv, IdleRestart \/ UNCHANGED idleVars
  PROVE  IdleInv'
<1>1. /\ stretch \in Stretches /\ idleJob \in [Calls -> IdleJobs] /\ lastFrame \in Frames
      /\ witnessed \in 0..IdleEnd /\ idleTold \in 0..2 /\ idleUpset \in BOOLEAN
  BY IdleTypesSplit DEF IdleInv
<1>2. CASE IdleRestart
  <2>1. /\ \A f \in Calls : idleJob'[f].pc = "idle"
        /\ idleJob' \in [Calls -> IdleJobs]
    BY <1>2, IdleIdleType DEF IdleRestart
  <2>2. /\ UNCHANGED <<lastFrame, witnessed>> /\ idleUpset' \in BOOLEAN
        /\ ~idleUpset' => ~idleUpset /\ \A f \in Calls : idleJob[f].pc = "idle"
    BY <1>2 DEF IdleRestart
  <2>3. CASE UNCHANGED <<stretch, idleTold>>
    <3>1. IdleTypeOK'
      BY <1>1, <2>1, <2>2, <2>3 DEF IdleTypeOK, IdleJobs, Frames
    <3>2. Orderly'
      <4> SUFFICES ASSUME ~idleUpset' PROVE Orderly'
        BY DEF Orderly
      <4>1. Stored /\ idleTold <= 1 /\ witnessed <= lastFrame.at /\ Follows(stretch)
        BY <2>2 DEF IdleInv, Orderly
      <4>2. Stored' /\ Follows(stretch)'
        BY <2>2, <2>3, <4>1 DEF Stored, Follows, Witnessed, IsLong, Left
      <4> QED
        BY <2>1, <2>2, <2>3, <4>1, <4>2 DEF Orderly
    <3> QED
      BY <3>1, <3>2 DEF IdleInv
  <2>4. CASE stretch' = NoStretch /\ idleTold' = 0
    <3>1. IdleTypeOK'
      BY <1>1, <2>1, <2>2, <2>4, NoStretchType DEF IdleTypeOK, IdleJobs, Frames
    <3>2. Orderly'
      <4> SUFFICES ASSUME ~idleUpset' PROVE Orderly'
        BY DEF Orderly
      <4>1. witnessed <= lastFrame.at
        BY <2>2 DEF IdleInv, Orderly
      <4>2. Stored' /\ Follows(stretch)'
        BY <2>4, NoStretchType DEF Stored, Follows
      <4> QED
        BY <2>1, <2>2, <2>4, <4>1, <4>2 DEF Orderly
    <3> QED
      BY <3>1, <3>2 DEF IdleInv
  <2> QED
    BY <1>2, <2>3, <2>4 DEF IdleRestart
<1>3. CASE UNCHANGED idleVars
  <2>1. UNCHANGED <<stretch, idleJob, lastFrame, witnessed, idleTold, idleUpset>>
    BY <1>3 DEF idleVars
  <2>2. IdleTypeOK'
    BY <1>1, <2>1 DEF IdleTypeOK, IdleJobs, Frames
  <2>3. Orderly'
    BY <2>1 DEF IdleInv, Orderly, Handled, Stored, Follows, Reports, Witnessed, IsLong, Left
  <2> QED
    BY <2>2, <2>3 DEF IdleInv
<1> QED
  BY <1>2, <1>3

LEMMA IdleInvCorrect == IdleSpec => []IdleInv
<1>1. IdleInv /\ [IdleNext]_idleVars => IdleInv'
  BY IdleRecordNext, IdleStepNext, IdleRestartNext DEF IdleNext
<1> QED
  BY <1>1, IdleInvInit, PTL DEF IdleSpec

\* One alert while the vehicle stands, for every cap, confirm time and threshold, however often
\* the alert has to be tried and whatever a restart between records forgets.
THEOREM IdleAlertOnceAlways == IdleSpec => []IdleAlertOnce
<1>1. IdleInv => IdleAlertOnce
  BY DEF IdleInv, Orderly, IdleAlertOnce
<1> QED
  BY <1>1, IdleInvCorrect, PTL

\* What an alert reports was seen: no wobble, retry, silence or restart adds idling of its own.
THEOREM IdleWasObservedAlways == IdleSpec => []IdleWasObserved
<1>1. IdleInv => IdleWasObserved
  BY DEF IdleInv, Orderly, Handled, IdleWasObserved
<1> QED
  BY <1>1, IdleInvCorrect, PTL

=============================================================================
