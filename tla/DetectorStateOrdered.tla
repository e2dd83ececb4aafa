-------------------------- MODULE DetectorStateOrdered --------------------------
(***************************************************************************)
(* The promise of a DetectorState, and the conditions under which it is    *)
(* kept: a DetectorState implements DetectorCell for as long as nothing    *)
(* disturbs it.                                                            *)
(***************************************************************************)
EXTENDS DetectorState

VARIABLE ordered  \* history: Ordered has held in every state so far

watched == <<vars, ordered>>

\* One frame of a device at a time, a Redis that takes every write in turn, and no first
\* lookup of a new process while a write of the old one is still on its way.
Ordered ==
  /\ disturbed = {}
  /\ \A d \in Devices : Reading(d) # {} => InFlight(d) = {}
  /\ \A f, g \in Frames :
       f # g /\ frame[f].pc # "idle" /\ frame[g].pc # "idle" => frame[f].dev # frame[g].dev

WatchedInit == Init /\ ordered = TRUE
WatchedNext == Next /\ ordered' = (ordered /\ Ordered')

WatchedSpec == WatchedInit /\ [][WatchedNext]_watched

\* With the fairness of FairSpec.
FairWatchedSpec == WatchedSpec /\ \A f \in Frames : WF_vars(Restore(f) \/ ReadFails(f))

NoAnswer == [dev |-> CHOOSE d \in Devices : TRUE, val |-> MaxVersion + 1]

\* What this boot has of a device's state.
View == [d \in Devices |->
           IF d \notin hydrated \/ Reading(d) # {} THEN "unknown"
           ELSE IF memory[d] = latest[d] THEN "kept" ELSE "forgotten"]

\* What the last get() of a frame returned.
Answers == [f \in Frames |->
              IF frame[f].pc = "has" THEN [dev |-> frame[f].dev, val |-> frame[f].got]
              ELSE NoAnswer]

Cell == INSTANCE DetectorCell WITH cell <- latest, view <- View, answer <- Answers

\* "The in-process Map is the source of truth while the process runs" (detector-state.ts:11), and
\* the copy outlives it: until something disturbs it a DetectorState is a DetectorCell.  The
\* first lookup after a restart may find nothing, every other one returns the last state
\* recorded.
FollowsCell == Cell!Init /\ [][ordered' => [Cell!Next]_<<latest, View, Answers>>]_watched

=============================================================================
