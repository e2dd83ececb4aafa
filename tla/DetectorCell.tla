------------------------------ MODULE DetectorCell ------------------------------
(***************************************************************************)
(* What a detector may rely on when it keeps its state in a DetectorState: *)
(* one cell per device.  A lookup returns the last state recorded; only    *)
(* the first lookup of a boot may find that the state has been forgotten,  *)
(* and once it has been seen, or recorded again, it stays.                 *)
(***************************************************************************)
EXTENDS Naturals

CONSTANTS Devices, Frames, MaxVersion

None == 0
Version == 0..MaxVersion

\* The value of answer[f] while frame f has no lookup to work on.
NoAnswer == [dev |-> CHOOSE d \in Devices : TRUE, val |-> MaxVersion + 1]

VARIABLES
  cell,    \* [Devices -> version]: the last state recorded
  view,    \* what this boot has of it: "unknown" until the first lookup
  answer   \* [Frames -> what the last lookup returned]

Init ==
  /\ cell = [d \in Devices |-> None]
  /\ view = [d \in Devices |-> "unknown"]
  /\ answer = [f \in Frames |-> NoAnswer]

Answer(f, d, v) == answer' = [answer EXCEPT ![f] = [dev |-> d, val |-> v]]

\* The first lookup finds the state, or finds it forgotten; while the store is out of
\* reach it may also answer nothing and leave the question open.
FirstLookup(f, d) ==
  /\ answer[f] = NoAnswer /\ view[d] = "unknown"
  /\ \/ view' = [view EXCEPT ![d] = "kept"] /\ Answer(f, d, cell[d])
     \/ cell[d] # None /\ view' = [view EXCEPT ![d] = "forgotten"] /\ Answer(f, d, None)
     \/ UNCHANGED view /\ Answer(f, d, None)
  /\ UNCHANGED cell

Lookup(f, d) ==
  /\ answer[f] = NoAnswer /\ view[d] # "unknown"
  /\ Answer(f, d, IF view[d] = "kept" THEN cell[d] ELSE None)
  /\ UNCHANGED <<cell, view>>

\* The frame records a new state, erases it, or leaves it as it is.
Record(f) ==
  /\ answer[f] # NoAnswer
  /\ \E v \in Version : cell' = [cell EXCEPT ![answer[f].dev] = v]
  /\ view' = [view EXCEPT ![answer[f].dev] = "kept"]
  /\ answer' = [answer EXCEPT ![f] = NoAnswer]

Leave(f) ==
  /\ answer[f] # NoAnswer
  /\ answer' = [answer EXCEPT ![f] = NoAnswer]
  /\ UNCHANGED <<cell, view>>

Restart ==
  /\ view' = [d \in Devices |-> "unknown"]
  /\ answer' = [f \in Frames |-> NoAnswer]
  /\ UNCHANGED cell

Next ==
  \/ \E f \in Frames, d \in Devices : FirstLookup(f, d) \/ Lookup(f, d)
  \/ \E f \in Frames : Record(f) \/ Leave(f)
  \/ Restart

Spec == Init /\ [][Next]_<<cell, view, answer>>

=============================================================================
