------------------------------ MODULE CallsInFlight ------------------------------
(***************************************************************************)
(* What the models of the monitors and sweeps share: the calls of one      *)
(* handler that can be suspended at an await at the same time.  Two       *)
(* records of one device are handled at once when the tracker has two      *)
(* sockets or a packet arrives while the last one is still handled; two    *)
(* sweeps overlap when one takes longer than its interval.                 *)
(***************************************************************************)
EXTENDS Naturals, FiniteSets

CONSTANTS Calls,      \* the calls of one handler that can be under way at once
          MaxLosses   \* bound on failures, where a model has to count them

ASSUME CallConstants == MaxLosses \in Nat /\ IsFiniteSet(Calls)

\* Counts are kept as none, one and several.
Capped(n) == IF n > 2 THEN 2 ELSE n

=============================================================================
