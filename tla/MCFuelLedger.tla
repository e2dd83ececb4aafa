----------------------------- MODULE MCFuelLedger -----------------------------
(***************************************************************************)
(* Instances of FuelLedger for TLC.                                        *)
(***************************************************************************)
EXTENDS FuelLedger, TLC

\* Record handlers are interchangeable.
Symmetry == Permutations(Frames)

=============================================================================
