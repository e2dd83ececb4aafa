----------------------------- MODULE MCImmobilizer -----------------------------
(***************************************************************************)
(* Instances of Immobilizer for TLC.                                       *)
(***************************************************************************)
EXTENDS Immobilizer, FiniteSets, TLC

CONSTANT MaxActive   \* bound on what goes on at once, see Limited

\* Manager requests are interchangeable, and so are the messages of the tracker.
Symmetry == Permutations(Requests) \union Permutations(Handlers)

\* Most of what is checked is said of behaviours in which no handler has acted for a
\* replaced order: the first such step is reached and not left.
NotRaced == ~raced

Active == {r \in Requests : req[r].pc # "idle"} \union {h \in Handlers : hand[h].pc # "idle"}

\* Requests and messages under way, upsets so far and a manager in haste share one bound.
Limited == Cardinality(Active) + upsets + (IF hasty THEN 1 ELSE 0) <= MaxActive

=============================================================================
