------------------------------ MODULE ReceiptBooks ------------------------------
(***************************************************************************)
(* What a driver and the books may rely on, without phone, network or      *)
(* handlers.  A receipt the driver was told is kept is held by the phone   *)
(* until it is filed; it is filed once, for good; and a filed receipt is   *)
(* credited once, or given up, never both.                                 *)
(***************************************************************************)
EXTENDS Naturals

CONSTANT Receipts

VARIABLES
  told,      \* receipts the driver was told are kept
  held,      \* receipts the phone holds
  filed,     \* receipts in the books
  credits,   \* [Receipts -> times the tank was credited]
  givenUp    \* receipts that will not be credited by themselves

Init ==
  /\ told = {} /\ held = {} /\ filed = {} /\ givenUp = {}
  /\ credits = [r \in Receipts |-> 0]

\* The phone takes a receipt on itself.
Hold(r) ==
  /\ held' = held \union {r}
  /\ told' = told \union {r}
  /\ UNCHANGED <<filed, credits, givenUp>>

\* What is in the books the driver may be told is kept, and the phone may forget.
Confirm(r) ==
  /\ r \in filed
  /\ told' = told \union {r}
  /\ UNCHANGED <<held, filed, credits, givenUp>>

Forget(r) ==
  /\ r \in filed
  /\ held' = held \ {r}
  /\ UNCHANGED <<told, filed, credits, givenUp>>

File(r) ==
  /\ r \notin filed
  /\ filed' = filed \union {r}
  /\ UNCHANGED <<told, held, credits, givenUp>>

Open(r) == r \in filed \ givenUp /\ credits[r] = 0

Credit(r) ==
  /\ Open(r)
  /\ credits' = [credits EXCEPT ![r] = 1]
  /\ UNCHANGED <<told, held, filed, givenUp>>

\* A failed credit gives up one receipt, a restart those that were about to be credited.
GiveUp ==
  /\ \E R \in SUBSET {r \in Receipts : Open(r)} : givenUp' = givenUp \union R
  /\ UNCHANGED <<told, held, filed, credits>>

Next ==
  \/ \E r \in Receipts : Hold(r) \/ Confirm(r) \/ Forget(r) \/ File(r) \/ Credit(r)
  \/ GiveUp

Spec == Init /\ [][Next]_<<told, held, filed, credits, givenUp>>

=============================================================================
