----------------------------- MODULE OrderRegister -----------------------------
(***************************************************************************)
(* What a manager may rely on, without sockets, handshakes or handlers: a  *)
(* register that takes orders, and a relay that obeys them one after the   *)
(* other and never goes back to an earlier one.  It may leave out orders   *)
(* that were replaced.  As long as the manager waits until an order is     *)
(* closed before giving the next, and is answered in order, closed means   *)
(* done, and nothing but the order that stands moves the relay.            *)
(***************************************************************************)
EXTENDS Naturals

VARIABLES
  order,    \* number of the order that stands
  wanted,   \* the level it asks for
  open,     \* it has not been reported done
  sure,     \* each order was closed before the next was given, and by an answer in its order
  obeyed,   \* number of the order the relay obeyed last
  relay     \* the level of the relay

vars == <<order, wanted, open, sure, obeyed, relay>>

Init ==
  /\ order = 0 /\ wanted = 0 /\ open = FALSE /\ sure = TRUE
  /\ obeyed = 0 /\ relay = 0

\* The manager gives an order.
Take(level) ==
  /\ order' = order + 1 /\ wanted' = level /\ open' = TRUE
  /\ sure' = (sure /\ ~open)
  /\ UNCHANGED <<obeyed, relay>>

\* Another command goes the same way, or an answer arrives late: what is an answer to the
\* order that stands can no longer be told.
Doubt ==
  /\ sure' = FALSE
  /\ UNCHANGED <<order, wanted, open, obeyed, relay>>

\* The order that stands is obeyed as it was given; one that was replaced is obeyed late, or never.
Obey(n, level) ==
  /\ n \in obeyed..order
  /\ n = order => level = wanted
  /\ n # order /\ sure => level = relay
  /\ obeyed' = n /\ relay' = level
  /\ UNCHANGED <<order, wanted, open, sure>>

Report ==
  /\ open
  /\ sure => relay = wanted
  /\ open' = FALSE
  /\ UNCHANGED <<order, wanted, sure, obeyed, relay>>

Next ==
  \/ \E level \in {0, 1} : Take(level)
  \/ \E n \in 0..order, level \in {0, 1} : Obey(n, level)
  \/ Doubt \/ Report

=============================================================================
