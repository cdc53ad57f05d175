---------------------------- MODULE StateMachine ----------------------------
(***************************************************************************)
(* The invoice statuses and the transitions between them, as the table of  *)
(* apps/billing/services/state_machine.py gives them.                      *)
(***************************************************************************)

Status ==
  {"draft", "processing", "validated", "transmitting", "transmitted",
   "accepted", "rejected", "refused", "paid", "cancelled"}

\* Mutation: a rejection by the platform is not foreseen.
TransitionsWithoutRejection ==
  [draft        |-> {"processing"},
   processing   |-> {"validated", "draft"},
   validated    |-> {"transmitting", "paid", "cancelled"},
   transmitting |-> {"transmitted", "validated"},
   transmitted  |-> {"accepted", "refused", "paid"},
   accepted     |-> {"refused", "paid"},
   rejected     |-> {},
   refused      |-> {},
   paid         |-> {"cancelled"},
   cancelled    |-> {}]

\* Allowed transitions: the statuses a status may go to.
Transitions ==
  [draft        |-> {"processing"},
   processing   |-> {"validated", "draft"},
   validated    |-> {"transmitting", "paid", "cancelled"},
   transmitting |-> {"transmitted", "rejected", "validated"},
   transmitted  |-> {"accepted", "rejected", "refused", "paid"},
   accepted     |-> {"refused", "paid"},
   rejected     |-> {},
   refused      |-> {},
   paid         |-> {"cancelled"},
   cancelled    |-> {}]

\* Mutation: validate_transition lets everything pass.
CanAlwaysTransition(from, to) == TRUE

\* validate_transition raises exactly when this is false: its second test
\* repeats the processing entry of the table.
CanTransition(from, to) == to \in Transitions[from]

\* The statuses of an invoice that has been issued: it has a number and a
\* Factur-X document.
Issued == Status \ {"draft", "processing"}
=============================================================================
