--------------------------- MODULE StatusLifecycle ---------------------------
(***************************************************************************)
(* What the life of an invoice promises to its reader: the status starts   *)
(* at draft and follows the table of StateMachine.  "lost" stands for an   *)
(* invoice one of whose updates was overwritten by a save made from a      *)
(* stale copy: the promise ends there.                                     *)
(***************************************************************************)
EXTENDS StateMachine

VARIABLE status

TypeOK == status \in Status \union {"lost"}

Init == status = "draft"

Move ==
  /\ status \in Status
  /\ \E s \in Transitions[status] : status' = s

LoseUpdate == status' = "lost"

Next == Move \/ LoseUpdate

Spec == Init /\ [][Next]_status
=============================================================================
