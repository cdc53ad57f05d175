------------------------------ MODULE MCEdges -------------------------------
(***************************************************************************)
(* Five parts of the application that share no state, each on its own: a   *)
(* behaviour is one of `part`, and the rest keeps its initial state, where *)
(* none of the actions that fairness speaks of is enabled.                 *)
(***************************************************************************)
EXTENDS WebhookDelivery, IdempotentCreate, TokenCache, Parties, Timeline

VARIABLE part

MCInit ==
  /\ WebhookInit /\ IdempotencyInit /\ TokenInit /\ PartiesInit /\ TimelineInit
  /\ part \in {"webhooks", "idempotency", "token", "parties", "timeline"}
  /\ part # "timeline" => habit = [names |-> TRUE, directs |-> TRUE]

MCNext ==
  /\ UNCHANGED part
  /\ \/ part = "webhooks" /\ WebhookNext /\ UNCHANGED <<idempotencyVars, tokenVars, partyVars, timelineVars>>
     \/ part = "idempotency" /\ IdempotencyNext /\ UNCHANGED <<webhookVars, tokenVars, partyVars, timelineVars>>
     \/ part = "token" /\ TokenNext /\ UNCHANGED <<webhookVars, idempotencyVars, partyVars, timelineVars>>
     \/ part = "parties" /\ PartiesNext /\ UNCHANGED <<webhookVars, idempotencyVars, tokenVars, timelineVars>>
     \/ part = "timeline" /\ TimelineNext
          /\ UNCHANGED <<webhookVars, idempotencyVars, tokenVars, partyVars>>

MCSpec ==
  MCInit /\ [][MCNext]_<<part, webhookVars, idempotencyVars, tokenVars, partyVars, timelineVars>>
    /\ WebhookFairness /\ TokenFairness

\* The type invariants of the five parts: no handler ever leaves a row, a task, a
\* token or a request in a form the code does not know.
EdgesTypeOK == WebhookTypeOK /\ IdempotencyTypeOK /\ TokenTypeOK /\ PartiesTypeOK /\ TimelineTypeOK
=============================================================================
