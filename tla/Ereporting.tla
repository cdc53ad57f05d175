----------------------------- MODULE Ereporting -----------------------------
(***************************************************************************)
(* The e-reporting of an invoice that is not domestic B2B: the task that   *)
(* the generation task leaves in the broker, and its retries               *)
(* (apps/factpulse/tasks.py, submit_ereporting_for_invoice).               *)
(***************************************************************************)
EXTENDS InvoiceRow

CONSTANT MaxRetries  \* Celery's max_retries for this task

ASSUME EreportingAssumption == MaxRetries \in Nat

VARIABLES
  retries,  \* retries made, over all messages for this invoice (Celery counts them per
            \* message; a second one takes a validation after a late failure)
  declared  \* declarations the administration has received, up to 2

ereportingVars == <<retries, declared>>

EreportingLabels == {"ereport", "send_ereport"}

EreportingInit == retries = 0 /\ declared = 0

\* _ereporting_preconditions.
Declarable(r) ==
  EreportingFlow /\ r.status = "validated" /\ r.ereporting # "submitted"

TakeEreporting(w) ==
  /\ \/ Declarable(row) /\ Take(w, "ereporting", "ereport")
     \/ ~Declarable(row) /\ Drop("ereporting")
  /\ UNCHANGED ereportingVars

\* Each outcome saves the e-reporting columns alone.
SaveEreporting(w, s) ==
  SaveFields(w, [row EXCEPT !.ereporting = s], {"ereporting"})

Declare == declared' = IF declared < 2 THEN declared + 1 ELSE declared

EreportingSucceeds(w) ==
  /\ pc[w] = "ereport"
  /\ Declare
  /\ SaveEreporting(w, "submitted")
  /\ Finish(w)
  /\ UNCHANGED <<queue, drawn, received, retries>>

\* Mutation: the refusal is only logged.
EreportingRefusedSilently(w) ==
  /\ "rejected" \in Faults
  /\ pc[w] = "ereport"
  /\ Finish(w)
  /\ UNCHANGED <<row, queue, drawn, received, clean, ereportingVars>>

\* FactPulse refuses the declaration: no retry.
EreportingRefused(w) ==
  /\ "rejected" \in Faults
  /\ pc[w] = "ereport"
  /\ SaveEreporting(w, "error")
  /\ Finish(w)
  /\ UNCHANGED <<queue, drawn, received, ereportingVars>>

\* Mutation: max_retries is not looked at.
EreportingRetriesForever(w) ==
  /\ "timed_out" \in Faults
  /\ pc[w] = "ereport"
  /\ SaveEreporting(w, "error")
  /\ retries' = retries + 1
  /\ SendNext(w, "send_ereport")
  /\ UNCHANGED <<queue, drawn, received, declared>>

\* FactPulse is unavailable, or its answer is lost: self.retry, which gives
\* up once max_retries were made.
EreportingUnavailable(w) ==
  /\ "timed_out" \in Faults
  /\ pc[w] = "ereport"
  /\ Declare \/ UNCHANGED declared
  /\ SaveEreporting(w, "error")
  /\ \/ /\ retries < MaxRetries
        /\ retries' = retries + 1
        /\ SendNext(w, "send_ereport")
     \/ /\ retries >= MaxRetries
        /\ Finish(w)
        /\ UNCHANGED retries
  /\ UNCHANGED <<queue, drawn, received>>

RetryEreporting(w) ==
  /\ Send(w, "send_ereport", "ereporting")
  /\ UNCHANGED ereportingVars

Ereport(w) ==
  EreportingSucceeds(w) \/ EreportingRefused(w) \/ EreportingUnavailable(w)

EreportingTask(w) ==
  TakeEreporting(w) \/ Ereport(w) \/ RetryEreporting(w)
=============================================================================
