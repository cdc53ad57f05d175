------------------------------ MODULE EventLog ------------------------------
(***************************************************************************)
(* How an inbound webhook of a payment provider is handled                 *)
(* (apps/payments/services.py, handle_webhook).  The provider sends an     *)
(* event until it is answered 200.  The event is logged under its unique   *)
(* identifier in a transaction of its own, and processed afterwards: an    *)
(* event that is logged already is a duplicate, whatever became of it.     *)
(*                                                                         *)
(* A component that uses this log says what processing an event does, by   *)
(* actions between LogEvent and Processed.                                 *)
(***************************************************************************)
CONSTANTS
  Workers,  \* gunicorn and Celery workers: each runs one handler at a time
  Notices,  \* the notifications a provider may send
  NoNotice, \* what a worker without notification holds
  Ids       \* the identifiers they are logged under

VARIABLES
  sent,     \* notifications the provider has sent
  log,      \* PaymentEventLog, by identifier
  pc,       \* where each worker is in its handler
  notice    \* the notification each worker handles

logVars == <<sent, log, pc, notice>>

LogInit ==
  /\ sent = {}
  /\ log = [i \in Ids |-> "none"]
  /\ pc = [w \in Workers |-> "idle"]
  /\ notice = [w \in Workers |-> NoNotice]

LogTypeOK(labels) ==
  /\ sent \subseteq Notices
  /\ log \in [Ids -> {"none", "logged", "processed"}]
  /\ pc \in [Workers -> labels \union {"idle", "process", "processed"}]
  /\ notice \in [Workers -> Notices \union {NoNotice}]

----------------------------------------------------------------------------

GoTo(w, label) == pc' = [pc EXCEPT ![w] = label]

Leave(w) ==
  /\ GoTo(w, "idle")
  /\ notice' = [notice EXCEPT ![w] = NoNotice]

\* A notification arrives for the first time: it is logged under identifier i.
\* Later the unique constraint refuses the row, and the answer is 200 with
\* nothing done.
LogEvent(w, n, i) ==
  /\ pc[w] = "idle"
  /\ n \in sent
  /\ log[i] = "none"
  /\ log' = [log EXCEPT ![i] = "logged"]
  /\ GoTo(w, "process")
  /\ notice' = [notice EXCEPT ![w] = n]
  /\ UNCHANGED sent

\* Processing went to its end: the log says so, and the answer is 200.
Processed(w, i) ==
  /\ pc[w] = "processed"
  /\ log' = [log EXCEPT ![i] = "processed"]
  /\ Leave(w)
  /\ UNCHANGED sent

\* Processing raises an exception, which is answered 500, or the worker is killed
\* and nobody answers: the log keeps an event that was not processed.
Interrupted(w) ==
  /\ pc[w] # "idle"
  /\ Leave(w)
  /\ UNCHANGED <<sent, log>>
=============================================================================
