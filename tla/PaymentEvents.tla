--------------------------- MODULE PaymentEvents ----------------------------
(***************************************************************************)
(* Online payment of one invoice: the checkout, the sessions the payment   *)
(* provider opens for it, and the events by which the provider tells how   *)
(* they end (apps/payments/services.py, apps/payments/providers).          *)
(*                                                                         *)
(* A session is open, then completed by the customer; the money is         *)
(* collected at once or later, or never.  The three providers differ in    *)
(* what create_checkout keeps as the reference of the payment and in what  *)
(* parse_webhook makes of a notification.  Each checkout asks for one of   *)
(* them: a transaction that is pending with another provider is not looked *)
(* at.                                                                     *)
(***************************************************************************)
EXTENDS Naturals, Sequences, FiniteSets, StateMachine

CONSTANTS
  Workers,     \* gunicorn workers: each runs one handler at a time
  Providers,   \* the providers that are considered, among AllProviders
  MaxSessions, \* bound: no checkout starts once this many sessions exist
  Reached,     \* bound: the statuses the rest of the application gives
  MaxMishaps,  \* bound: this many of interrupted events and stale saves
  NoNotice     \* what a worker without notification holds

\* Fintecture may or may not give its notifications an identifier.
AllProviders == {"stripe", "gocardless", "fintecture", "fintecture_without_ids"}

Sessions == 1..MaxSessions

\* What a provider tells of a session.
Tidings == {"completed", "collected", "failed", "expired"}

Notices == [session : Sessions, tiding : Tidings]

ASSUME PaymentAssumption ==
  /\ Providers \subseteq AllProviders
  /\ MaxSessions \in Nat /\ MaxMishaps \in Nat
  /\ Reached \subseteq Status
  /\ NoNotice \notin Notices

Ids == {"event"} \X Sessions \X Tidings \union {"session"} \X Sessions

VARIABLES
  provider, \* per session: the provider its checkout asks for, a parameter of the request
  status,   \* the status of the invoice
  sessions, \* the sessions that are asked for and those the providers opened, oldest first
  txns,     \* PaymentTransaction rows, oldest first
  mine,     \* per worker: the session its checkout asks for, or 0
  read,     \* per worker: the invoice status it read
  trouble,  \* history: what happened that the code does not cater for
  sent, log, pc, notice \* see EventLog

Log == INSTANCE EventLog

paymentVars == <<provider, status, sessions, txns, mine, read, trouble>>
vars == <<paymentVars, sent, log, pc, notice>>

----------------------------------------------------------------------------
(* The providers.                                                          *)

\* create_checkout: the identifier the transaction will be looked up by.
StripeReference(s) == <<"session", s>>

GoCardlessReference(s) == <<"billing_request", s>>

FintectureReference(s) == <<"session", s>>

Reference(s) ==
  CASE provider[s] = "stripe"     -> StripeReference(s)
    [] provider[s] = "gocardless" -> GoCardlessReference(s)
    [] OTHER                      -> FintectureReference(s)

\* Mutation: Stripe's events are looked up by the payment they are about.
StripeEventOfPayment(n) ==
  [id   |-> <<"event", n.session, n.tiding>>,
   type |-> IF n.tiding \in {"completed", "collected"} THEN "confirmed" ELSE "failed",
   reference |-> <<"payment", n.session>>]

\* parse_webhook: a checkout session that is complete is confirmed, even when
\* its payment is still to come.
StripeEvent(n) ==
  [id   |-> <<"event", n.session, n.tiding>>,
   type |-> IF n.tiding \in {"completed", "collected"} THEN "confirmed" ELSE "failed",
   reference |-> <<"session", n.session>>]

\* Of a batch the first event counts.  It refers to the payment that the
\* billing request has led to.
GoCardlessEvent(n) ==
  [id   |-> <<"event", n.session, n.tiding>>,
   type |-> CASE n.tiding = "collected" -> "confirmed"
              [] n.tiding = "failed"    -> "failed"
              [] OTHER                  -> "unknown",
   reference |-> <<"payment", n.session>>]

\* Without an identifier of its own the notification takes that of the session.
FintectureEvent(n) ==
  [id   |-> IF provider[n.session] = "fintecture_without_ids" THEN <<"session", n.session>>
            ELSE <<"event", n.session, n.tiding>>,
   type |-> CASE n.tiding = "collected" -> "confirmed"
              [] n.tiding = "failed"    -> "failed"
              [] OTHER                  -> "payment_pending",
   reference |-> <<"session", n.session>>]

Event(n) ==
  CASE provider[n.session] = "stripe"     -> StripeEvent(n)
    [] provider[n.session] = "gocardless" -> GoCardlessEvent(n)
    [] OTHER                              -> FintectureEvent(n)

Tell(s, tiding) == sent' = sent \union {[session |-> s, tiding |-> tiding]}

\* The customer has the link once the transaction is saved.
Linked(s) == \E t \in DOMAIN txns : txns[t].reference = Reference(s)

\* The customer completes the session.  A card is charged at once; a debit or a
\* transfer takes its time.
Complete(s) ==
  /\ sessions[s] = "open" /\ Linked(s)
  /\ \E how \in {"collected", "authorised"} : sessions' = [sessions EXCEPT ![s] = how]
  /\ IF sessions'[s] = "collected" /\ provider[s] # "stripe"
     THEN Tell(s, "collected") ELSE Tell(s, "completed")
  /\ UNCHANGED <<provider, status, txns, mine, read, trouble, log, pc, notice>>

Settle(s) ==
  /\ sessions[s] = "authorised"
  /\ \E how \in {"collected", "failed"} :
       sessions' = [sessions EXCEPT ![s] = how] /\ Tell(s, how)
  /\ UNCHANGED <<provider, status, txns, mine, read, trouble, log, pc, notice>>

Expire(s) ==
  /\ sessions[s] = "open"
  /\ sessions' = [sessions EXCEPT ![s] = "expired"]
  /\ Tell(s, "expired")
  /\ UNCHANGED <<provider, status, txns, mine, read, trouble, log, pc, notice>>

----------------------------------------------------------------------------
(* The checkout.                                                           *)

Init ==
  /\ provider \in [Sessions -> Providers]
  /\ status = "validated"
  /\ sessions = <<>>
  /\ txns = <<>>
  /\ mine = [w \in Workers |-> 0]
  /\ read = [w \in Workers |-> "draft"]
  /\ trouble = {}
  /\ Log!LogInit

Pending(t) == txns[t].status = "created"

\* A transaction is with the provider of the session it refers to.
With(t) == provider[txns[t].reference[2]]

NextSession == Len(sessions) + 1

\* History: another checkout or the confirmation of a payment is under way, or a
\* transaction is pending with another provider.
TroubleAtCheckout ==
  trouble
  \union {x \in {"overlap"} : \E v \in Workers : pc[v] \in {"checkout", "opened", "pay"}}
  \union {x \in {"other_provider"} :
            \E t \in DOMAIN txns : Pending(t) /\ With(t) # provider[NextSession]}

\* The checkout asks a provider for a session.
Ask(w) ==
  /\ pc[w] = "idle"
  /\ status \in {"validated", "transmitted", "accepted"}
  /\ NextSession \in Sessions
  /\ trouble' = TroubleAtCheckout
  /\ sessions' = Append(sessions, "asked")
  /\ mine' = [mine EXCEPT ![w] = NextSession]
  /\ Log!GoTo(w, "checkout")
  /\ UNCHANGED <<provider, status, txns, read, sent, log, notice>>

\* Mutation: a session that is pending already is not looked for.
CheckoutAgain(w) == Ask(w)

\* The invoice may be paid and no transaction is pending with the provider that
\* is asked for.  Otherwise the request is refused, or gets the link of that
\* transaction, and nothing changes.
Checkout(w) ==
  /\ Ask(w)
  /\ \A t \in DOMAIN txns : Pending(t) => With(t) # provider[NextSession]

\* adapter.create_checkout: the provider opens the session.
OpenSession(w) ==
  /\ pc[w] = "checkout"
  /\ sessions' = [sessions EXCEPT ![mine[w]] = "open"]
  /\ Log!GoTo(w, "opened")
  /\ UNCHANGED <<provider, status, txns, mine, read, trouble, sent, log, notice>>

\* Mutation: the adapters say "pending", as they do when asked for a status.
SaveAsPending(w) ==
  /\ pc[w] = "opened"
  /\ txns' = Append(txns, [reference |-> Reference(mine[w]), status |-> "pending"])
  /\ mine' = [mine EXCEPT ![w] = 0]
  /\ Log!GoTo(w, "idle")
  /\ UNCHANGED <<provider, status, sessions, read, trouble, sent, log, notice>>

\* Every adapter says "created"; the answer gives the link to the customer.
SaveTransaction(w) ==
  /\ pc[w] = "opened"
  /\ txns' = Append(txns, [reference |-> Reference(mine[w]), status |-> "created"])
  /\ mine' = [mine EXCEPT ![w] = 0]
  /\ Log!GoTo(w, "idle")
  /\ UNCHANGED <<provider, status, sessions, read, trouble, sent, log, notice>>

----------------------------------------------------------------------------
(* The events.                                                             *)

Receive(w, n) ==
  /\ Log!LogEvent(w, n, Event(n).id)
  /\ UNCHANGED paymentVars

\* The transaction a reference finds: the first one.
Found(r) == {t \in DOMAIN txns : txns[t].reference = r}

SetStatus(t, s) == txns' = [txns EXCEPT ![t].status = s]

\* The transaction is confirmed, whatever it was, and the invoice is read.
PaymentConfirmed(w) ==
  /\ pc[w] = "process"
  /\ Event(notice[w]).type = "confirmed"
  /\ LET found == Found(Event(notice[w]).reference) IN
     \/ /\ found = {}
        /\ Log!GoTo(w, "processed")
        /\ UNCHANGED <<txns, read>>
     \/ \E t \in found :
          /\ \A u \in found : t <= u
          /\ SetStatus(t, "confirmed")
          /\ read' = [read EXCEPT ![w] = status]
          /\ Log!GoTo(w, IF status = "paid" THEN "processed" ELSE "pay")
  /\ UNCHANGED <<provider, status, sessions, mine, trouble, sent, log, notice>>

\* mark_paid on the invoice as read; its ConflictError is only logged.
MarkPaid(w) ==
  /\ pc[w] = "pay"
  /\ IF CanTransition(read[w], "paid")
     THEN status' = "paid" /\ UNCHANGED trouble
     ELSE trouble' = trouble \union {"conflict"} /\ UNCHANGED status
  /\ read' = [read EXCEPT ![w] = "draft"]
  /\ Log!GoTo(w, "processed")
  /\ UNCHANGED <<provider, sessions, txns, mine, sent, log, notice>>

PaymentFailed(w) ==
  /\ pc[w] = "process"
  /\ Event(notice[w]).type = "failed"
  /\ LET found == Found(Event(notice[w]).reference) IN
     \/ found = {} /\ UNCHANGED txns
     \/ \E t \in found : (\A u \in found : t <= u) /\ SetStatus(t, "failed")
  /\ Log!GoTo(w, "processed")
  /\ UNCHANGED <<provider, status, sessions, mine, read, trouble,
                 sent, log, notice>>

Unhandled(w) ==
  /\ pc[w] = "process"
  /\ Event(notice[w]).type \notin {"confirmed", "failed"}
  /\ Log!GoTo(w, "processed")
  /\ UNCHANGED <<paymentVars, sent, log, notice>>

Answer(w) ==
  /\ Log!Processed(w, Event(notice[w]).id)
  /\ UNCHANGED paymentVars

Forget(w) ==
  /\ mine' = [mine EXCEPT ![w] = 0]
  /\ read' = [read EXCEPT ![w] = "draft"]

Harm(w) ==
  trouble' = IF notice[w] = NoNotice THEN trouble ELSE trouble \union {"interrupted"}

Mishap == Cardinality(trouble \intersect {"interrupted", "overwritten"}) < MaxMishaps

\* Mutation: the event counts as processed whatever its processing comes to.
InterruptedAsProcessed(w) ==
  /\ pc[w] # "idle" /\ Mishap
  /\ log' = IF notice[w] = NoNotice THEN log
            ELSE [log EXCEPT ![Event(notice[w]).id] = "processed"]
  /\ Log!Leave(w)
  /\ Forget(w)
  /\ Harm(w)
  /\ UNCHANGED <<provider, status, sessions, txns, sent>>

Interrupted(w) ==
  /\ Mishap
  /\ Log!Interrupted(w)
  /\ Forget(w)
  /\ Harm(w)
  /\ UNCHANGED <<provider, status, sessions, txns>>

\* What the rest of the application does to the invoice: transmission, events
\* of the PA, payment by the user, cancellation.
Elsewhere ==
  /\ \E s \in Transitions[status] \intersect Reached : status' = s
  /\ UNCHANGED <<provider, sessions, txns, mine, read, trouble,
                 sent, log, pc, notice>>

\* A handler that has read the invoice earlier saves the status it makes of that:
\* a poll takes a paid invoice back to accepted or refused.
StaleSave ==
  /\ Mishap
  /\ \E s \in Reached \ {status} : status' = s
  /\ trouble' = trouble \union {"overwritten"}
  /\ UNCHANGED <<provider, sessions, txns, mine, read, sent, log, pc, notice>>

Handle(w) ==
  \/ OpenSession(w) \/ SaveTransaction(w)
  \/ PaymentConfirmed(w) \/ MarkPaid(w) \/ PaymentFailed(w) \/ Unhandled(w)
  \/ Answer(w)

Next ==
  \/ \E w \in Workers :
       \/ Checkout(w) \/ Handle(w) \/ Interrupted(w)
       \/ \E n \in Notices : Receive(w, n)
  \/ \E s \in DOMAIN sessions : Complete(s) \/ Settle(s) \/ Expire(s)
  \/ Elsewhere \/ StaleSave

\* A worker goes on with its handler, and the provider sends its notifications
\* until they are answered.
Fairness ==
  /\ \A w \in Workers : WF_vars(Handle(w))
  /\ \A n \in Notices : WF_vars(\E w \in Workers : Receive(w, n))

Spec == Init /\ [][Next]_vars /\ Fairness

----------------------------------------------------------------------------
(* Properties.                                                             *)

TypeOK ==
  /\ provider \in [Sessions -> Providers]
  /\ status \in Status
  /\ sessions \in Seq({"asked", "open", "authorised", "collected", "failed", "expired"})
  /\ Len(sessions) <= MaxSessions
  /\ txns \in Seq([reference : {"session", "billing_request"} \X Sessions,
                   status : {"created", "confirmed", "failed"}])
  /\ mine \in [Workers -> 0..MaxSessions]
  /\ read \in [Workers -> Status]
  /\ trouble \subseteq {"overlap", "other_provider", "conflict", "interrupted", "overwritten"}
  /\ Log!LogTypeOK({"checkout", "opened", "pay"})

Confirmed(s) ==
  \E t \in DOMAIN txns : txns[t].reference = Reference(s) /\ txns[t].status = "confirmed"

\* The money of a session is applied to the invoice, unless a status that cannot
\* be paid was met or a stale copy of the invoice was saved over it.
Applied ==
  status \in {"paid", "cancelled"} \/ trouble \intersect {"conflict", "overwritten"} # {}

\* Once the log says that the event of a collected payment was processed, the
\* transaction is confirmed and the invoice has been paid, unless its status
\* did not allow it or another handler has saved a stale copy: reordered and
\* repeated notifications, several sessions and providers, and crashes leave no
\* other way to lose a payment without a trace in the log.  This is about events
\* that find the transaction and have an identifier of their own.
CollectedIsRecorded ==
  \A s \in Sessions : \A tiding \in {"completed", "collected"} :
    LET e == Event([session |-> s, tiding |-> tiding]) IN
    /\ s \in DOMAIN sessions /\ sessions[s] = "collected"
    /\ e.type = "confirmed" /\ e.reference = Reference(s) /\ e.id[1] = "event"
    /\ log[e.id] = "processed"
    => Confirmed(s) /\ Applied

\* The customer is never charged twice through one provider, as long as a
\* checkout overlaps with no other and with no confirmation, no confirmation met
\* a status that cannot be paid, none was interrupted and no stale copy was
\* saved.  Under the same conditions two providers charge for the invoice only
\* when a checkout asked one of them while the transaction of another was
\* pending: create_checkout does not look at that transaction.
ChargedOnce ==
  trouble \subseteq {"other_provider"} =>
    \A s, u \in DOMAIN sessions :
      sessions[s] = "collected" /\ sessions[u] = "collected" /\ s # u =>
        provider[s] # provider[u] /\ "other_provider" \in trouble

\* What Stripe collects ends as a payment of the invoice, unless its status
\* did not allow it, a stale copy was saved or the processing of an event was
\* interrupted.
CollectedIsApplied ==
  \A s \in Sessions :
    (provider[s] = "stripe" /\ s \in DOMAIN sessions /\ sessions[s] = "collected")
    ~> \/ Confirmed(s) /\ Applied
       \/ "interrupted" \in trouble
=============================================================================
