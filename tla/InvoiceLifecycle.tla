-------------------------- MODULE InvoiceLifecycle --------------------------
(***************************************************************************)
(* The whole life of an invoice: issuance, e-reporting and transmission    *)
(* working on the same row, workers and broker.                            *)
(***************************************************************************)
EXTENDS Issuance, Ereporting, Transmission

lifecycleVars == <<rowVars, ereportingVars, paVars>>

LifecycleInit == RowInit /\ EreportingInit /\ PaInit

LifecycleNext ==
  \/ /\ \/ \E w \in Workers : IssuanceRequest(w) \/ IssuanceTask(w)
        \/ RequestPreview
     /\ UNCHANGED <<ereportingVars, paVars>>
  \/ \E w \in Workers : EreportingTask(w) /\ UNCHANGED paVars
  \/ TransmissionNext /\ UNCHANGED ereportingVars

LifecycleSpec == LifecycleInit /\ [][LifecycleNext]_lifecycleVars

\* The next step of a handler that w has started.
GoOn(w) ==
  \/ /\ \/ UpdateInvoice(w) \/ SoftDelete(w) \/ ValidateInvoice(w) \/ SendGenerate(w)
        \/ RecordPayment(w) \/ GenerateSourcePdf(w)
        \/ Generate(w) \/ AfterGeneration(w)
     /\ UNCHANGED <<ereportingVars, paVars>>
  \/ (Ereport(w) \/ RetryEreporting(w)) /\ UNCHANGED paVars
  \/ /\ \/ RequestTransmission(w) \/ SendTransmit(w) \/ SubmitFlow(w) \/ SaveFlow(w)
        \/ RevertTransmission(w) \/ MarkPaid(w) \/ SendPaid212(w) \/ AutoCancel(w)
        \/ PollStep(w)
     /\ UNCHANGED ereportingVars

\* Workers go on with what they started; a waiting message (the broker is first
\* in, first out) and the next poll find a free worker again and again; the PA
\* answers.
LifecycleFairness ==
  /\ \A w \in Workers : WF_lifecycleVars(GoOn(w))
  /\ SF_lifecycleVars(\E w \in Workers :
       TakeGenerate(w) /\ UNCHANGED <<ereportingVars, paVars>>)
  /\ SF_lifecycleVars(\E w \in Workers : TakeEreporting(w) /\ UNCHANGED paVars)
  /\ SF_lifecycleVars(\E w \in Workers : TakeTransmit(w) /\ UNCHANGED ereportingVars)
  /\ SF_lifecycleVars(\E w \in Workers : Poll(w) /\ UNCHANGED ereportingVars)
  /\ WF_lifecycleVars(Acknowledge /\ UNCHANGED ereportingVars)
  /\ WF_lifecycleVars(Publish /\ UNCHANGED ereportingVars)

FairLifecycleSpec == LifecycleSpec /\ LifecycleFairness

----------------------------------------------------------------------------
(* Properties.                                                             *)

LifecycleTypeOK ==
  /\ row \in Row
  /\ pc \in [Workers -> {"idle"} \union IssuanceLabels \union EreportingLabels
                          \union TransmissionLabels]
  /\ copy \in [Workers -> Row]
  /\ queue \in [Tasks -> Nat]
  /\ drawn \in Nat
  /\ received \in BOOLEAN
  /\ clean \in BOOLEAN
  /\ retries \in 0..MaxRetries
  /\ declared \in 0..2
  /\ PaTypeOK

\* As long as no save is made from a stale copy, the invoice is what its
\* reader expects at every step, whoever works on it: it holds the one number
\* it drew, it has its payment and its submission.
Consistent ==
  clean =>
    /\ row.status # "draft" => row.number # 0
    /\ drawn = row.number
    /\ received => row.payment
    /\ row.status = "paid" => received
    /\ row.deleted => row.status = "draft"
    /\ row.status \in {"transmitted", "accepted", "rejected", "refused"}
         => \E i \in DOMAIN flows : flows[i] = "ok"

\* The life of the invoice implements StatusLifecycle: outside the table of
\* transitions, the status only moves by a save made from a stale copy.
Lifecycle ==
  INSTANCE StatusLifecycle WITH status <- IF clean THEN row.status ELSE "lost"

ImplementsLifecycle == Lifecycle!Spec

\* The e-reporting of a validated invoice is settled (the task is "auto-triggered
\* after validation"), unless the invoice moves on before the task runs: then it
\* stays pending, even if a failed transmission brings it back.
EreportingSettles ==
  [](row.status \in {"draft", "processing", "validated"})
    => (row.status = "validated" /\ row.ereporting = "pending"
          ~> row.ereporting # "pending")

\* A worker has one of the labels.
At(labels) == \E w \in Workers : pc[w] \in labels

\* What may still take the invoice out of processing: its task, which a worker
\* runs or is about to send, or a message announces.
Generating == queue["generate"] # 0 \/ At({"send_generate", "generate"})

\* And out of transmitting: the task, until the PA has the flow ...
Submitting == queue["transmit"] # 0 \/ At({"send_transmit", "submit", "submit_failed"})

\* ... then the acknowledgement of the flow, which the polls ask for as long as
\* the flow is known and the invoice has no event ...
FlowWatched == events = <<>> /\ (row.flow # 0 \/ At({"submitted"}))

\* ... or an event that a transmitting invoice may follow and that is not logged
\* yet, or that a poll under way has yet to apply: a logged one is never applied
\* again.
Releases(i) == CanTransition("transmitting", StatusOf[events[i]])

EventAwaited ==
  \/ \E i \in DOMAIN events \ logged : Releases(i)
  \/ \E w \in Workers : pc[w] \in {"event", "apply"} /\ \E i \in Due(w) : Releases(i)

\* Nothing in the application will take the invoice out of its status; a further
\* event of the PA still might.
Stranded ==
  \/ row.status = "processing" /\ ~Generating
  \/ row.status = "transmitting" /\ ~Submitting /\ ~FlowWatched /\ ~EventAwaited

\* As long as no save is made from a stale copy, an invoice is stranded in
\* processing or transmitting only by a worker that dies or a broker that
\* refuses the message (validate_invoice, transmit_invoice and their tasks
\* commit the row first, the polls the log of an event): no refusal, retry or
\* poll leaves it there.  The PA's answers are taken for granted here: a lost, an
\* empty or a negative one strands an invoice without any crash.
OnlyCrashesStrand ==
  [][clean' /\ Stranded' => Stranded \/ \E w \in Workers : CrashPa(w)]_lifecycleVars

\* An invoice is declared to the administration at most once.
DeclaredOnce == declared <= 1
=============================================================================
