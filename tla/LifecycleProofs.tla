--------------------------- MODULE LifecycleProofs ---------------------------
(***************************************************************************)
(* Theorems about InvoiceLifecycle, for any set of workers and any bounds. *)
(*                                                                         *)
(* Whatever interleaves, the whole life of an invoice is well typed,       *)
(* implements StatusLifecycle, and is consistent until a save is made from *)
(* a stale copy; it waits for nothing that is lost but by a crash.  When   *)
(* requests do not overlap and drafts are not previewed, numbers and       *)
(* deletions stay; when moreover nothing fails after the save of           *)
(* "validated" and one poller alone pays, the payment is reported once;    *)
(* without lost answers the invoice is declared and submitted once, the    *)
(* status moves along the table and stays paid, no save is lost, and       *)
(* verdicts show.                                                          *)
(***************************************************************************)
EXTENDS InvoiceLifecycle, IssuanceProofs, TransmissionProofs

----------------------------------------------------------------------------
(* Type correctness.                                                       *)

LifecycleTypeInv == LifecycleTypeOK /\ FlowsKnown

\* What issuance and e-reporting make of a row names the same flow.
LEMMA IssuedRowTypes ==
  ASSUME NEW r \in Row
  PROVE  /\ Edited(r) \in Row /\ Edited(r).flow = r.flow
         /\ [r EXCEPT !.deleted = TRUE] \in Row /\ [r EXCEPT !.deleted = TRUE].flow = r.flow
         /\ [r EXCEPT !.payment = TRUE] \in Row /\ [r EXCEPT !.payment = TRUE].flow = r.flow
         /\ [r EXCEPT !.pdf = "source"] \in Row /\ [r EXCEPT !.pdf = "source"].flow = r.flow
         /\ [r EXCEPT !.status = "draft"] \in Row /\ [r EXCEPT !.status = "draft"].flow = r.flow
         /\ [r EXCEPT !.status = "validated", !.pdf = "facturx"] \in Row
         /\ [r EXCEPT !.status = "validated", !.pdf = "facturx"].flow = r.flow
         /\ \A n \in Nat :
              LET v == [r EXCEPT !.status = "processing", !.number = n,
                          !.ereporting = IF EreportingFlow THEN "pending" ELSE @]
              IN v \in Row /\ v.flow = r.flow
         /\ \A s \in {"submitted", "error"} :
              [r EXCEPT !.ereporting = s] \in Row /\ [r EXCEPT !.ereporting = s].flow = r.flow
<1>1. \A s \in {"submitted", "error"} :
        [r EXCEPT !.ereporting = s] \in Row /\ [r EXCEPT !.ereporting = s].flow = r.flow
  BY DEF Row
<1>2. /\ Edited(r).flow = r.flow
      /\ [r EXCEPT !.deleted = TRUE].flow = r.flow
      /\ [r EXCEPT !.payment = TRUE].flow = r.flow
      /\ [r EXCEPT !.pdf = "source"].flow = r.flow
      /\ [r EXCEPT !.status = "draft"].flow = r.flow
      /\ [r EXCEPT !.status = "validated", !.pdf = "facturx"].flow = r.flow
      /\ \A n : [r EXCEPT !.status = "processing", !.number = n,
                   !.ereporting = IF EreportingFlow THEN "pending" ELSE @].flow = r.flow
  BY DEF Row, Edited
<1> QED
  BY <1>1, <1>2, EditedRowTypes

LEMMA LifecycleInitTyped == LifecycleInit => LifecycleTypeInv
<1> SUFFICES ASSUME LifecycleInit PROVE LifecycleTypeInv
  OBVIOUS
<1>1. PICK n \in {0, 1} : row = NewRow(n) /\ drawn = n
  BY DEF LifecycleInit, RowInit
<1>2. row \in Row /\ drawn \in Nat /\ row.flow = 0
  BY <1>1, NewRowType DEF NewRow
<1>3. PaTypeOK
  <2>1. /\ flows = <<>> /\ events = <<>> /\ logged = {}
        /\ credited = FALSE /\ reported = 0
        /\ seen = [w \in Workers |-> 0] /\ known = [w \in Workers |-> {}]
    BY DEF LifecycleInit, PaInit
  <2>2. flows \in Seq({"pending", "ok", "error"}) /\ events \in Seq(Codes)
    BY <2>1
  <2>3. Len(events) = 0
    BY <2>1
  <2>4. seen \in [Workers -> 0..Len(events)]
    BY <2>1, <2>3
  <2>5. known \in [Workers -> SUBSET DOMAIN events] /\ logged \subseteq DOMAIN events
    BY <2>1
  <2>6. credited \in BOOLEAN
    <3>1. credited = FALSE
      BY <2>1
    <3> QED
      BY <3>1
  <2>7. reported \in 0..2
    <3>1. reported = 0
      BY <2>1
    <3> QED
      BY <3>1
  <2> QED
    BY <2>2, <2>4, <2>5, <2>6, <2>7, Zenon DEF PaTypeOK
<1>4. retries \in 0..MaxRetries /\ declared \in 0..2
  BY EreportingAssumption DEF LifecycleInit, EreportingInit
<1>5. LifecycleTypeOK
  BY <1>2, <1>3, <1>4, ForgottenIsARow DEF LifecycleInit, RowInit, LifecycleTypeOK, Tasks
<1>6. FlowsKnown
  BY <1>2, ForgottenIsARow DEF LifecycleInit, RowInit, PaInit, FlowsKnown
<1> QED
  BY <1>5, <1>6 DEF LifecycleTypeInv

\* A worker goes to program point l and keeps object r; the PA's side is left alone.
Stepped(w, l, r) ==
  /\ pc' = [pc EXCEPT ![w] = l]
  /\ copy' = [copy EXCEPT ![w] = r]

Labels == {"idle"} \union IssuanceLabels \union EreportingLabels \union TransmissionLabels

LEMMA SteppedWithPa ==
  ASSUME LifecycleTypeInv, NEW w \in Workers, NEW l \in Labels, NEW r \in Row,
         r.flow <= Len(flows'), l = "flow_check" => r.flow # 0, Stepped(w, l, r),
         row' \in Row, row'.flow <= Len(flows'), queue' \in [Tasks -> Nat],
         drawn' \in Nat, received' \in BOOLEAN, clean' \in BOOLEAN,
         retries' \in 0..MaxRetries, declared' \in 0..2,
         PaTypeOK', Len(flows) <= Len(flows')
  PROVE  LifecycleTypeInv'
<1>1. pc \in [Workers -> Labels] /\ copy \in [Workers -> Row] /\ PaTypeOK /\ FlowsKnown
  BY DEF LifecycleTypeInv, LifecycleTypeOK, Labels
<1>2. pc' \in [Workers -> Labels] /\ copy' \in [Workers -> Row]
  BY <1>1 DEF Stepped
<1>3. Len(flows) \in Nat /\ Len(flows') \in Nat
  BY <1>1 DEF PaTypeOK
<1>4. /\ \A v \in Workers : v # w => pc'[v] = pc[v] /\ copy'[v] = copy[v]
      /\ pc'[w] = l /\ copy'[w] = r
  BY <1>1 DEF Stepped
<1>5. \A v \in Workers : copy[v].flow \in Nat /\ copy[v].flow <= Len(flows)
  BY <1>1 DEF FlowsKnown, Row
<1>6. \A v \in Workers : copy'[v].flow <= Len(flows')
  BY <1>3, <1>4, <1>5
<1>7. FlowsKnown'
  BY <1>1, <1>4, <1>6 DEF FlowsKnown
<1> QED
  BY <1>2, <1>7 DEF LifecycleTypeInv, LifecycleTypeOK, Labels

LEMMA SteppedTyped ==
  ASSUME LifecycleTypeInv, NEW w \in Workers, NEW l \in Labels \ {"flow_check"},
         NEW r \in Row, r.flow <= Len(flows), Stepped(w, l, r),
         row' \in Row, row'.flow <= Len(flows), queue' \in [Tasks -> Nat],
         drawn' \in Nat, received' \in BOOLEAN, clean' \in BOOLEAN,
         retries' \in 0..MaxRetries, declared' \in 0..2, UNCHANGED paVars
  PROVE  LifecycleTypeInv'
<1>1. PaTypeOK /\ Len(flows) \in Nat
  BY DEF LifecycleTypeInv, LifecycleTypeOK, PaTypeOK
<1>2. PaTypeOK' /\ flows' = flows
  BY <1>1 DEF PaTypeOK, paVars
<1> QED
  BY <1>1, <1>2, SteppedWithPa

\* What the invariant says of the parts.
LEMMA TypedParts ==
  ASSUME LifecycleTypeInv
  PROVE  /\ row \in Row /\ row.flow <= Len(flows)
         /\ copy \in [Workers -> Row] /\ pc \in [Workers -> Labels]
         /\ \A w \in Workers : copy[w] \in Row /\ copy[w].flow <= Len(flows)
         /\ Forgotten \in Row /\ Forgotten.flow <= Len(flows)
         /\ queue \in [Tasks -> Nat] /\ drawn \in Nat
         /\ received \in BOOLEAN /\ clean \in BOOLEAN
         /\ retries \in 0..MaxRetries /\ declared \in 0..2
         /\ PaTypeOK /\ Len(flows) \in Nat
BY ForgottenIsARow
DEF LifecycleTypeInv, LifecycleTypeOK, FlowsKnown, PaTypeOK, Labels

LEMMA SendsTyped ==
  ASSUME LifecycleTypeInv
  PROVE  /\ \A t \in Tasks : [queue EXCEPT ![t] = @ + 1] \in [Tasks -> Nat]
         /\ \A t \in Tasks : queue[t] > 0 => [queue EXCEPT ![t] = @ - 1] \in [Tasks -> Nat]
         /\ WithEreporting \in [Tasks -> Nat]
<1>1. queue \in [Tasks -> Nat] /\ "ereporting" \in Tasks
  BY TypedParts DEF Tasks
<1>2. \A t \in Tasks : [queue EXCEPT ![t] = @ + 1] \in [Tasks -> Nat]
  BY <1>1
<1>3. \A t \in Tasks : queue[t] > 0 => [queue EXCEPT ![t] = @ - 1] \in [Tasks -> Nat]
  BY <1>1
<1> QED
  BY <1>1, <1>2, <1>3 DEF WithEreporting

LEMMA LabelsKnown ==
  /\ {"idle"} \union IssuanceLabels \union EreportingLabels \subseteq Labels \ {"flow_check"}
  /\ TransmissionLabels \ {"flow_check"} \subseteq Labels \ {"flow_check"}
BY DEF Labels, IssuanceLabels, EreportingLabels, TransmissionLabels

\* The beginnings and ends that the handlers share.
LEMMA ReadTyped ==
  ASSUME LifecycleTypeInv, NEW w \in Workers, NEW l \in Labels \ {"flow_check"},
         Read(w, l), UNCHANGED <<row, drawn, received, clean, ereportingVars, paVars>>,
         queue' \in [Tasks -> Nat]
  PROVE  LifecycleTypeInv'
BY TypedParts, SteppedTyped DEF Read, Stepped, ereportingVars

LEMMA TakeTyped ==
  ASSUME LifecycleTypeInv, NEW w \in Workers, NEW l \in Labels \ {"flow_check"},
         NEW t \in Tasks, Take(w, t, l) \/ Drop(t), UNCHANGED <<ereportingVars, paVars>>
  PROVE  LifecycleTypeInv'
<1>1. queue' \in [Tasks -> Nat]
  <2>1. queue[t] > 0 /\ queue' = [queue EXCEPT ![t] = @ - 1]
    BY DEF Take, Drop
  <2> QED
    BY <2>1, SendsTyped
<1>2. CASE Take(w, t, l)
  BY <1>1, <1>2, ReadTyped DEF Take
<1>3. CASE Drop(t)
  BY <1>1, <1>3 DEF Drop, LifecycleTypeInv, LifecycleTypeOK, FlowsKnown, PaTypeOK,
                    ereportingVars, paVars
<1> QED
  BY <1>2, <1>3

LEMMA SendTyped ==
  ASSUME LifecycleTypeInv, NEW w \in Workers, NEW l, NEW t \in Tasks,
         Send(w, l, t), UNCHANGED <<ereportingVars, paVars>>
  PROVE  LifecycleTypeInv'
BY TypedParts, SendsTyped, SteppedTyped, LabelsKnown DEF Send, Finish, Stepped, ereportingVars

\* A save of the row by a worker that then forgets its object.
LEMMA SaveTyped ==
  ASSUME LifecycleTypeInv, NEW w \in Workers, NEW l \in Labels \ {"flow_check"},
         Stepped(w, l, Forgotten), NEW v \in Row, v.flow <= Len(flows), row' = v,
         clean' \in BOOLEAN, received' \in BOOLEAN, UNCHANGED <<queue, drawn, paVars>>,
         retries' \in 0..MaxRetries, declared' \in 0..2
  PROVE  LifecycleTypeInv'
BY TypedParts, SteppedTyped

LEMMA WholeSaveTyped ==
  ASSUME LifecycleTypeInv, NEW w \in Workers, NEW v \in Row, v.flow <= Len(flows),
         Save(w, v), Finish(w), UNCHANGED <<queue, drawn, received, ereportingVars, paVars>>
  PROVE  LifecycleTypeInv'
<1>1. row' = v /\ clean' \in BOOLEAN
  BY DEF Save
<1>2. Stepped(w, "idle", Forgotten)
  BY DEF Finish, Stepped
<1>3. UNCHANGED <<queue, drawn, received, retries, declared, paVars>>
  BY DEF ereportingVars
<1>4. "idle" \in Labels \ {"flow_check"}
  BY LabelsKnown
<1> QED
  BY <1>1, <1>2, <1>3, <1>4, TypedParts, SaveTyped

\* A step of issuance leaves e-reporting and the PA alone.
LEMMA IssuanceRequestTyped ==
  ASSUME LifecycleTypeInv, NEW w \in Workers, IssuanceRequest(w),
         UNCHANGED <<ereportingVars, paVars>>
  PROVE  LifecycleTypeInv'
<1> USE TypedParts, LabelsKnown DEF IssuanceLabels, ereportingVars
<1>1. CASE OpenEdit(w)
  BY <1>1, ReadTyped DEF OpenEdit, Open
<1>2. CASE UpdateInvoice(w)
  BY <1>2, IssuedRowTypes, WholeSaveTyped DEF UpdateInvoice
<1>3. CASE OpenDelete(w)
  BY <1>3, ReadTyped DEF OpenDelete, Open
<1>4. CASE SoftDelete(w)
  <2>1. row' = [row EXCEPT !.deleted = TRUE] /\ clean' \in BOOLEAN
    BY <1>4 DEF SoftDelete, SaveFields
  <2>2. Stepped(w, "idle", Forgotten) /\ UNCHANGED <<queue, drawn, received>>
    BY <1>4 DEF SoftDelete, Finish, Stepped
  <2> QED
    BY <2>1, <2>2, IssuedRowTypes, SteppedTyped
<1>5. CASE OpenValidate(w)
  BY <1>5, ReadTyped DEF OpenValidate, Open
<1>6. CASE ValidateInvoice(w)
  <2>1. NumberFor(copy[w]) \in Nat /\ copy[w] \in Row
    BY DEF NumberFor, Row
  <2>2. row' \in Row /\ row'.flow = copy[w].flow
    BY <1>6, <2>1, IssuedRowTypes DEF ValidateInvoice, Save
  <2>3. drawn' \in Nat /\ clean' \in BOOLEAN
    BY <1>6 DEF ValidateInvoice, Save
  <2>4. Stepped(w, "send_generate", Forgotten)
    BY <1>6 DEF ValidateInvoice, SendNext, Stepped
  <2>5. UNCHANGED <<queue, received>>
    BY <1>6 DEF ValidateInvoice
  <2> QED
    BY <2>2, <2>3, <2>4, <2>5, SteppedTyped
<1>7. CASE SendGenerate(w)
  BY <1>7, SendTyped DEF SendGenerate, Tasks
<1>8. CASE OpenRecordPayment(w)
  BY <1>8, ReadTyped DEF OpenRecordPayment
<1>9. CASE RecordPayment(w)
  BY <1>9, IssuedRowTypes, SaveTyped DEF RecordPayment, SaveFields, Finish, Stepped
<1> QED
  BY <1>1, <1>2, <1>3, <1>4, <1>5, <1>6, <1>7, <1>8, <1>9 DEF IssuanceRequest

LEMMA IssuanceTaskTyped ==
  ASSUME LifecycleTypeInv, NEW w \in Workers, IssuanceTask(w),
         UNCHANGED <<ereportingVars, paVars>>
  PROVE  LifecycleTypeInv'
<1> USE TypedParts, LabelsKnown DEF IssuanceLabels, ereportingVars
<1>1. CASE TakePreview(w)
  BY <1>1, TakeTyped DEF TakePreview, Tasks
<1>2. CASE GenerateSourcePdf(w)
  BY <1>2, IssuedRowTypes, WholeSaveTyped DEF GenerateSourcePdf
<1>3. CASE TakeGenerate(w)
  BY <1>3, TakeTyped DEF TakeGenerate, Tasks
<1>4. CASE GenerateSucceeds(w)
  <2> DEFINE r == [copy[w] EXCEPT !.status = "validated", !.pdf = "facturx"]
  <2>1. r \in Row /\ r.flow <= Len(flows)
    BY IssuedRowTypes
  <2>2. /\ row' = r /\ Stepped(w, "generated", r) /\ clean' \in BOOLEAN
        /\ UNCHANGED <<queue, drawn, received>>
    BY <1>4 DEF GenerateSucceeds, Save, Stepped
  <2> HIDE DEF r
  <2> QED
    BY <2>1, <2>2, SteppedTyped
<1>5. CASE GenerateFails(w)
  BY <1>5, IssuedRowTypes, WholeSaveTyped DEF GenerateFails
<1>6. CASE AfterGeneration(w)
  <2>1. queue' \in [Tasks -> Nat]
    BY <1>6, SendsTyped DEF AfterGeneration
  <2>2. Stepped(w, "idle", Forgotten) /\ UNCHANGED <<row, drawn, received, clean>>
    BY <1>6 DEF AfterGeneration, Finish, Stepped
  <2> QED
    BY <2>1, <2>2, SteppedTyped
<1>7. CASE AfterGenerationFails(w)
  BY <1>7, IssuedRowTypes, WholeSaveTyped DEF AfterGenerationFails
<1>8. CASE SendEreporting(w)
  <2>1. queue' \in [Tasks -> Nat]
    BY <1>8, SendsTyped DEF SendEreporting
  <2>2. Stepped(w, "signal", copy[w]) /\ UNCHANGED <<row, drawn, received, clean>>
    BY <1>8 DEF SendEreporting, Stepped
  <2> QED
    BY <2>1, <2>2, SteppedTyped
<1> QED
  BY <1>1, <1>2, <1>3, <1>4, <1>5, <1>6, <1>7, <1>8 DEF IssuanceTask, Generate

LEMMA EreportingTyped ==
  ASSUME LifecycleTypeInv, NEW w \in Workers, EreportingTask(w), UNCHANGED paVars
  PROVE  LifecycleTypeInv'
<1> USE TypedParts, LabelsKnown, EreportingAssumption DEF EreportingLabels
<1>1. CASE TakeEreporting(w)
  BY <1>1, TakeTyped DEF TakeEreporting, Tasks
<1>2. ASSUME Declare \/ UNCHANGED declared PROVE declared' \in 0..2
  BY <1>2 DEF Declare
<1>3. ASSUME NEW s \in {"submitted", "error"}, SaveEreporting(w, s)
      PROVE  /\ row' = [row EXCEPT !.ereporting = s] /\ row' \in Row
             /\ row'.flow <= Len(flows) /\ clean' \in BOOLEAN
  <2>1. row' = [row EXCEPT !.ereporting = s] /\ clean' \in BOOLEAN
    BY <1>3 DEF SaveEreporting, SaveFields
  <2>2. [row EXCEPT !.ereporting = s] \in Row /\ [row EXCEPT !.ereporting = s].flow = row.flow
    BY <1>3, IssuedRowTypes
  <2> QED
    BY <2>1, <2>2
<1>4. CASE EreportingSucceeds(w)
  <2>1. row' \in Row /\ row'.flow <= Len(flows) /\ clean' \in BOOLEAN
    BY <1>3, <1>4 DEF EreportingSucceeds
  <2>2. Stepped(w, "idle", Forgotten) /\ UNCHANGED <<queue, drawn, received, retries>>
    BY <1>4 DEF EreportingSucceeds, Finish, Stepped
  <2>3. declared' \in 0..2
    BY <1>2, <1>4 DEF EreportingSucceeds
  <2> QED
    BY <2>1, <2>2, <2>3, SteppedTyped
<1>5. CASE EreportingRefused(w)
  <2>1. row' \in Row /\ row'.flow <= Len(flows) /\ clean' \in BOOLEAN
    BY <1>3, <1>5 DEF EreportingRefused
  <2>2. Stepped(w, "idle", Forgotten) /\ UNCHANGED <<queue, drawn, received, retries, declared>>
    BY <1>5 DEF EreportingRefused, Finish, Stepped, ereportingVars
  <2> QED
    BY <2>1, <2>2, SteppedTyped
<1>6. CASE EreportingUnavailable(w)
  <2>1. row' \in Row /\ row'.flow <= Len(flows) /\ clean' \in BOOLEAN
    BY <1>3, <1>6 DEF EreportingUnavailable
  <2>2. declared' \in 0..2
    BY <1>2, <1>6 DEF EreportingUnavailable
  <2>3. retries' \in 0..MaxRetries
    BY <1>6 DEF EreportingUnavailable
  <2>4. PICK l \in {"idle", "send_ereport"} : Stepped(w, l, Forgotten)
    BY <1>6 DEF EreportingUnavailable, SendNext, Finish, Stepped
  <2>5. UNCHANGED <<queue, drawn, received>>
    BY <1>6 DEF EreportingUnavailable
  <2> QED
    BY <2>1, <2>2, <2>3, <2>4, <2>5, SteppedTyped
<1>7. CASE RetryEreporting(w)
  BY <1>7, SendTyped DEF RetryEreporting, Tasks
<1> QED
  BY <1>1, <1>4, <1>5, <1>6, <1>7 DEF EreportingTask, Ereport

\* A step of transmission leaves e-reporting alone.
LEMMA TransmissionRequestTyped ==
  ASSUME LifecycleTypeInv, NEW w \in Workers, TransmissionRequest(w), UNCHANGED ereportingVars
  PROVE  LifecycleTypeInv'
<1> USE TypedParts, LabelsKnown DEF TransmissionLabels, ereportingVars
<1>1. CASE OpenTransmit(w)
  BY <1>1, ReadTyped DEF OpenTransmit, Open
<1>2. CASE RequestTransmission(w)
  <2>1. row' \in Row /\ row'.flow <= Len(flows) /\ clean' \in BOOLEAN
    BY <1>2, TransmittedRowTypes, StatusesSaved DEF RequestTransmission, SaveFields
  <2>2. Stepped(w, "send_transmit", Forgotten) /\ UNCHANGED <<queue, drawn, received, paVars>>
    BY <1>2 DEF RequestTransmission, SendNext, Stepped
  <2> QED
    BY <2>1, <2>2, SteppedTyped
<1>3. CASE SendTransmit(w)
  BY <1>3, SendTyped DEF SendTransmit, Tasks
<1>4. CASE OpenMarkPaid(w)
  BY <1>4, ReadTyped DEF OpenMarkPaid, Open
<1>5. CASE OpenOnlinePayment(w)
  BY <1>5, ReadTyped DEF OpenOnlinePayment
<1>6. CASE MarkPaid(w)
  <2>1. row' \in Row /\ row'.flow <= Len(flows) /\ clean' \in BOOLEAN
    BY <1>6, TransmittedRowTypes DEF MarkPaid, Save
  <2>2. /\ Stepped(w, "send_paid212", Forgotten)
        /\ UNCHANGED <<queue, drawn, paVars>> /\ received' \in BOOLEAN
    BY <1>6 DEF MarkPaid, SendNext, Stepped
  <2> QED
    BY <2>1, <2>2, SteppedTyped
<1>7. CASE SendPaid212(w)
  BY <1>7, SendTyped DEF SendPaid212, Tasks
<1> QED
  BY <1>1, <1>2, <1>3, <1>4, <1>5, <1>6, <1>7 DEF TransmissionRequest

LEMMA LifecycleSubmitTyped ==
  ASSUME LifecycleTypeInv, NEW w \in Workers, SubmitFlow(w), UNCHANGED ereportingVars
  PROVE  LifecycleTypeInv'
<1> USE TypedParts
<1>1. flows \in Seq({"pending", "ok", "error"}) /\ row.flow \in Nat /\ copy[w].flow \in Nat
  BY DEF PaTypeOK, Row
<1>2. /\ Append(flows, "pending") \in Seq({"pending", "ok", "error"})
      /\ Len(Append(flows, "pending")) = Len(flows) + 1
  BY <1>1, Submitted
<1>3. flows' = flows \/ flows' = Append(flows, "pending")
  BY DEF SubmitFlow
<1>4. /\ flows' \in Seq({"pending", "ok", "error"})
      /\ Len(flows) <= Len(flows') /\ Len(flows') \in Nat
  BY <1>1, <1>2, <1>3
<1>5. PaTypeOK'
  BY <1>4 DEF SubmitFlow, PaTypeOK
<1>6. PICK l \in {"submitted", "submit_failed"}, f \in FlowIds :
        \/ /\ flows' = Append(flows, "pending")
           /\ Stepped(w, l, [copy[w] EXCEPT !.flow = f])
        \/ Stepped(w, l, copy[w])
  BY DEF SubmitFlow, Stepped, FlowIds
<1>10. f \in Nat /\ f <= Len(flows) + 1
  BY DEF FlowIds
<1>7. /\ row' \in Row /\ row'.flow <= Len(flows') /\ l \in Labels /\ l # "flow_check"
      /\ UNCHANGED <<queue, drawn, received, clean, retries, declared>>
  BY <1>1, <1>4, LabelsKnown DEF SubmitFlow, TransmissionLabels, ereportingVars
<1>8. CASE /\ flows' = Append(flows, "pending")
           /\ Stepped(w, l, [copy[w] EXCEPT !.flow = f])
  <2> DEFINE r == [copy[w] EXCEPT !.flow = f]
  <2>2. r \in Row /\ r.flow <= Len(flows')
    BY <1>2, <1>8, <1>10, WithFlow
  <2>3. Stepped(w, l, r)
    BY <1>8
  <2> HIDE DEF r
  <2>4. r.flow <= Len(flows')
    BY <2>2, <1>4
  <2> QED
    BY <1>4, <1>5, <1>7, <2>2, <2>3, <2>4, SteppedWithPa
<1>9. CASE Stepped(w, l, copy[w])
  <2>1. copy[w].flow <= Len(flows')
    BY <1>1, <1>4
  <2> QED
    BY <1>4, <1>5, <1>7, <1>9, <2>1, SteppedWithPa
<1> QED
  BY <1>6, <1>8, <1>9

LEMMA TransmissionTaskTyped ==
  ASSUME LifecycleTypeInv, NEW w \in Workers, TransmissionTask(w), UNCHANGED ereportingVars
  PROVE  LifecycleTypeInv'
<1> USE TypedParts, LabelsKnown DEF TransmissionLabels, ereportingVars
<1>1. CASE TakeTransmit(w)
  BY <1>1, TakeTyped DEF TakeTransmit, Tasks
<1>2. CASE SubmitFlow(w)
  BY <1>2, LifecycleSubmitTyped
<1>3. CASE SaveFlow(w)
  <2>1. row' \in Row /\ row'.flow <= Len(flows) /\ clean' \in BOOLEAN
    <3>1. copy[w].flow \in Nat
      BY DEF Row
    <3>2. row' = [row EXCEPT !.flow = copy[w].flow]
      BY <1>3 DEF SaveFlow, SaveFields
    <3> QED
      BY <1>3, <3>1, <3>2, WithFlow DEF SaveFlow, SaveFields
  <2>2. Stepped(w, "idle", Forgotten) /\ UNCHANGED <<queue, drawn, received, paVars>>
    BY <1>3 DEF SaveFlow, Finish, Stepped
  <2> QED
    BY <2>1, <2>2, SteppedTyped
<1>4. ASSUME NEW s \in {"validated", "cancelled"},
             SaveFields(w, [row EXCEPT !.status = s], {"status"}), Finish(w),
             UNCHANGED <<queue, drawn, received, paVars>>
      PROVE  LifecycleTypeInv'
  <2>1. row' \in Row /\ row'.flow <= Len(flows) /\ clean' \in BOOLEAN
    BY <1>4, TransmittedRowTypes, StatusesSaved DEF SaveFields
  <2>2. Stepped(w, "idle", Forgotten)
    BY <1>4 DEF Finish, Stepped
  <2> QED
    BY <1>4, <2>1, <2>2, SteppedTyped
<1>5. CASE RevertTransmission(w)
  BY <1>4, <1>5 DEF RevertTransmission
<1>6. CASE OpenAutoCancel(w)
  BY <1>6, ReadTyped DEF OpenAutoCancel
<1>7. CASE AutoCancel(w)
  BY <1>4, <1>7 DEF AutoCancel
<1> QED
  BY <1>1, <1>2, <1>3, <1>5, <1>6, <1>7 DEF TransmissionTask

\* A poll goes on: it leaves the requests' side alone but for its own object.
LEMMA PollGoesOnTyped ==
  ASSUME LifecycleTypeInv, NEW w \in Workers, NEW l \in Labels, NEW r \in Row,
         r.flow <= Len(flows), l = "flow_check" => r.flow # 0, Stepped(w, l, r),
         row' \in Row, row'.flow <= Len(flows), clean' \in BOOLEAN, received' \in BOOLEAN,
         queue' \in [Tasks -> Nat],
         logged' \subseteq DOMAIN events,
         seen' \in [Workers -> 0..Len(events)], known' \in [Workers -> SUBSET DOMAIN events],
         UNCHANGED <<drawn, flows, events, credited, reported, ereportingVars>>
  PROVE  LifecycleTypeInv'
<1>1. PaTypeOK'
  BY TypedParts DEF PaTypeOK
<1> QED
  BY <1>1, TypedParts, SteppedWithPa DEF ereportingVars

LEMMA PollParts ==
  ASSUME LifecycleTypeInv
  PROVE  /\ flows \in Seq({"pending", "ok", "error"}) /\ events \in Seq(Codes)
         /\ Len(events) \in Nat /\ DOMAIN events = 1..Len(events)
         /\ logged \subseteq DOMAIN events
         /\ seen \in [Workers -> 0..Len(events)]
         /\ known \in [Workers -> SUBSET DOMAIN events]
         /\ \A w \in Workers : Due(w) \subseteq DOMAIN events
<1>1. /\ flows \in Seq({"pending", "ok", "error"}) /\ events \in Seq(Codes)
      /\ logged \subseteq DOMAIN events
      /\ seen \in [Workers -> 0..Len(events)]
      /\ known \in [Workers -> SUBSET DOMAIN events]
  BY TypedParts DEF PaTypeOK
<1>2. Len(events) \in Nat /\ DOMAIN events = 1..Len(events)
  BY <1>1
<1>3. ASSUME NEW w \in Workers PROVE Due(w) \subseteq DOMAIN events
  BY <1>1, <1>2 DEF Due
<1> QED
  BY <1>1, <1>2, <1>3

LEMMA LifecycleEndPollTyped ==
  ASSUME LifecycleTypeInv, NEW w \in Workers, EndPoll(w),
         UNCHANGED <<row, queue, drawn, received, clean, Rest, ereportingVars>>
  PROVE  LifecycleTypeInv'
<1>1. Stepped(w, "idle", Forgotten) /\ "idle" \in Labels
  BY DEF EndPoll, Finish, Stepped, Labels
<1>2. /\ seen' \in [Workers -> 0..Len(events)]
      /\ known' \in [Workers -> SUBSET DOMAIN events]
  BY PollParts DEF EndPoll
<1> QED
  BY <1>1, <1>2, TypedParts, PollParts, PollGoesOnTyped DEF Rest

\* A poll that has saved status st of its object.
LEMMA PolledStatusTyped ==
  ASSUME LifecycleTypeInv, NEW w \in Workers, NEW st \in Status,
         NEW l \in {"event", "auto_paid"},
         SaveFields(w, [row EXCEPT !.status = st], {"status"}),
         Stepped(w, l, [copy[w] EXCEPT !.status = st]),
         known' \in [Workers -> SUBSET DOMAIN events],
         UNCHANGED <<queue, drawn, received, seen, Rest, ereportingVars>>
  PROVE  LifecycleTypeInv'
<1>1. row' \in Row /\ row'.flow <= Len(flows) /\ clean' \in BOOLEAN
  BY TypedParts, TransmittedRowTypes DEF SaveFields
<1> DEFINE r == [copy[w] EXCEPT !.status = st]
<1>2. r \in Row /\ r.flow <= Len(flows)
  BY TypedParts, TransmittedRowTypes
<1>3. l \in Labels /\ l # "flow_check"
  BY DEF Labels, TransmissionLabels
<1>4. Stepped(w, l, r)
  OBVIOUS
<1> HIDE DEF r
<1> QED
  BY <1>1, <1>2, <1>3, <1>4, TypedParts, PollParts, PollGoesOnTyped DEF Rest

LEMMA LifecyclePollTyped ==
  ASSUME LifecycleTypeInv, NEW w \in Workers, Poll(w) \/ PollStep(w), UNCHANGED ereportingVars
  PROVE  LifecycleTypeInv'
<1> USE TypedParts, PollParts, LabelsKnown DEF Rest
<1>1. ASSUME NEW l \in TransmissionLabels \ {"flow_check"}, pc' = [pc EXCEPT ![w] = l],
             UNCHANGED <<row, copy, clean, drawn, received>>, queue' \in [Tasks -> Nat],
             logged' \subseteq DOMAIN events,
             seen' \in [Workers -> 0..Len(events)],
             known' \in [Workers -> SUBSET DOMAIN events],
             UNCHANGED <<flows, events, credited, reported>>
      PROVE  LifecycleTypeInv'
  <2>1. Stepped(w, l, copy[w])
    BY <1>1 DEF Stepped
  <2> QED
    BY <1>1, <2>1, PollGoesOnTyped
<1>2. CASE Poll(w)
  <2>1. seen' \in [Workers -> 0..Len(events)]
    BY <1>2 DEF Poll
  <2> QED
    BY <1>1, <1>2, <2>1 DEF Poll, TransmissionLabels
<1>3. CASE ReadForEvents(w)
  <2>1. CASE EndPoll(w)
    BY <1>3, <2>1, LifecycleEndPollTyped DEF ReadForEvents
  <2>2. CASE ~EndPoll(w)
    <3>1. Stepped(w, "dedup", row)
      BY <1>3, <2>2 DEF ReadForEvents, Stepped
    <3>2. "dedup" \in Labels
      BY DEF TransmissionLabels
    <3> QED
      BY <1>3, <2>2, <3>1, <3>2, PollGoesOnTyped DEF ReadForEvents
  <2> QED
    BY <2>1, <2>2
<1>4. CASE ReadLogs(w)
  <2>1. known' \in [Workers -> SUBSET DOMAIN events]
    BY <1>4 DEF ReadLogs
  <2> QED
    BY <1>1, <1>4, <2>1 DEF ReadLogs, TransmissionLabels
<1>5. CASE LogEvent(w)
  <2>1. logged' \subseteq DOMAIN events
    BY <1>5 DEF LogEvent
  <2> QED
    BY <1>1, <1>5, <2>1 DEF LogEvent, TransmissionLabels
<1>6. CASE ApplyEvent(w)
  <2>1. PICK i \in Due(w) : ApplyEvent(w)!2!(i)
    BY <1>6 DEF ApplyEvent
  <2> DEFINE s == StatusOf[events[i]]
  <2>2. s \in Status /\ i \in DOMAIN events
    BY <2>1, StatusesSaved
  <2>3. known' \in [Workers -> SUBSET DOMAIN events]
    BY <2>1, <2>2
  <2>4. CASE CanTransition(copy[w].status, s)
    <3>1. PICK l \in {"event", "auto_paid"} : Stepped(w, l, [copy[w] EXCEPT !.status = s])
      <4>1. NextAfter([copy[w] EXCEPT !.status = s]) \in {"event", "auto_paid"}
        BY DEF NextAfter
      <4> QED
        BY <2>1, <2>4, <4>1 DEF Stepped
    <3>2. SaveFields(w, [row EXCEPT !.status = s], {"status"})
      BY <2>1, <2>4
    <3>3. UNCHANGED <<queue, drawn, received, seen, flows, events, logged, credited, reported>>
      BY <1>6 DEF ApplyEvent
    <3> HIDE DEF s
    <3> QED
      BY <2>2, <2>3, <3>1, <3>2, <3>3, PolledStatusTyped
  <2>5. CASE ~CanTransition(copy[w].status, s)
    BY <1>1, <1>6, <2>1, <2>3, <2>5 DEF ApplyEvent, TransmissionLabels
  <2> QED
    BY <2>4, <2>5
<1>7. CASE AutoMarkPaid(w)
  <2>1. PaidCopy(copy[w]) \in Row /\ PaidCopy(copy[w]).flow <= Len(flows)
    BY TransmittedRowTypes
  <2>2. Stepped(w, "send_auto212", PaidCopy(copy[w])) /\ "send_auto212" \in Labels
    BY <1>7 DEF AutoMarkPaid, Stepped, TransmissionLabels
  <2>3. row' = PaidCopy(copy[w]) /\ clean' \in BOOLEAN /\ received' \in BOOLEAN
    BY <1>7 DEF AutoMarkPaid, Save
  <2> QED
    BY <1>7, <2>1, <2>2, <2>3, SteppedTyped DEF AutoMarkPaid, ereportingVars
<1>8. CASE SendAuto212(w)
  <2>1. queue' \in [Tasks -> Nat]
    BY <1>8, SendsTyped DEF SendAuto212, Tasks
  <2> QED
    BY <1>1, <1>8, <2>1 DEF SendAuto212, TransmissionLabels, paVars
<1>9. CASE PollEnds(w)
  BY <1>9, LifecycleEndPollTyped DEF PollEnds
<1>10. CASE ReadForFallback(w)
  <2>1. CASE EndPoll(w)
    BY <1>10, <2>1, LifecycleEndPollTyped DEF ReadForFallback
  <2>2. CASE ~EndPoll(w)
    <3>1. Stepped(w, "flow_check", row) /\ row.flow # 0
      BY <1>10, <2>2 DEF ReadForFallback, Stepped, Stuck
    <3>2. "flow_check" \in Labels
      BY DEF Labels, TransmissionLabels
    <3> QED
      BY <1>10, <2>2, <3>1, <3>2, PollGoesOnTyped DEF ReadForFallback
  <2> QED
    BY <2>1, <2>2
<1>11. CASE FallbackApply(w)
  <2> DEFINE a == flows[copy[w].flow]
             r == [copy[w] EXCEPT !.status = AckStatus(a)]
             l == IF a = "ok" THEN NextAfter(r) ELSE "event"
  <2>1. CASE a # "pending"
    <3>1. known' \in [Workers -> SUBSET DOMAIN events]
      BY <1>11, <2>1 DEF FallbackApply
    <3>2. AckStatus(a) \in Status /\ l \in {"event", "auto_paid"}
      BY StatusesSaved DEF NextAfter
    <3>3. SaveFields(w, [row EXCEPT !.status = AckStatus(a)], {"status"})
      <4>1. r.status = AckStatus(a)
        BY DEF Row
      <4> QED
        BY <1>11, <2>1, <4>1 DEF FallbackApply
    <3>4. UNCHANGED <<queue, drawn, received, seen, Rest>>
      BY <1>11, <2>1 DEF FallbackApply
    <3>5. Stepped(w, l, r)
      BY <1>11, <2>1 DEF FallbackApply, Stepped
    <3> HIDE DEF l
    <3> QED
      BY <3>1, <3>2, <3>3, <3>4, <3>5, PolledStatusTyped
  <2>2. CASE a = "pending"
    BY <1>11, <2>2, LifecycleEndPollTyped DEF FallbackApply
  <2> QED
    BY <2>1, <2>2
<1> QED
  BY <1>2, <1>3, <1>4, <1>5, <1>6, <1>7, <1>8, <1>9, <1>10, <1>11 DEF PollStep

\* Steps of nobody's handler.
LEMMA LifecycleOutsideTyped ==
  ASSUME LifecycleTypeInv, UNCHANGED ereportingVars,
         ReportPaid \/ CancelInvoice \/ Acknowledge \/ Publish
  PROVE  LifecycleTypeInv'
<1> USE DEF LifecycleTypeInv, LifecycleTypeOK, FlowsKnown, PaTypeOK, paVars, rowVars,
            ereportingVars
<1>1. CASE ReportPaid
  BY <1>1 DEF ReportPaid, Tasks
<1>2. CASE CancelInvoice
  BY <1>2 DEF CancelInvoice
<1>3. CASE Acknowledge
  BY <1>3 DEF Acknowledge
<1>4. CASE Publish
  BY <1>4, OneMore DEF Publish, NextCodes, Codes
<1> QED
  BY <1>1, <1>2, <1>3, <1>4

LEMMA LifecycleCrashTyped ==
  ASSUME LifecycleTypeInv, NEW w \in Workers, CrashPa(w), UNCHANGED ereportingVars
  PROVE  LifecycleTypeInv'
BY LifecycleEndPollTyped DEF CrashPa, Crash, EndPoll, Rest

LEMMA PreviewRequestTyped ==
  ASSUME LifecycleTypeInv, RequestPreview, UNCHANGED <<ereportingVars, paVars>>
  PROVE  LifecycleTypeInv'
<1>1. queue' \in [Tasks -> Nat]
  BY SendsTyped DEF RequestPreview, Tasks
<1> QED
  BY <1>1 DEF RequestPreview, LifecycleTypeInv, LifecycleTypeOK, FlowsKnown, PaTypeOK,
              ereportingVars, paVars

LEMMA LifecycleStepTyped ==
  LifecycleTypeInv /\ [LifecycleNext]_lifecycleVars => LifecycleTypeInv'
<1> SUFFICES ASSUME LifecycleTypeInv, [LifecycleNext]_lifecycleVars PROVE LifecycleTypeInv'
  OBVIOUS
<1>1. CASE UNCHANGED lifecycleVars
  BY <1>1 DEF lifecycleVars, rowVars, ereportingVars, paVars, LifecycleTypeInv,
              LifecycleTypeOK, FlowsKnown, PaTypeOK
<1> QED
  BY <1>1, IssuanceRequestTyped, IssuanceTaskTyped, PreviewRequestTyped, EreportingTyped,
     TransmissionRequestTyped, TransmissionTaskTyped, LifecyclePollTyped,
     LifecycleOutsideTyped, LifecycleCrashTyped
  DEF LifecycleNext, TransmissionNext, TransmissionStep

\* Every state of the whole life is well typed, and every flow id that the row or a
\* worker's object names is one of the PA's.
THEOREM LifecycleTypeCorrect == LifecycleSpec => []LifecycleTypeOK
<1>1. LifecycleTypeInv => LifecycleTypeOK
  BY DEF LifecycleTypeInv
<1> QED
  BY <1>1, LifecycleInitTyped, LifecycleStepTyped, PTL DEF LifecycleSpec

----------------------------------------------------------------------------
(* What a step may do to the invoice.                                      *)

\* What a handler knows of its object at each point of its program: it was let in.
Knows(l, r) ==
  /\ l = "validate" => r.status = "draft" /\ (r.deleted => "ui" \in Handlers)
  /\ l = "delete" => r.status = "draft"
  /\ l = "generate" => r.status = "processing"
  /\ l = "transmit" => r.status = "validated"
  /\ l \in {"submit", "submitted", "submit_failed", "flow_check"} => r.status = "transmitting"
  /\ l = "submitted" => r.flow # 0 \/ "no_flow_id" \in Faults
  /\ l \in {"mark_paid", "online_payment", "auto_paid"} => CanTransition(r.status, "paid")
  /\ l = "auto_cancel" => r.status \in {"validated", "paid"}

KnowingLabels ==
  {"validate", "delete", "generate", "transmit", "submit", "submitted", "submit_failed", "flow_check",
   "mark_paid", "online_payment", "auto_paid", "auto_cancel"}

KnowsInv ==
  /\ \A w \in Workers : Knows(pc[w], copy[w])
  /\ events # <<>> => FlowAccepted

LEMMA TableFacts ==
  /\ \A s \in Status : CanTransition(s, "processing") => s = "draft"
  /\ \A s \in Status : CanTransition(s, "transmitting") => s = "validated"
  /\ \A s \in Status : CanTransition(s, "paid") => s # "draft"
  /\ CanTransition("draft", "processing")
  /\ CanTransition("processing", "validated") /\ CanTransition("processing", "draft")
  /\ CanTransition("validated", "transmitting") /\ CanTransition("validated", "cancelled")
  /\ CanTransition("transmitting", "validated") /\ CanTransition("transmitting", "transmitted")
  /\ CanTransition("paid", "cancelled")
  /\ \A s : ~CanTransition("draft", s) \/ s = "processing"
BY DEF CanTransition, Transitions, Status

LEMMA Unknowing == \A l, r : l \notin KnowingLabels => Knows(l, r)
BY DEF Knows, KnowingLabels

LEMMA Learns ==
  ASSUME LifecycleTypeInv, KnowsInv, NEW w \in Workers, NEW l, NEW r,
         Stepped(w, l, r), Knows(l, r)
  PROVE  \A v \in Workers : Knows(pc'[v], copy'[v])
<1> SUFFICES ASSUME NEW v \in Workers PROVE Knows(pc'[v], copy'[v])
  OBVIOUS
<1>1. pc \in [Workers -> Labels] /\ copy \in [Workers -> Row]
  BY TypedParts
<1>2. CASE v = w
  BY <1>1, <1>2 DEF Stepped
<1>3. CASE v # w
  <2>1. pc'[v] = pc[v] /\ copy'[v] = copy[v]
    BY <1>1, <1>3 DEF Stepped
  <2> QED
    BY <2>1 DEF KnowsInv
<1> QED
  BY <1>2, <1>3

\* A request or a task that has been let in.
LEMMA ReadLearns ==
  ASSUME LifecycleTypeInv, KnowsInv, NEW w \in Workers, NEW l, Read(w, l), Knows(l, row)
  PROVE  \A v \in Workers : Knows(pc'[v], copy'[v])
BY Learns DEF Read, Stepped

\* A handler that goes to a point where it needs to know nothing.
LEMMA Forgets ==
  ASSUME LifecycleTypeInv, KnowsInv, NEW w \in Workers, NEW l, NEW r, Stepped(w, l, r),
         l \notin KnowingLabels
  PROVE  \A v \in Workers : Knows(pc'[v], copy'[v])
BY Learns, Unknowing

LEMMA SendForgets ==
  ASSUME LifecycleTypeInv, KnowsInv, NEW w \in Workers, NEW l, NEW t, Send(w, l, t)
  PROVE  \A v \in Workers : Knows(pc'[v], copy'[v])
BY Forgets DEF Send, Finish, Stepped, KnowingLabels

LEMMA TakeLearns ==
  ASSUME LifecycleTypeInv, KnowsInv, NEW w \in Workers, NEW l, NEW t,
         (Take(w, t, l) /\ Knows(l, row)) \/ Drop(t)
  PROVE  \A v \in Workers : Knows(pc'[v], copy'[v])
<1>1. CASE Take(w, t, l) /\ Knows(l, row)
  BY <1>1, ReadLearns DEF Take
<1>2. CASE Drop(t)
  BY <1>2 DEF Drop, KnowsInv
<1> QED
  BY <1>1, <1>2

LEMMA IssuanceKnows ==
  ASSUME LifecycleTypeInv, KnowsInv, NEW w \in Workers,
         IssuanceRequest(w) \/ IssuanceTask(w) \/ RequestPreview
  PROVE  \A v \in Workers : Knows(pc'[v], copy'[v])
<1> USE Unknowing DEF KnowingLabels
<1>1. CASE OpenEdit(w)
  BY <1>1, ReadLearns DEF OpenEdit, Open
<1>2. CASE OpenDelete(w)
  BY <1>2, ReadLearns DEF OpenDelete, Open, IsDeletable, Knows
<1>3. CASE OpenValidate(w)
  <2>1. row.status = "draft" /\ (row.deleted => "ui" \in Handlers)
    BY <1>3, TypedParts, TableFacts DEF OpenValidate, Open, Reachable, Row
  <2> QED
    BY <1>3, <2>1, ReadLearns DEF OpenValidate, Open, Knows
<1>4. CASE OpenRecordPayment(w)
  BY <1>4, ReadLearns DEF OpenRecordPayment
<1>5. CASE UpdateInvoice(w) \/ SoftDelete(w) \/ RecordPayment(w)
  BY <1>5, Forgets DEF UpdateInvoice, SoftDelete, RecordPayment, Finish, Stepped
<1>6. CASE ValidateInvoice(w)
  BY <1>6, Forgets DEF ValidateInvoice, SendNext, Stepped
<1>7. CASE SendGenerate(w)
  BY <1>7, SendForgets DEF SendGenerate
<1>8. CASE TakePreview(w)
  BY <1>8, TakeLearns DEF TakePreview
<1>9. CASE TakeGenerate(w)
  BY <1>9, TakeLearns DEF TakeGenerate, Knows
<1>10. CASE GenerateSourcePdf(w) \/ GenerateFails(w) \/ AfterGeneration(w) \/ AfterGenerationFails(w)
  BY <1>10, Forgets
  DEF GenerateSourcePdf, GenerateFails, AfterGeneration, AfterGenerationFails, Finish, Stepped
<1>11. CASE GenerateSucceeds(w)
  <2>1. Stepped(w, "generated", [copy[w] EXCEPT !.status = "validated", !.pdf = "facturx"])
    BY <1>11 DEF GenerateSucceeds, Stepped
  <2> QED
    BY <2>1, Forgets
<1>12. CASE RequestPreview
  BY <1>12 DEF RequestPreview, KnowsInv
<1>13. CASE SendEreporting(w)
  <2>1. Stepped(w, "signal", copy[w])
    BY <1>13, TypedParts DEF SendEreporting, Stepped
  <2> QED
    BY <2>1, Forgets
<1> QED
  BY <1>1, <1>2, <1>3, <1>4, <1>5, <1>6, <1>7, <1>8, <1>9, <1>10, <1>11, <1>12, <1>13
  DEF IssuanceRequest, IssuanceTask, Generate

LEMMA EreportingKnows ==
  ASSUME LifecycleTypeInv, KnowsInv, NEW w \in Workers, EreportingTask(w)
  PROVE  \A v \in Workers : Knows(pc'[v], copy'[v])
<1> USE Unknowing DEF KnowingLabels
<1>1. CASE TakeEreporting(w)
  BY <1>1, TakeLearns DEF TakeEreporting
<1>2. CASE Ereport(w)
  <2>1. PICK l \in {"idle", "send_ereport"} : Stepped(w, l, Forgotten)
    BY <1>2
    DEF Ereport, EreportingSucceeds, EreportingRefused, EreportingUnavailable, Finish,
        SendNext, Stepped
  <2> QED
    BY <2>1, Forgets
<1>3. CASE RetryEreporting(w)
  BY <1>3, SendForgets DEF RetryEreporting
<1> QED
  BY <1>1, <1>2, <1>3 DEF EreportingTask

LEMMA TransmissionKnows ==
  ASSUME LifecycleTypeInv, KnowsInv, NEW w \in Workers,
         TransmissionRequest(w) \/ TransmissionTask(w)
  PROVE  \A v \in Workers : Knows(pc'[v], copy'[v])
<1> USE Unknowing DEF KnowingLabels
<1>1. CASE OpenTransmit(w)
  <2>1. row.status = "validated"
    BY <1>1, TypedParts, TableFacts DEF OpenTransmit, Row
  <2> QED
    BY <1>1, <2>1, ReadLearns DEF OpenTransmit, Open, Knows
<1>2. CASE OpenMarkPaid(w)
  BY <1>2, ReadLearns DEF OpenMarkPaid, Open, Knows
<1>3. CASE OpenOnlinePayment(w)
  BY <1>3, ReadLearns DEF OpenOnlinePayment, Knows
<1>4. CASE OpenAutoCancel(w)
  BY <1>4, ReadLearns DEF OpenAutoCancel, Knows
<1>5. CASE RequestTransmission(w) \/ MarkPaid(w)
  BY <1>5, Forgets DEF RequestTransmission, MarkPaid, SendNext, Stepped
<1>6. CASE SaveFlow(w) \/ RevertTransmission(w) \/ AutoCancel(w)
  BY <1>6, Forgets DEF SaveFlow, RevertTransmission, AutoCancel, Finish, Stepped
<1>7. CASE SendTransmit(w) \/ SendPaid212(w)
  BY <1>7, SendForgets DEF SendTransmit, SendPaid212
<1>8. CASE TakeTransmit(w)
  BY <1>8, TakeLearns DEF TakeTransmit, Knows
<1>9. CASE SubmitFlow(w)
  <2>1. copy[w] \in Row /\ copy[w].status = "transmitting"
    BY <1>9, TypedParts DEF SubmitFlow, KnowsInv, Knows
  <2>2. \A n : LET r == [copy[w] EXCEPT !.flow = n]
              IN r.status = "transmitting" /\ r.flow = n
    BY <2>1 DEF Row
  <2>3. PICK f \in FlowIds :
          \/ Stepped(w, "submitted", [copy[w] EXCEPT !.flow = f])
          \/ Stepped(w, "submit_failed", copy[w])
    BY <1>9, TypedParts DEF SubmitFlow, Stepped, FlowIds
  <2>4. f # 0 \/ "no_flow_id" \in Faults
    BY TypedParts DEF FlowIds
  <2>5. /\ Knows("submit_failed", copy[w])
        /\ Knows("submitted", [copy[w] EXCEPT !.flow = f])
    BY <2>1, <2>2, <2>4 DEF Knows
  <2> QED
    BY <2>3, <2>5, Learns
<1> QED
  BY <1>1, <1>2, <1>3, <1>4, <1>5, <1>6, <1>7, <1>8, <1>9
  DEF TransmissionRequest, TransmissionTask

LEMMA PollKnows ==
  ASSUME LifecycleTypeInv, KnowsInv, NEW w \in Workers,
         Poll(w) \/ PollStep(w) \/ CrashPa(w)
  PROVE  \A v \in Workers : Knows(pc'[v], copy'[v])
<1> USE Unknowing DEF KnowingLabels
<1>1. CASE EndPoll(w) \/ CrashPa(w)
  BY <1>1, Forgets DEF EndPoll, CrashPa, Crash, Finish, Stepped
<1>2. CASE Poll(w) \/ ReadLogs(w) \/ LogEvent(w) \/ SendAuto212(w)
  <2>1. copy \in [Workers -> Row] /\ copy' = copy
    BY <1>2, TypedParts DEF Poll, ReadLogs, LogEvent, SendAuto212
  <2>2. copy' = [copy EXCEPT ![w] = copy[w]]
    BY <2>1
  <2>3. PICK l \in {"poll", "event", "apply"} : pc' = [pc EXCEPT ![w] = l]
    BY <1>2 DEF Poll, ReadLogs, LogEvent, SendAuto212
  <2>4. Stepped(w, l, copy[w])
    BY <2>2, <2>3 DEF Stepped
  <2> QED
    BY <2>4, Forgets
<1>3. CASE ReadForEvents(w) /\ ~EndPoll(w)
  BY <1>3, Forgets DEF ReadForEvents, Stepped
<1>4. CASE ReadForFallback(w) /\ ~EndPoll(w)
  BY <1>4, Learns DEF ReadForFallback, Stepped, Stuck, Knows
<1>5. CASE AutoMarkPaid(w)
  BY <1>5, Forgets DEF AutoMarkPaid, Stepped
<1>6. ASSUME NEW r PROVE Knows(NextAfter(r), r)
  BY <1>6 DEF NextAfter, Knows
<1>7. CASE ApplyEvent(w)
  <2>1. PICK i \in Due(w) : ApplyEvent(w)!2!(i)
    BY <1>7 DEF ApplyEvent
  <2> DEFINE r == [copy[w] EXCEPT !.status = StatusOf[events[i]]]
  <2>2. Stepped(w, NextAfter(r), r) \/ Stepped(w, "event", copy[w])
    BY <2>1, TypedParts DEF Stepped
  <2> QED
    BY <1>6, <2>2, Learns, Forgets
<1>8. CASE FallbackApply(w) /\ ~EndPoll(w)
  <2> DEFINE a == flows[copy[w].flow]
             r == [copy[w] EXCEPT !.status = AckStatus(a)]
  <2>1. Stepped(w, NextAfter(r), r) \/ Stepped(w, "event", r)
    BY <1>8 DEF FallbackApply, Stepped
  <2> QED
    BY <1>6, <2>1, Learns, Forgets
<1> QED
  BY <1>1, <1>2, <1>3, <1>4, <1>5, <1>7, <1>8
  DEF PollStep, PollEnds, ReadForEvents, ReadForFallback, FallbackApply

LEMMA LifecyclePaGrows ==
  ASSUME LifecycleTypeInv, [LifecycleNext]_lifecycleVars
  PROVE  /\ FlowAccepted => FlowAccepted'
         /\ events' = events \/ FlowAccepted
         /\ \A i \in DOMAIN events : i \in DOMAIN events' /\ events'[i] = events[i]
         /\ flows # <<>> => flows' # <<>>
<1>1. PaTypeOK
  BY TypedParts
<1>2. CASE UNCHANGED paVars
  BY <1>2 DEF paVars, FlowAccepted
<1>3. CASE TransmissionNext
  BY <1>1, <1>3, PaGrows
<1> QED
  BY <1>2, <1>3 DEF LifecycleNext, lifecycleVars, ereportingVars

LEMMA KnowsStep ==
  LifecycleTypeInv /\ KnowsInv /\ [LifecycleNext]_lifecycleVars => KnowsInv'
<1> SUFFICES ASSUME LifecycleTypeInv, KnowsInv, [LifecycleNext]_lifecycleVars PROVE KnowsInv'
  OBVIOUS
<1>1. events' # <<>> => FlowAccepted'
  BY LifecyclePaGrows DEF KnowsInv
<1>2. CASE UNCHANGED <<pc, copy>>
  BY <1>1, <1>2 DEF KnowsInv
<1>3. CASE ReportPaid \/ CancelInvoice \/ Acknowledge \/ Publish
  BY <1>2, <1>3 DEF ReportPaid, CancelInvoice, Acknowledge, Publish, rowVars
<1>4. CASE UNCHANGED lifecycleVars
  BY <1>2, <1>4 DEF lifecycleVars, rowVars
<1>5. CASE RequestPreview
  BY <1>2, <1>5 DEF RequestPreview
<1>6. ASSUME NEW w \in Workers, IssuanceRequest(w) \/ IssuanceTask(w) \/ EreportingTask(w)
      PROVE  KnowsInv'
  BY <1>1, <1>6, IssuanceKnows, EreportingKnows DEF KnowsInv
<1>7. ASSUME NEW w \in Workers,
             \/ TransmissionRequest(w) \/ TransmissionTask(w)
             \/ Poll(w) \/ PollStep(w) \/ CrashPa(w)
      PROVE  KnowsInv'
  BY <1>1, <1>7, TransmissionKnows, PollKnows DEF KnowsInv
<1> QED
  BY <1>3, <1>4, <1>5, <1>6, <1>7 DEF LifecycleNext, TransmissionNext, TransmissionStep

\* What a step that does not save a stale copy may make of the invoice.
SameNumber == row'.number = row.number /\ row'.deleted = row.deleted /\ drawn' = drawn

SamePayment == row'.payment = row.payment /\ received' = received

StaysAsItIs == row'.status = row.status /\ SameNumber /\ SamePayment

IsDeleted ==
  /\ row.status = "draft" /\ row'.status = "draft"
  /\ row'.number = row.number /\ drawn' = drawn /\ SamePayment

GetsPayment ==
  row'.status = row.status /\ SameNumber /\ row'.payment = TRUE /\ received' = TRUE

IsNumbered ==
  /\ row.status = "draft" /\ (row.deleted => "ui" \in Handlers)
  /\ row'.status = "processing" /\ row'.deleted = row.deleted
  /\ row'.number = NumberFor(row)
  /\ drawn' = IF row.number = 0 THEN drawn + 1 ELSE drawn
  /\ SamePayment

MovesOn ==
  /\ CanTransition(row.status, row'.status)
  /\ row'.status \notin {"processing", "paid"}
  /\ row'.status \in {"transmitted", "accepted", "rejected", "refused"} => FlowAccepted
  /\ SameNumber /\ SamePayment

IsPaid ==
  /\ CanTransition(row.status, "paid") /\ row'.status = "paid"
  /\ row'.payment = TRUE /\ received' = TRUE /\ SameNumber

\* An error after "validated" was saved is handled as a failed generation.
IsTakenBack ==
  "post_save" \in Faults /\ row'.status = "draft" /\ SameNumber /\ SamePayment

Effect ==
  StaysAsItIs \/ IsDeleted \/ GetsPayment \/ IsNumbered \/ MovesOn \/ IsPaid \/ IsTakenBack

\* A save that leaves clean true was made from an object like the row.
LEMMA CleanSave ==
  ASSUME NEW w \in Workers, NEW v, Save(w, v), clean'
  PROVE  clean /\ copy[w] = row /\ row' = v
BY DEF Save

LEMMA CleanSaveFields ==
  ASSUME NEW w \in Workers, NEW v, NEW cols, SaveFields(w, v, cols), clean'
  PROVE  clean /\ row' = v /\ ("status" \in cols => copy[w].status = row.status)
BY DEF SaveFields

LEMMA Untouched ==
  ASSUME clean', UNCHANGED <<row, drawn, received, clean>>
  PROVE  clean /\ Effect
BY DEF Effect, StaysAsItIs, SameNumber, SamePayment

\* A status of its own is all that such a step saves.
LEMMA StatusEffect ==
  ASSUME LifecycleTypeInv, NEW w \in Workers, NEW s, clean',
         SaveFields(w, [row EXCEPT !.status = s], {"status"}), UNCHANGED <<drawn, received>>,
         CanTransition(copy[w].status, s), s \notin {"processing", "paid"},
         s \in {"transmitted", "accepted", "rejected", "refused"} => FlowAccepted
  PROVE  clean /\ Effect
<1>1. clean /\ row' = [row EXCEPT !.status = s] /\ copy[w].status = row.status
  BY CleanSaveFields
<1>2. row \in Row
  BY TypedParts
<1>3. /\ row'.status = s /\ row'.number = row.number /\ row'.deleted = row.deleted
      /\ row'.payment = row.payment
  BY <1>1, <1>2 DEF Row
<1> QED
  BY <1>1, <1>3 DEF Effect, MovesOn, SameNumber, SamePayment

LEMMA IssuanceEffect ==
  ASSUME LifecycleTypeInv, KnowsInv, clean', NEW w \in Workers,
         IssuanceRequest(w) \/ IssuanceTask(w) \/ RequestPreview
  PROVE  clean /\ Effect
<1>1. row \in Row /\ copy[w] \in Row /\ Knows(pc[w], copy[w])
  BY TypedParts DEF KnowsInv
<1>2. CASE \/ OpenEdit(w) \/ OpenDelete(w) \/ OpenValidate(w) \/ OpenRecordPayment(w)
           \/ SendGenerate(w) \/ TakePreview(w) \/ TakeGenerate(w) \/ AfterGeneration(w)
           \/ SendEreporting(w) \/ RequestPreview
  BY <1>2, Untouched
  DEF OpenEdit, OpenDelete, OpenValidate, OpenRecordPayment, SendGenerate, TakePreview,
      TakeGenerate, AfterGeneration, SendEreporting, RequestPreview, Open, Send, Take, Drop
<1>3. CASE UpdateInvoice(w)
  <2>1. clean /\ row' = Edited(row) /\ UNCHANGED <<drawn, received>>
    BY <1>3, CleanSave DEF UpdateInvoice
  <2> QED
    BY <1>1, <2>1 DEF Edited, Row, Effect, StaysAsItIs, SameNumber, SamePayment
<1>4. CASE GenerateSourcePdf(w)
  <2>1. clean /\ row' = [row EXCEPT !.pdf = "source"] /\ UNCHANGED <<drawn, received>>
    BY <1>4, CleanSave DEF GenerateSourcePdf
  <2> QED
    BY <1>1, <2>1 DEF Row, Effect, StaysAsItIs, SameNumber, SamePayment
<1>5. CASE SoftDelete(w)
  <2>1. /\ clean /\ row' = [row EXCEPT !.deleted = TRUE] /\ copy[w].status = row.status
        /\ UNCHANGED <<drawn, received>> /\ pc[w] = "delete"
    BY <1>5, CleanSaveFields DEF SoftDelete
  <2>2. row.status = "draft"
    BY <1>1, <2>1 DEF Knows
  <2> QED
    BY <1>1, <2>1, <2>2 DEF Row, Effect, IsDeleted, SamePayment
<1>6. CASE ValidateInvoice(w)
  <2>1. /\ clean /\ copy[w] = row
        /\ row' = [row EXCEPT !.status = "processing", !.number = NumberFor(row),
                     !.ereporting = IF EreportingFlow THEN "pending" ELSE @]
    <3> DEFINE v == [copy[w] EXCEPT !.status = "processing", !.number = NumberFor(copy[w]),
                       !.ereporting = IF EreportingFlow THEN "pending" ELSE @]
    <3>1. Save(w, v)
      BY <1>6 DEF ValidateInvoice
    <3> HIDE DEF v
    <3>2. clean /\ copy[w] = row /\ row' = v
      BY <3>1, CleanSave
    <3> QED
      BY <3>2 DEF v
  <2>2. /\ pc[w] = "validate" /\ received' = received
        /\ drawn' = IF copy[w].number = 0 THEN drawn + 1 ELSE drawn
    BY <1>6 DEF ValidateInvoice
  <2>3. row.status = "draft" /\ (row.deleted => "ui" \in Handlers)
    BY <1>1, <2>1, <2>2 DEF Knows
  <2>4. /\ row'.status = "processing" /\ row'.number = NumberFor(row)
        /\ row'.deleted = row.deleted /\ row'.payment = row.payment
    BY <1>1, <2>1 DEF Row
  <2> QED
    BY <2>1, <2>2, <2>3, <2>4 DEF Effect, IsNumbered, SamePayment
<1>7. CASE RecordPayment(w)
  <2>1. clean /\ row' = [row EXCEPT !.payment = TRUE] /\ drawn' = drawn /\ received' = TRUE
    BY <1>7, CleanSaveFields DEF RecordPayment
  <2> QED
    BY <1>1, <2>1 DEF Row, Effect, GetsPayment, SameNumber
<1>8. CASE GenerateSucceeds(w)
  <2>1. /\ clean /\ copy[w] = row /\ pc[w] = "generate"
        /\ row' = [row EXCEPT !.status = "validated", !.pdf = "facturx"]
        /\ UNCHANGED <<drawn, received>>
    BY <1>8, CleanSave DEF GenerateSucceeds
  <2>2. /\ row'.status = "validated" /\ row'.number = row.number
        /\ row'.deleted = row.deleted /\ row'.payment = row.payment
    BY <1>1, <2>1 DEF Row
  <2>3. row.status = "processing"
    BY <1>1, <2>1 DEF Knows
  <2> QED
    BY <2>1, <2>2, <2>3, TableFacts DEF Effect, MovesOn, SameNumber, SamePayment
<1>9. CASE GenerateFails(w)
  <2>1. /\ clean /\ copy[w] = row /\ pc[w] = "generate"
        /\ row' = [row EXCEPT !.status = "draft"] /\ UNCHANGED <<drawn, received>>
    BY <1>9, CleanSave DEF GenerateFails
  <2>2. /\ row'.status = "draft" /\ row'.number = row.number
        /\ row'.deleted = row.deleted /\ row'.payment = row.payment
    BY <1>1, <2>1 DEF Row
  <2>3. row.status = "processing"
    BY <1>1, <2>1 DEF Knows
  <2> QED
    BY <2>1, <2>2, <2>3, TableFacts DEF Effect, MovesOn, SameNumber, SamePayment
<1>10. CASE AfterGenerationFails(w)
  <2>1. /\ clean /\ copy[w] = row /\ "post_save" \in Faults
        /\ row' = [row EXCEPT !.status = "draft"] /\ UNCHANGED <<drawn, received>>
    BY <1>10, CleanSave DEF AfterGenerationFails
  <2> QED
    BY <1>1, <2>1 DEF Row, Effect, IsTakenBack, SameNumber, SamePayment
<1> QED
  BY <1>2, <1>3, <1>4, <1>5, <1>6, <1>7, <1>8, <1>9, <1>10
  DEF IssuanceRequest, IssuanceTask, Generate

LEMMA EreportingEffect ==
  ASSUME LifecycleTypeInv, clean', NEW w \in Workers, EreportingTask(w)
  PROVE  clean /\ Effect
<1>1. CASE TakeEreporting(w) \/ RetryEreporting(w)
  BY <1>1, Untouched DEF TakeEreporting, RetryEreporting, Take, Drop, Send
<1>2. CASE Ereport(w)
  <2>1. PICK s : SaveEreporting(w, s) /\ UNCHANGED <<drawn, received>>
    BY <1>2 DEF Ereport, EreportingSucceeds, EreportingRefused, EreportingUnavailable
  <2>2. clean /\ row' = [row EXCEPT !.ereporting = s] /\ row \in Row
    BY <2>1, TypedParts DEF SaveEreporting, SaveFields
  <2> QED
    BY <2>1, <2>2 DEF Row, Effect, StaysAsItIs, SameNumber, SamePayment
<1> QED
  BY <1>1, <1>2 DEF EreportingTask

LEMMA PaymentEffect ==
  ASSUME LifecycleTypeInv, NEW w \in Workers, clean', Save(w, PaidCopy(copy[w])),
         received' = TRUE, drawn' = drawn, CanTransition(copy[w].status, "paid")
  PROVE  clean /\ Effect
<1>1. clean /\ copy[w] = row /\ row' = PaidCopy(row) /\ row \in Row
  BY CleanSave, TypedParts
<1>2. /\ row'.status = "paid" /\ row'.payment = TRUE
      /\ row'.number = row.number /\ row'.deleted = row.deleted
  BY <1>1 DEF Row, PaidCopy
<1> QED
  BY <1>1, <1>2 DEF Effect, IsPaid, SameNumber

LEMMA TransmissionEffect ==
  ASSUME LifecycleTypeInv, KnowsInv, clean', NEW w \in Workers,
         TransmissionRequest(w) \/ TransmissionTask(w)
  PROVE  clean /\ Effect
<1>1. row \in Row /\ copy[w] \in Row /\ Knows(pc[w], copy[w])
  BY TypedParts DEF KnowsInv
<1>2. CASE \/ OpenTransmit(w) \/ OpenMarkPaid(w) \/ OpenOnlinePayment(w) \/ OpenAutoCancel(w)
           \/ SendTransmit(w) \/ SendPaid212(w) \/ TakeTransmit(w) \/ SubmitFlow(w)
  BY <1>2, Untouched
  DEF OpenTransmit, OpenMarkPaid, OpenOnlinePayment, OpenAutoCancel, SendTransmit, SendPaid212,
      TakeTransmit, SubmitFlow, Open, Send, Take, Drop
<1>3. CASE RequestTransmission(w)
  <2>1. CanTransition(copy[w].status, "transmitting")
    BY <1>1, <1>3, TableFacts DEF RequestTransmission, Knows
  <2> QED
    BY <1>3, <2>1, StatusEffect DEF RequestTransmission
<1>4. CASE MarkPaid(w)
  <2>1. CanTransition(copy[w].status, "paid")
    BY <1>1, <1>4 DEF MarkPaid, Knows
  <2> QED
    BY <1>4, <2>1, PaymentEffect DEF MarkPaid
<1>5. CASE SaveFlow(w)
  <2>1. /\ clean /\ row' = [row EXCEPT !.flow = copy[w].flow]
        /\ UNCHANGED <<drawn, received>>
    BY <1>5, CleanSaveFields DEF SaveFlow
  <2> QED
    BY <1>1, <2>1 DEF Row, Effect, StaysAsItIs, SameNumber, SamePayment
<1>6. CASE RevertTransmission(w)
  <2>1. CanTransition(copy[w].status, "validated")
    BY <1>1, <1>6, TableFacts DEF RevertTransmission, Knows
  <2> QED
    BY <1>6, <2>1, StatusEffect DEF RevertTransmission
<1>7. CASE AutoCancel(w)
  <2>1. CanTransition(copy[w].status, "cancelled")
    BY <1>1, <1>7, TableFacts DEF AutoCancel, Knows
  <2> QED
    BY <1>7, <2>1, StatusEffect DEF AutoCancel
<1> QED
  BY <1>2, <1>3, <1>4, <1>5, <1>6, <1>7 DEF TransmissionRequest, TransmissionTask

LEMMA PollEffect ==
  ASSUME LifecycleTypeInv, KnowsInv, clean', NEW w \in Workers,
         Poll(w) \/ PollStep(w) \/ CrashPa(w)
  PROVE  clean /\ Effect
<1>1. row \in Row /\ copy[w] \in Row /\ Knows(pc[w], copy[w])
  BY TypedParts DEF KnowsInv
<1>2. CASE \/ Poll(w) \/ ReadForEvents(w) \/ ReadLogs(w) \/ LogEvent(w) \/ SendAuto212(w)
           \/ PollEnds(w) \/ ReadForFallback(w) \/ CrashPa(w)
  BY <1>2, Untouched
  DEF Poll, ReadForEvents, ReadLogs, LogEvent, SendAuto212, PollEnds, ReadForFallback, CrashPa,
      Crash
<1>3. CASE AutoMarkPaid(w)
  <2>1. CanTransition(copy[w].status, "paid")
    BY <1>1, <1>3 DEF AutoMarkPaid, Knows
  <2> QED
    BY <1>3, <2>1, PaymentEffect DEF AutoMarkPaid
<1>4. CASE ApplyEvent(w)
  <2>1. PICK i \in Due(w) : ApplyEvent(w)!2!(i)
    BY <1>4 DEF ApplyEvent
  <2> DEFINE s == StatusOf[events[i]]
  <2>2. UNCHANGED <<drawn, received>>
    BY <1>4 DEF ApplyEvent
  <2>3. i \in DOMAIN events /\ events[i] \in Codes /\ FlowAccepted
    BY <2>1, PollParts DEF KnowsInv
  <2>4. s \in {"transmitted", "accepted", "refused", "rejected"}
    BY <2>3 DEF StatusOf, Codes
  <2>5. CASE CanTransition(copy[w].status, s)
    <3>1. SaveFields(w, [row EXCEPT !.status = s], {"status"})
      BY <2>1, <2>5
    <3> HIDE DEF s
    <3>2. s \notin {"processing", "paid"}
      BY <2>4
    <3> QED
      BY <2>2, <2>3, <2>5, <3>1, <3>2, StatusEffect
  <2>6. CASE ~CanTransition(copy[w].status, s)
    BY <2>1, <2>2, <2>6, Untouched
  <2> QED
    BY <2>5, <2>6
<1>5. CASE FallbackApply(w)
  <2> DEFINE a == flows[copy[w].flow]
             t == AckStatus(a)
  <2>1. UNCHANGED <<drawn, received>>
    BY <1>5 DEF FallbackApply
  <2>2. CASE a = "pending"
    BY <1>5, <2>1, <2>2, Untouched DEF FallbackApply
  <2>3. CASE a # "pending"
    <3>1. a = "ok" => FlowAccepted
      <4>1. copy[w].flow \in DOMAIN flows
        <5>1. copy[w].flow \in Nat /\ copy[w].flow # 0 /\ copy[w].flow <= Len(flows)
          BY <1>1, <1>5, TypedParts DEF FallbackApply, LifecycleTypeInv, FlowsKnown, Row
        <5>2. DOMAIN flows = 1..Len(flows) /\ Len(flows) \in Nat
          BY PollParts
        <5> QED
          BY <5>1, <5>2
      <4> QED
        BY <4>1 DEF FlowAccepted
    <3>2. [copy[w] EXCEPT !.status = t].status = t
      BY <1>1 DEF Row
    <3>3. SaveFields(w, [row EXCEPT !.status = t], {"status"})
      BY <1>5, <2>3, <3>2 DEF FallbackApply
    <3>4. copy[w].status = "transmitting"
      BY <1>1, <1>5 DEF FallbackApply, Knows
    <3>5. t = "validated" \/ (t = "transmitted" /\ FlowAccepted)
      BY <3>1 DEF AckStatus
    <3> HIDE DEF t
    <3>6. CanTransition(copy[w].status, t)
      BY <3>4, <3>5, TableFacts
    <3>7. t \notin {"processing", "paid"} /\
          (t \in {"transmitted", "accepted", "rejected", "refused"} => FlowAccepted)
      BY <3>5
    <3> QED
      BY <2>1, <3>3, <3>6, <3>7, StatusEffect
  <2> QED
    BY <2>2, <2>3
<1> QED
  BY <1>2, <1>3, <1>4, <1>5 DEF PollStep

LEMMA LifecycleEffect ==
  ASSUME LifecycleTypeInv, KnowsInv, clean', [LifecycleNext]_lifecycleVars
  PROVE  clean /\ Effect
<1>1. CASE UNCHANGED lifecycleVars
  BY <1>1, Untouched DEF lifecycleVars, rowVars
<1>2. CASE ReportPaid \/ CancelInvoice \/ Acknowledge \/ Publish
  BY <1>2, Untouched DEF ReportPaid, CancelInvoice, Acknowledge, Publish, rowVars
<1>3. CASE RequestPreview
  BY <1>3, Untouched DEF RequestPreview
<1> QED
  BY <1>1, <1>2, <1>3, IssuanceEffect, EreportingEffect, TransmissionEffect, PollEffect
  DEF LifecycleNext, TransmissionNext, TransmissionStep

LEMMA LifecycleInvHolds == LifecycleSpec => [](LifecycleTypeInv /\ KnowsInv)
<1>1. LifecycleInit => KnowsInv
  <2> SUFFICES ASSUME LifecycleInit PROVE KnowsInv
    OBVIOUS
  <2>1. \A w \in Workers : pc[w] = "idle"
    BY DEF LifecycleInit, RowInit
  <2>2. events = <<>>
    BY DEF LifecycleInit, PaInit
  <2> QED
    BY <2>1, <2>2 DEF KnowsInv, Knows
<1> QED
  BY <1>1, LifecycleInitTyped, LifecycleStepTyped, KnowsStep, PTL DEF LifecycleSpec

----------------------------------------------------------------------------
(* The refinement.                                                         *)

\* An effect moves the status along the table, or leaves it.
LEMMA EffectFollowsTable ==
  ASSUME LifecycleTypeInv, "post_save" \notin Faults, Effect
  PROVE  row'.status = row.status \/ row'.status \in Transitions[row.status]
<1>1. "processing" \in Transitions["draft"]
  BY DEF Transitions
<1> QED
  BY <1>1
  DEF Effect, StaysAsItIs, IsDeleted, GetsPayment, IsNumbered, MovesOn, IsPaid, IsTakenBack,
      CanTransition

LEMMA LifecycleStepRefines ==
  ASSUME LifecycleTypeInv, KnowsInv, "post_save" \notin Faults,
         [LifecycleNext]_lifecycleVars
  PROVE  [Lifecycle!Next]_(IF clean THEN row.status ELSE "lost")
<1> DEFINE shown == IF clean THEN row.status ELSE "lost"
<1>1. row \in Row /\ row.status \in Status
  BY TypedParts DEF Row
<1>2. CASE clean'
  <2>1. clean /\ Effect
    BY <1>2, LifecycleEffect
  <2>2. shown = row.status /\ shown' = row'.status
    BY <1>2, <2>1
  <2>3. shown' = shown \/ shown' \in Transitions[shown]
    BY <2>1, <2>2, EffectFollowsTable
  <2>4. shown \in Lifecycle!Status /\ (shown' = shown \/ shown' \in Lifecycle!Transitions[shown])
    BY <1>1, <2>2, <2>3 DEF Lifecycle!Status, Lifecycle!Transitions, Status, Transitions
  <2>5. CASE shown' = shown
    BY <2>5
  <2>6. CASE shown' \in Lifecycle!Transitions[shown]
    <3>1. Lifecycle!Move
      BY <2>4, <2>6 DEF Lifecycle!Move
    <3> QED
      BY <3>1 DEF Lifecycle!Next
  <2> QED
    BY <2>4, <2>5, <2>6
<1>3. CASE ~clean'
  BY <1>3 DEF Lifecycle!Next, Lifecycle!LoseUpdate
<1> QED
  BY <1>2, <1>3

\* The whole life of an invoice implements StatusLifecycle: whatever handlers, crashes,
\* refusals, lost answers and polls interleave, the status leaves the table of
\* state_machine.py only by a save made from a stale copy. An error after the save of
\* "validated" is left out: its handler saves a draft over it (_handle_factpulse_error).
THEOREM LifecycleIsImplemented ==
  ASSUME "post_save" \notin Faults
  PROVE  LifecycleSpec => ImplementsLifecycle
<1>1. LifecycleInit => Lifecycle!Init
  BY DEF LifecycleInit, RowInit, NewRow, Lifecycle!Init
<1>2. LifecycleTypeInv /\ KnowsInv /\ [LifecycleNext]_lifecycleVars
        => [Lifecycle!Next]_(IF clean THEN row.status ELSE "lost")
  BY LifecycleStepRefines
<1> QED
  BY <1>1, <1>2, LifecycleInvHolds, PTL DEF LifecycleSpec, ImplementsLifecycle, Lifecycle!Spec

----------------------------------------------------------------------------
(* Consistency.                                                            *)

LEMMA ConsistentStep ==
  ASSUME LifecycleTypeInv, KnowsInv, "ui" \notin Handlers, Consistent,
         [LifecycleNext]_lifecycleVars
  PROVE  Consistent'
<1> SUFFICES ASSUME clean' PROVE Consistent'
  BY DEF Consistent
<1>1. clean /\ Effect /\ (FlowAccepted => FlowAccepted')
  BY LifecycleEffect, LifecyclePaGrows
<1>2. /\ row \in Row /\ row.status \in Status /\ row.number \in Nat /\ drawn \in Nat
      /\ row.payment \in BOOLEAN /\ row.deleted \in BOOLEAN
  BY TypedParts DEF Row
<1>3. /\ row.status # "draft" => row.number # 0
      /\ drawn = row.number
      /\ received => row.payment
      /\ row.status = "paid" => received
      /\ row.deleted => row.status = "draft"
      /\ row.status \in {"transmitted", "accepted", "rejected", "refused"} => FlowAccepted
  BY <1>1 DEF Consistent, FlowAccepted
<1>4. SUFFICES
        /\ row'.status # "draft" => row'.number # 0
        /\ drawn' = row'.number
        /\ received' => row'.payment
        /\ row'.status = "paid" => received'
        /\ row'.deleted => row'.status = "draft"
        /\ row'.status \in {"transmitted", "accepted", "rejected", "refused"} => FlowAccepted'
  BY DEF Consistent, FlowAccepted
<1>5. CASE StaysAsItIs
  BY <1>1, <1>3, <1>5 DEF StaysAsItIs, SameNumber, SamePayment
<1>6. CASE IsDeleted
  BY <1>3, <1>6 DEF IsDeleted, SamePayment
<1>7. CASE GetsPayment
  BY <1>1, <1>3, <1>7 DEF GetsPayment, SameNumber
<1>8. CASE IsNumbered
  <2>1. /\ row'.status = "processing" /\ ~row.deleted /\ row'.deleted = row.deleted
        /\ row'.number = NumberFor(row) /\ SamePayment
        /\ drawn' = IF row.number = 0 THEN drawn + 1 ELSE drawn
    BY <1>8 DEF IsNumbered
  <2>2. drawn' = row'.number /\ row'.number # 0
    BY <1>2, <1>3, <2>1 DEF NumberFor
  <2> QED
    BY <1>3, <2>1, <2>2 DEF SamePayment
<1>9. CASE MovesOn
  <2>1. row.status # "draft"
    BY <1>9, TableFacts DEF MovesOn
  <2> QED
    BY <1>1, <1>3, <1>9, <2>1 DEF MovesOn, SameNumber, SamePayment
<1>10. CASE IsPaid
  <2>1. row.status # "draft"
    BY <1>2, <1>10, TableFacts DEF IsPaid
  <2> QED
    BY <1>3, <1>10, <2>1 DEF IsPaid, SameNumber
<1>11. CASE IsTakenBack
  BY <1>1, <1>3, <1>11 DEF IsTakenBack, SameNumber, SamePayment
<1> QED
  BY <1>1, <1>5, <1>6, <1>7, <1>8, <1>9, <1>10, <1>11 DEF Effect

\* Until a save is made from a stale copy, the invoice holds the one number it drew, its
\* payment and its submission, and a deleted one stays a draft, whatever interleaves and
\* fails. The portal's access to deleted rows ("ui") is left out: it can validate one.
THEOREM LifecycleIsConsistent ==
  ASSUME "ui" \notin Handlers
  PROVE  LifecycleSpec => []Consistent
<1>1. LifecycleInit => Consistent
  BY DEF LifecycleInit, RowInit, NewRow, Consistent
<1>2. LifecycleTypeInv /\ KnowsInv /\ Consistent /\ [LifecycleNext]_lifecycleVars
        => Consistent'
  BY ConsistentStep
<1> QED
  BY <1>1, <1>2, LifecycleInvHolds, PTL DEF LifecycleSpec

----------------------------------------------------------------------------
(* Numbers and deletions.  When the requests on an invoice do not overlap  *)
(* and drafts are not rendered, the number that was drawn stays, whatever  *)
(* fails and whatever else interleaves: every object that will be saved    *)
(* whole has it.                                                           *)

SerialRequests == Serialised /\ "preview" \notin Handlers

Alike(c, r) == c.number = r.number /\ c.deleted = r.deleted

\* The labels of those who will save the whole object, and of those who work on an
\* invoice that has its number.
WholeSavers ==
  {"edit", "validate", "generate", "generated", "signal", "mark_paid", "online_payment",
   "dedup", "event", "apply", "auto_paid", "send_auto212", "flow_check"}

NumberedLabels ==
  (WholeSavers \ {"edit", "validate"}) \union {"transmit", "submit", "submit_failed", "auto_cancel"}

\* A number is there before the invoice leaves draft, and rules its deletion out: only the
\* portal's routes could number a deleted draft.
Counted(r) ==
  /\ r.status # "draft" => r.number # 0
  /\ "ui" \notin Handlers /\ r.deleted => r.number = 0

\* What holds for a worker at label l with object c while the row is r.
NumberKept(l, c, r) ==
  /\ l # "preview"
  /\ l = "edit" => c.status = "draft"
  /\ l \in WholeSavers => c.number = r.number
  /\ l \in NumberedLabels => r.number # 0
  /\ "ui" \notin Handlers =>
       /\ c.deleted => c.number = 0
       /\ l = "delete" => r.number = 0
       /\ l = "validate" => ~c.deleted /\ ~r.deleted

NumberInv ==
  /\ drawn = row.number
  /\ Counted(row)
  /\ queue["preview"] = 0
  /\ \A v, w \in Workers : pc[v] \in DraftLabels /\ pc[w] \in DraftLabels => v = w
  /\ \A w \in Workers : NumberKept(pc[w], copy[w], row)

LEMMA NumberedApart ==
  /\ DraftLabels \cap NumberedLabels = {}
  /\ WholeSavers \subseteq NumberedLabels \union {"edit", "validate"}
  /\ DraftLabels = {"edit", "delete", "validate"}
  /\ "preview" \notin NumberedLabels \union DraftLabels
BY DEF DraftLabels, NumberedLabels, WholeSavers

\* The others see the number they hold; only a draft request changes it.
LEMMA OthersKeepNumber ==
  ASSUME NEW l, NEW c, NEW r, NEW s, NumberKept(l, c, r),
         r.number # 0 => s.number = r.number,
         l \in DraftLabels => s.number = r.number /\ ("ui" \notin Handlers /\ s.deleted => r.deleted)
  PROVE  NumberKept(l, c, s)
BY NumberedApart DEF NumberKept

\* The frame of a step of one worker.
LEMMA NumberStep ==
  ASSUME LifecycleTypeInv, NumberInv, NEW w \in Workers, NEW l, NEW c, Stepped(w, l, c),
         drawn' = row'.number, Counted(row)', queue'["preview"] = 0,
         row.number # 0 => row'.number = row.number,
         pc[w] \notin DraftLabels =>
           row'.number = row.number /\ ("ui" \notin Handlers /\ row'.deleted => row.deleted),
         l \in DraftLabels => \A v \in Workers : pc[v] \notin DraftLabels,
         NumberKept(l, c, row')
  PROVE  NumberInv'
<1>1. /\ pc'[w] = l /\ copy'[w] = c
      /\ \A v \in Workers : v # w => pc'[v] = pc[v] /\ copy'[v] = copy[v]
  BY TypedParts DEF Stepped
<1>2. \A v, u \in Workers : pc'[v] \in DraftLabels /\ pc'[u] \in DraftLabels => v = u
  BY <1>1 DEF NumberInv
<1>3. ASSUME NEW v \in Workers PROVE NumberKept(pc'[v], copy'[v], row')
  <2>1. CASE v = w
    BY <1>1, <2>1
  <2>2. CASE v # w
    <3>1. pc[v] \in DraftLabels => pc[w] \notin DraftLabels
      BY <2>2 DEF NumberInv
    <3>2. NumberKept(pc[v], copy[v], row')
      BY <3>1, OthersKeepNumber DEF NumberInv
    <3> QED
      BY <1>1, <2>2, <3>2
  <2> QED
    BY <2>1, <2>2
<1> QED
  BY <1>2, <1>3 DEF NumberInv

\* A step that leaves the number and the deletion where they are.
LEMMA NumberStays ==
  ASSUME LifecycleTypeInv, NumberInv, NEW w \in Workers, NEW l, NEW c, Stepped(w, l, c),
         l \notin DraftLabels, drawn' = drawn, queue'["preview"] = 0,
         Alike(row', row), row'.status # "draft" => row.number # 0,
         NumberKept(l, c, row)
  PROVE  NumberInv'
<1>1. Counted(row)' /\ drawn' = row'.number
  BY DEF NumberInv, Counted, Alike
<1>2. NumberKept(l, c, row')
  BY OthersKeepNumber DEF Alike
<1> QED
  BY <1>1, <1>2, NumberStep DEF Alike

\* A worker that goes on with its object, or with none.
LEMMA GoesOnNumbered ==
  ASSUME NEW k, NEW b, NEW l, NEW c, NEW r, NumberKept(k, b, r), Alike(c, b),
         l \notin DraftLabels \union {"preview"},
         l \in WholeSavers => k \in WholeSavers, l \in NumberedLabels => k \in NumberedLabels
  PROVE  NumberKept(l, c, r)
BY NumberedApart DEF NumberKept, Alike

LEMMA ForgetsNumber ==
  ASSUME NEW r, NEW l, l \notin NumberedLabels \union DraftLabels \union {"preview"}
  PROVE  NumberKept(l, Forgotten, r)
<1>1. l \notin WholeSavers
  BY NumberedApart
<1> QED
  BY <1>1, NumberedApart DEF NumberKept, Forgotten, NewRow

\* A worker that is let in to an invoice with a number.
LEMMA ReadsNumber ==
  ASSUME NumberInv, NEW l, l \notin DraftLabels \union {"preview"},
         l \in NumberedLabels => row.status # "draft"
  PROVE  NumberKept(l, row, row)
BY NumberedApart DEF NumberInv, NumberKept, Counted

\* Whoever saves the whole object of an invoice with a number saves what the row has.
LEMMA SaversKeepNumber ==
  ASSUME LifecycleTypeInv, NumberInv, NEW w \in Workers, NEW l, NEW c, Stepped(w, l, c),
         pc[w] \in WholeSavers \ {"edit", "validate"}, l \notin DraftLabels \union {"preview"},
         drawn' = drawn, queue'["preview"] = 0, Alike(row', copy[w]),
         Alike(c, copy[w]) \/ (c = Forgotten /\ l \notin NumberedLabels)
  PROVE  NumberInv'
<1>1. pc[w] \in NumberedLabels \cap WholeSavers /\ pc[w] \notin DraftLabels
  BY NumberedApart DEF NumberedLabels
<1>2. /\ copy[w].number = row.number /\ row.number # 0
      /\ "ui" \notin Handlers => ~copy[w].deleted
  BY <1>1 DEF NumberInv, NumberKept
<1>3. Counted(row)' /\ drawn' = row'.number
  BY <1>2 DEF Counted, NumberInv, Alike
<1>4. NumberKept(l, c, row)
  BY <1>1, GoesOnNumbered, ForgetsNumber DEF NumberInv
<1>5. NumberKept(l, c, row')
  BY <1>2, <1>4, OthersKeepNumber DEF Alike
<1> QED
  BY <1>1, <1>2, <1>3, <1>5, NumberStep DEF Alike

\* A step of nobody.
LEMMA NobodyNumbers ==
  ASSUME NumberInv, UNCHANGED <<row, pc, copy, drawn>>, queue'["preview"] = 0
  PROVE  NumberInv'
BY DEF NumberInv

\* The messages that are sent and taken.
LEMMA NoPreviewQueued ==
  ASSUME LifecycleTypeInv, NumberInv
  PROVE  /\ \A t \in Tasks \ {"preview"} : [queue EXCEPT ![t] = @ + 1]["preview"] = 0
         /\ \A t \in Tasks : queue[t] > 0 => [queue EXCEPT ![t] = @ - 1]["preview"] = 0
         /\ WithEreporting["preview"] = 0
BY TypedParts DEF NumberInv, Tasks, WithEreporting

LEMMA TakeNumbered ==
  ASSUME LifecycleTypeInv, NumberInv, NEW w \in Workers, NEW t \in Tasks, NEW l,
         l \notin DraftLabels \union {"preview"},
         Drop(t) \/ (Take(w, t, l) /\ (l \in NumberedLabels => row.status # "draft"))
  PROVE  NumberInv'
<1>1. queue'["preview"] = 0
  BY NoPreviewQueued DEF Drop, Take
<1>2. CASE Drop(t)
  BY <1>1, <1>2, NobodyNumbers DEF Drop
<1>3. CASE Take(w, t, l) /\ (l \in NumberedLabels => row.status # "draft")
  <2>1. Stepped(w, l, row) /\ UNCHANGED <<row, drawn>>
    BY <1>3 DEF Take, Read, Stepped
  <2>2. NumberKept(l, row, row) /\ (row.status # "draft" => row.number # 0)
    BY <1>3, ReadsNumber DEF NumberInv, Counted
  <2> QED
    BY <1>1, <2>1, <2>2, NumberStays DEF Alike
<1> QED
  BY <1>2, <1>3

LEMMA SendNumbered ==
  ASSUME LifecycleTypeInv, NumberInv, NEW w \in Workers, NEW t \in Tasks \ {"preview"}, NEW l,
         Send(w, l, t)
  PROVE  NumberInv'
<1>1. Stepped(w, "idle", Forgotten) /\ UNCHANGED <<row, drawn>> /\ queue'["preview"] = 0
  BY NoPreviewQueued DEF Send, Finish, Stepped
<1>2. "idle" \notin NumberedLabels \union DraftLabels \union {"preview"}
  BY DEF NumberedLabels, WholeSavers, DraftLabels
<1>3. NumberKept("idle", Forgotten, row) /\ (row.status # "draft" => row.number # 0)
  BY <1>2, ForgetsNumber DEF NumberInv, Counted
<1> QED
  BY <1>1, <1>2, <1>3, NumberStays DEF Alike

LEMMA OpenDraftNumbered ==
  ASSUME Serialised, LifecycleTypeInv, NumberInv, NEW w \in Workers, NEW l \in DraftLabels,
         Open(w, l), row.status = "draft", l = "delete" => row.number = 0
  PROVE  NumberInv'
<1>1. /\ Stepped(w, l, row) /\ UNCHANGED <<row, queue, drawn>>
      /\ \A v \in Workers : pc[v] \notin DraftLabels
  BY DEF Open, Read, Stepped, DraftLabels, RequestLabels
<1>2. "ui" \notin Handlers => ~row.deleted
  BY DEF Open, Reachable
<1>3. NumberKept(l, row, row')
  BY <1>1, <1>2, NumberedApart DEF NumberKept
<1>4. Counted(row)' /\ drawn' = row'.number /\ queue'["preview"] = 0
  BY <1>1 DEF NumberInv, Counted
<1> QED
  BY <1>1, <1>3, <1>4, NumberStep

LEMMA IssuanceRequestNumbered ==
  ASSUME SerialRequests, LifecycleTypeInv, KnowsInv, NumberInv, NEW w \in Workers,
         IssuanceRequest(w)
  PROVE  NumberInv'
<1>1. /\ row \in Row /\ copy[w] \in Row /\ drawn \in Nat
      /\ queue["preview"] = 0 /\ drawn = row.number /\ Counted(row)
      /\ NumberKept(pc[w], copy[w], row)
  BY TypedParts DEF NumberInv
<1>2. ASSUME NEW l, l \notin NumberedLabels \union DraftLabels \union {"preview"}
      PROVE  NumberKept(l, Forgotten, row')
  BY <1>2, ForgetsNumber
<1>3. "idle" \notin NumberedLabels \union DraftLabels \union {"preview"}
      /\ "send_generate" \notin NumberedLabels \union DraftLabels \union {"preview"}
      /\ "record_payment" \notin NumberedLabels \union DraftLabels \union {"preview"}
  BY DEF NumberedLabels, WholeSavers, DraftLabels
<1>4. CASE OpenEdit(w) \/ OpenDelete(w) \/ OpenValidate(w)
  <2>1. row.status = "draft"
    BY <1>1, <1>4, TableFacts DEF OpenEdit, OpenDelete, OpenValidate, IsEditable, IsDeletable, Row
  <2> QED
    BY <1>4, <2>1, OpenDraftNumbered
    DEF OpenEdit, OpenDelete, OpenValidate, IsDeletable, DraftLabels, SerialRequests
<1>5. CASE UpdateInvoice(w)
  <2>1. /\ pc[w] = "edit" /\ Stepped(w, "idle", Forgotten) /\ row' = Edited(copy[w])
        /\ UNCHANGED <<queue, drawn>>
    BY <1>5 DEF UpdateInvoice, Save, Finish, Stepped
  <2>2. Alike(row', copy[w]) /\ row'.status = copy[w].status
    BY <1>1, <2>1 DEF Edited, Row, Alike
  <2>3. copy[w].number = row.number /\ copy[w].status = "draft"
    BY <1>1, <2>1 DEF NumberKept, WholeSavers
  <2>4. Counted(row)' /\ drawn' = row'.number
    BY <1>1, <2>1, <2>2, <2>3 DEF Counted, NumberKept, Alike
  <2> QED
    BY <1>1, <1>2, <1>3, <2>1, <2>2, <2>3, <2>4, NumberStep DEF Alike, DraftLabels
<1>6. CASE SoftDelete(w)
  <2>1. /\ pc[w] = "delete" /\ Stepped(w, "idle", Forgotten) /\ UNCHANGED <<queue, drawn>>
        /\ row' = [row EXCEPT !.deleted = TRUE]
    BY <1>6 DEF SoftDelete, SaveFields, Finish, Stepped
  <2>2. row'.number = row.number /\ row'.status = row.status
    BY <1>1, <2>1 DEF Row
  <2>3. Counted(row)' /\ drawn' = row'.number
    BY <1>1, <2>1, <2>2 DEF Counted, NumberKept
  <2> QED
    BY <1>1, <1>2, <1>3, <2>1, <2>2, <2>3, NumberStep DEF DraftLabels
<1>7. CASE ValidateInvoice(w)
  <2>1. /\ pc[w] = "validate" /\ Stepped(w, "send_generate", Forgotten) /\ UNCHANGED queue
        /\ drawn' = IF copy[w].number = 0 THEN drawn + 1 ELSE drawn
    BY <1>7 DEF ValidateInvoice, SendNext, Stepped
  <2>2. row'.number = NumberFor(copy[w]) /\ row'.deleted = copy[w].deleted
    BY <1>1, <1>7 DEF ValidateInvoice, Save, Row
  <2>3. /\ copy[w].number = row.number
        /\ "ui" \notin Handlers => ~copy[w].deleted
    BY <1>1, <2>1 DEF NumberKept, WholeSavers
  <2>4. row'.number # 0 /\ drawn' = row'.number /\ (row.number # 0 => row'.number = row.number)
    BY <1>1, <2>1, <2>2, <2>3 DEF NumberFor
  <2>5. Counted(row)'
    BY <2>2, <2>3, <2>4 DEF Counted
  <2> QED
    BY <1>1, <1>2, <1>3, <2>1, <2>4, <2>5, NumberStep DEF DraftLabels
<1>8. CASE SendGenerate(w)
  BY <1>8, SendNumbered DEF SendGenerate, Tasks
<1>9. CASE OpenRecordPayment(w)
  <2>1. Stepped(w, "record_payment", row) /\ UNCHANGED <<row, queue, drawn>>
    BY <1>9 DEF OpenRecordPayment, Read, Stepped
  <2>2. NumberKept("record_payment", row, row)
    BY <1>3, ReadsNumber
  <2> QED
    BY <1>1, <1>3, <2>1, <2>2, NumberStays DEF Alike, Counted
<1>10. CASE RecordPayment(w)
  <2>1. /\ Stepped(w, "idle", Forgotten) /\ UNCHANGED <<queue, drawn>>
        /\ row' = [row EXCEPT !.payment = TRUE]
    BY <1>10 DEF RecordPayment, SaveFields, Finish, Stepped
  <2>2. Alike(row', row) /\ row'.status = row.status
    BY <1>1, <2>1 DEF Row, Alike
  <2>3. NumberKept("idle", Forgotten, row)
    BY <1>3, ForgetsNumber
  <2> QED
    BY <1>1, <1>3, <2>1, <2>2, <2>3, NumberStays DEF Counted
<1> QED
  BY <1>4, <1>5, <1>6, <1>7, <1>8, <1>9, <1>10 DEF IssuanceRequest

\* Whatever fails after "validated" was saved: the invoice goes back to draft with its
\* number.
LEMMA IssuanceTaskNumbered ==
  ASSUME LifecycleTypeInv, NumberInv, NEW w \in Workers, IssuanceTask(w)
  PROVE  NumberInv'
<1>1. row \in Row /\ copy[w] \in Row /\ queue["preview"] = 0 /\ copy = [copy EXCEPT ![w] = copy[w]]
  BY TypedParts DEF NumberInv
<1>2. "idle" \notin NumberedLabels \union DraftLabels \union {"preview"}
      /\ "generate" \notin DraftLabels \union {"preview"}
      /\ "generated" \notin DraftLabels \union {"preview"}
      /\ "signal" \notin DraftLabels \union {"preview"}
      /\ {"generate", "generated", "signal"} \subseteq WholeSavers \ {"edit", "validate"}
  BY DEF NumberedLabels, WholeSavers, DraftLabels
<1>3. ~TakePreview(w) /\ ~GenerateSourcePdf(w)
  BY <1>1 DEF TakePreview, Take, GenerateSourcePdf, NumberInv, NumberKept
<1>4. CASE TakeGenerate(w)
  BY <1>2, <1>4, TakeNumbered DEF TakeGenerate, Tasks
<1>5. CASE GenerateSucceeds(w)
  <2> DEFINE r == [copy[w] EXCEPT !.status = "validated", !.pdf = "facturx"]
  <2>1. /\ pc[w] = "generate" /\ Stepped(w, "generated", r) /\ row' = r
        /\ UNCHANGED <<queue, drawn>>
    BY <1>5 DEF GenerateSucceeds, Save, Stepped
  <2>2. Alike(r, copy[w])
    BY <1>1 DEF Row, Alike
  <2> HIDE DEF r
  <2> QED
    BY <1>1, <1>2, <2>1, <2>2, SaversKeepNumber
<1>6. CASE GenerateFails(w) \/ AfterGenerationFails(w)
  <2>1. /\ pc[w] \in {"generate", "generated", "signal"} /\ Stepped(w, "idle", Forgotten)
        /\ row' = [copy[w] EXCEPT !.status = "draft"] /\ UNCHANGED <<queue, drawn>>
    BY <1>6 DEF GenerateFails, AfterGenerationFails, Save, Finish, Stepped
  <2>2. Alike(row', copy[w])
    BY <1>1, <2>1 DEF Row, Alike
  <2> QED
    BY <1>1, <1>2, <2>1, <2>2, SaversKeepNumber
<1>7. CASE AfterGeneration(w) \/ SendEreporting(w)
  <2>1. /\ pc[w] = "generated" /\ UNCHANGED <<row, drawn>> /\ queue' = WithEreporting
        /\ Stepped(w, "idle", Forgotten) \/ Stepped(w, "signal", copy[w])
    BY <1>1, <1>7 DEF AfterGeneration, SendEreporting, Finish, Stepped
  <2>2. queue'["preview"] = 0 /\ (row.status # "draft" => row.number # 0)
    BY <2>1, NoPreviewQueued DEF NumberInv, Counted
  <2>3. NumberKept("idle", Forgotten, row)
    BY <1>2, ForgetsNumber
  <2>4. NumberKept("signal", copy[w], row)
    BY <1>2, <2>1, GoesOnNumbered DEF NumberInv, NumberedLabels, Alike
  <2> QED
    BY <1>2, <2>1, <2>2, <2>3, <2>4, NumberStays DEF Alike
<1> QED
  BY <1>3, <1>4, <1>5, <1>6, <1>7 DEF IssuanceTask, Generate

LEMMA EreportingNumbered ==
  ASSUME LifecycleTypeInv, NumberInv, NEW w \in Workers, EreportingTask(w)
  PROVE  NumberInv'
<1>1. /\ row \in Row /\ queue["preview"] = 0 /\ (row.status # "draft" => row.number # 0)
      /\ {"idle", "ereport", "send_ereport"} \cap (NumberedLabels \union DraftLabels \union {"preview"}) = {}
  BY TypedParts DEF NumberInv, Counted, NumberedLabels, WholeSavers, DraftLabels
<1>2. CASE TakeEreporting(w)
  BY <1>1, <1>2, TakeNumbered DEF TakeEreporting, Tasks
<1>3. CASE Ereport(w)
  <2>1. PICK s : SaveEreporting(w, s) /\ UNCHANGED <<queue, drawn>>
    BY <1>3 DEF Ereport, EreportingSucceeds, EreportingRefused, EreportingUnavailable
  <2>2. PICK l \in {"idle", "send_ereport"} : Stepped(w, l, Forgotten)
    BY <1>3 DEF Ereport, EreportingSucceeds, EreportingRefused, EreportingUnavailable, Finish,
                SendNext, Stepped
  <2>3. Alike(row', row) /\ row'.status = row.status
    BY <1>1, <2>1 DEF SaveEreporting, SaveFields, Row, Alike
  <2>4. NumberKept(l, Forgotten, row)
    BY <1>1, ForgetsNumber
  <2> QED
    BY <1>1, <2>1, <2>2, <2>3, <2>4, NumberStays
<1>4. CASE RetryEreporting(w)
  BY <1>4, SendNumbered DEF RetryEreporting, Tasks
<1> QED
  BY <1>2, <1>3, <1>4 DEF EreportingTask

LEMMA TransmissionRequestNumbered ==
  ASSUME LifecycleTypeInv, NumberInv, NEW w \in Workers, TransmissionRequest(w)
  PROVE  NumberInv'
<1>1. /\ row \in Row /\ copy[w] \in Row /\ queue["preview"] = 0
      /\ row.status # "draft" => row.number # 0
  BY TypedParts DEF NumberInv, Counted
<1>2. /\ {"send_transmit", "send_paid212"} \cap (NumberedLabels \union DraftLabels \union {"preview"}) = {}
      /\ {"transmit", "mark_paid", "online_payment"} \cap (DraftLabels \union {"preview"}) = {}
      /\ {"mark_paid", "online_payment"} \subseteq WholeSavers \ {"edit", "validate"}
      /\ "transmit" \in NumberedLabels
  BY DEF NumberedLabels, WholeSavers, DraftLabels
<1>3. CASE OpenTransmit(w) \/ OpenMarkPaid(w) \/ OpenOnlinePayment(w)
  <2>1. PICK l \in {"transmit", "mark_paid", "online_payment"} :
          Stepped(w, l, row) /\ UNCHANGED <<row, queue, drawn>>
    BY <1>3 DEF OpenTransmit, OpenMarkPaid, OpenOnlinePayment, Open, Read, Stepped
  <2>2. row.status # "draft"
    BY <1>1, <1>3, TableFacts DEF OpenTransmit, OpenMarkPaid, OpenOnlinePayment, Row
  <2>3. NumberKept(l, row, row)
    BY <1>2, <2>2, ReadsNumber
  <2> QED
    BY <1>1, <1>2, <2>1, <2>3, NumberStays DEF Alike
<1>4. CASE RequestTransmission(w)
  <2>1. /\ pc[w] = "transmit" /\ Stepped(w, "send_transmit", Forgotten)
        /\ row' = [row EXCEPT !.status = "transmitting"] /\ UNCHANGED <<queue, drawn>>
    BY <1>4 DEF RequestTransmission, SaveFields, SendNext, Stepped
  <2>2. row.number # 0 /\ Alike(row', row)
    BY <1>1, <1>2, <2>1 DEF NumberInv, NumberKept, Row, Alike
  <2>3. NumberKept("send_transmit", Forgotten, row)
    BY <1>2, ForgetsNumber
  <2> QED
    BY <1>1, <1>2, <2>1, <2>2, <2>3, NumberStays
<1>5. CASE MarkPaid(w)
  <2>1. /\ pc[w] \in {"mark_paid", "online_payment"} /\ Stepped(w, "send_paid212", Forgotten)
        /\ row' = PaidCopy(copy[w]) /\ UNCHANGED <<queue, drawn>>
    BY <1>5 DEF MarkPaid, Save, SendNext, Stepped
  <2>2. Alike(row', copy[w])
    BY <1>1, <2>1 DEF PaidCopy, Row, Alike
  <2> QED
    BY <1>1, <1>2, <2>1, <2>2, SaversKeepNumber
<1>6. CASE SendTransmit(w) \/ SendPaid212(w)
  BY <1>6, SendNumbered DEF SendTransmit, SendPaid212, Tasks
<1> QED
  BY <1>3, <1>4, <1>5, <1>6 DEF TransmissionRequest

LEMMA TransmissionTaskNumbered ==
  ASSUME LifecycleTypeInv, NumberInv, NEW w \in Workers, TransmissionTask(w)
  PROVE  NumberInv'
<1>1. /\ row \in Row /\ copy[w] \in Row /\ queue["preview"] = 0
      /\ copy \in [Workers -> Row] /\ copy = [copy EXCEPT ![w] = copy[w]]
      /\ row.status # "draft" => row.number # 0
      /\ NumberKept(pc[w], copy[w], row)
  BY TypedParts DEF NumberInv, Counted
<1>2. /\ "idle" \notin NumberedLabels \union DraftLabels \union {"preview"}
      /\ {"submit", "submitted", "submit_failed", "auto_cancel"}
           \cap (WholeSavers \union DraftLabels \union {"preview"}) = {}
      /\ {"submit", "submit_failed", "auto_cancel"} \subseteq NumberedLabels
  BY DEF NumberedLabels, WholeSavers, DraftLabels
<1>3. CASE TakeTransmit(w)
  BY <1>2, <1>3, TakeNumbered DEF TakeTransmit, Tasks
<1>4. CASE SubmitFlow(w)
  <2>1. pc[w] = "submit" /\ UNCHANGED <<row, queue, drawn>>
    BY <1>4 DEF SubmitFlow
  <2>2. PICK l \in {"submitted", "submit_failed"},
             c \in {copy[w]} \union {[copy[w] EXCEPT !.flow = f] : f \in FlowIds} :
          Stepped(w, l, c)
    BY <1>1, <1>4 DEF SubmitFlow, Stepped
  <2>3. Alike(c, copy[w])
    BY <1>1, <2>2 DEF Row, Alike
  <2>4. NumberKept(l, c, row)
    BY <1>1, <1>2, <2>1, <2>2, <2>3, GoesOnNumbered
  <2> QED
    BY <1>1, <1>2, <2>1, <2>2, <2>4, NumberStays DEF Alike
<1>5. CASE SaveFlow(w) \/ RevertTransmission(w) \/ AutoCancel(w)
  <2>1. Stepped(w, "idle", Forgotten) /\ UNCHANGED <<queue, drawn>>
    BY <1>5 DEF SaveFlow, RevertTransmission, AutoCancel, Finish, Stepped
  <2>2. \/ row' = [row EXCEPT !.flow = copy[w].flow]
        \/ /\ pc[w] \in {"submit_failed", "auto_cancel"}
           /\ row' = [row EXCEPT !.status = "validated"] \/ row' = [row EXCEPT !.status = "cancelled"]
    BY <1>5 DEF SaveFlow, RevertTransmission, AutoCancel, SaveFields
  <2>3. Alike(row', row) /\ (row'.status = row.status \/ row.number # 0)
    BY <1>1, <1>2, <2>2 DEF Row, Alike, NumberKept
  <2>4. NumberKept("idle", Forgotten, row)
    BY <1>2, ForgetsNumber
  <2> QED
    BY <1>1, <1>2, <2>1, <2>3, <2>4, NumberStays
<1>6. CASE OpenAutoCancel(w)
  <2>1. Stepped(w, "auto_cancel", row) /\ UNCHANGED <<row, queue, drawn>> /\ row.status # "draft"
    BY <1>6 DEF OpenAutoCancel, Read, Stepped
  <2>2. NumberKept("auto_cancel", row, row)
    BY <1>2, <2>1, ReadsNumber
  <2> QED
    BY <1>1, <1>2, <2>1, <2>2, NumberStays DEF Alike
<1> QED
  BY <1>3, <1>4, <1>5, <1>6 DEF TransmissionTask

LEMMA PollNumbered ==
  ASSUME LifecycleTypeInv, NumberInv, NEW w \in Workers, Poll(w) \/ PollStep(w)
  PROVE  NumberInv'
<1> DEFINE Polling == {"dedup", "event", "apply", "auto_paid", "send_auto212", "flow_check"}
<1>1. /\ row \in Row /\ copy[w] \in Row /\ copy = [copy EXCEPT ![w] = copy[w]]
      /\ queue["preview"] = 0 /\ (row.status # "draft" => row.number # 0)
      /\ NumberKept(pc[w], copy[w], row)
  BY TypedParts DEF NumberInv, Counted
<1>2. /\ {"idle", "poll"} \cap (NumberedLabels \union DraftLabels \union {"preview"}) = {}
      /\ Polling \subseteq NumberedLabels \cap (WholeSavers \ {"edit", "validate"})
      /\ Polling \cap (DraftLabels \union {"preview"}) = {}
      /\ \A r : NextAfter(r) \in Polling
  BY DEF NumberedLabels, WholeSavers, DraftLabels, NextAfter
<1>3. NumberKept("idle", Forgotten, row)
  BY <1>2, ForgetsNumber
<1>4. ASSUME NEW l \in Polling, NEW c, pc[w] \in Polling, Stepped(w, l, c), Alike(c, copy[w]),
             drawn' = drawn, queue'["preview"] = 0, Alike(row', row)
      PROVE  NumberInv'
  <2>1. NumberKept(l, c, row) /\ row.number # 0
    BY <1>1, <1>2, <1>4, GoesOnNumbered DEF NumberKept
  <2> QED
    BY <1>2, <1>4, <2>1, NumberStays
<1>5. ASSUME NEW s
      PROVE  Alike([row EXCEPT !.status = s], row) /\ Alike([copy[w] EXCEPT !.status = s], copy[w])
  BY <1>1 DEF Row, Alike
<1>6. "event" \in Polling /\ "apply" \in Polling
  OBVIOUS
<1>7. CASE EndPoll(w) /\ UNCHANGED <<row, queue, drawn>>
  BY <1>1, <1>2, <1>3, <1>7, NumberStays DEF EndPoll, Finish, Stepped, Alike
<1>8. CASE Poll(w)
  <2>1. pc[w] = "idle" /\ Stepped(w, "poll", copy[w]) /\ UNCHANGED <<row, queue, drawn>>
    BY <1>1, <1>8 DEF Poll, Stepped
  <2>2. NumberKept("poll", copy[w], row)
    BY <1>1, <1>2, NumberedApart, GoesOnNumbered DEF Alike
  <2> QED
    BY <1>1, <1>2, <2>1, <2>2, NumberStays DEF Alike
<1>9. CASE ReadForEvents(w) \/ ReadForFallback(w)
  <2>1. UNCHANGED <<row, queue, drawn>>
    BY <1>9 DEF ReadForEvents, ReadForFallback
  <2>2. \/ EndPoll(w)
        \/ row.number # 0 /\ Stepped(w, "dedup", row)
        \/ row.number # 0 /\ Stepped(w, "flow_check", row)
    BY <1>1, <1>9 DEF ReadForEvents, ReadForFallback, Stuck, Stepped
  <2>3. row.number # 0 => NumberKept("dedup", row, row) /\ NumberKept("flow_check", row, row)
    BY DEF NumberInv, Counted, NumberKept
  <2> QED
    BY <1>1, <1>2, <1>7, <2>1, <2>2, <2>3, NumberStays DEF Alike
<1>10. CASE ReadLogs(w) \/ LogEvent(w) \/ SendAuto212(w)
  <2>1. /\ pc[w] \in Polling /\ UNCHANGED <<row, drawn>>
        /\ queue' = queue \/ queue' = [queue EXCEPT !["paid212"] = @ + 1]
        /\ Stepped(w, "event", copy[w]) \/ Stepped(w, "apply", copy[w])
    BY <1>1, <1>10 DEF ReadLogs, LogEvent, SendAuto212, Stepped
  <2>2. queue'["preview"] = 0
    BY <1>1, <2>1, NoPreviewQueued DEF Tasks
  <2> HIDE DEF Polling
  <2> QED
    BY <1>4, <1>6, <2>1, <2>2 DEF Alike
<1>11. CASE ApplyEvent(w)
  <2>1. PICK i \in Due(w) : ApplyEvent(w)!2!(i)
    BY <1>11 DEF ApplyEvent
  <2>2. pc[w] \in Polling /\ UNCHANGED <<queue, drawn>>
    BY <1>11 DEF ApplyEvent
  <2> DEFINE s == StatusOf[events[i]]
             r == [copy[w] EXCEPT !.status = s]
  <2>3. \/ row' = [row EXCEPT !.status = s] /\ Stepped(w, NextAfter(r), r)
        \/ row' = row /\ Stepped(w, "event", copy[w])
    BY <1>1, <2>1 DEF SaveFields, Stepped
  <2>4. Alike([row EXCEPT !.status = s], row) /\ Alike(r, copy[w]) /\ NextAfter(r) \in Polling
    BY <1>2, <1>5
  <2> HIDE DEF Polling, s, r
  <2> QED
    BY <1>1, <1>4, <1>6, <2>2, <2>3, <2>4 DEF Alike
<1>12. CASE AutoMarkPaid(w)
  <2>1. /\ pc[w] = "auto_paid" /\ UNCHANGED <<queue, drawn>>
        /\ row' = PaidCopy(copy[w]) /\ Stepped(w, "send_auto212", PaidCopy(copy[w]))
    BY <1>12 DEF AutoMarkPaid, Save, Stepped
  <2>2. Alike(PaidCopy(copy[w]), copy[w])
    BY <1>1 DEF PaidCopy, Row, Alike
  <2> QED
    BY <1>1, <1>2, <2>1, <2>2, SaversKeepNumber
<1>13. CASE PollEnds(w)
  BY <1>7, <1>13 DEF PollEnds
<1>14. CASE FallbackApply(w)
  <2> DEFINE s == AckStatus(flows[copy[w].flow])
             r == [copy[w] EXCEPT !.status = s]
  <2>1. pc[w] \in Polling /\ UNCHANGED <<queue, drawn>>
    BY <1>14 DEF FallbackApply
  <2>2. \/ EndPoll(w) /\ row' = row
        \/ row' = [row EXCEPT !.status = r.status]
             /\ (Stepped(w, NextAfter(r), r) \/ Stepped(w, "event", r))
    BY <1>14 DEF FallbackApply, SaveFields, Stepped
  <2>3. /\ Alike([row EXCEPT !.status = r.status], row) /\ Alike(r, copy[w])
        /\ NextAfter(r) \in Polling
    BY <1>2, <1>5
  <2> HIDE DEF Polling, s, r
  <2> QED
    BY <1>1, <1>4, <1>6, <1>7, <2>1, <2>2, <2>3
<1> QED
  BY <1>8, <1>9, <1>10, <1>11, <1>12, <1>13, <1>14 DEF PollStep

LEMMA StepKeepsNumber ==
  ASSUME SerialRequests, LifecycleTypeInv, KnowsInv, NumberInv, [LifecycleNext]_lifecycleVars
  PROVE  NumberInv'
<1>1. CASE UNCHANGED lifecycleVars
  BY <1>1 DEF lifecycleVars, rowVars, NumberInv
<1>2. ~RequestPreview
  BY DEF RequestPreview, SerialRequests
<1>3. ASSUME NEW w \in Workers, CrashPa(w) PROVE NumberInv'
  <2>1. Stepped(w, "idle", Forgotten) /\ UNCHANGED <<row, queue, drawn>>
    BY <1>3 DEF CrashPa, Crash, Finish, Stepped
  <2>2. "idle" \notin NumberedLabels \union DraftLabels \union {"preview"}
    BY DEF NumberedLabels, WholeSavers, DraftLabels
  <2>3. NumberKept("idle", Forgotten, row) /\ queue'["preview"] = 0
    BY <2>1, <2>2, ForgetsNumber DEF NumberInv
  <2> QED
    BY <2>1, <2>2, <2>3, NumberStays DEF NumberInv, Counted, Alike
<1>4. CASE ReportPaid \/ CancelInvoice \/ Acknowledge \/ Publish
  <2>1. /\ UNCHANGED <<row, pc, copy, drawn>>
        /\ queue' = queue \/ (queue["paid212"] > 0 /\ queue' = [queue EXCEPT !["paid212"] = @ - 1])
    BY <1>4 DEF ReportPaid, CancelInvoice, Acknowledge, Publish, rowVars
  <2>2. queue'["preview"] = 0
    BY <2>1, NoPreviewQueued DEF NumberInv, Tasks
  <2> QED
    BY <2>1, <2>2, NobodyNumbers
<1> QED
  BY <1>1, <1>2, <1>3, <1>4, IssuanceRequestNumbered, IssuanceTaskNumbered, EreportingNumbered,
     TransmissionRequestNumbered, TransmissionTaskNumbered, PollNumbered
  DEF LifecycleNext, TransmissionNext, TransmissionStep

LEMMA NumberHolds ==
  ASSUME SerialRequests
  PROVE  LifecycleSpec => [](LifecycleTypeInv /\ KnowsInv /\ NumberInv)
<1>1. ASSUME LifecycleInit PROVE NumberInv
  <2>1. PICK n \in {0, 1} : row = NewRow(n) /\ drawn = n
    BY <1>1 DEF LifecycleInit, RowInit
  <2>2. row.number = n /\ row.status = "draft" /\ row.deleted = FALSE
    BY <2>1 DEF NewRow
  <2>3. queue["preview"] = 0 /\ \A w \in Workers : pc[w] = "idle" /\ copy[w] = Forgotten
    BY <1>1 DEF LifecycleInit, RowInit, Tasks
  <2>4. "idle" \notin NumberedLabels \union DraftLabels \union {"preview"}
    BY DEF NumberedLabels, WholeSavers, DraftLabels
  <2>5. \A w \in Workers : NumberKept(pc[w], copy[w], row)
    BY <2>3, <2>4, ForgetsNumber
  <2> QED
    BY <2>1, <2>2, <2>3, <2>4, <2>5 DEF NumberInv, Counted
<1>2. NumberInv /\ LifecycleTypeInv /\ KnowsInv /\ [LifecycleNext]_lifecycleVars => NumberInv'
  BY StepKeepsNumber
<1> QED
  BY <1>1, <1>2, LifecycleInvHolds, PTL DEF LifecycleSpec

\* The invoice consumes one number of its sequence at most and keeps it for its whole
\* life (validate_invoice draws it in the transaction that saves it; everybody who saves
\* the whole object read the number that the row has).  Every fault, every handler of the
\* portal, any number of polls and payments interleave as they will.
THEOREM LifecycleKeepsNumbers ==
  ASSUME SerialRequests
  PROVE  LifecycleSpec => []NumbersWithoutHole
<1>1. NumberInv => NumbersWithoutHole
  BY DEF NumberInv, NumbersWithoutHole
<1> QED
  BY <1>1, NumberHolds, PTL

\* What was deleted has no number and never gets one: nobody validates or generates it
\* any more (the portal's routes, which do reach deleted rows, left out).
THEOREM LifecycleKeepsDeletions ==
  ASSUME SerialRequests, "ui" \notin Handlers
  PROVE  LifecycleSpec => []DeletedForGood
<1>1. ASSUME NumberInv PROVE DeletedForGood
  <2> SUFFICES ASSUME row.deleted
               PROVE  /\ row.status = "draft" /\ row.number = 0
                      /\ \A w \in Workers : pc[w] \notin {"validate", "generate"}
    BY DEF DeletedForGood
  <2>1. row.number = 0 /\ row.status = "draft"
    BY <1>1 DEF NumberInv, Counted
  <2>2. \A w \in Workers : pc[w] \notin {"validate", "generate"}
    BY <1>1, <2>1 DEF NumberInv, NumberKept, NumberedLabels, WholeSavers
  <2> QED
    BY <2>1, <2>2
<1> QED
  BY <1>1, NumberHolds, PTL

----------------------------------------------------------------------------
(* Handlers in turn.  When the requests on an invoice do not overlap, the  *)
(* statuses are locks: the theorems below are about the whole life of an   *)
(* invoice, with its tasks, polls, payments and crashes.                   *)

\* The work that a step hands on, by a worker's label or by a message (q counts
\* them), is in one hand at most.
OneOf(p, L, q) ==
  /\ q \in {0, 1}
  /\ \A w \in Workers : p[w] \in L => q = 0
  /\ \A v, w \in Workers : p[v] \in L /\ p[w] \in L => v = w

InUse(p, L, q) == q # 0 \/ \E w \in Workers : p[w] \in L

\* How a worker that goes from label k to l may leave such work: alone, going on
\* with it or dropping it; as a message; taken from one, or lost with it.
Passes(k, l, L, q, r) ==
  \/ r = q /\ (l \in L => k \in L)
  \/ r = q + 1 /\ k \in L /\ l \notin L
  \/ r + 1 = q /\ k \notin L

LEMMA WorkPasses ==
  ASSUME NEW p \in [Workers -> Labels], NEW w \in Workers, NEW l, NEW L, NEW q, NEW r,
         r \in Nat, OneOf(p, L, q), Passes(p[w], l, L, q, r)
  PROVE  /\ OneOf([p EXCEPT ![w] = l], L, r)
         /\ InUse([p EXCEPT ![w] = l], L, r) => InUse(p, L, q)
<1> DEFINE n == [p EXCEPT ![w] = l]
<1>1. n[w] = l /\ \A v \in Workers : v # w => n[v] = p[v]
  OBVIOUS
<1> HIDE DEF n
<1>2. CASE r = q /\ (l \in L => p[w] \in L)
  BY <1>1, <1>2 DEF OneOf, InUse, n
<1>3. CASE r = q + 1 /\ p[w] \in L /\ l \notin L
  <2>1. q = 0 /\ r = 1
    BY <1>3 DEF OneOf
  <2>2. \A v \in Workers : n[v] \notin L
    BY <1>1, <1>3 DEF OneOf
  <2> QED
    BY <1>3, <2>1, <2>2 DEF OneOf, InUse, n
<1>4. CASE r + 1 = q /\ p[w] \notin L
  <2>1. q = 1 /\ r = 0
    BY <1>4 DEF OneOf
  <2>2. \A v \in Workers : p[v] \notin L
    BY <2>1 DEF OneOf
  <2> QED
    BY <1>1, <2>1, <2>2 DEF OneOf, InUse, n
<1> QED
  BY <1>2, <1>3, <1>4 DEF Passes

\* Work that begins: nobody had it.
LEMMA WorkBegins ==
  ASSUME NEW p \in [Workers -> Labels], NEW w \in Workers, NEW l, NEW L, NEW q,
         q \in Nat, ~InUse(p, L, q)
  PROVE  OneOf([p EXCEPT ![w] = l], L, q)
BY DEF OneOf, InUse

Early == {"draft", "processing"}

\* The labels of those who work on an invoice that was issued.
LateLabels == {"generated"} \union EreportingLabels \union TransmissionLabels

\* What holds for a worker at label l with object c while the row is r.
InTurn(l, c, r) ==
  /\ l # "preview"
  /\ l \in DraftLabels => r.status = "draft" /\ c.status = "draft"
  /\ l \in LateLabels => r.status \notin Early

\* One draft request at a time, on the draft as it is; one generation at a time, of an
\* invoice that is processing; and nobody works on an issued invoice before it is one.
IssuanceTurns ==
  /\ OneOf(pc, DraftLabels, 0)
  /\ OneOf(pc, GenerationLabels, queue["generate"])
  /\ InUse(pc, GenerationLabels, queue["generate"]) => row.status = "processing"
  /\ \A w \in Workers : InTurn(pc[w], copy[w], row)
  /\ queue["preview"] = 0
  /\ flows # <<>> => row.status \notin Early

\* Requests do not overlap, drafts are not rendered, and nothing fails after the save
\* of "validated".
Serial == Serialised /\ "preview" \notin Handlers /\ "post_save" \notin Faults

LEMMA LabelsApart ==
  /\ DraftLabels \cap GenerationLabels = {} /\ "idle" \notin DraftLabels \union GenerationLabels
  /\ LateLabels \cap (DraftLabels \union GenerationLabels) = {}
  /\ "idle" \notin LateLabels
  /\ "preview" \notin LateLabels \union DraftLabels \union GenerationLabels
  /\ {"record_payment", "preview"} \cap (LateLabels \union DraftLabels \union GenerationLabels) = {}
  /\ "send_generate" \in GenerationLabels /\ "generate" \in GenerationLabels
  /\ "send_generate" \notin LateLabels /\ "generate" \notin LateLabels
BY DEF DraftLabels, GenerationLabels, LateLabels, EreportingLabels, TransmissionLabels

\* Others stay in turn when the status of the row stays, or goes from late to late.
LEMMA OthersInTurn ==
  ASSUME NEW l, NEW c, NEW r, NEW s, InTurn(l, c, r),
         s.status = r.status \/ (r.status \notin Early /\ s.status \notin Early)
  PROVE  InTurn(l, c, s)
BY DEF InTurn, Early

\* The frame of a step of one worker.
LEMMA TurnsFrame ==
  ASSUME LifecycleTypeInv, IssuanceTurns, NEW w \in Workers, NEW l, NEW c, Stepped(w, l, c),
         InTurn(l, c, row'),
         \A v \in Workers : v # w => InTurn(pc[v], copy[v], row')
  PROVE  \A v \in Workers : InTurn(pc'[v], copy'[v], row')
<1>1. pc \in [Workers -> Labels] /\ copy \in [Workers -> Row]
  BY TypedParts
<1> SUFFICES ASSUME NEW v \in Workers PROVE InTurn(pc'[v], copy'[v], row')
  OBVIOUS
<1>2. CASE v = w
  BY <1>1, <1>2 DEF Stepped
<1>3. CASE v # w
  BY <1>1, <1>3 DEF Stepped
<1> QED
  BY <1>2, <1>3

\* A step that passes the work on and leaves the row where it is, or moves it from late
\* to late.
LEMMA TurnPasses ==
  ASSUME LifecycleTypeInv, IssuanceTurns, NEW w \in Workers, NEW l, NEW c, Stepped(w, l, c),
         l \notin DraftLabels,
         Passes(pc[w], l, GenerationLabels, queue["generate"], queue'["generate"]),
         queue' \in [Tasks -> Nat], queue'["preview"] = 0,
         row'.status = row.status \/ (row.status \notin Early /\ row'.status \notin Early),
         flows' # <<>> => flows # <<>> \/ row.status \notin Early,
         InTurn(l, c, row')
  PROVE  IssuanceTurns'
<1>1. pc \in [Workers -> Labels] /\ pc' = [pc EXCEPT ![w] = l] /\ queue'["generate"] \in Nat
  BY TypedParts DEF Stepped, Tasks
<1>2. OneOf(pc', DraftLabels, 0)
  <2>1. Passes(pc[w], l, DraftLabels, 0, 0)
    BY DEF Passes
  <2> QED
    BY <1>1, <2>1, WorkPasses DEF IssuanceTurns
<1>3. /\ OneOf(pc', GenerationLabels, queue'["generate"])
      /\ InUse(pc', GenerationLabels, queue'["generate"])
           => InUse(pc, GenerationLabels, queue["generate"])
  BY <1>1, WorkPasses DEF IssuanceTurns
<1>4. InUse(pc', GenerationLabels, queue'["generate"]) => row'.status = "processing"
  BY <1>3 DEF IssuanceTurns, Early
<1>5. \A v \in Workers : InTurn(pc'[v], copy'[v], row')
  BY OthersInTurn, TurnsFrame DEF IssuanceTurns
<1>6. flows' # <<>> => row'.status \notin Early
  BY DEF IssuanceTurns, Early
<1> QED
  BY <1>2, <1>3, <1>4, <1>5, <1>6 DEF IssuanceTurns

\* A step of one who works on an issued invoice, or begins to.
LEMMA LateStep ==
  ASSUME LifecycleTypeInv, IssuanceTurns, NEW w \in Workers, NEW l, NEW c, Stepped(w, l, c),
         pc[w] \in LateLabels \union {"idle"}, l \in LateLabels \union {"idle"},
         queue' \in [Tasks -> Nat], queue'["generate"] = queue["generate"],
         queue'["preview"] = queue["preview"],
         row.status \notin Early, row'.status \notin Early
  PROVE  IssuanceTurns'
<1>1. /\ pc[w] \notin DraftLabels \union GenerationLabels
      /\ l \notin DraftLabels \union GenerationLabels /\ l # "preview" /\ l # "generate"
  BY LabelsApart
<1>2. Passes(pc[w], l, GenerationLabels, queue["generate"], queue'["generate"])
  BY <1>1 DEF Passes
<1>3. InTurn(l, c, row')
  BY <1>1 DEF InTurn
<1>4. queue'["preview"] = 0
  BY DEF IssuanceTurns
<1> QED
  BY <1>1, <1>2, <1>3, <1>4, TurnPasses

LEMMA LateWorkers ==
  ASSUME IssuanceTurns, NEW w \in Workers, pc[w] \in LateLabels
  PROVE  row.status \notin Early
BY DEF IssuanceTurns, InTurn

\* A step of nobody.
LEMMA NobodyStep ==
  ASSUME LifecycleTypeInv, IssuanceTurns, UNCHANGED <<row, pc, copy>>,
         queue'["generate"] = queue["generate"]
           \/ (queue["generate"] > 0 /\ queue'["generate"] = queue["generate"] - 1),
         queue'["preview"] = 0, flows' # <<>> => flows # <<>>
  PROVE  IssuanceTurns'
<1>1. queue["generate"] \in {0, 1}
  BY DEF IssuanceTurns, OneOf
<1>2. /\ OneOf(pc', GenerationLabels, queue'["generate"])
      /\ InUse(pc', GenerationLabels, queue'["generate"])
           => InUse(pc, GenerationLabels, queue["generate"])
  BY <1>1 DEF IssuanceTurns, OneOf, InUse
<1> QED
  BY <1>2 DEF IssuanceTurns

LEMMA DropInTurn ==
  ASSUME LifecycleTypeInv, IssuanceTurns, NEW t \in Tasks, Drop(t), UNCHANGED flows
  PROVE  IssuanceTurns'
<1>1. queue["preview"] = 0 /\ queue[t] > 0 /\ queue' = [queue EXCEPT ![t] = @ - 1]
  BY DEF IssuanceTurns, Drop
<1>2. queue'["preview"] = 0
  BY <1>1, TypedParts DEF Tasks
<1>3. \/ queue'["generate"] = queue["generate"]
      \/ queue["generate"] > 0 /\ queue'["generate"] = queue["generate"] - 1
  BY <1>1, TypedParts DEF Tasks
<1> QED
  BY <1>2, <1>3, NobodyStep DEF Drop

\* The messages that late workers send and take.
LEMMA LateQueues ==
  ASSUME LifecycleTypeInv, NEW t \in Tasks \ {"generate", "preview"}
  PROVE  /\ LET q == [queue EXCEPT ![t] = @ + 1]
            IN  q \in [Tasks -> Nat] /\ q["generate"] = queue["generate"]
                  /\ q["preview"] = queue["preview"]
         /\ queue[t] > 0 =>
              LET q == [queue EXCEPT ![t] = @ - 1]
              IN  q \in [Tasks -> Nat] /\ q["generate"] = queue["generate"]
                    /\ q["preview"] = queue["preview"]
BY TypedParts DEF Tasks

\* What late handlers save is still late.
LEMMA LateRows ==
  ASSUME NEW r \in Row
  PROVE  /\ \A s : [r EXCEPT !.status = s].status = s
         /\ \A e : [r EXCEPT !.ereporting = e].status = r.status
         /\ \A f : [r EXCEPT !.flow = f].status = r.status
         /\ PaidCopy(r).status = "paid"
BY DEF Row, PaidCopy

LEMMA TakeLate ==
  ASSUME LifecycleTypeInv, IssuanceTurns, NEW w \in Workers,
         NEW t \in Tasks \ {"generate", "preview"}, NEW l \in LateLabels, Take(w, t, l),
         row.status \notin Early
  PROVE  IssuanceTurns'
<1>1. /\ queue[t] > 0 /\ queue' = [queue EXCEPT ![t] = @ - 1]
      /\ pc[w] = "idle" /\ Stepped(w, l, row) /\ UNCHANGED row
  BY DEF Take, Read, Stepped
<1>2. /\ queue' \in [Tasks -> Nat] /\ queue'["generate"] = queue["generate"]
      /\ queue'["preview"] = queue["preview"]
  BY <1>1, LateQueues
<1> QED
  BY <1>1, <1>2, LateStep

LEMMA SendLate ==
  ASSUME LifecycleTypeInv, IssuanceTurns, NEW w \in Workers,
         NEW t \in Tasks \ {"generate", "preview"}, NEW l \in LateLabels, Send(w, l, t)
  PROVE  IssuanceTurns'
<1>1. /\ queue' = [queue EXCEPT ![t] = @ + 1]
      /\ pc[w] = l /\ Stepped(w, "idle", Forgotten) /\ UNCHANGED row
  BY DEF Send, Finish, Stepped
<1>2. /\ queue' \in [Tasks -> Nat] /\ queue'["generate"] = queue["generate"]
      /\ queue'["preview"] = queue["preview"]
  BY <1>1, LateQueues
<1>3. row.status \notin Early
  BY <1>1, LateWorkers
<1> QED
  BY <1>1, <1>2, <1>3, LateStep

\* A save by a late worker.
LEMMA LateSave ==
  ASSUME LifecycleTypeInv, IssuanceTurns, NEW w \in Workers, pc[w] \in LateLabels,
         NEW l \in LateLabels \union {"idle"}, NEW c, Stepped(w, l, c),
         UNCHANGED queue, row'.status \notin Early
  PROVE  IssuanceTurns'
BY LateStep, LateWorkers, TypedParts

LEMMA EreportingInTurn ==
  ASSUME LifecycleTypeInv, IssuanceTurns, NEW w \in Workers, EreportingTask(w), UNCHANGED paVars
  PROVE  IssuanceTurns'
<1>1. flows' = flows
  BY DEF paVars
<1>2. CASE TakeEreporting(w)
  <2>1. Declarable(row) => row.status \notin Early
    BY DEF Declarable, Early
  <2> QED
    BY <1>1, <1>2, <2>1, TakeLate, DropInTurn
    DEF TakeEreporting, LateLabels, EreportingLabels, Tasks
<1>3. CASE Ereport(w)
  <2>1. PICK s : SaveEreporting(w, s) /\ UNCHANGED queue
    BY <1>3 DEF Ereport, EreportingSucceeds, EreportingRefused, EreportingUnavailable
  <2>2. PICK l \in {"idle", "send_ereport"} : Stepped(w, l, Forgotten)
    BY <1>3 DEF Ereport, EreportingSucceeds, EreportingRefused, EreportingUnavailable, Finish,
                SendNext, Stepped
  <2>3. pc[w] = "ereport" /\ pc[w] \in LateLabels /\ l \in LateLabels \union {"idle"}
    BY <1>3, <2>2 DEF Ereport, EreportingSucceeds, EreportingRefused, EreportingUnavailable,
                      LateLabels, EreportingLabels
  <2>4. row' = [row EXCEPT !.ereporting = s] /\ row \in Row
    BY <2>1, TypedParts DEF SaveEreporting, SaveFields
  <2>5. row'.status = row.status
    BY <2>4, LateRows
  <2> QED
    BY <2>1, <2>2, <2>3, <2>5, LateWorkers, LateSave
<1>4. CASE RetryEreporting(w)
  BY <1>4, SendLate DEF RetryEreporting, LateLabels, EreportingLabels, Tasks
<1> QED
  BY <1>2, <1>3, <1>4 DEF EreportingTask

LEMMA TransmissionRequestInTurn ==
  ASSUME LifecycleTypeInv, IssuanceTurns, NEW w \in Workers, TransmissionRequest(w)
  PROVE  IssuanceTurns'
<1>1. row \in Row /\ copy[w] \in Row
  BY TypedParts
<1>2. CASE OpenTransmit(w) \/ OpenMarkPaid(w) \/ OpenOnlinePayment(w)
  <2>1. PICK l \in {"transmit", "mark_paid", "online_payment"} :
          Read(w, l) /\ UNCHANGED <<row, queue>>
    BY <1>2 DEF OpenTransmit, OpenMarkPaid, OpenOnlinePayment, Open
  <2>2. pc[w] = "idle" /\ Stepped(w, l, row) /\ l \in LateLabels
    BY <2>1 DEF Read, Stepped, LateLabels, TransmissionLabels
  <2>3. row.status \notin Early
    BY <1>1, <1>2
    DEF OpenTransmit, OpenMarkPaid, OpenOnlinePayment, Row, Early, CanTransition, Transitions
  <2> QED
    BY <2>1, <2>2, <2>3, TypedParts, LateStep
<1>3. CASE RequestTransmission(w) \/ MarkPaid(w)
  <2>1. PICK l \in {"send_transmit", "send_paid212"} : Stepped(w, l, Forgotten) /\ UNCHANGED queue
    BY <1>3 DEF RequestTransmission, MarkPaid, SendNext, Stepped
  <2>2. pc[w] \in {"transmit", "mark_paid", "online_payment"}
    BY <1>3 DEF RequestTransmission, MarkPaid
  <2>3. pc[w] \in LateLabels /\ l \in LateLabels
    BY <2>1, <2>2 DEF LateLabels, TransmissionLabels
  <2>4. row' = [row EXCEPT !.status = "transmitting"] \/ row' = PaidCopy(copy[w])
    BY <1>3 DEF RequestTransmission, MarkPaid, SaveFields, Save
  <2>5. row'.status \notin Early
    <3>1. PaidCopy(copy[w]).status = "paid" /\ \A s : [row EXCEPT !.status = s].status = s
      BY <1>1, LateRows
    <3> QED
      BY <2>4, <3>1 DEF Early
  <2> QED
    BY <2>1, <2>3, <2>5, LateSave
<1>4. CASE SendTransmit(w) \/ SendPaid212(w)
  BY <1>4, SendLate DEF SendTransmit, SendPaid212, LateLabels, TransmissionLabels, Tasks
<1> QED
  BY <1>2, <1>3, <1>4 DEF TransmissionRequest

LEMMA TransmissionTaskInTurn ==
  ASSUME LifecycleTypeInv, IssuanceTurns, NEW w \in Workers, TransmissionTask(w)
  PROVE  IssuanceTurns'
<1>1. row \in Row
  BY TypedParts
<1>2. CASE TakeTransmit(w)
  BY <1>2, TakeLate, DropInTurn
  DEF TakeTransmit, LateLabels, TransmissionLabels, Tasks, Early, paVars
<1>3. CASE SubmitFlow(w)
  <2>1. PICK l, c : l \in {"submitted", "submit_failed"} /\ Stepped(w, l, c)
    <3>1. copy = [copy EXCEPT ![w] = copy[w]]
      BY TypedParts
    <3>2. \/ pc' = [pc EXCEPT ![w] = "submitted"]
             /\ \E f \in FlowIds : copy' = [copy EXCEPT ![w].flow = f]
          \/ pc' = [pc EXCEPT ![w] = "submit_failed"] /\ copy' = copy
      BY <1>3 DEF SubmitFlow
    <3> QED
      BY <3>1, <3>2 DEF Stepped
  <2>2. pc[w] = "submit" /\ UNCHANGED <<row, queue>>
    BY <1>3 DEF SubmitFlow
  <2>3. pc[w] \in LateLabels /\ l \in LateLabels
    BY <2>1, <2>2 DEF LateLabels, TransmissionLabels
  <2> QED
    BY <2>1, <2>2, <2>3, LateSave, LateWorkers
<1>4. CASE SaveFlow(w) \/ RevertTransmission(w) \/ AutoCancel(w)
  <2>1. /\ pc[w] \in {"submitted", "submit_failed", "auto_cancel"}
        /\ Stepped(w, "idle", Forgotten) /\ UNCHANGED queue
    BY <1>4 DEF SaveFlow, RevertTransmission, AutoCancel, Finish, Stepped
  <2>2. pc[w] \in LateLabels
    BY <2>1 DEF LateLabels, TransmissionLabels
  <2>3. \/ row' = [row EXCEPT !.flow = copy[w].flow]
        \/ row' = [row EXCEPT !.status = "validated"]
        \/ row' = [row EXCEPT !.status = "cancelled"]
    BY <1>4 DEF SaveFlow, RevertTransmission, AutoCancel, SaveFields
  <2>4. row'.status = row.status \/ row'.status \in {"validated", "cancelled"}
    <3>1. \A n : [row EXCEPT !.flow = n].status = row.status
      BY <1>1, LateRows
    <3>2. \A s : [row EXCEPT !.status = s].status = s
      BY <1>1, LateRows
    <3> QED
      BY <2>3, <3>1, <3>2
  <2> QED
    BY <2>1, <2>2, <2>4, LateSave, LateWorkers DEF Early
<1>5. CASE OpenAutoCancel(w)
  <2>1. /\ pc[w] = "idle" /\ Stepped(w, "auto_cancel", row) /\ row.status \notin Early
        /\ UNCHANGED <<row, queue>>
    BY <1>5 DEF OpenAutoCancel, Read, Stepped, Early
  <2>2. "auto_cancel" \in LateLabels
    BY DEF LateLabels, TransmissionLabels
  <2> QED
    BY <2>1, <2>2, TypedParts, LateStep
<1> QED
  BY <1>2, <1>3, <1>4, <1>5 DEF TransmissionTask

LEMMA PollStepInTurn ==
  ASSUME LifecycleTypeInv, IssuanceTurns, NEW w \in Workers, PollStep(w)
  PROVE  IssuanceTurns'
<1> DEFINE Polling == {"poll", "dedup", "event", "apply", "auto_paid", "send_auto212", "flow_check"}
<1>1. row \in Row /\ copy[w] \in Row /\ copy = [copy EXCEPT ![w] = copy[w]]
  BY TypedParts
<1>2. pc[w] \in Polling
  BY DEF PollStep, ReadForEvents, ReadLogs, LogEvent, ApplyEvent, AutoMarkPaid, SendAuto212,
         PollEnds, ReadForFallback, FallbackApply
<1>3. Polling \subseteq LateLabels /\ \A r : NextAfter(r) \in Polling
  BY DEF LateLabels, TransmissionLabels, NextAfter
<1>4. row.status \notin Early
  BY <1>2, <1>3, LateWorkers
<1>5. {"dedup", "event", "apply", "send_auto212", "flow_check"} \subseteq Polling
  OBVIOUS
<1> HIDE DEF Polling
<1>6. ASSUME NEW l \in Polling \union {"idle"}, NEW c, Stepped(w, l, c), UNCHANGED queue,
             row' = row \/ row'.status \notin Early
      PROVE  IssuanceTurns'
  BY <1>2, <1>3, <1>4, <1>6, LateSave
<1>7. CASE EndPoll(w) /\ UNCHANGED <<row, queue>>
  BY <1>6, <1>7 DEF EndPoll, Finish, Stepped
<1>8. CASE ReadForEvents(w) \/ ReadForFallback(w)
  <2>1. UNCHANGED <<row, queue>>
    BY <1>8 DEF ReadForEvents, ReadForFallback
  <2>2. EndPoll(w) \/ Stepped(w, "dedup", row) \/ Stepped(w, "flow_check", row)
    BY <1>8 DEF ReadForEvents, ReadForFallback, Stepped
  <2> QED
    BY <1>5, <1>6, <1>7, <2>1, <2>2
<1>9. CASE ReadLogs(w) \/ LogEvent(w)
  <2>1. UNCHANGED <<row, queue>>
    BY <1>9 DEF ReadLogs, LogEvent
  <2>2. Stepped(w, "event", copy[w]) \/ Stepped(w, "apply", copy[w])
    BY <1>1, <1>9 DEF ReadLogs, LogEvent, Stepped
  <2> QED
    BY <1>5, <1>6, <2>1, <2>2
<1>10. CASE ApplyEvent(w)
  <2>1. PICK i \in Due(w) : ApplyEvent(w)!2!(i)
    BY <1>10 DEF ApplyEvent
  <2> DEFINE s == StatusOf[events[i]]
             r == [copy[w] EXCEPT !.status = s]
  <2>2. s \notin Early /\ UNCHANGED queue
    BY <1>10, <2>1, PollParts DEF ApplyEvent, StatusOf, Codes, Early
  <2>3. \/ row' = [row EXCEPT !.status = s] /\ Stepped(w, NextAfter(r), r)
        \/ row' = row /\ Stepped(w, "event", copy[w])
    BY <1>1, <2>1 DEF SaveFields, Stepped
  <2> HIDE DEF s, r
  <2>4. row' = row \/ row'.status \notin Early
    <3>1. [row EXCEPT !.status = s].status = s
      BY <1>1, LateRows
    <3> QED
      BY <2>2, <2>3, <3>1
  <2> QED
    BY <1>3, <1>5, <1>6, <2>2, <2>3, <2>4
<1>11. CASE AutoMarkPaid(w)
  <2>1. /\ row' = PaidCopy(copy[w]) /\ Stepped(w, "send_auto212", PaidCopy(copy[w]))
        /\ UNCHANGED queue
    BY <1>11 DEF AutoMarkPaid, Save, Stepped
  <2>2. row'.status \notin Early
    BY <1>1, <2>1, LateRows DEF Early
  <2> QED
    BY <1>5, <1>6, <2>1, <2>2
<1>12. CASE SendAuto212(w)
  <2>1. /\ UNCHANGED row /\ Stepped(w, "event", copy[w])
        /\ queue' = [queue EXCEPT !["paid212"] = @ + 1]
    BY <1>1, <1>12 DEF SendAuto212, Stepped
  <2>2. "event" \in LateLabels /\ pc[w] \in LateLabels /\ "paid212" \in Tasks \ {"generate", "preview"}
    BY <1>2, <1>3, <1>5 DEF Tasks
  <2>3. /\ queue' \in [Tasks -> Nat] /\ queue'["generate"] = queue["generate"]
        /\ queue'["preview"] = queue["preview"]
    BY <2>1, <2>2, LateQueues
  <2> QED
    BY <1>4, <2>1, <2>2, <2>3, LateStep
<1>13. CASE PollEnds(w)
  BY <1>7, <1>13 DEF PollEnds
<1>14. CASE FallbackApply(w)
  <2> DEFINE s == AckStatus(flows[copy[w].flow])
             r == [copy[w] EXCEPT !.status = s]
  <2>1. s \notin Early /\ UNCHANGED queue
    BY <1>14 DEF FallbackApply, AckStatus, Early
  <2>2. r.status = s
    BY <1>1, LateRows
  <2>3. \/ EndPoll(w) /\ row' = row
        \/ row' = [row EXCEPT !.status = r.status]
             /\ (Stepped(w, NextAfter(r), r) \/ Stepped(w, "event", r))
    BY <1>14 DEF FallbackApply, SaveFields, Stepped
  <2> HIDE DEF s, r
  <2>4. row' = row \/ row'.status \notin Early
    <3>1. \A e : [row EXCEPT !.status = e].status = e
      BY <1>1, LateRows
    <3> QED
      BY <2>1, <2>2, <2>3, <3>1
  <2> QED
    BY <1>3, <1>5, <1>6, <1>7, <2>1, <2>3, <2>4
<1> QED
  BY <1>8, <1>9, <1>10, <1>11, <1>12, <1>13, <1>14 DEF PollStep

\* A poll looks for the invoices that are with the PA.
LEMMA PollInTurn ==
  ASSUME LifecycleTypeInv, KnowsInv, IssuanceTurns, NEW w \in Workers, Poll(w)
  PROVE  IssuanceTurns'
<1>1. /\ pc[w] = "idle" /\ UNCHANGED <<row, queue>>
      /\ Stepped(w, "poll", copy[w])
  BY TypedParts DEF Poll, Stepped
<1>2. row.status \notin Early
  <2>1. CASE events = <<>>
    BY <2>1 DEF Poll, Stuck, Early
  <2>2. CASE events # <<>>
    <3>1. FlowAccepted
      BY <2>2 DEF KnowsInv
    <3>2. flows # <<>>
      BY <3>1 DEF FlowAccepted
    <3> QED
      BY <3>2 DEF IssuanceTurns
  <2> QED
    BY <2>1, <2>2
<1>3. "poll" \in LateLabels
  BY DEF LateLabels, TransmissionLabels
<1> QED
  BY <1>1, <1>2, <1>3, TypedParts, LateStep

LEMMA CrashInTurn ==
  ASSUME LifecycleTypeInv, IssuanceTurns, NEW w \in Workers, Crash(w), UNCHANGED flows
  PROVE  IssuanceTurns'
<1>1. /\ Stepped(w, "idle", Forgotten) /\ UNCHANGED <<row, queue>>
  BY DEF Crash, Finish, Stepped
<1>2. "idle" \notin DraftLabels
      /\ Passes(pc[w], "idle", GenerationLabels, queue["generate"], queue'["generate"])
  BY <1>1, LabelsApart DEF Passes
<1>3. InTurn("idle", Forgotten, row')
  BY LabelsApart DEF InTurn
<1>4. queue'["preview"] = 0
  BY <1>1 DEF IssuanceTurns
<1> QED
  BY <1>1, <1>2, <1>3, <1>4, TypedParts, TurnPasses

LEMMA OutsideInTurn ==
  ASSUME LifecycleTypeInv, IssuanceTurns, ReportPaid \/ CancelInvoice \/ Acknowledge \/ Publish
  PROVE  IssuanceTurns'
<1>1. UNCHANGED <<row, pc, copy>>
  BY DEF ReportPaid, CancelInvoice, Acknowledge, Publish, rowVars
<1>2. queue'["generate"] = queue["generate"] /\ queue'["preview"] = 0
  <2>1. queue' = queue \/ queue' = [queue EXCEPT !["paid212"] = @ - 1]
    BY DEF ReportPaid, CancelInvoice, Acknowledge, Publish, rowVars
  <2>2. queue["preview"] = 0 /\ queue \in [Tasks -> Nat]
    BY TypedParts DEF IssuanceTurns
  <2> QED
    BY <2>1, <2>2 DEF Tasks
<1>3. flows' # <<>> => flows # <<>>
  BY DEF ReportPaid, CancelInvoice, Acknowledge, Publish
<1> QED
  BY <1>1, <1>2, <1>3, NobodyStep

\* Whoever works on a draft or generates is the only one who works.
LEMMA Alone ==
  ASSUME IssuanceTurns, NEW w \in Workers, pc[w] \in DraftLabels \union {"generate"}
  PROVE  /\ row.status \in Early /\ queue["generate"] = 0 /\ flows = <<>>
         /\ \A v \in Workers : v # w =>
              pc[v] \notin DraftLabels \union GenerationLabels \union LateLabels
<1>1. /\ pc[w] \in DraftLabels => row.status = "draft"
      /\ pc[w] = "generate" => row.status = "processing"
  BY LabelsApart DEF IssuanceTurns, InTurn, InUse
<1>2. row.status \in Early
  BY <1>1 DEF Early
<1>3. queue["generate"] = 0
  <2>1. CASE pc[w] \in DraftLabels
    BY <1>1, <2>1 DEF IssuanceTurns, InUse
  <2>2. CASE pc[w] = "generate"
    BY <2>2, LabelsApart DEF IssuanceTurns, OneOf
  <2> QED
    BY <2>1, <2>2
<1>4. ASSUME NEW v \in Workers, v # w
      PROVE  pc[v] \notin DraftLabels \union GenerationLabels
  <2>1. CASE pc[w] \in DraftLabels
    <3>1. pc[v] \notin DraftLabels
      BY <1>4, <2>1 DEF IssuanceTurns, OneOf
    <3>2. pc[v] \notin GenerationLabels
      BY <1>1, <2>1 DEF IssuanceTurns, InUse
    <3> QED
      BY <3>1, <3>2
  <2>2. CASE pc[w] = "generate"
    <3>1. pc[v] \notin GenerationLabels
      BY <1>4, <2>2, LabelsApart DEF IssuanceTurns, OneOf
    <3>2. pc[v] \notin DraftLabels
      BY <1>1, <2>2 DEF IssuanceTurns, InTurn
    <3> QED
      BY <3>1, <3>2
  <2> QED
    BY <2>1, <2>2
<1>5. \A v \in Workers : pc[v] \notin LateLabels
  BY <1>2 DEF IssuanceTurns, InTurn
<1>6. flows = <<>>
  BY <1>2 DEF IssuanceTurns
<1> QED
  BY <1>2, <1>3, <1>4, <1>5, <1>6

\* The step that ends such work: the whole object is saved, or the invoice is deleted.
LEMMA AloneStep ==
  ASSUME LifecycleTypeInv, IssuanceTurns, NEW w \in Workers, NEW l, NEW c, Stepped(w, l, c),
         pc[w] \in DraftLabels \union {"generate"}, UNCHANGED <<queue, flows>>,
         l \in {"idle", "send_generate", "generated"},
         l = "send_generate" => row'.status = "processing",
         l = "generated" => row'.status \notin Early
  PROVE  IssuanceTurns'
<1>1. /\ queue["generate"] = 0 /\ flows = <<>>
      /\ \A v \in Workers : v # w =>
           pc[v] \notin DraftLabels \union GenerationLabels \union LateLabels
  BY Alone
<1>2. pc'[w] = l /\ \A v \in Workers : v # w => pc'[v] = pc[v]
  BY TypedParts DEF Stepped
<1>3. l \notin DraftLabels /\ (l \in GenerationLabels => l = "send_generate")
  BY DEF DraftLabels, GenerationLabels
<1>4. OneOf(pc', DraftLabels, 0)
  BY <1>1, <1>2, <1>3 DEF OneOf
<1>5. OneOf(pc', GenerationLabels, queue'["generate"])
  BY <1>1, <1>2 DEF OneOf
<1>6. InUse(pc', GenerationLabels, queue'["generate"]) => row'.status = "processing"
  BY <1>1, <1>2, <1>3 DEF InUse
<1>7. \A v \in Workers : InTurn(pc'[v], copy'[v], row')
  <2>1. InTurn(l, c, row')
    BY <1>3 DEF InTurn, LateLabels, EreportingLabels, TransmissionLabels
  <2>2. ASSUME NEW v \in Workers, v # w PROVE InTurn(pc[v], copy[v], row')
    <3>1. pc[v] \notin DraftLabels \union GenerationLabels \union LateLabels
      BY <1>1, <2>2
    <3>2. pc[v] # "preview"
      BY DEF IssuanceTurns, InTurn
    <3> QED
      BY <3>1, <3>2, LabelsApart DEF InTurn
  <2> QED
    BY <2>1, <2>2, TurnsFrame
<1>8. queue'["preview"] = 0 /\ flows' = <<>>
  BY <1>1 DEF IssuanceTurns
<1> QED
  BY <1>4, <1>5, <1>6, <1>7, <1>8 DEF IssuanceTurns

LEMMA OpenDraftInTurn ==
  ASSUME Serial, LifecycleTypeInv, IssuanceTurns, NEW w \in Workers, NEW l \in DraftLabels,
         Open(w, l), row.status = "draft", UNCHANGED flows
  PROVE  IssuanceTurns'
<1>1. /\ Stepped(w, l, row) /\ UNCHANGED <<row, queue>> /\ pc[w] = "idle"
      /\ \A v \in Workers : pc[v] \notin DraftLabels
  BY DEF Open, Read, Stepped, Serial, DraftLabels, RequestLabels
<1>2. pc \in [Workers -> Labels] /\ pc' = [pc EXCEPT ![w] = l] /\ queue["generate"] \in Nat
  BY <1>1, TypedParts DEF Stepped, Tasks
<1>3. OneOf(pc', DraftLabels, 0)
  BY <1>1, <1>2, WorkBegins DEF InUse
<1>4. Passes(pc[w], l, GenerationLabels, queue["generate"], queue'["generate"])
  BY <1>1, LabelsApart DEF Passes
<1>5. /\ OneOf(pc', GenerationLabels, queue'["generate"])
      /\ InUse(pc', GenerationLabels, queue'["generate"])
           => InUse(pc, GenerationLabels, queue["generate"])
  BY <1>1, <1>2, <1>4, WorkPasses DEF IssuanceTurns
<1>6. InTurn(l, row, row)
  BY LabelsApart DEF InTurn
<1>7. \A v \in Workers : InTurn(pc'[v], copy'[v], row')
  BY <1>1, <1>6, TurnsFrame DEF IssuanceTurns
<1> QED
  BY <1>1, <1>3, <1>5, <1>7 DEF IssuanceTurns

LEMMA IssuanceRequestInTurn ==
  ASSUME Serial, LifecycleTypeInv, IssuanceTurns, NEW w \in Workers, IssuanceRequest(w),
         UNCHANGED flows
  PROVE  IssuanceTurns'
<1>1. row \in Row /\ copy[w] \in Row
  BY TypedParts
<1>2. CASE OpenEdit(w) \/ OpenDelete(w) \/ OpenValidate(w)
  <2>1. row.status = "draft"
    BY <1>1, <1>2, TableFacts DEF OpenEdit, OpenDelete, OpenValidate, IsEditable, IsDeletable, Row
  <2> QED
    BY <1>2, <2>1, OpenDraftInTurn DEF OpenEdit, OpenDelete, OpenValidate, DraftLabels
<1>3. CASE UpdateInvoice(w) \/ SoftDelete(w)
  BY <1>3, AloneStep DEF UpdateInvoice, SoftDelete, Finish, Stepped, DraftLabels
<1>4. CASE ValidateInvoice(w)
  <2>1. /\ pc[w] \in DraftLabels /\ Stepped(w, "send_generate", Forgotten) /\ UNCHANGED queue
    BY <1>4 DEF ValidateInvoice, SendNext, Stepped, DraftLabels
  <2>2. row'.status = "processing"
    BY <1>1, <1>4 DEF ValidateInvoice, Save, Row
  <2> QED
    BY <2>1, <2>2, AloneStep
<1>5. CASE SendGenerate(w)
  <2>1. /\ pc[w] = "send_generate" /\ queue' = [queue EXCEPT !["generate"] = @ + 1]
        /\ Stepped(w, "idle", Forgotten) /\ UNCHANGED row
    BY <1>5 DEF SendGenerate, Send, Finish, Stepped
  <2>2. /\ queue' \in [Tasks -> Nat] /\ queue'["generate"] = queue["generate"] + 1
        /\ queue'["preview"] = 0
    BY <2>1, TypedParts DEF IssuanceTurns, Tasks
  <2>3. /\ "idle" \notin DraftLabels
        /\ Passes(pc[w], "idle", GenerationLabels, queue["generate"], queue'["generate"])
        /\ InTurn("idle", Forgotten, row')
    BY <2>1, <2>2, LabelsApart DEF Passes, InTurn
  <2> QED
    BY <2>1, <2>2, <2>3, TurnPasses
<1>6. CASE OpenRecordPayment(w) \/ RecordPayment(w)
  <2>1. PICK l \in {"idle", "record_payment"}, c \in {row, Forgotten} : Stepped(w, l, c)
    BY <1>6 DEF OpenRecordPayment, RecordPayment, Read, Finish, Stepped
  <2>2. pc[w] \in {"idle", "record_payment"} /\ UNCHANGED queue
    BY <1>6 DEF OpenRecordPayment, RecordPayment, Read
  <2>3. row' = row \/ row' = [row EXCEPT !.payment = TRUE]
    BY <1>6 DEF OpenRecordPayment, RecordPayment, SaveFields
  <2>4. row'.status = row.status
    BY <1>1, <2>3 DEF Row
  <2>5. /\ l \notin DraftLabels
        /\ Passes(pc[w], l, GenerationLabels, queue["generate"], queue'["generate"])
        /\ InTurn(l, c, row')
    BY <2>1, <2>2, LabelsApart DEF Passes, InTurn
  <2>6. queue' \in [Tasks -> Nat] /\ queue'["preview"] = 0
    BY <2>2, TypedParts DEF IssuanceTurns
  <2> QED
    BY <2>1, <2>4, <2>5, <2>6, TurnPasses
<1> QED
  BY <1>2, <1>3, <1>4, <1>5, <1>6 DEF IssuanceRequest

LEMMA IssuanceTaskInTurn ==
  ASSUME Serial, LifecycleTypeInv, IssuanceTurns, NEW w \in Workers, IssuanceTask(w),
         UNCHANGED flows
  PROVE  IssuanceTurns'
<1>1. row \in Row /\ copy[w] \in Row
  BY TypedParts
<1>2. ~TakePreview(w)
  BY DEF TakePreview, Take, IssuanceTurns
<1>3. ~GenerateSourcePdf(w)
  BY DEF GenerateSourcePdf, IssuanceTurns, InTurn
<1>4. ~AfterGenerationFails(w) /\ ~SendEreporting(w)
  BY DEF AfterGenerationFails, SendEreporting, Serial
<1>5. CASE TakeGenerate(w)
  <2>1. CASE Drop("generate")
    BY <2>1, DropInTurn DEF Tasks
  <2>2. CASE row.status = "processing" /\ Take(w, "generate", "generate")
    <3>1. /\ pc[w] = "idle" /\ queue["generate"] > 0
          /\ queue' = [queue EXCEPT !["generate"] = @ - 1]
          /\ Stepped(w, "generate", row) /\ UNCHANGED row
      BY <2>2 DEF Take, Read, Stepped
    <3>2. /\ queue' \in [Tasks -> Nat] /\ queue'["generate"] + 1 = queue["generate"]
          /\ queue'["preview"] = 0
      BY <3>1, TypedParts DEF IssuanceTurns, Tasks
    <3>3. /\ "generate" \notin DraftLabels
          /\ Passes(pc[w], "generate", GenerationLabels, queue["generate"], queue'["generate"])
          /\ InTurn("generate", row, row')
      BY <3>1, <3>2, LabelsApart DEF Passes, InTurn
    <3> QED
      BY <3>1, <3>2, <3>3, TurnPasses
  <2> QED
    BY <1>5, <2>1, <2>2 DEF TakeGenerate
<1>6. CASE Generate(w)
  <2>1. /\ pc[w] = "generate" /\ UNCHANGED queue
        /\ \/ Stepped(w, "generated", [copy[w] EXCEPT !.status = "validated", !.pdf = "facturx"])
              /\ row' = [copy[w] EXCEPT !.status = "validated", !.pdf = "facturx"]
           \/ Stepped(w, "idle", Forgotten)
    BY <1>6 DEF Generate, GenerateSucceeds, GenerateFails, Save, Finish, Stepped
  <2>2. row' = [copy[w] EXCEPT !.status = "validated", !.pdf = "facturx"] => row'.status \notin Early
    BY <1>1 DEF Row, Early
  <2> QED
    BY <2>1, <2>2, AloneStep
<1>7. CASE AfterGeneration(w)
  <2>1. /\ pc[w] = "generated" /\ Stepped(w, "idle", Forgotten) /\ UNCHANGED row
        /\ queue' = WithEreporting
    BY <1>7 DEF AfterGeneration, Finish, Stepped
  <2>2. pc[w] \in LateLabels
    BY <2>1 DEF LateLabels
  <2>3. /\ queue' \in [Tasks -> Nat] /\ queue'["generate"] = queue["generate"]
        /\ queue'["preview"] = queue["preview"]
    <3>1. CASE EreportingFlow
      BY <2>1, <3>1, LateQueues DEF WithEreporting, Tasks
    <3>2. CASE ~EreportingFlow
      BY <2>1, <3>2, TypedParts DEF WithEreporting
    <3> QED
      BY <3>1, <3>2
  <2> QED
    BY <2>1, <2>2, <2>3, LateStep, LateWorkers
<1> QED
  BY <1>2, <1>3, <1>4, <1>5, <1>6, <1>7 DEF IssuanceTask

LEMMA StepInTurn ==
  ASSUME Serial, LifecycleTypeInv, KnowsInv, IssuanceTurns, [LifecycleNext]_lifecycleVars
  PROVE  IssuanceTurns'
<1>1. CASE UNCHANGED lifecycleVars
  BY <1>1 DEF lifecycleVars, rowVars, paVars, IssuanceTurns
<1>2. ~RequestPreview
  BY DEF RequestPreview, Serial
<1>3. ASSUME NEW w \in Workers, CrashPa(w) PROVE IssuanceTurns'
  BY <1>3, CrashInTurn DEF CrashPa, Rest
<1> QED
  BY <1>1, <1>2, <1>3, IssuanceRequestInTurn, IssuanceTaskInTurn, EreportingInTurn,
     TransmissionRequestInTurn, TransmissionTaskInTurn, PollInTurn, PollStepInTurn, OutsideInTurn
  DEF LifecycleNext, TransmissionNext, TransmissionStep, paVars

LEMMA BeginsInTurn == LifecycleInit => IssuanceTurns
<1> SUFFICES ASSUME LifecycleInit PROVE IssuanceTurns
  OBVIOUS
<1>1. /\ pc = [w \in Workers |-> "idle"] /\ queue = [t \in Tasks |-> 0] /\ flows = <<>>
  BY DEF LifecycleInit, RowInit, PaInit
<1>2. \A w \in Workers : pc[w] = "idle"
  BY <1>1
<1>3. queue["generate"] = 0 /\ queue["preview"] = 0
  BY <1>1 DEF Tasks
<1>4. \A w \in Workers : InTurn(pc[w], copy[w], row)
  BY <1>2, LabelsApart DEF InTurn
<1> QED
  BY <1>1, <1>2, <1>3, <1>4, LabelsApart DEF IssuanceTurns, OneOf, InUse

LEMMA TurnsHold ==
  ASSUME Serial
  PROVE  LifecycleSpec => [](LifecycleTypeInv /\ KnowsInv /\ IssuanceTurns)
<1>1. IssuanceTurns /\ LifecycleTypeInv /\ KnowsInv /\ [LifecycleNext]_lifecycleVars
        => IssuanceTurns'
  BY StepInTurn
<1> QED
  BY <1>1, BeginsInTurn, LifecycleInvHolds, PTL DEF LifecycleSpec

----------------------------------------------------------------------------
(* Work handed on: the declaration of an invoice and its submission go     *)
(* from a worker to the broker, to the next worker, and to the             *)
(* administration or the PA, in one hand at a time.                        *)

DeclarationLabels == {"generated", "ereport"}

SubmissionLabels == {"transmit", "send_transmit", "submit", "submit_failed"}

\* The submission as it goes on after the request was saved.
SentLabels == SubmissionLabels \ {"transmit"}

Declarations == queue["ereporting"] + declared

Submissions == queue["transmit"] + Len(flows)

Away(s) == s \notin Early \union {"validated"}

\* An invoice that was or is being declared is not generated again, one that was or is
\* being submitted is not validated.
Handed ==
  /\ OneOf(pc, DeclarationLabels, Declarations)
  /\ InUse(pc, DeclarationLabels, Declarations) => row.status \notin Early
  /\ \A w \in Workers : pc[w] # "send_ereport"
  /\ "nack" \notin Faults =>
       /\ OneOf(pc, SubmissionLabels, Submissions)
       /\ InUse(pc, SentLabels, Submissions) => Away(row.status)
       /\ \A i \in DOMAIN flows : flows[i] # "error"

LEMMA Counts ==
  ASSUME LifecycleTypeInv, LifecycleTypeInv'
  PROVE  /\ Declarations \in Nat /\ Submissions \in Nat
         /\ Declarations' \in Nat /\ Submissions' \in Nat
<1>1. /\ queue \in [Tasks -> Nat] /\ declared \in Nat /\ Len(flows) \in Nat
  BY TypedParts
<1>2. queue' \in [Tasks -> Nat] /\ declared' \in Nat
  BY DEF LifecycleTypeInv, LifecycleTypeOK
<1>3. Len(flows') \in Nat
  BY DEF LifecycleTypeInv, LifecycleTypeOK, PaTypeOK
<1>4. "ereporting" \in Tasks /\ "transmit" \in Tasks
  BY DEF Tasks
<1>5. Declarations \in Nat /\ Submissions \in Nat
  BY <1>1, <1>4 DEF Declarations, Submissions
<1>6. queue'["ereporting"] \in Nat /\ queue'["transmit"] \in Nat
  BY <1>2, <1>4
<1>7. Declarations' \in Nat /\ Submissions' \in Nat
  BY <1>2, <1>3, <1>6 DEF Declarations, Submissions
<1> QED
  BY <1>5, <1>7

\* A worker goes on with such work, or with something else.
LEMMA HandOver ==
  ASSUME LifecycleTypeInv, LifecycleTypeInv', Handed, NEW w \in Workers, NEW l,
         pc' = [pc EXCEPT ![w] = l], l # "send_ereport",
         Passes(pc[w], l, DeclarationLabels, Declarations, Declarations'),
         Passes(pc[w], l, SubmissionLabels, Submissions, Submissions'),
         row.status \notin Early => row'.status \notin Early,
         "nack" \notin Faults =>
           /\ InUse(pc', SentLabels, Submissions') => Away(row'.status)
           /\ \A i \in DOMAIN flows' : flows'[i] # "error"
  PROVE  Handed'
<1>1. pc \in [Workers -> Labels]
  BY TypedParts
<1>2. /\ OneOf(pc', DeclarationLabels, Declarations')
      /\ InUse(pc', DeclarationLabels, Declarations')
           => InUse(pc, DeclarationLabels, Declarations)
  BY <1>1, Counts, WorkPasses DEF Handed
<1>3. "nack" \notin Faults => OneOf(pc', SubmissionLabels, Submissions')
  BY <1>1, Counts, WorkPasses DEF Handed
<1>4. \A v \in Workers : pc'[v] # "send_ereport"
  BY <1>1 DEF Handed
<1> QED
  BY <1>2, <1>3, <1>4 DEF Handed

\* How a step may move the status when its worker has none of this work.
StatusMoves ==
  \/ row'.status = row.status \/ Away(row'.status)
  \/ \E w \in Workers : pc[w] \in DraftLabels \union {"generate"}
  \/ row'.status = "validated" /\ "nack" \in Faults

LEMMA StaysOut ==
  ASSUME IssuanceTurns, StatusMoves, row.status \notin Early
  PROVE  /\ row'.status \notin Early
         /\ Away(row.status) /\ "nack" \notin Faults => Away(row'.status)
<1>1. ASSUME NEW w \in Workers, pc[w] \in DraftLabels \union {"generate"} PROVE FALSE
  BY <1>1, Alone
<1> QED
  BY <1>1 DEF StatusMoves, Away, Early

LEMMA WorksElsewhere ==
  ASSUME LifecycleTypeInv, LifecycleTypeInv', IssuanceTurns, Handed,
         NEW w \in Workers, NEW l, pc' = [pc EXCEPT ![w] = l], l # "send_ereport",
         l \notin DeclarationLabels \union SubmissionLabels,
         Declarations' = Declarations, Submissions' = Submissions, StatusMoves,
         "nack" \notin Faults => \A i \in DOMAIN flows' : flows'[i] # "error"
  PROVE  Handed'
<1>1. /\ Passes(pc[w], l, DeclarationLabels, Declarations, Declarations')
      /\ Passes(pc[w], l, SubmissionLabels, Submissions, Submissions')
      /\ Passes(pc[w], l, SentLabels, Submissions, Submissions')
  BY DEF Passes, SentLabels
<1>2. row.status \notin Early => row'.status \notin Early
  BY StaysOut
<1>3. ASSUME "nack" \notin Faults, InUse(pc', SentLabels, Submissions')
      PROVE  Away(row'.status)
  <2>1. OneOf(pc, SentLabels, Submissions)
    BY <1>3 DEF Handed, OneOf, SentLabels
  <2>2. InUse(pc, SentLabels, Submissions)
    BY <1>1, <1>3, <2>1, Counts, TypedParts, WorkPasses
  <2>3. Away(row.status) /\ row.status \notin Early
    BY <1>3, <2>2 DEF Handed, Away
  <2> QED
    BY <1>3, <2>3, StaysOut
<1> QED
  BY <1>1, <1>2, <1>3, HandOver

LEMMA SameCounts ==
  ASSUME LifecycleTypeInv, flows' = flows, declared' = declared,
         \/ queue' = queue
         \/ \E t \in Tasks \ {"ereporting", "transmit"} :
              queue' = [queue EXCEPT ![t] = @ + 1] \/ queue' = [queue EXCEPT ![t] = @ - 1]
  PROVE  Declarations' = Declarations /\ Submissions' = Submissions
<1>1. queue'["ereporting"] = queue["ereporting"] /\ queue'["transmit"] = queue["transmit"]
  BY TypedParts DEF Tasks
<1> QED
  BY <1>1 DEF Declarations, Submissions

\* The messages of these tasks.
LEMMA OneMessage ==
  ASSUME LifecycleTypeInv, NEW t \in Tasks
  PROVE  /\ queue' = [queue EXCEPT ![t] = @ + 1] =>
              /\ queue'[t] = queue[t] + 1
              /\ \A u \in Tasks : u # t => queue'[u] = queue[u]
         /\ queue' = [queue EXCEPT ![t] = @ - 1] =>
              /\ queue'[t] = queue[t] - 1
              /\ \A u \in Tasks : u # t => queue'[u] = queue[u]
BY TypedParts

LEMMA LabelsKept ==
  /\ {"idle", "edit", "delete", "validate", "send_generate", "record_payment", "preview",
      "generate"} \cap (DeclarationLabels \union SubmissionLabels) = {}
  /\ {"submitted", "mark_paid", "online_payment", "send_paid212", "auto_cancel", "poll", "dedup",
      "event", "apply", "auto_paid", "send_auto212", "flow_check"}
       \cap (DeclarationLabels \union SubmissionLabels) = {}
  /\ DeclarationLabels \cap SubmissionLabels = {}
BY DEF DeclarationLabels, SubmissionLabels

LEMMA IssuanceRequestHanded ==
  ASSUME LifecycleTypeInv, LifecycleTypeInv', IssuanceTurns, Handed, NEW w \in Workers,
         IssuanceRequest(w), UNCHANGED <<ereportingVars, paVars>>
  PROVE  Handed'
<1>1. row \in Row /\ flows' = flows /\ declared' = declared
  BY TypedParts DEF ereportingVars, paVars
<1>2. PICK l \in {"idle", "edit", "delete", "validate", "send_generate", "record_payment"} :
        pc' = [pc EXCEPT ![w] = l]
  BY DEF IssuanceRequest, OpenEdit, UpdateInvoice, OpenDelete, SoftDelete, OpenValidate,
         ValidateInvoice, SendGenerate, Send, OpenRecordPayment, RecordPayment, Open, Read,
         Finish, SendNext
<1>3. queue' = queue \/ queue' = [queue EXCEPT !["generate"] = @ + 1]
  BY DEF IssuanceRequest, OpenEdit, UpdateInvoice, OpenDelete, SoftDelete, OpenValidate,
         ValidateInvoice, SendGenerate, Send, OpenRecordPayment, RecordPayment, Open
<1>4. Declarations' = Declarations /\ Submissions' = Submissions
  BY <1>1, <1>3, SameCounts DEF Tasks
<1>5. \/ row' = row \/ pc[w] \in DraftLabels \/ row' = [row EXCEPT !.payment = TRUE]
  BY DEF IssuanceRequest, OpenEdit, UpdateInvoice, OpenDelete, SoftDelete, OpenValidate,
         ValidateInvoice, SendGenerate, Send, OpenRecordPayment, RecordPayment, Open,
         SaveFields, DraftLabels
<1>6. [row EXCEPT !.payment = TRUE].status = row.status
  BY <1>1 DEF Row
<1>7. StatusMoves
  BY <1>5, <1>6 DEF StatusMoves
<1> QED
  BY <1>1, <1>2, <1>4, <1>7, LabelsKept, WorksElsewhere DEF Handed

LEMMA IssuanceTaskHanded ==
  ASSUME Serial, LifecycleTypeInv, LifecycleTypeInv', IssuanceTurns, Handed, NEW w \in Workers,
         IssuanceTask(w), UNCHANGED <<ereportingVars, paVars>>
  PROVE  Handed'
<1>1. row \in Row /\ copy[w] \in Row /\ flows' = flows /\ declared' = declared
  BY TypedParts DEF ereportingVars, paVars
<1>2. /\ ~TakePreview(w) /\ ~GenerateSourcePdf(w)
      /\ ~AfterGenerationFails(w) /\ ~SendEreporting(w)
  BY DEF TakePreview, Take, GenerateSourcePdf, AfterGenerationFails, SendEreporting, IssuanceTurns, InTurn, Serial
<1>3. CASE TakeGenerate(w)
  <2>1. /\ queue' = [queue EXCEPT !["generate"] = @ - 1] /\ row' = row
        /\ pc' = [pc EXCEPT ![w] = "generate"] \/ pc' = [pc EXCEPT ![w] = pc[w]]
    BY <1>3, TypedParts DEF TakeGenerate, Take, Drop, Read
  <2>2. Declarations' = Declarations /\ Submissions' = Submissions
    BY <1>1, <2>1, SameCounts DEF Tasks
  <2>3. CASE pc' = [pc EXCEPT ![w] = "generate"]
    BY <1>1, <2>1, <2>2, <2>3, LabelsKept, WorksElsewhere DEF StatusMoves, Handed
  <2>4. CASE pc' = pc
    BY <1>1, <2>1, <2>2, <2>4 DEF Handed
  <2> QED
    BY <2>1, <2>3, <2>4, TypedParts
<1>4. CASE GenerateFails(w)
  <2>1. /\ pc[w] = "generate" /\ pc' = [pc EXCEPT ![w] = "idle"] /\ queue' = queue
    BY <1>4 DEF GenerateFails, Finish
  <2>2. Declarations' = Declarations /\ Submissions' = Submissions
    BY <1>1, <2>1, SameCounts
  <2>3. StatusMoves
    BY <2>1 DEF StatusMoves
  <2> QED
    BY <1>1, <2>1, <2>2, <2>3, LabelsKept, WorksElsewhere DEF Handed
<1>5. CASE GenerateSucceeds(w)
  <2>1. /\ pc[w] = "generate" /\ pc' = [pc EXCEPT ![w] = "generated"] /\ queue' = queue
        /\ row' = [copy[w] EXCEPT !.status = "validated", !.pdf = "facturx"]
    BY <1>5 DEF GenerateSucceeds, Save
  <2>2. Declarations' = Declarations /\ Submissions' = Submissions
    BY <1>1, <2>1, SameCounts
  <2>3. row'.status \notin Early
    BY <1>1, <2>1 DEF Row, Early
  <2>4. row.status \in Early /\ ~Away(row.status)
    BY <2>1, Alone DEF Away
  <2>5. OneOf(pc', DeclarationLabels, Declarations')
    <3>1. ~InUse(pc, DeclarationLabels, Declarations)
      BY <2>4 DEF Handed
    <3> QED
      BY <2>1, <2>2, <3>1, TypedParts, Counts, WorkBegins
  <2>6. Passes(pc[w], "generated", SubmissionLabels, Submissions, Submissions')
        /\ Passes(pc[w], "generated", SentLabels, Submissions, Submissions')
    BY <2>2 DEF Passes, SubmissionLabels, SentLabels
  <2>7. "nack" \notin Faults =>
          OneOf(pc', SubmissionLabels, Submissions') /\ ~InUse(pc', SentLabels, Submissions')
    <3> SUFFICES ASSUME "nack" \notin Faults
                 PROVE  OneOf(pc', SubmissionLabels, Submissions')
                        /\ ~InUse(pc', SentLabels, Submissions')
      OBVIOUS
    <3>1. OneOf(pc, SubmissionLabels, Submissions) /\ ~InUse(pc, SentLabels, Submissions)
      BY <2>4 DEF Handed
    <3>2. OneOf(pc, SentLabels, Submissions)
      BY <3>1 DEF OneOf, SentLabels
    <3> QED
      BY <2>1, <2>6, <3>1, <3>2, TypedParts, Counts, WorkPasses
  <2>8. \A v \in Workers : pc'[v] # "send_ereport"
    BY <2>1, TypedParts DEF Handed
  <2> QED
    BY <1>1, <2>3, <2>5, <2>7, <2>8 DEF Handed
<1>6. CASE AfterGeneration(w)
  <2>1. /\ pc[w] = "generated" /\ pc' = [pc EXCEPT ![w] = "idle"] /\ row' = row
        /\ queue' = WithEreporting
    BY <1>6 DEF AfterGeneration, Finish
  <2>2. (Declarations' = Declarations \/ Declarations' = Declarations + 1) /\ Submissions' = Submissions
    <3>1. CASE EreportingFlow
      <4>1. /\ queue'["ereporting"] = queue["ereporting"] + 1
            /\ queue'["transmit"] = queue["transmit"]
        BY <2>1, <3>1, OneMessage DEF WithEreporting, Tasks
      <4> QED
        BY <1>1, <4>1, TypedParts DEF Declarations, Submissions, Tasks
    <3>2. CASE ~EreportingFlow
      BY <1>1, <2>1, <3>2 DEF WithEreporting, Declarations, Submissions
    <3> QED
      BY <3>1, <3>2
  <2>3. /\ Passes(pc[w], "idle", DeclarationLabels, Declarations, Declarations')
        /\ Passes(pc[w], "idle", SubmissionLabels, Submissions, Submissions')
    BY <2>1, <2>2 DEF Passes, DeclarationLabels, SubmissionLabels
  <2>4. ASSUME "nack" \notin Faults, InUse(pc', SentLabels, Submissions')
        PROVE  Away(row'.status)
    <3>1. InUse(pc, SentLabels, Submissions)
      BY <2>1, <2>2, <2>4, TypedParts DEF InUse, SentLabels, SubmissionLabels
    <3> QED
      BY <2>1, <2>4, <3>1 DEF Handed
  <2> QED
    BY <1>1, <2>1, <2>3, <2>4, HandOver DEF Handed
<1> QED
  BY <1>2, <1>3, <1>4, <1>5, <1>6 DEF IssuanceTask, Generate

LEMMA EreportingHanded ==
  ASSUME "timed_out" \notin Faults, LifecycleTypeInv, LifecycleTypeInv', IssuanceTurns, Handed,
         NEW w \in Workers, EreportingTask(w), UNCHANGED paVars
  PROVE  Handed'
<1>1. row \in Row /\ flows' = flows
  BY TypedParts DEF paVars
<1>2. ASSUME NEW l \in {"idle", "ereport"}, pc' = [pc EXCEPT ![w] = l],
             Passes(pc[w], l, DeclarationLabels, Declarations, Declarations'),
             Submissions' = Submissions, row'.status = row.status
      PROVE  Handed'
  <2>1. /\ Passes(pc[w], l, SubmissionLabels, Submissions, Submissions')
        /\ Passes(pc[w], l, SentLabels, Submissions, Submissions')
    BY <1>2 DEF Passes, SubmissionLabels, SentLabels
  <2>2. ASSUME "nack" \notin Faults, InUse(pc', SentLabels, Submissions')
        PROVE  Away(row'.status)
    <3>1. OneOf(pc, SentLabels, Submissions)
      BY <2>2 DEF Handed, OneOf, SentLabels
    <3>2. InUse(pc, SentLabels, Submissions)
      BY <1>2, <2>1, <2>2, <3>1, TypedParts, Counts, WorkPasses
    <3> QED
      BY <1>2, <2>2, <3>2 DEF Handed
  <2> QED
    BY <1>1, <1>2, <2>1, <2>2, HandOver DEF Handed
<1>3. CASE TakeEreporting(w)
  <2>1. /\ queue' = [queue EXCEPT !["ereporting"] = @ - 1] /\ row' = row /\ declared' = declared
        /\ (pc[w] = "idle" /\ pc' = [pc EXCEPT ![w] = "ereport"]) \/ pc' = pc
    BY <1>3 DEF TakeEreporting, Take, Drop, Read, ereportingVars
  <2>2. Declarations' + 1 = Declarations /\ Submissions' = Submissions
    <3>1. /\ queue'["ereporting"] = queue["ereporting"] - 1
          /\ queue'["transmit"] = queue["transmit"]
      BY <2>1, OneMessage DEF Tasks
    <3>2. queue["ereporting"] \in Nat /\ declared \in Nat
      BY TypedParts DEF Tasks
    <3> QED
      BY <1>1, <2>1, <3>1, <3>2 DEF Declarations, Submissions
  <2>3. CASE pc[w] = "idle" /\ pc' = [pc EXCEPT ![w] = "ereport"]
    <3>1. Passes(pc[w], "ereport", DeclarationLabels, Declarations, Declarations')
      BY <2>2, <2>3 DEF Passes, DeclarationLabels
    <3> QED
      BY <1>2, <2>1, <2>2, <2>3, <3>1
  <2>4. CASE pc' = pc
    <3>1. Declarations = 1 /\ Declarations' = 0
      BY <2>2, Counts DEF Handed, OneOf
    <3> QED
      BY <1>1, <2>1, <2>2, <2>4, <3>1 DEF Handed, OneOf, InUse
  <2> QED
    BY <2>1, <2>3, <2>4
<1>4. CASE Ereport(w)
  <2>1. ~EreportingUnavailable(w)
    BY DEF EreportingUnavailable
  <2>2. /\ pc[w] = "ereport" /\ pc' = [pc EXCEPT ![w] = "idle"] /\ queue' = queue
        /\ (EreportingSucceeds(w) /\ Declare) \/ declared' = declared
        /\ \E s : row' = [row EXCEPT !.ereporting = s]
    BY <1>4, <2>1
    DEF Ereport, EreportingSucceeds, EreportingRefused, SaveEreporting, SaveFields, Finish,
        ereportingVars
  <2>3. row'.status = row.status
    BY <1>1, <2>2, LateRows
  <2>4. Submissions' = Submissions
    BY <1>1, <2>2 DEF Submissions
  <2>5. Declarations = 0 /\ "ereport" \in DeclarationLabels
    BY <2>2 DEF Handed, OneOf, DeclarationLabels
  <2>6. queue["ereporting"] = 0 /\ declared = 0
    BY <2>5, TypedParts DEF Declarations, Tasks
  <2>7. Declarations' = Declarations \/ Declarations' = Declarations + 1
    BY <2>2, <2>6 DEF Declarations, Declare
  <2>8. Passes(pc[w], "idle", DeclarationLabels, Declarations, Declarations')
    BY <2>2, <2>7 DEF Passes, DeclarationLabels
  <2> QED
    BY <1>2, <2>2, <2>3, <2>4, <2>8
<1>5. ~RetryEreporting(w)
  BY DEF RetryEreporting, Send, Handed
<1> QED
  BY <1>3, <1>4, <1>5 DEF EreportingTask

LEMMA TransmissionRequestHanded ==
  ASSUME Serial, LifecycleTypeInv, LifecycleTypeInv', IssuanceTurns, Handed, NEW w \in Workers,
         TransmissionRequest(w), UNCHANGED ereportingVars
  PROVE  Handed'
<1>1. row \in Row /\ copy[w] \in Row /\ flows' = flows /\ declared' = declared
  BY TypedParts
  DEF ereportingVars, paVars, TransmissionRequest, OpenTransmit, RequestTransmission, SendTransmit,
      OpenMarkPaid, OpenOnlinePayment, MarkPaid, SendPaid212
<1>2. CASE OpenTransmit(w)
  <2>1. /\ pc' = [pc EXCEPT ![w] = "transmit"] /\ queue' = queue /\ row' = row
        /\ \A v \in Workers : pc[v] \notin RequestLabels
    BY <1>2 DEF OpenTransmit, Open, Read, Serial
  <2>2. row.status = "validated"
    BY <1>1, <1>2, TableFacts DEF OpenTransmit, Row
  <2>3. Declarations' = Declarations /\ Submissions' = Submissions
    BY <1>1, <2>1, SameCounts
  <2>4. Passes(pc[w], "transmit", DeclarationLabels, Declarations, Declarations')
        /\ Passes(pc[w], "transmit", SentLabels, Submissions, Submissions')
    BY <2>3 DEF Passes, DeclarationLabels, SentLabels
  <2>5. /\ OneOf(pc', DeclarationLabels, Declarations')
        /\ InUse(pc', DeclarationLabels, Declarations') => row'.status \notin Early
    BY <2>1, <2>4, TypedParts, Counts, WorkPasses DEF Handed
  <2>6. ASSUME "nack" \notin Faults
        PROVE  OneOf(pc', SubmissionLabels, Submissions') /\ ~InUse(pc', SentLabels, Submissions')
    <3>1. ~InUse(pc, SentLabels, Submissions)
      BY <2>2, <2>6 DEF Handed, Away
    <3>2. ~InUse(pc, SubmissionLabels, Submissions)
      BY <2>1, <3>1 DEF InUse, SentLabels, RequestLabels
    <3>3. OneOf(pc, SentLabels, Submissions)
      BY <2>6 DEF Handed, OneOf, SentLabels
    <3> QED
      BY <2>1, <2>3, <2>4, <3>1, <3>2, <3>3, TypedParts, Counts, WorkBegins, WorkPasses
  <2>7. \A v \in Workers : pc'[v] # "send_ereport"
    BY <2>1, TypedParts DEF Handed
  <2> QED
    BY <1>1, <2>5, <2>6, <2>7 DEF Handed
<1>3. CASE RequestTransmission(w)
  <2>1. /\ pc[w] = "transmit" /\ pc' = [pc EXCEPT ![w] = "send_transmit"] /\ queue' = queue
        /\ row' = [row EXCEPT !.status = "transmitting"]
    BY <1>3 DEF RequestTransmission, SaveFields, SendNext
  <2>2. Declarations' = Declarations /\ Submissions' = Submissions
    BY <1>1, <2>1, SameCounts
  <2>3. Passes(pc[w], "send_transmit", DeclarationLabels, Declarations, Declarations')
        /\ Passes(pc[w], "send_transmit", SubmissionLabels, Submissions, Submissions')
    BY <2>1, <2>2 DEF Passes, DeclarationLabels, SubmissionLabels
  <2>4. row'.status = "transmitting"
    BY <1>1, <2>1, LateRows
  <2>5. row'.status \notin Early /\ Away(row'.status)
    BY <2>4 DEF Away, Early
  <2> QED
    BY <1>1, <2>1, <2>3, <2>5, HandOver DEF Handed
<1>4. CASE SendTransmit(w)
  <2>1. /\ pc[w] = "send_transmit" /\ pc' = [pc EXCEPT ![w] = "idle"] /\ row' = row
        /\ queue' = [queue EXCEPT !["transmit"] = @ + 1]
    BY <1>4 DEF SendTransmit, Send, Finish
  <2>2. Declarations' = Declarations /\ Submissions' = Submissions + 1
    <3>1. /\ queue'["transmit"] = queue["transmit"] + 1
          /\ queue'["ereporting"] = queue["ereporting"]
      BY <2>1, OneMessage DEF Tasks
    <3>2. queue["transmit"] \in Nat /\ Len(flows) \in Nat
      BY TypedParts DEF Tasks
    <3> QED
      BY <1>1, <3>1, <3>2 DEF Declarations, Submissions
  <2>3. /\ Passes(pc[w], "idle", DeclarationLabels, Declarations, Declarations')
        /\ Passes(pc[w], "idle", SubmissionLabels, Submissions, Submissions')
    BY <2>1, <2>2 DEF Passes, DeclarationLabels, SubmissionLabels
  <2>4. ASSUME "nack" \notin Faults PROVE Away(row'.status)
    <3>1. InUse(pc, SentLabels, Submissions)
      BY <2>1 DEF InUse, SentLabels, SubmissionLabels
    <3> QED
      BY <2>1, <2>4, <3>1 DEF Handed
  <2> QED
    BY <1>1, <2>1, <2>3, <2>4, HandOver DEF Handed
<1>5. CASE OpenMarkPaid(w) \/ OpenOnlinePayment(w) \/ MarkPaid(w) \/ SendPaid212(w)
  <2>1. PICK l \in {"mark_paid", "online_payment", "send_paid212", "idle"} :
          pc' = [pc EXCEPT ![w] = l]
    BY <1>5 DEF OpenMarkPaid, OpenOnlinePayment, MarkPaid, SendPaid212, Send, Open, Read, Finish,
                SendNext
  <2>2. queue' = queue \/ queue' = [queue EXCEPT !["paid212"] = @ + 1]
    BY <1>5 DEF OpenMarkPaid, OpenOnlinePayment, MarkPaid, SendPaid212, Send, Open
  <2>3. Declarations' = Declarations /\ Submissions' = Submissions
    BY <1>1, <2>2, SameCounts DEF Tasks
  <2>4. row' = row \/ row' = PaidCopy(copy[w])
    BY <1>5 DEF OpenMarkPaid, OpenOnlinePayment, MarkPaid, SendPaid212, Send, Open, Save
  <2>5. PaidCopy(copy[w]).status = "paid"
    BY <1>1, LateRows
  <2>6. StatusMoves
    BY <2>4, <2>5 DEF StatusMoves, Away, Early
  <2> QED
    BY <1>1, <2>1, <2>3, <2>6, LabelsKept, WorksElsewhere DEF Handed
<1> QED
  BY <1>2, <1>3, <1>4, <1>5 DEF TransmissionRequest

LEMMA TransmissionTaskHanded ==
  ASSUME "timed_out" \notin Faults, LifecycleTypeInv, LifecycleTypeInv', IssuanceTurns, Handed,
         NEW w \in Workers, TransmissionTask(w), UNCHANGED ereportingVars
  PROVE  Handed'
<1>1. row \in Row /\ declared' = declared /\ flows \in Seq({"pending", "ok", "error"})
  BY TypedParts DEF ereportingVars, PaTypeOK
<1>2. CASE TakeTransmit(w)
  <2>1. /\ queue' = [queue EXCEPT !["transmit"] = @ - 1] /\ row' = row /\ flows' = flows
        /\ \/ pc[w] = "idle" /\ pc' = [pc EXCEPT ![w] = "submit"]
           \/ pc' = [pc EXCEPT ![w] = pc[w]]
    BY <1>2, TypedParts DEF TakeTransmit, Take, Drop, Read, paVars
  <2>2. Declarations' = Declarations /\ Submissions' + 1 = Submissions
    <3>1. /\ queue'["transmit"] = queue["transmit"] - 1
          /\ queue'["ereporting"] = queue["ereporting"]
      BY <2>1, OneMessage DEF Tasks
    <3>2. queue["transmit"] \in Nat /\ Len(flows) \in Nat
      BY TypedParts DEF Tasks
    <3> QED
      BY <1>1, <2>1, <3>1, <3>2 DEF Declarations, Submissions
  <2>3. ASSUME "nack" \notin Faults PROVE Away(row'.status) /\ Submissions = 1
    <3>1. Submissions = 1
      BY <2>2, <2>3, Counts DEF Handed, OneOf
    <3>2. InUse(pc, SentLabels, Submissions)
      BY <3>1 DEF InUse
    <3> QED
      BY <2>1, <2>3, <3>1, <3>2 DEF Handed
  <2>4. CASE pc[w] = "idle" /\ pc' = [pc EXCEPT ![w] = "submit"]
    <3>1. /\ Passes(pc[w], "submit", DeclarationLabels, Declarations, Declarations')
          /\ Passes(pc[w], "submit", SubmissionLabels, Submissions, Submissions')
      BY <2>2, <2>4 DEF Passes, DeclarationLabels, SubmissionLabels
    <3> QED
      BY <1>1, <2>1, <2>3, <2>4, <3>1, HandOver DEF Handed
  <2>5. CASE pc' = pc
    <3>1. ASSUME "nack" \notin Faults PROVE OneOf(pc', SubmissionLabels, Submissions')
      <4>1. Submissions' = 0
        BY <2>2, <2>3, <3>1, Counts
      <4> QED
        BY <2>5, <3>1, <4>1 DEF Handed, OneOf
    <3> QED
      BY <1>1, <2>1, <2>2, <2>3, <2>5, <3>1 DEF Handed
  <2> QED
    BY <2>1, <2>4, <2>5, TypedParts
<1>3. CASE SubmitFlow(w)
  <2>1. /\ pc[w] = "submit" /\ row' = row /\ queue' = queue
        /\ \/ pc' = [pc EXCEPT ![w] = "submitted"] /\ flows' = Append(flows, "pending")
           \/ pc' = [pc EXCEPT ![w] = "submit_failed"] /\ flows' = flows
    BY <1>3 DEF SubmitFlow
  <2>2. PICK l \in {"submitted", "submit_failed"} : pc' = [pc EXCEPT ![w] = l]
          /\ (l = "submitted" => flows' = Append(flows, "pending"))
          /\ (l = "submit_failed" => flows' = flows)
    BY <2>1
  <2>3. l = "submitted" => Len(flows') = Len(flows) + 1
    BY <1>1, <2>2
  <2>4. /\ Declarations' = Declarations
        /\ l = "submitted" => Submissions' = Submissions + 1
        /\ l = "submit_failed" => Submissions' = Submissions
    <3>1. queue' = queue /\ queue["transmit"] \in Nat /\ Len(flows) \in Nat
      BY <2>1, TypedParts DEF Tasks
    <3>2. Declarations' = Declarations
      BY <1>1, <2>1 DEF Declarations
    <3>3. l = "submitted" => Submissions' = Submissions + 1
      BY <2>3, <3>1 DEF Submissions
    <3>4. l = "submit_failed" => Submissions' = Submissions
      BY <2>1, <2>2 DEF Submissions
    <3> QED
      BY <3>2, <3>3, <3>4
  <2>5. /\ Passes(pc[w], l, DeclarationLabels, Declarations, Declarations')
        /\ Passes(pc[w], l, SubmissionLabels, Submissions, Submissions')
    BY <2>1, <2>4 DEF Passes, DeclarationLabels, SubmissionLabels
  <2>6. ASSUME "nack" \notin Faults
        PROVE  Away(row'.status) /\ \A i \in DOMAIN flows' : flows'[i] # "error"
    <3>1. InUse(pc, SentLabels, Submissions)
      BY <2>1 DEF InUse, SentLabels, SubmissionLabels
    <3>2. \A i \in DOMAIN flows : flows[i] # "error"
      BY <2>6 DEF Handed
    <3>3. \A i \in DOMAIN flows' : flows'[i] # "error"
      <4>1. CASE flows' = flows
        BY <3>2, <4>1
      <4>2. CASE flows' = Append(flows, "pending")
        BY <1>1, <3>2, <4>2
      <4> QED
        BY <2>1, <4>1, <4>2
    <3> QED
      BY <2>1, <2>6, <3>1, <3>3 DEF Handed
  <2> QED
    BY <2>1, <2>2, <2>5, <2>6, HandOver
<1>4. CASE SaveFlow(w) \/ AutoCancel(w) \/ OpenAutoCancel(w)
  <2>1. PICK l \in {"idle", "auto_cancel"} : pc' = [pc EXCEPT ![w] = l]
    BY <1>4 DEF SaveFlow, AutoCancel, OpenAutoCancel, Read, Finish
  <2>2. queue' = queue /\ flows' = flows
    BY <1>4 DEF SaveFlow, AutoCancel, OpenAutoCancel, paVars
  <2>3. Declarations' = Declarations /\ Submissions' = Submissions
    BY <1>1, <2>2, SameCounts
  <2>4. \/ row' = row \/ row' = [row EXCEPT !.flow = copy[w].flow]
        \/ row' = [row EXCEPT !.status = "cancelled"]
    BY <1>4 DEF SaveFlow, AutoCancel, OpenAutoCancel, SaveFields
  <2>5. /\ \A n : [row EXCEPT !.flow = n].status = row.status
        /\ [row EXCEPT !.status = "cancelled"].status = "cancelled"
    BY <1>1, LateRows
  <2>6. row'.status \in {row.status, "cancelled"}
    BY <2>4, <2>5
  <2>7. StatusMoves
    BY <2>6 DEF StatusMoves, Away, Early
  <2> QED
    BY <1>1, <2>1, <2>2, <2>3, <2>7, LabelsKept, WorksElsewhere DEF Handed
<1>5. CASE RevertTransmission(w)
  <2>1. /\ pc[w] = "submit_failed" /\ pc' = [pc EXCEPT ![w] = "idle"]
        /\ row' = [row EXCEPT !.status = "validated"]
        /\ queue' = queue /\ flows' = flows
    BY <1>5 DEF RevertTransmission, SaveFields, Finish, paVars
  <2>2. Declarations' = Declarations /\ Submissions' = Submissions
    BY <1>1, <2>1, SameCounts
  <2>3. /\ Passes(pc[w], "idle", DeclarationLabels, Declarations, Declarations')
        /\ Passes(pc[w], "idle", SubmissionLabels, Submissions, Submissions')
    BY <2>1, <2>2 DEF Passes, DeclarationLabels, SubmissionLabels
  <2>4. row'.status = "validated"
    BY <1>1, <2>1, LateRows
  <2>5. ASSUME "nack" \notin Faults PROVE ~InUse(pc', SentLabels, Submissions')
    <3>1. pc[w] \in SubmissionLabels
      BY <2>1 DEF SubmissionLabels
    <3>2. Submissions = 0 /\ \A v \in Workers : pc[v] \in SubmissionLabels => v = w
      BY <2>5, <3>1 DEF Handed, OneOf
    <3> QED
      BY <2>1, <2>2, <3>2, TypedParts DEF InUse, SentLabels, SubmissionLabels
  <2> QED
    BY <2>1, <2>3, <2>4, <2>5, HandOver DEF Handed, Early
<1> QED
  BY <1>2, <1>3, <1>4, <1>5 DEF TransmissionTask

LEMMA PollHanded ==
  ASSUME LifecycleTypeInv, LifecycleTypeInv', IssuanceTurns, Handed,
         NEW w \in Workers, Poll(w) \/ PollStep(w) \/ CrashPa(w), UNCHANGED ereportingVars
  PROVE  Handed'
<1>1. /\ row \in Row /\ copy[w] \in Row /\ declared' = declared /\ flows' = flows
  BY TypedParts
  DEF ereportingVars, Poll, PollStep, CrashPa, ReadForEvents, ReadLogs, LogEvent, ApplyEvent,
      AutoMarkPaid, SendAuto212, PollEnds, ReadForFallback, FallbackApply, Rest, paVars
<1>2. PICK l \in {"idle", "poll", "dedup", "event", "apply", "auto_paid", "send_auto212",
                  "flow_check"} : pc' = [pc EXCEPT ![w] = l]
  <2>1. CASE ApplyEvent(w)
    BY <2>1 DEF ApplyEvent, NextAfter
  <2>2. CASE FallbackApply(w)
    BY <2>2 DEF FallbackApply, NextAfter, EndPoll, Finish
  <2> QED
    BY <2>1, <2>2
    DEF Poll, PollStep, CrashPa, Crash, ReadForEvents, ReadLogs, LogEvent, AutoMarkPaid,
        SendAuto212, PollEnds, ReadForFallback, EndPoll, Finish
<1>3. queue' = queue \/ queue' = [queue EXCEPT !["paid212"] = @ + 1]
  BY DEF Poll, PollStep, CrashPa, Crash, ReadForEvents, ReadLogs, LogEvent, ApplyEvent,
         AutoMarkPaid, SendAuto212, PollEnds, ReadForFallback, FallbackApply
<1>4. Declarations' = Declarations /\ Submissions' = Submissions
  BY <1>1, <1>3, SameCounts DEF Tasks
<1>5. StatusMoves
  <2>1. CASE row' = row
    BY <2>1 DEF StatusMoves
  <2>2. CASE ApplyEvent(w) /\ row' # row
    <3>1. PICK i \in Due(w) : row' = [row EXCEPT !.status = StatusOf[events[i]]]
      BY <2>2 DEF ApplyEvent, SaveFields
    <3>2. events[i] \in Codes
      BY <3>1, PollParts
    <3>3. Away(StatusOf[events[i]])
      BY <3>2 DEF StatusOf, Codes, Away, Early
    <3>4. row'.status = StatusOf[events[i]]
      BY <1>1, <3>1, LateRows
    <3> QED
      BY <3>3, <3>4 DEF StatusMoves
  <2>3. CASE AutoMarkPaid(w)
    <3>1. row'.status = "paid"
      BY <1>1, <2>3, LateRows DEF AutoMarkPaid, Save
    <3> QED
      BY <3>1 DEF StatusMoves, Away, Early
  <2>4. CASE FallbackApply(w) /\ row' # row
    <3> DEFINE a == flows[copy[w].flow]
               r == [copy[w] EXCEPT !.status = AckStatus(a)]
    <3>1. pc[w] = "flow_check" /\ a # "pending" /\ row' = [row EXCEPT !.status = r.status]
      BY <2>4 DEF FallbackApply, SaveFields
    <3>2. r.status = AckStatus(a)
      BY <1>1, LateRows
    <3>3. row'.status = AckStatus(a)
      <4> HIDE DEF a, r
      <4> QED
        BY <1>1, <3>1, <3>2, LateRows
    <3>4. copy[w].flow \in DOMAIN flows
      <4>1. copy[w].flow \in Nat /\ copy[w].flow # 0 /\ copy[w].flow <= Len(flows)
        BY <1>1, <3>1, TypedParts DEF LifecycleTypeInv, FlowsKnown, Row
      <4>2. DOMAIN flows = 1..Len(flows) /\ Len(flows) \in Nat
        BY PollParts
      <4> QED
        BY <4>1, <4>2
    <3>5. a \in {"ok", "error"} /\ ("nack" \notin Faults => a # "error")
      <4>1. a \in {"pending", "ok", "error"}
        BY <3>4, PollParts
      <4>2. "nack" \notin Faults => a # "error"
        BY <3>4 DEF Handed
      <4> HIDE DEF a
      <4> QED
        BY <3>1, <4>1, <4>2
    <3> HIDE DEF a
    <3>6. row'.status = "transmitted" \/ (row'.status = "validated" /\ "nack" \in Faults)
      BY <3>3, <3>5 DEF AckStatus
    <3> QED
      BY <3>6 DEF StatusMoves, Away, Early
  <2> QED
    BY <2>1, <2>2, <2>3, <2>4
    DEF Poll, PollStep, CrashPa, Crash, ReadForEvents, ReadLogs, LogEvent, SendAuto212, PollEnds,
        ReadForFallback
<1>6. "nack" \notin Faults => \A i \in DOMAIN flows' : flows'[i] # "error"
  BY <1>1 DEF Handed
<1> QED
  BY <1>2, <1>4, <1>5, <1>6, LabelsKept, WorksElsewhere

LEMMA OutsideHanded ==
  ASSUME LifecycleTypeInv, LifecycleTypeInv', Handed,
         ReportPaid \/ CancelInvoice \/ Acknowledge \/ Publish, UNCHANGED ereportingVars
  PROVE  Handed'
<1>1. /\ UNCHANGED <<row, pc>> /\ declared' = declared
      /\ queue' = queue \/ queue' = [queue EXCEPT !["paid212"] = @ - 1]
  BY DEF ReportPaid, CancelInvoice, Acknowledge, Publish, rowVars, ereportingVars
<1>2. /\ flows' = flows
         \/ (Acknowledge /\ \E i \in DOMAIN flows : \E a \in {"ok", "error"} :
               flows' = [flows EXCEPT ![i] = a] /\ (a = "error" => "nack" \in Faults))
  BY DEF ReportPaid, CancelInvoice, Acknowledge, Publish
<1>3. Len(flows') = Len(flows) /\ DOMAIN flows' = DOMAIN flows
  BY <1>2, TypedParts DEF PaTypeOK
<1>4. Declarations' = Declarations /\ Submissions' = Submissions
  <2>1. queue'["ereporting"] = queue["ereporting"] /\ queue'["transmit"] = queue["transmit"]
    BY <1>1, TypedParts DEF Tasks
  <2> QED
    BY <1>1, <1>3, <2>1 DEF Declarations, Submissions
<1>5. ASSUME "nack" \notin Faults PROVE \A i \in DOMAIN flows' : flows'[i] # "error"
  <2>1. \A i \in DOMAIN flows : flows[i] # "error"
    BY <1>5 DEF Handed
  <2>2. CASE flows' = flows
    BY <2>1, <2>2
  <2>3. CASE \E i \in DOMAIN flows : flows' = [flows EXCEPT ![i] = "ok"]
    BY <2>1, <2>3
  <2> QED
    BY <1>2, <1>5, <2>2, <2>3
<1> QED
  BY <1>1, <1>4, <1>5 DEF Handed

LEMMA StepHanded ==
  ASSUME Serial, "timed_out" \notin Faults, LifecycleTypeInv, LifecycleTypeInv', IssuanceTurns,
         Handed, [LifecycleNext]_lifecycleVars
  PROVE  Handed'
<1>1. CASE UNCHANGED lifecycleVars
  <2>1. UNCHANGED <<row, pc, queue, flows, declared>>
    BY <1>1 DEF lifecycleVars, rowVars, ereportingVars, paVars
  <2> QED
    BY <2>1 DEF Handed, Declarations, Submissions
<1>2. ~RequestPreview
  BY DEF RequestPreview, Serial
<1> QED
  BY <1>1, <1>2, IssuanceRequestHanded, IssuanceTaskHanded, EreportingHanded,
     TransmissionRequestHanded, TransmissionTaskHanded, PollHanded, OutsideHanded
  DEF LifecycleNext, TransmissionNext, TransmissionStep

LEMMA BeginsHanded == LifecycleInit => Handed
<1> SUFFICES ASSUME LifecycleInit PROVE Handed
  OBVIOUS
<1>1. /\ pc = [w \in Workers |-> "idle"] /\ queue = [t \in Tasks |-> 0] /\ flows = <<>>
      /\ declared = 0
  BY DEF LifecycleInit, RowInit, PaInit, EreportingInit
<1>2. \A w \in Workers : pc[w] = "idle"
  BY <1>1
<1>3. Declarations = 0 /\ Submissions = 0
  BY <1>1 DEF Declarations, Submissions, Tasks
<1>4. \A i \in DOMAIN flows : flows[i] # "error"
  BY <1>1
<1> QED
  BY <1>2, <1>3, <1>4, LabelsKept DEF Handed, OneOf, InUse, SentLabels

LEMMA HandedHolds ==
  ASSUME Serial, "timed_out" \notin Faults
  PROVE  LifecycleSpec => [](LifecycleTypeInv /\ KnowsInv /\ IssuanceTurns /\ Handed)
<1>1. LifecycleTypeInv /\ LifecycleTypeInv' /\ IssuanceTurns /\ Handed
        /\ [LifecycleNext]_lifecycleVars => Handed'
  BY StepHanded
<1> QED
  BY <1>1, BeginsHanded, TurnsHold, PTL DEF LifecycleSpec

\* An invoice is declared to the administration at most once, as long as no answer is
\* lost: one generation leaves one message (submit_ereporting_for_invoice.delay), one
\* worker takes it, and an issued invoice is never generated again.
THEOREM LifecycleDeclaresOnce ==
  ASSUME Serial, "timed_out" \notin Faults
  PROVE  LifecycleSpec => []DeclaredOnce
<1>1. LifecycleTypeInv /\ Handed => DeclaredOnce
  <2> SUFFICES ASSUME LifecycleTypeInv, Handed PROVE DeclaredOnce
    OBVIOUS
  <2>1. queue["ereporting"] \in Nat /\ declared \in Nat
    BY TypedParts DEF Tasks
  <2> QED
    BY <2>1 DEF Handed, OneOf, Declarations, DeclaredOnce
<1> QED
  BY <1>1, HandedHolds, PTL

\* The PA accepts an invoice at most once, as long as no answer is lost and no flow is
\* refused: the transmission goes from the request to its message, to the task and to one
\* flow, and only a submission that failed puts the invoice back to validated.  Payments,
\* credit notes and any number of polls interleave with it.
THEOREM LifecycleSubmitsOnce ==
  ASSUME Serial, "timed_out" \notin Faults, "nack" \notin Faults
  PROVE  LifecycleSpec => []SubmittedOnce
<1>1. LifecycleTypeInv /\ Handed => SubmittedOnce
  <2> SUFFICES ASSUME LifecycleTypeInv, Handed PROVE SubmittedOnce
    OBVIOUS
  <2>1. queue["transmit"] \in Nat /\ Len(flows) \in Nat /\ DOMAIN flows = 1..Len(flows)
    BY TypedParts DEF Tasks, PaTypeOK
  <2>2. Len(flows) \in {0, 1}
    BY <2>1 DEF Handed, OneOf, Submissions
  <2> QED
    BY <2>1, <2>2 DEF SubmittedOnce
<1> QED
  BY <1>1, HandedHolds, PTL

----------------------------------------------------------------------------
(* Stranded invoices.  A transmitting invoice has one submission, as above *)
(* (no answer of the PA is lost, empty or negative).  After it the polls   *)
(* ask for the flow, and the first event they log finds the status that it *)
(* releases the invoice from: whatever a poll has read, it was after the   *)
(* submission.                                                             *)

PollHolding == {"dedup", "event", "apply", "auto_paid", "send_auto212", "flow_check"}

Polling == PollHolding \union {"poll"}

\* What a poll holds, if the invoice is transmitting, is of a transmitting invoice.
PollsKnow ==
  \A w \in Workers : pc[w] \in PollHolding =>
    flows # <<>> /\ (clean /\ row.status = "transmitting" => copy[w].status = "transmitting")

\* A step of worker w that is not one of a poll.
NoPoll(w) ==
  \/ UNCHANGED <<pc, copy>>
  \/ pc[w] \notin Polling /\ \E l \in Labels \ Polling : \E c : Stepped(w, l, c)

LEMMA GenerateSucceedsIsNoPoll ==
  ASSUME NEW w \in Workers, GenerateSucceeds(w)
  PROVE  NoPoll(w)
<1> DEFINE r == [copy[w] EXCEPT !.status = "validated", !.pdf = "facturx"]
<1>1. /\ pc[w] = "generate"
      /\ pc' = [pc EXCEPT ![w] = "generated"] /\ copy' = [copy EXCEPT ![w] = r]
  BY DEF GenerateSucceeds
<1>2. Stepped(w, "generated", r)
  BY <1>1 DEF Stepped
<1>3. "generated" \in Labels \ Polling /\ pc[w] \notin Polling
  BY <1>1 DEF Labels, IssuanceLabels, Polling, PollHolding
<1> HIDE DEF r
<1> QED
  BY <1>2, <1>3 DEF NoPoll

LEMMA IssuanceIsNoPoll ==
  ASSUME LifecycleTypeInv, NEW w \in Workers, IssuanceRequest(w) \/ IssuanceTask(w)
  PROVE  NoPoll(w)
<1> USE DEF NoPoll, Stepped, Labels, IssuanceLabels, Polling, PollHolding
<1>1. CASE OpenEdit(w) \/ OpenDelete(w) \/ OpenValidate(w) \/ OpenRecordPayment(w)
  BY <1>1 DEF OpenEdit, OpenDelete, OpenValidate, OpenRecordPayment, Open, Read
<1>2. CASE UpdateInvoice(w) \/ SoftDelete(w) \/ RecordPayment(w) \/ GenerateSourcePdf(w)
  BY <1>2 DEF UpdateInvoice, SoftDelete, RecordPayment, GenerateSourcePdf, Finish
<1>3. CASE ValidateInvoice(w) \/ SendGenerate(w)
  BY <1>3 DEF ValidateInvoice, SendNext, SendGenerate, Send, Finish
<1>4. CASE TakePreview(w) \/ TakeGenerate(w)
  BY <1>4 DEF TakePreview, TakeGenerate, Take, Drop, Read
<1>5. CASE GenerateSucceeds(w) \/ GenerateFails(w) \/ AfterGenerationFails(w)
  <2>1. CASE GenerateSucceeds(w)
    BY <2>1, GenerateSucceedsIsNoPoll
  <2>2. CASE GenerateFails(w) \/ AfterGenerationFails(w)
    BY <2>2 DEF GenerateFails, AfterGenerationFails, Finish
  <2> QED
    BY <1>5, <2>1, <2>2
<1>6. CASE AfterGeneration(w)
  BY <1>6 DEF AfterGeneration, Finish
<1>7. CASE SendEreporting(w)
  <2>1. copy = [copy EXCEPT ![w] = copy[w]]
    BY TypedParts
  <2> QED
    BY <1>7, <2>1 DEF SendEreporting
<1> QED
  BY <1>1, <1>2, <1>3, <1>4, <1>5, <1>6, <1>7 DEF IssuanceRequest, IssuanceTask, Generate

LEMMA EreportingIsNoPoll ==
  ASSUME NEW w \in Workers, EreportingTask(w)
  PROVE  NoPoll(w)
<1> USE DEF NoPoll, Stepped, Labels, EreportingLabels, Polling, PollHolding
<1>1. CASE TakeEreporting(w) \/ RetryEreporting(w)
  BY <1>1 DEF TakeEreporting, Take, Drop, Read, RetryEreporting, Send, Finish
<1>2. CASE Ereport(w)
  BY <1>2
  DEF Ereport, EreportingSucceeds, EreportingRefused, EreportingUnavailable, Finish, SendNext
<1> QED
  BY <1>1, <1>2 DEF EreportingTask

LEMMA TransmissionIsNoPoll ==
  ASSUME LifecycleTypeInv, NEW w \in Workers, TransmissionRequest(w) \/ TransmissionTask(w)
  PROVE  NoPoll(w) /\ UNCHANGED <<events, logged, seen, known>>
<1> USE DEF NoPoll, Stepped, Labels, TransmissionLabels, Polling, PollHolding
<1>1. CASE OpenTransmit(w) \/ OpenMarkPaid(w) \/ OpenOnlinePayment(w) \/ OpenAutoCancel(w)
  BY <1>1 DEF OpenTransmit, OpenMarkPaid, OpenOnlinePayment, OpenAutoCancel, Open, Read, paVars
<1>2. CASE RequestTransmission(w) \/ MarkPaid(w)
  BY <1>2 DEF RequestTransmission, MarkPaid, SendNext, paVars
<1>3. CASE SendTransmit(w) \/ SendPaid212(w)
  BY <1>3 DEF SendTransmit, SendPaid212, Send, Finish, paVars
<1>4. CASE TakeTransmit(w)
  BY <1>4 DEF TakeTransmit, Take, Drop, Read, paVars
<1>5. CASE SaveFlow(w) \/ RevertTransmission(w) \/ AutoCancel(w)
  BY <1>5 DEF SaveFlow, RevertTransmission, AutoCancel, Finish, paVars
<1>6. CASE SubmitFlow(w)
  <2>1. copy = [copy EXCEPT ![w] = copy[w]]
    BY TypedParts
  <2>2. pc[w] = "submit" /\ UNCHANGED <<events, logged, seen, known>>
    BY <1>6 DEF SubmitFlow
  <2>3. \E l \in {"submitted", "submit_failed"} : \E c : Stepped(w, l, c)
    BY <1>6, <2>1 DEF SubmitFlow
  <2> QED
    BY <2>2, <2>3
<1> QED
  BY <1>1, <1>2, <1>3, <1>4, <1>5, <1>6 DEF TransmissionRequest, TransmissionTask

LEMMA NoPollSteps ==
  ASSUME LifecycleTypeInv, NEW w \in Workers, NoPoll(w), NEW v \in Workers
  PROVE  \/ pc'[v] = pc[v] /\ copy'[v] = copy[v]
         \/ v = w /\ pc[v] \notin Polling /\ pc'[v] \notin Polling
<1>1. pc \in [Workers -> Labels] /\ copy \in [Workers -> Row]
  BY TypedParts
<1>2. CASE UNCHANGED <<pc, copy>>
  BY <1>2
<1>3. CASE pc[w] \notin Polling /\ \E l \in Labels \ Polling : \E c : Stepped(w, l, c)
  BY <1>1, <1>3 DEF Stepped
<1> QED
  BY <1>2, <1>3 DEF NoPoll

\* Only a request of transmission brings the invoice to transmitting, and no flow has
\* been made before.
LEMMA ToTransmitting ==
  ASSUME LifecycleTypeInv, KnowsInv, Handed, [LifecycleNext]_lifecycleVars, "nack" \notin Faults,
         clean', row'.status = "transmitting"
  PROVE  clean /\ (row.status = "transmitting" \/ flows = <<>>)
<1>1. clean /\ Effect
  BY LifecycleEffect
<1>2. row.status \in Status
  BY TypedParts DEF Row
<1>3. row.status = "transmitting" \/ row.status = "validated"
  BY <1>1, <1>2, TableFacts
  DEF Effect, StaysAsItIs, IsDeleted, GetsPayment, IsNumbered, MovesOn, IsPaid, IsTakenBack
<1>4. ASSUME row.status = "validated" PROVE flows = <<>>
  <2>1. queue["transmit"] \in Nat /\ Len(flows) \in Nat
    BY TypedParts DEF Tasks, PaTypeOK
  <2>2. Submissions = 0
    BY <1>4 DEF Handed, InUse, Away
  <2>3. Len(flows) = 0
    BY <2>1, <2>2 DEF Submissions
  <2> QED
    BY <2>3, TypedParts DEF PaTypeOK
<1> QED
  BY <1>1, <1>3, <1>4

\* What a poll does to what it knows.
LEMMA PollTells ==
  ASSUME LifecycleTypeInv, KnowsInv, PollsKnow, NEW w \in Workers, Poll(w) \/ PollStep(w)
  PROVE  /\ pc' = [pc EXCEPT ![w] = pc'[w]] /\ pc'[w] \in Polling \union {"idle"}
         /\ \A v \in Workers : v # w => pc'[v] = pc[v] /\ copy'[v] = copy[v]
         /\ pc'[w] \in PollHolding =>
              /\ flows # <<>>
              /\ \/ row' = row /\ copy'[w] = row
                 \/ row' = row /\ copy'[w] = copy[w] /\ pc[w] \in PollHolding
                 \/ row'.status # "transmitting"
         /\ row' = row \/ row'.status \notin {"processing", "transmitting"}
<1>1. /\ row \in Row /\ copy[w] \in Row /\ Knows(pc[w], copy[w]) /\ copy = [copy EXCEPT ![w] = copy[w]]
      /\ pc \in [Workers -> Labels] /\ copy \in [Workers -> Row]
  BY TypedParts DEF KnowsInv
<1>2. pc[w] \in PollHolding => flows # <<>>
  BY DEF PollsKnow
<1> USE DEF PollHolding, Polling
<1>3. ASSUME NEW l \in Polling \union {"idle"}, NEW c, Stepped(w, l, c), row' = row,
             l \in PollHolding => flows # <<>> /\ (c = row \/ (c = copy[w] /\ pc[w] \in PollHolding))
      PROVE  /\ pc' = [pc EXCEPT ![w] = pc'[w]] /\ pc'[w] = l
             /\ \A v \in Workers : v # w => pc'[v] = pc[v] /\ copy'[v] = copy[v]
             /\ pc'[w] \in PollHolding =>
                  /\ flows # <<>>
                  /\ \/ copy'[w] = row
                     \/ copy'[w] = copy[w] /\ pc[w] \in PollHolding
  <2>1. /\ pc' = [pc EXCEPT ![w] = l] /\ copy' = [copy EXCEPT ![w] = c]
    BY <1>3 DEF Stepped
  <2>2. pc'[w] = l /\ copy'[w] = c /\ \A v \in Workers : v # w => pc'[v] = pc[v] /\ copy'[v] = copy[v]
    BY <1>1, <2>1
  <2> QED
    BY <1>3, <2>1, <2>2
<1>4. ASSUME NEW l \in PollHolding, NEW c, Stepped(w, l, c), pc[w] \in PollHolding,
             row'.status \notin {"processing", "transmitting"}
      PROVE  /\ pc' = [pc EXCEPT ![w] = pc'[w]] /\ pc'[w] = l
             /\ \A v \in Workers : v # w => pc'[v] = pc[v] /\ copy'[v] = copy[v]
             /\ flows # <<>>
  <2>1. /\ pc' = [pc EXCEPT ![w] = l] /\ copy' = [copy EXCEPT ![w] = c]
    BY <1>4 DEF Stepped
  <2> QED
    BY <1>1, <1>2, <1>4, <2>1
<1>5. CASE EndPoll(w) /\ row' = row
  <2>1. Stepped(w, "idle", Forgotten)
    BY <1>5 DEF EndPoll, Finish, Stepped
  <2> QED
    BY <1>3, <1>5, <2>1
<1>6. CASE Poll(w)
  <2>1. Stepped(w, "poll", copy[w]) /\ row' = row
    BY <1>1, <1>6 DEF Poll, Stepped
  <2> QED
    BY <1>3, <2>1
<1>7. CASE ReadForEvents(w) /\ ~EndPoll(w)
  <2>1. seen[w] > 0 /\ seen[w] \in 0..Len(events) /\ Len(events) \in Nat
    BY <1>7, PollParts DEF ReadForEvents
  <2>2. events # <<>>
    BY <2>1
  <2>3. flows # <<>>
    BY <2>2 DEF KnowsInv, FlowAccepted
  <2>4. Stepped(w, "dedup", row) /\ row' = row
    BY <1>7 DEF ReadForEvents, Stepped
  <2> QED
    BY <1>3, <2>3, <2>4
<1>8. CASE ReadForFallback(w) /\ ~EndPoll(w)
  <2>1. row.flow # 0 /\ row.flow \in Nat /\ row.flow <= Len(flows) /\ Len(flows) \in Nat
    BY <1>1, <1>8, TypedParts DEF ReadForFallback, Stuck, Row
  <2>2. flows # <<>>
    BY <2>1
  <2>3. Stepped(w, "flow_check", row) /\ row' = row
    BY <1>8 DEF ReadForFallback, Stepped
  <2> QED
    BY <1>3, <2>2, <2>3
<1>9. CASE ReadLogs(w) \/ LogEvent(w) \/ SendAuto212(w)
  <2>1. pc[w] \in PollHolding /\ row' = row /\ \E l \in {"event", "apply"} : Stepped(w, l, copy[w])
    BY <1>1, <1>9 DEF ReadLogs, LogEvent, SendAuto212, Stepped
  <2> QED
    BY <1>2, <1>3, <2>1
<1>10. ASSUME NEW r PROVE NextAfter(r) \in PollHolding
  BY DEF NextAfter
<1>11. CASE ApplyEvent(w)
  <2>1. PICK i \in Due(w) : ApplyEvent(w)!2!(i)
    BY <1>11 DEF ApplyEvent
  <2> DEFINE s == StatusOf[events[i]]
             r == [copy[w] EXCEPT !.status = s]
  <2>2. s \notin {"processing", "transmitting"}
    BY <2>1, PollParts DEF StatusOf, Codes
  <2>3. pc[w] = "apply"
    BY <1>11 DEF ApplyEvent
  <2>4. \/ row' = [row EXCEPT !.status = s] /\ Stepped(w, NextAfter(r), r)
        \/ row' = row /\ Stepped(w, "event", copy[w])
    BY <1>1, <2>1 DEF SaveFields, Stepped
  <2> HIDE DEF s
  <2>5. CASE row' = row /\ Stepped(w, "event", copy[w])
    BY <1>2, <1>3, <2>3, <2>5
  <2>6. CASE row' = [row EXCEPT !.status = s] /\ Stepped(w, NextAfter(r), r)
    <3>1. row'.status = s
      BY <1>1, <2>6 DEF Row
    <3> HIDE DEF r
    <3> QED
      BY <1>4, <1>10, <2>2, <2>3, <2>6, <3>1
  <2> QED
    BY <2>4, <2>5, <2>6
<1>12. CASE AutoMarkPaid(w)
  <2>1. pc[w] = "auto_paid" /\ row' = PaidCopy(copy[w]) /\ Stepped(w, "send_auto212", PaidCopy(copy[w]))
    BY <1>12 DEF AutoMarkPaid, Save, Stepped
  <2>2. row'.status = "paid"
    BY <1>1, <2>1 DEF PaidCopy, Row
  <2> QED
    BY <1>4, <2>1, <2>2
<1>13. CASE PollEnds(w)
  BY <1>5, <1>13 DEF PollEnds
<1>14. CASE FallbackApply(w)
  <2> DEFINE t == AckStatus(flows[copy[w].flow])
             r == [copy[w] EXCEPT !.status = t]
  <2>1. r.status = t
    BY <1>1 DEF Row
  <2>2. t \in {"transmitted", "validated"}
    BY DEF AckStatus
  <2>3. pc[w] = "flow_check"
    BY <1>14 DEF FallbackApply
  <2>4. \/ EndPoll(w) /\ row' = row
        \/ /\ row' = [row EXCEPT !.status = r.status]
           /\ Stepped(w, NextAfter(r), r) \/ Stepped(w, "event", r)
    BY <1>14 DEF FallbackApply, SaveFields, Stepped
  <2> HIDE DEF t
  <2>5. CASE EndPoll(w) /\ row' = row
    BY <1>5, <2>5
  <2>6. CASE /\ row' = [row EXCEPT !.status = r.status]
             /\ Stepped(w, NextAfter(r), r) \/ Stepped(w, "event", r)
    <3>1. row'.status = t
      BY <1>1, <2>1, <2>6 DEF Row
    <3> HIDE DEF r
    <3> QED
      BY <1>4, <1>10, <2>2, <2>3, <2>6, <3>1
  <2> QED
    BY <2>4, <2>5, <2>6
<1> QED
  BY <1>5, <1>6, <1>7, <1>8, <1>9, <1>11, <1>12, <1>13, <1>14
  DEF PollStep, ReadForEvents, ReadForFallback

LEMMA PollsStillKnow ==
  ASSUME LifecycleTypeInv, LifecycleTypeInv', KnowsInv, Handed, PollsKnow, "nack" \notin Faults,
         [LifecycleNext]_lifecycleVars
  PROVE  PollsKnow'
<1> SUFFICES ASSUME NEW v \in Workers, pc'[v] \in PollHolding
             PROVE  /\ flows' # <<>>
                    /\ clean' /\ row'.status = "transmitting" => copy'[v].status = "transmitting"
  BY DEF PollsKnow
<1>1. flows # <<>> => flows' # <<>>
  BY LifecyclePaGrows
<1>2. CASE pc'[v] = pc[v] /\ copy'[v] = copy[v]
  BY <1>1, <1>2, ToTransmitting DEF PollsKnow
<1>3. PollHolding \subseteq Polling /\ "idle" \notin Polling
  BY DEF Polling, PollHolding
<1>4. ASSUME NEW w \in Workers, NoPoll(w)
      PROVE  pc'[v] = pc[v] /\ copy'[v] = copy[v]
  BY <1>3, <1>4, NoPollSteps
<1>5. ASSUME NEW w \in Workers, CrashPa(w)
      PROVE  pc'[v] = pc[v] /\ copy'[v] = copy[v]
  <2>1. Stepped(w, "idle", Forgotten)
    BY <1>5 DEF CrashPa, Crash, Finish, Stepped
  <2>2. pc \in [Workers -> Labels] /\ copy \in [Workers -> Row]
    BY TypedParts
  <2> QED
    BY <1>3, <2>1, <2>2 DEF Stepped
<1>6. ASSUME NEW w \in Workers, Poll(w) \/ PollStep(w)
      PROVE  /\ flows' # <<>>
             /\ clean' /\ row'.status = "transmitting" => copy'[v].status = "transmitting"
  <2>1. CASE v # w
    BY <1>2, <1>6, <2>1, PollTells
  <2>2. CASE v = w
    <3>1. /\ flows # <<>>
          /\ \/ row' = row /\ copy'[w] = row
             \/ row' = row /\ copy'[w] = copy[w] /\ pc[w] \in PollHolding
             \/ row'.status # "transmitting"
      BY <1>6, <2>2, PollTells
    <3>2. clean' => clean
      BY LifecycleEffect
    <3> QED
      BY <1>1, <2>2, <3>1, <3>2 DEF PollsKnow
  <2> QED
    BY <2>1, <2>2
<1>7. CASE UNCHANGED <<pc, copy>>
  BY <1>2, <1>7
<1>8. CASE UNCHANGED lifecycleVars
  BY <1>7, <1>8 DEF lifecycleVars, rowVars
<1>9. CASE RequestPreview \/ ReportPaid \/ CancelInvoice \/ Acknowledge \/ Publish
  BY <1>7, <1>9 DEF RequestPreview, ReportPaid, CancelInvoice, Acknowledge, Publish, rowVars
<1> QED
  BY <1>2, <1>4, <1>5, <1>6, <1>8, <1>9, IssuanceIsNoPoll, EreportingIsNoPoll, TransmissionIsNoPoll
  DEF LifecycleNext, TransmissionNext, TransmissionStep


GenerateLabels == {"send_generate", "generate"}

\* The labels that a look at the invoice depends on.
WaitedFor == GenerateLabels \union SentLabels \union {"submitted", "event", "apply"}

LEMMA NotStranded ==
  /\ ~Stranded <=>
       /\ row.status = "processing" => Generating
       /\ row.status = "transmitting" => Submitting \/ FlowWatched \/ EventAwaited
  /\ ~Stranded' <=>
       /\ row'.status = "processing" => Generating'
       /\ row'.status = "transmitting" => Submitting' \/ FlowWatched' \/ EventAwaited'
BY DEF Stranded

\* What a step does not drop.
KeepsWork == (Generating => Generating') /\ (Submitting => Submitting')

KeepsWatch == (FlowWatched => FlowWatched') /\ (EventAwaited => EventAwaited')

\* The invoice waits for no more than it did before the step.
WaitsAsBefore ==
  row'.status \notin {"processing", "transmitting"} \/ row'.status = row.status

LEMMA WaitsOn ==
  ASSUME ~Stranded, KeepsWork, KeepsWatch, WaitsAsBefore PROVE ~Stranded'
BY NotStranded DEF KeepsWork, KeepsWatch, WaitsAsBefore

\* A worker that had no such work leaves it where it is, a worker that has some goes
\* on with it or leaves a message.
LEMMA OthersWork ==
  ASSUME LifecycleTypeInv, NEW w \in Workers, NEW l, pc' = [pc EXCEPT ![w] = l]
  PROVE  /\ pc'[w] = l
         /\ \A v \in Workers : v # w => pc'[v] = pc[v]
BY TypedParts

LEMMA WorkKept ==
  ASSUME LifecycleTypeInv, NEW w \in Workers, NEW l, pc' = [pc EXCEPT ![w] = l],
         pc[w] \in GenerateLabels => l \in GenerateLabels \/ queue'["generate"] # 0,
         pc[w] \in SentLabels => l \in SentLabels \/ queue'["transmit"] # 0,
         queue["generate"] # 0 => queue'["generate"] # 0,
         queue["transmit"] # 0 => queue'["transmit"] # 0
  PROVE  KeepsWork
<1>1. pc'[w] = l /\ \A v \in Workers : v # w => pc'[v] = pc[v]
  BY OthersWork
<1>2. Generating => Generating'
  BY <1>1 DEF Generating, At, GenerateLabels
<1>3. SentLabels = {"send_transmit", "submit", "submit_failed"}
  BY DEF SentLabels, SubmissionLabels
<1>4. Submitting => Submitting'
  BY <1>1, <1>3 DEF Submitting, At
<1> QED
  BY <1>2, <1>4 DEF KeepsWork

LEMMA ReleasesAgain ==
  ASSUME NEW i, events'[i] = events[i]
  PROVE  Releases(i)' <=> Releases(i)
BY DEF Releases, CanTransition, Transitions, StatusOf

LEMMA WatchKept ==
  ASSUME NEW w \in Workers, UNCHANGED <<events, logged>>,
         \A v \in Workers : v # w => pc'[v] = pc[v] /\ seen'[v] = seen[v] /\ known'[v] = known[v],
         \/ pc[w] \notin {"submitted", "event", "apply"}
         \/ pc'[w] = pc[w] /\ seen'[w] = seen[w] /\ known'[w] = known[w],
         row.flow # 0 => row'.flow # 0
  PROVE  KeepsWatch
<1>1. FlowWatched => FlowWatched'
  BY DEF FlowWatched, At
<1>2. \A i : Releases(i)' <=> Releases(i)
  BY ReleasesAgain
<1>3. ASSUME NEW v \in Workers, pc[v] \in {"event", "apply"}
      PROVE  pc'[v] = pc[v] /\ Due(v)' = Due(v)
  BY <1>3 DEF Due
<1>4. EventAwaited => EventAwaited'
  BY <1>2, <1>3 DEF EventAwaited
<1> QED
  BY <1>1, <1>4 DEF KeepsWatch

\* Whoever sends another message, or none, and works on something else.
LEMMA OtherWork ==
  ASSUME LifecycleTypeInv, ~Stranded, NEW w \in Workers, NEW l, pc' = [pc EXCEPT ![w] = l],
         pc[w] \notin WaitedFor,
         UNCHANGED <<queue["generate"], queue["transmit"], events, logged>>,
         \A v \in Workers : v # w => seen'[v] = seen[v] /\ known'[v] = known[v],
         row.flow # 0 => row'.flow # 0, WaitsAsBefore
  PROVE  ~Stranded'
<1>1. \A v \in Workers : v # w => pc'[v] = pc[v] /\ seen'[v] = seen[v] /\ known'[v] = known[v]
  BY OthersWork
<1>2. pc[w] \notin {"submitted", "event", "apply"} /\ pc[w] \notin GenerateLabels \union SentLabels
  BY DEF WaitedFor
<1>3. KeepsWatch
  BY <1>1, <1>2, WatchKept
<1>4. KeepsWork
  BY <1>2, WorkKept
<1> QED
  BY <1>3, <1>4, WaitsOn

LEMMA ReadLeavesWork ==
  ASSUME LifecycleTypeInv, ~Stranded, NEW w \in Workers, NEW l, Read(w, l),
         UNCHANGED <<row, queue["generate"], queue["transmit"], paVars>>
  PROVE  ~Stranded'
<1>1. pc[w] = "idle" /\ pc' = [pc EXCEPT ![w] = l]
  BY DEF Read
<1>2. pc[w] \notin WaitedFor
  BY <1>1 DEF WaitedFor, GenerateLabels, SentLabels, SubmissionLabels
<1>3. WaitsAsBefore
  BY DEF WaitsAsBefore
<1> QED
  BY <1>1, <1>2, <1>3, OtherWork DEF paVars

\* Nobody works.
LEMMA MessagesKept ==
  ASSUME ~Stranded,
         UNCHANGED <<row, pc, events, logged, seen, known, queue["generate"], queue["transmit"]>>
  PROVE  ~Stranded'
<1>1. KeepsWork
  BY DEF KeepsWork, Generating, Submitting, At
<1>2. \A i : Releases(i)' <=> Releases(i)
  BY ReleasesAgain
<1>3. KeepsWatch
  BY <1>2 DEF KeepsWatch, FlowWatched, EventAwaited, Due, At
<1> QED
  BY <1>1, <1>3, WaitsOn DEF WaitsAsBefore

\* The messages of the other tasks.
LEMMA OtherMessages ==
  ASSUME LifecycleTypeInv, NEW t \in Tasks \ {"generate", "transmit"}, NEW n,
         queue' = [queue EXCEPT ![t] = n]
  PROVE  UNCHANGED <<queue["generate"], queue["transmit"]>>
<1>1. queue \in [Tasks -> Nat] /\ "generate" \in Tasks /\ "transmit" \in Tasks
  BY TypedParts DEF Tasks
<1> QED
  BY <1>1

LEMMA TakeLeavesWork ==
  ASSUME LifecycleTypeInv, ~Stranded, NEW w \in Workers, NEW l,
         NEW t \in Tasks \ {"generate", "transmit"}, Take(w, t, l) \/ Drop(t), UNCHANGED paVars
  PROVE  ~Stranded'
<1>1. queue' = [queue EXCEPT ![t] = queue[t] - 1] /\ row' = row
  BY DEF Take, Drop
<1>2. UNCHANGED <<queue["generate"], queue["transmit"]>>
  BY <1>1, OtherMessages
<1>3. CASE Take(w, t, l)
  BY <1>1, <1>2, <1>3, ReadLeavesWork DEF Take
<1>4. CASE Drop(t)
  BY <1>1, <1>2, <1>4, MessagesKept DEF Drop, paVars
<1> QED
  BY <1>3, <1>4

\* The task's message is turned into a worker's work, or is of no use any more.
LEMMA TaskTaken ==
  ASSUME LifecycleTypeInv, ~Stranded, NEW w \in Workers,
         TakeGenerate(w) \/ TakeTransmit(w), UNCHANGED paVars
  PROVE  ~Stranded'
<1>1. queue \in [Tasks -> Nat] /\ "generate" \in Tasks /\ "transmit" \in Tasks /\ row' = row
  BY TypedParts DEF Tasks, TakeGenerate, TakeTransmit, Take, Drop
<1>2. KeepsWatch
  <2>1. CASE Drop("generate") \/ Drop("transmit")
    BY <2>1, WatchKept DEF Drop, paVars
  <2>2. CASE ~(Drop("generate") \/ Drop("transmit"))
    <3>1. pc[w] = "idle" /\ \E l : pc' = [pc EXCEPT ![w] = l]
      BY <2>2 DEF TakeGenerate, TakeTransmit, Take, Read
    <3>2. \A v \in Workers : v # w => pc'[v] = pc[v]
      BY <3>1, OthersWork
    <3> QED
      BY <1>1, <3>1, <3>2, WatchKept DEF paVars
  <2> QED
    BY <2>1, <2>2
<1>3. CASE TakeGenerate(w)
  <2>1. queue' = [queue EXCEPT !["generate"] = queue["generate"] - 1]
    BY <1>3 DEF TakeGenerate, Take, Drop
  <2>2. queue'["transmit"] = queue["transmit"]
    BY <1>1, <2>1
  <2>3. CASE row.status = "processing" /\ Take(w, "generate", "generate")
    <3>1. pc'[w] = "generate"
      BY <2>3, OthersWork DEF Take, Read
    <3> QED
      BY <1>1, <2>3, <3>1, NotStranded DEF Generating, At
  <2>4. CASE row.status # "processing" /\ Drop("generate")
    <3>1. Submitting => Submitting'
      BY <2>2, <2>4 DEF Drop, Submitting, At
    <3> QED
      BY <1>1, <1>2, <2>4, <3>1, NotStranded DEF KeepsWatch
  <2> QED
    BY <1>3, <2>3, <2>4 DEF TakeGenerate
<1>4. CASE TakeTransmit(w)
  <2>1. queue' = [queue EXCEPT !["transmit"] = queue["transmit"] - 1]
    BY <1>4 DEF TakeTransmit, Take, Drop
  <2>2. queue'["generate"] = queue["generate"]
    BY <1>1, <2>1
  <2>3. CASE row.status = "transmitting" /\ Take(w, "transmit", "submit")
    <3>1. pc'[w] = "submit"
      BY <2>3, OthersWork DEF Take, Read
    <3> QED
      BY <1>1, <2>3, <3>1, NotStranded DEF Submitting, At
  <2>4. CASE row.status # "transmitting" /\ Drop("transmit")
    BY <1>1, <2>2, <2>4, NotStranded DEF Drop, Generating, At
  <2> QED
    BY <1>4, <2>3, <2>4 DEF TakeTransmit
<1> QED
  BY <1>3, <1>4

\* A worker that has committed the row announces what it committed it for.
LEMMA SendKeepsWork ==
  ASSUME LifecycleTypeInv, ~Stranded, NEW w \in Workers, UNCHANGED paVars,
         \/ SendGenerate(w) \/ SendTransmit(w) \/ SendPaid212(w) \/ RetryEreporting(w)
  PROVE  ~Stranded'
<1>1. /\ queue \in [Tasks -> Nat] /\ "generate" \in Tasks /\ "transmit" \in Tasks
      /\ "paid212" \in Tasks /\ "ereporting" \in Tasks
  BY TypedParts DEF Tasks
<1>2. PICK k \in {"send_generate", "send_transmit", "send_paid212", "send_ereport"},
           t \in {"generate", "transmit", "paid212", "ereporting"} :
        /\ Send(w, k, t)
        /\ k \in GenerateLabels => t = "generate"
        /\ k \in SentLabels => t = "transmit"
  BY DEF SendGenerate, SendTransmit, SendPaid212, RetryEreporting, GenerateLabels, SentLabels,
         SubmissionLabels
<1>3. /\ pc[w] = k /\ pc' = [pc EXCEPT ![w] = "idle"] /\ row' = row
      /\ queue' = [queue EXCEPT ![t] = queue[t] + 1]
  BY <1>2 DEF Send, Finish
<1>4. queue'[t] # 0 /\ \A u \in Tasks : queue[u] # 0 => queue'[u] # 0
  BY <1>1, <1>3
<1>5. KeepsWork
  BY <1>1, <1>2, <1>3, <1>4, WorkKept
<1>6. \A v \in Workers : v # w => pc'[v] = pc[v]
  BY <1>3, OthersWork
<1>7. KeepsWatch
  BY <1>2, <1>3, <1>6, WatchKept DEF paVars
<1> QED
  BY <1>3, <1>5, <1>7, WaitsOn DEF WaitsAsBefore

LEMMA IssuanceStrandsNot ==
  ASSUME LifecycleTypeInv, ~Stranded, clean', NEW w \in Workers,
         IssuanceRequest(w) \/ IssuanceTask(w), UNCHANGED paVars
  PROVE  ~Stranded'
<1>1. row \in Row /\ copy[w] \in Row
  BY TypedParts
<1>2. CASE OpenEdit(w) \/ OpenDelete(w) \/ OpenValidate(w) \/ OpenRecordPayment(w)
  BY <1>2, ReadLeavesWork DEF OpenEdit, OpenDelete, OpenValidate, OpenRecordPayment, Open
<1>3. CASE TakePreview(w)
  BY <1>3, TakeLeavesWork DEF TakePreview, Tasks
<1>4. CASE TakeGenerate(w)
  BY <1>4, TaskTaken
<1>5. CASE SendGenerate(w)
  BY <1>5, SendKeepsWork
<1>6. CASE UpdateInvoice(w) \/ SoftDelete(w) \/ RecordPayment(w) \/ GenerateSourcePdf(w)
  <2>1. \/ row' = Edited(row) \/ row' = [row EXCEPT !.pdf = "source"]
        \/ row' = [row EXCEPT !.deleted = TRUE] \/ row' = [row EXCEPT !.payment = TRUE]
    <3>1. CASE UpdateInvoice(w)
      BY <3>1, CleanSave DEF UpdateInvoice
    <3>2. CASE GenerateSourcePdf(w)
      BY <3>2, CleanSave DEF GenerateSourcePdf
    <3>3. CASE SoftDelete(w) \/ RecordPayment(w)
      BY <3>3 DEF SoftDelete, RecordPayment, SaveFields
    <3> QED
      BY <1>6, <3>1, <3>2, <3>3
  <2>2. row'.status = row.status /\ row'.flow = row.flow
    BY <1>1, <2>1 DEF Edited, Row
  <2>3. pc[w] \notin WaitedFor /\ queue' = queue /\ pc' = [pc EXCEPT ![w] = "idle"]
    BY <1>6
    DEF UpdateInvoice, SoftDelete, RecordPayment, GenerateSourcePdf, Finish, WaitedFor,
        GenerateLabels, SentLabels, SubmissionLabels
  <2>4. WaitsAsBefore
    BY <2>2 DEF WaitsAsBefore
  <2> QED
    BY <2>2, <2>3, <2>4, OtherWork DEF paVars
<1>7. CASE ValidateInvoice(w)
  <2>1. pc'[w] = "send_generate"
    BY <1>7, OthersWork DEF ValidateInvoice, SendNext
  <2>2. row'.status = "processing"
    <3> DEFINE v == [copy[w] EXCEPT !.status = "processing", !.number = NumberFor(copy[w]),
                       !.ereporting = IF EreportingFlow THEN "pending" ELSE @]
    <3>1. row' = v
      BY <1>7 DEF ValidateInvoice, Save
    <3> QED
      BY <1>1, <3>1 DEF Row
  <2> QED
    BY <2>1, <2>2, NotStranded DEF Generating, At
<1>8. CASE GenerateSucceeds(w) \/ GenerateFails(w) \/ AfterGenerationFails(w)
  <2>1. \/ row' = [copy[w] EXCEPT !.status = "validated", !.pdf = "facturx"]
        \/ row' = [copy[w] EXCEPT !.status = "draft"]
    BY <1>8 DEF GenerateSucceeds, GenerateFails, AfterGenerationFails, Save
  <2>2. row'.status \in {"validated", "draft"}
    BY <1>1, <2>1 DEF Row
  <2> QED
    BY <2>2, NotStranded
<1>9. CASE AfterGeneration(w) \/ SendEreporting(w)
  <2>1. UNCHANGED <<queue["generate"], queue["transmit"]>>
    <3>1. CASE queue' = queue
      BY <3>1
    <3>2. CASE queue' = [queue EXCEPT !["ereporting"] = queue["ereporting"] + 1]
      BY <3>2, OtherMessages DEF Tasks
    <3> QED
      BY <1>9, <3>1, <3>2 DEF AfterGeneration, SendEreporting, WithEreporting
  <2>2. PICK l \in {"idle", "signal"} : pc' = [pc EXCEPT ![w] = l]
    BY <1>9 DEF AfterGeneration, SendEreporting, Finish
  <2>3. pc[w] \notin WaitedFor /\ row' = row
    BY <1>9
    DEF AfterGeneration, SendEreporting, WaitedFor, GenerateLabels, SentLabels, SubmissionLabels
  <2>4. WaitsAsBefore
    BY <2>3 DEF WaitsAsBefore
  <2> QED
    BY <2>1, <2>2, <2>3, <2>4, OtherWork DEF paVars
<1> QED
  BY <1>2, <1>3, <1>4, <1>5, <1>6, <1>7, <1>8, <1>9 DEF IssuanceRequest, IssuanceTask, Generate

LEMMA EreportingStrandsNot ==
  ASSUME LifecycleTypeInv, ~Stranded, NEW w \in Workers, EreportingTask(w), UNCHANGED paVars
  PROVE  ~Stranded'
<1>1. CASE TakeEreporting(w)
  BY <1>1, TakeLeavesWork DEF TakeEreporting, Tasks
<1>2. CASE Ereport(w)
  <2>1. PICK s : SaveEreporting(w, s)
    BY <1>2 DEF Ereport, EreportingSucceeds, EreportingRefused, EreportingUnavailable
  <2>2. PICK l \in {"idle", "send_ereport"} : pc' = [pc EXCEPT ![w] = l]
    BY <1>2
    DEF Ereport, EreportingSucceeds, EreportingRefused, EreportingUnavailable, Finish, SendNext
  <2>3. pc[w] = "ereport" /\ queue' = queue
    BY <1>2 DEF Ereport, EreportingSucceeds, EreportingRefused, EreportingUnavailable
  <2>4. row'.status = row.status /\ row'.flow = row.flow
    <3>1. row' = [row EXCEPT !.ereporting = s] /\ row \in Row
      BY <2>1, TypedParts DEF SaveEreporting, SaveFields
    <3> QED
      BY <3>1 DEF Row
  <2>5. pc[w] \notin WaitedFor
    BY <2>3 DEF WaitedFor, GenerateLabels, SentLabels, SubmissionLabels
  <2>6. WaitsAsBefore
    BY <2>4 DEF WaitsAsBefore
  <2> QED
    BY <2>2, <2>3, <2>4, <2>5, <2>6, OtherWork DEF paVars
<1>3. CASE RetryEreporting(w)
  BY <1>3, SendKeepsWork
<1> QED
  BY <1>1, <1>2, <1>3 DEF EreportingTask

\* The worker that submits the invoice makes its first flow.
LEMMA FirstFlow ==
  ASSUME LifecycleTypeInv, KnowsInv, Handed, "nack" \notin Faults,
         NEW w \in Workers, pc[w] = "submit"
  PROVE  events = <<>>
<1>1. Submissions = 0
  BY DEF Handed, OneOf, SubmissionLabels
<1>2. queue["transmit"] \in Nat /\ Len(flows) \in Nat
  BY TypedParts DEF Tasks
<1>3. Len(flows) = 0 /\ DOMAIN flows = 1..Len(flows)
  BY <1>1, <1>2, PollParts DEF Submissions
<1>4. ~FlowAccepted
  BY <1>3 DEF FlowAccepted
<1> QED
  BY <1>4 DEF KnowsInv

LEMMA TransmissionStrandsNot ==
  ASSUME LifecycleTypeInv, KnowsInv, Handed, {"nack", "no_flow_id"} \cap Faults = {},
         ~Stranded, clean', NEW w \in Workers, TransmissionRequest(w) \/ TransmissionTask(w)
  PROVE  ~Stranded'
<1>1. row \in Row /\ copy[w] \in Row /\ Knows(pc[w], copy[w])
  BY TypedParts DEF KnowsInv
<1>2. CASE OpenTransmit(w) \/ OpenMarkPaid(w) \/ OpenOnlinePayment(w) \/ OpenAutoCancel(w)
  BY <1>2, ReadLeavesWork
  DEF OpenTransmit, OpenMarkPaid, OpenOnlinePayment, OpenAutoCancel, Open
<1>3. CASE SendTransmit(w) \/ SendPaid212(w)
  BY <1>3, SendKeepsWork DEF SendTransmit, SendPaid212
<1>4. CASE TakeTransmit(w)
  BY <1>4, TaskTaken DEF TakeTransmit
<1>5. CASE RequestTransmission(w)
  <2>1. pc'[w] = "send_transmit"
    BY <1>5, OthersWork DEF RequestTransmission, SendNext
  <2>2. row'.status = "transmitting"
    BY <1>1, <1>5 DEF RequestTransmission, SaveFields, Row
  <2> QED
    BY <2>1, <2>2, NotStranded DEF Submitting, At
<1>6. CASE MarkPaid(w) \/ AutoCancel(w) \/ RevertTransmission(w)
  <2>1. \/ row' = PaidCopy(copy[w]) \/ row' = [row EXCEPT !.status = "cancelled"]
        \/ row' = [row EXCEPT !.status = "validated"]
    BY <1>6 DEF MarkPaid, AutoCancel, RevertTransmission, Save, SaveFields
  <2>2. row'.status \in {"paid", "cancelled", "validated"}
    BY <1>1, <2>1 DEF PaidCopy, Row
  <2> QED
    BY <2>2, NotStranded
<1>7. CASE SubmitFlow(w)
  <2>1. PICK l \in {"submitted", "submit_failed"} : pc' = [pc EXCEPT ![w] = l]
    BY <1>7 DEF SubmitFlow
  <2>2. /\ pc[w] = "submit" /\ UNCHANGED <<queue, row, events, logged, seen, known>>
    BY <1>7 DEF SubmitFlow
  <2>3. pc'[w] = l /\ \A v \in Workers : v # w => pc'[v] = pc[v]
    BY <2>1, OthersWork
  <2>4. CASE l = "submitted"
    <3>1. FlowWatched'
      BY <2>2, <2>3, <2>4, FirstFlow DEF FlowWatched, At
    <3>2. Generating => Generating'
      BY <2>2, <2>3 DEF Generating, At
    <3> QED
      BY <2>2, <3>1, <3>2, NotStranded
  <2>5. CASE l = "submit_failed"
    <3>1. KeepsWork
      BY <2>1, <2>2, <2>5, WorkKept DEF GenerateLabels, SentLabels, SubmissionLabels
    <3>2. KeepsWatch
      BY <2>2, <2>3, WatchKept
    <3> QED
      BY <2>2, <3>1, <3>2, WaitsOn DEF WaitsAsBefore
  <2> QED
    BY <2>4, <2>5
<1>8. CASE SaveFlow(w)
  <2>1. /\ pc[w] = "submitted" /\ pc' = [pc EXCEPT ![w] = "idle"] /\ UNCHANGED <<queue, paVars>>
        /\ row' = [row EXCEPT !.flow = copy[w].flow]
    BY <1>8 DEF SaveFlow, SaveFields, Finish
  <2>2. row'.status = row.status /\ row'.flow = copy[w].flow
    BY <1>1, <2>1 DEF Row
  <2>3. row'.flow # 0
    BY <1>1, <2>1, <2>2 DEF Knows
  <2>4. pc'[w] = "idle" /\ \A v \in Workers : v # w => pc'[v] = pc[v]
    BY <2>1, OthersWork
  <2>5. KeepsWork
    BY <2>1, WorkKept DEF GenerateLabels, SentLabels, SubmissionLabels
  <2>6. FlowWatched => FlowWatched'
    BY <2>1, <2>3 DEF FlowWatched, paVars
  <2>7. EventAwaited => EventAwaited'
    <3>1. \A i : Releases(i)' <=> Releases(i)
      BY <2>1, ReleasesAgain DEF paVars
    <3>2. \A v \in Workers : Due(v)' = Due(v)
      BY <2>1 DEF Due, paVars
    <3> QED
      BY <2>1, <2>4, <3>1, <3>2 DEF EventAwaited, paVars
  <2> QED
    BY <2>2, <2>5, <2>6, <2>7, WaitsOn DEF WaitsAsBefore, KeepsWatch
<1> QED
  BY <1>2, <1>3, <1>4, <1>5, <1>6, <1>7, <1>8 DEF TransmissionRequest, TransmissionTask

\* The poll that logs an event holds it until it applies it ...
LEMMA LogHolds ==
  ASSUME LifecycleTypeInv, NEW w \in Workers, LogEvent(w)
  PROVE  KeepsWatch
<1>1. /\ pc[w] = "event" /\ pc' = [pc EXCEPT ![w] = "apply"]
      /\ UNCHANGED <<row, events, seen, known>>
  BY DEF LogEvent
<1>2. PICK i \in Due(w) : logged' = logged \union {i}
  BY DEF LogEvent
<1>3. pc'[w] = "apply" /\ \A v \in Workers : v # w => pc'[v] = pc[v]
  BY <1>1, OthersWork
<1>4. FlowWatched => FlowWatched'
  BY <1>1, <1>3 DEF FlowWatched, At
<1>5. \A j : Releases(j)' <=> Releases(j)
  BY <1>1, ReleasesAgain
<1>6. \A v \in Workers : Due(v)' = Due(v)
  BY <1>1 DEF Due
<1>7. ASSUME NEW j \in DOMAIN events \ logged, Releases(j) PROVE EventAwaited'
  <2>1. CASE j = i
    BY <1>2, <1>3, <1>5, <1>6, <1>7, <2>1 DEF EventAwaited
  <2>2. CASE j # i
    <3>1. j \in DOMAIN events' \ logged'
      BY <1>1, <1>2, <1>7, <2>2
    <3> QED
      BY <1>5, <1>7, <3>1 DEF EventAwaited
  <2> QED
    BY <2>1, <2>2
<1>8. ASSUME NEW v \in Workers, pc[v] \in {"event", "apply"}, NEW j \in Due(v), Releases(j)
      PROVE  EventAwaited'
  <2>1. pc'[v] \in {"event", "apply"} /\ j \in Due(v)' /\ Releases(j)'
    BY <1>3, <1>5, <1>6, <1>8
  <2> QED
    BY <2>1 DEF EventAwaited
<1> QED
  BY <1>4, <1>7, <1>8 DEF KeepsWatch, EventAwaited

\* ... and lets go of one that does not release the invoice.
LEMMA ApplyReleases ==
  ASSUME LifecycleTypeInv, PollsKnow, NEW w \in Workers, ApplyEvent(w),
         clean, row.status = "transmitting", row'.status = "transmitting"
  PROVE  KeepsWatch
<1>1. row \in Row /\ copy[w] \in Row /\ pc[w] = "apply"
  BY TypedParts DEF ApplyEvent
<1>2. PICK i \in Due(w) : ApplyEvent(w)!2!(i)
  BY DEF ApplyEvent
<1> DEFINE s == StatusOf[events[i]]
<1>3. s # "transmitting"
  BY <1>2, PollParts DEF StatusOf, Codes
<1>4. ~CanTransition(copy[w].status, s) /\ pc' = [pc EXCEPT ![w] = "event"] /\ row' = row
  <2>1. \/ row' = [row EXCEPT !.status = s]
        \/ ~CanTransition(copy[w].status, s) /\ pc' = [pc EXCEPT ![w] = "event"] /\ row' = row
    BY <1>2 DEF SaveFields
  <2> HIDE DEF s
  <2>2. row' # [row EXCEPT !.status = s]
    BY <1>1, <1>3 DEF Row
  <2> QED
    BY <2>1, <2>2
<1>5. copy[w].status = "transmitting"
  BY <1>1 DEF PollsKnow, PollHolding
<1>6. ~Releases(i)
  BY <1>4, <1>5 DEF Releases
<1>7. known' = [known EXCEPT ![w] = known[w] \union {i}]
  BY <1>2
<1>8. UNCHANGED <<events, logged, seen>>
  BY DEF ApplyEvent, Rest
<1>9. pc'[w] = "event" /\ \A v \in Workers : v # w => pc'[v] = pc[v]
  BY <1>4, OthersWork
<1>10. FlowWatched => FlowWatched'
  BY <1>1, <1>4, <1>8, <1>9 DEF FlowWatched, At
<1>11. \A j : Releases(j)' <=> Releases(j)
  BY <1>8, ReleasesAgain
<1>12. ASSUME NEW v \in Workers, NEW j \in Due(v), j # i
       PROVE  j \in Due(v)'
  BY <1>7, <1>8, <1>12, PollParts DEF Due
<1>13. ASSUME NEW v \in Workers, v # w, NEW j \in Due(v)
       PROVE  j \in Due(v)'
  BY <1>7, <1>8, <1>13, PollParts DEF Due
<1>14. ASSUME NEW j \in DOMAIN events \ logged, Releases(j) PROVE EventAwaited'
  BY <1>8, <1>11, <1>14 DEF EventAwaited
<1>15. ASSUME NEW v \in Workers, pc[v] \in {"event", "apply"}, NEW j \in Due(v), Releases(j)
       PROVE  EventAwaited'
  <2>1. pc'[v] \in {"event", "apply"} /\ j \in Due(v)' /\ Releases(j)'
    BY <1>6, <1>9, <1>11, <1>12, <1>15
  <2> QED
    BY <2>1 DEF EventAwaited
<1> QED
  BY <1>10, <1>14, <1>15 DEF KeepsWatch, EventAwaited

LEMMA PollStrandsNot ==
  ASSUME LifecycleTypeInv, KnowsInv, PollsKnow, clean, ~Stranded,
         NEW w \in Workers, Poll(w) \/ PollStep(w)
  PROVE  ~Stranded'
<1>1. row \in Row /\ copy[w] \in Row
  BY TypedParts
<1>2. PICK l : pc' = [pc EXCEPT ![w] = l]
  BY PollTells
<1>3. row' = row \/ row'.status \notin {"processing", "transmitting"}
  BY PollTells
<1>4. UNCHANGED <<queue["generate"], queue["transmit"]>>
  <2>1. CASE queue' = queue
    BY <2>1
  <2>2. CASE queue' = [queue EXCEPT !["paid212"] = queue["paid212"] + 1]
    BY <2>2, OtherMessages DEF Tasks
  <2>3. SendAuto212(w) => queue' = [queue EXCEPT !["paid212"] = queue["paid212"] + 1]
    BY DEF SendAuto212
  <2>4. ~SendAuto212(w) => queue' = queue
    BY DEF Poll, PollStep, ReadForEvents, ReadLogs, LogEvent, ApplyEvent, AutoMarkPaid,
           PollEnds, ReadForFallback, FallbackApply
  <2> QED
    BY <2>1, <2>2, <2>3, <2>4
<1>5. CASE row'.status \notin {"processing", "transmitting"}
  BY <1>5, NotStranded
<1>6. /\ pc[w] \notin GenerateLabels \union SentLabels \union {"submitted"}
      /\ pc[w] \in {"event", "apply"} => LogEvent(w) \/ ApplyEvent(w) \/ PollEnds(w)
      /\ events' = events
  BY DEF Poll, PollStep, ReadForEvents, ReadLogs, LogEvent, ApplyEvent, AutoMarkPaid, SendAuto212,
         PollEnds, ReadForFallback, FallbackApply, GenerateLabels, SentLabels, SubmissionLabels,
         Rest, paVars
<1>7. KeepsWork
  BY <1>2, <1>4, <1>6, WorkKept
<1>8. CASE row' = row /\ LogEvent(w)
  BY <1>7, <1>8, LogHolds, WaitsOn DEF WaitsAsBefore
<1>9. CASE row' = row /\ ApplyEvent(w)
  <2>1. CASE row.status = "transmitting"
    BY <1>7, <1>9, <2>1, ApplyReleases, WaitsOn DEF WaitsAsBefore
  <2>2. CASE row.status # "transmitting"
    BY <1>7, <1>9, <2>2, NotStranded DEF KeepsWork
  <2> QED
    BY <2>1, <2>2
<1>10. \A v \in Workers : v # w => pc'[v] = pc[v] /\ seen'[v] = seen[v] /\ known'[v] = known[v]
  <2>1. \A v \in Workers : v # w => pc'[v] = pc[v]
    BY <1>2, OthersWork
  <2>2. /\ seen \in [Workers -> 0..Len(events)] /\ known \in [Workers -> SUBSET DOMAIN events]
    BY PollParts
  <2>3. seen' = seen \/ \E n : seen' = [seen EXCEPT ![w] = n]
    BY DEF Poll, PollStep, ReadForEvents, ReadLogs, LogEvent, ApplyEvent, AutoMarkPaid, SendAuto212,
           PollEnds, ReadForFallback, FallbackApply, EndPoll, paVars
  <2>4. known' = known \/ \E n : known' = [known EXCEPT ![w] = n]
    BY DEF Poll, PollStep, ReadForEvents, ReadLogs, LogEvent, ApplyEvent, AutoMarkPaid, SendAuto212,
           PollEnds, ReadForFallback, FallbackApply, EndPoll, paVars
  <2> QED
    BY <2>1, <2>2, <2>3, <2>4
<1>11. CASE row' = row /\ PollEnds(w)
  <2>1. Due(w) = {} /\ UNCHANGED <<events, logged>> /\ pc[w] = "event"
    BY <1>11 DEF PollEnds, Rest
  <2>2. \A i : Releases(i)' <=> Releases(i)
    BY <2>1, ReleasesAgain
  <2>3. \A v \in Workers : v # w => Due(v)' = Due(v)
    BY <1>10 DEF Due
  <2>4. EventAwaited => EventAwaited'
    BY <1>10, <2>1, <2>2, <2>3 DEF EventAwaited
  <2>5. FlowWatched => FlowWatched'
    BY <1>10, <1>11, <2>1 DEF FlowWatched, At
  <2> QED
    BY <1>7, <1>11, <2>4, <2>5, WaitsOn DEF WaitsAsBefore, KeepsWatch
<1>12. CASE row' = row /\ ~(LogEvent(w) \/ ApplyEvent(w) \/ PollEnds(w))
  <2>1. logged' = logged
    BY <1>12
    DEF Poll, PollStep, ReadForEvents, ReadLogs, AutoMarkPaid, SendAuto212, ReadForFallback,
        FallbackApply, Rest, paVars
  <2>2. KeepsWatch
    BY <1>6, <1>10, <1>12, <2>1, WatchKept
  <2> QED
    BY <1>7, <1>12, <2>2, WaitsOn DEF WaitsAsBefore
<1> QED
  BY <1>3, <1>5, <1>8, <1>9, <1>11, <1>12

\* The first event of the PA releases a transmitting invoice.
LEMMA PublishStrandsNot ==
  ASSUME LifecycleTypeInv, ~Stranded, Publish
  PROVE  ~Stranded'
<1>1. PICK c \in NextCodes : events' = Append(events, c)
  BY DEF Publish
<1>2. UNCHANGED <<row, pc, queue, logged, seen, known>>
  BY DEF Publish, rowVars
<1>3. events \in Seq(Codes) /\ logged \subseteq DOMAIN events
  BY PollParts
<1>4. \A i \in DOMAIN events : i \in DOMAIN events' /\ events'[i] = events[i]
  BY <1>1, <1>3
<1>5. KeepsWork
  BY <1>2 DEF KeepsWork, Generating, Submitting, At
<1>6. FlowWatched => EventAwaited'
  <2> SUFFICES ASSUME events = <<>> PROVE EventAwaited'
    BY DEF FlowWatched
  <2>1. c \in {"200", "213"}
    BY DEF NextCodes
  <2>2. events' = <<c>> /\ logged' = {}
    BY <1>1, <1>2, <1>3
  <2>3. 1 \in DOMAIN events' \ logged' /\ events'[1] = c
    BY <2>2
  <2>4. StatusOf["200"] = "transmitted" /\ StatusOf["213"] = "rejected"
    BY DEF StatusOf, Codes
  <2>5. Releases(1)'
    BY <2>1, <2>3, <2>4 DEF Releases, CanTransition, Transitions
  <2> QED
    BY <2>3, <2>5 DEF EventAwaited
<1>7. EventAwaited => EventAwaited'
  <2>1. ASSUME NEW i \in DOMAIN events, Releases(i) PROVE i \in DOMAIN events' /\ Releases(i)'
    BY <1>4, <2>1, ReleasesAgain
  <2>2. \A v \in Workers : Due(v)' = Due(v) /\ Due(v) \subseteq DOMAIN events
    BY <1>2, PollParts DEF Due
  <2> QED
    BY <1>2, <2>1, <2>2 DEF EventAwaited
<1> QED
  BY <1>2, <1>5, <1>6, <1>7, NotStranded DEF KeepsWork

LEMMA OnlyCrashesStrandStep ==
  ASSUME LifecycleTypeInv, KnowsInv, Handed, PollsKnow, {"nack", "no_flow_id"} \cap Faults = {},
         [LifecycleNext]_lifecycleVars, clean', ~Stranded, \A w \in Workers : ~CrashPa(w)
  PROVE  ~Stranded'
<1>1. clean
  BY LifecycleEffect
<1>2. CASE UNCHANGED lifecycleVars
  BY <1>2, MessagesKept DEF lifecycleVars, rowVars, paVars
<1>3. CASE CancelInvoice \/ Acknowledge
  BY <1>3, MessagesKept DEF CancelInvoice, Acknowledge, rowVars
<1>4. CASE RequestPreview /\ UNCHANGED paVars
  <2>1. PICK n : queue' = [queue EXCEPT !["preview"] = n]
    BY <1>4 DEF RequestPreview
  <2>2. UNCHANGED <<queue["generate"], queue["transmit"]>>
    BY <2>1, OtherMessages DEF Tasks
  <2> QED
    BY <1>4, <2>2, MessagesKept DEF RequestPreview, paVars
<1>5. CASE ReportPaid
  <2>1. PICK n : queue' = [queue EXCEPT !["paid212"] = n]
    BY <1>5 DEF ReportPaid
  <2>2. UNCHANGED <<queue["generate"], queue["transmit"]>>
    BY <2>1, OtherMessages DEF Tasks
  <2> QED
    BY <1>5, <2>2, MessagesKept DEF ReportPaid
<1> QED
  BY <1>1, <1>2, <1>3, <1>4, <1>5, IssuanceStrandsNot, EreportingStrandsNot,
     TransmissionStrandsNot, PollStrandsNot, PublishStrandsNot
  DEF LifecycleNext, TransmissionNext, TransmissionStep

\* Until a save is made from a stale copy, an invoice in processing or transmitting has a
\* worker, a message, or a flow or an event that the polls will ask for, and is stranded
\* only by a worker that dies, under serial requests and as long as the PA answers every
\* submission with the flow's id and refuses no flow: no refusal, retry, payment or poll,
\* however many polls run at once, strands it.
THEOREM LifecycleStrandsByCrashes ==
  ASSUME Serial, {"timed_out", "nack", "no_flow_id"} \cap Faults = {}
  PROVE  LifecycleSpec => OnlyCrashesStrand
<1> DEFINE Inv == LifecycleTypeInv /\ KnowsInv /\ IssuanceTurns /\ Handed
<1>1. LifecycleSpec => []Inv
  BY HandedHolds
<1>2. LifecycleInit => PollsKnow
  <2> SUFFICES ASSUME LifecycleInit, NEW w \in Workers PROVE pc[w] \notin PollHolding
    BY DEF PollsKnow
  <2>1. pc[w] = "idle"
    BY DEF LifecycleInit, RowInit
  <2> QED
    BY <2>1 DEF PollHolding
<1>3. Inv /\ Inv' /\ PollsKnow /\ [LifecycleNext]_lifecycleVars => PollsKnow'
  BY PollsStillKnow
<1>4. Inv /\ PollsKnow /\ [LifecycleNext]_lifecycleVars
        => [clean' /\ Stranded' => Stranded \/ \E w \in Workers : CrashPa(w)]_lifecycleVars
  BY OnlyCrashesStrandStep
<1> HIDE DEF Inv
<1> QED
  BY <1>1, <1>2, <1>3, <1>4, PTL DEF LifecycleSpec, OnlyCrashesStrand

----------------------------------------------------------------------------
(* The payment is reported once, when the poll alone pays.  Answers may be *)
(* lost and the invoice submitted again: what counts is that nothing takes *)
(* a paid invoice back, or that the event that let it be paid is past.     *)

\* Requests do not overlap, payments come from the poll, no flow is refused, and one
\* worker polls.
OneReporter ==
  /\ Serial
  /\ {"mark_paid", "online_payment"} \cap Handlers = {}
  /\ "nack" \notin Faults
  /\ \A v, w \in Pollers : v = w

Payers == {"mark_paid", "online_payment", "send_paid212"}

SubmitLabels == {"send_transmit", "submit", "submitted", "submit_failed"}

\* A submission, from its request to the save of its flow.
TransmitLabels == {"transmit"} \union SubmitLabels

\* The invoice has left and no submission of it is going on: none that could fail and
\* take it back to validated.
Over == Away(row.status) /\ ~InUse(pc, TransmitLabels, queue["transmit"])

\* One submission at a time, of an invoice that leaves with it; its flow is the last thing
\* it saves, so that whoever has seen a flow comes after it.
Sending ==
  /\ OneOf(pc, TransmitLabels, queue["transmit"])
  /\ InUse(pc, SubmitLabels, queue["transmit"]) => Away(row.status)
  /\ row.flow # 0 => Over
  /\ \A i \in DOMAIN flows : flows[i] # "error"
  /\ \A w \in Workers :
       /\ pc[w] \notin Payers
       /\ pc[w] \in Polling => w \in Pollers
       /\ pc[w] \in PollHolding /\ copy[w].flow # 0 => Over

Underway == LifecycleTypeInv /\ KnowsInv /\ IssuanceTurns /\ Sending

Reports == queue["paid212"] + reported

\* A step that is not of a poll.
Beside ==
  /\ row'.status = row.status \/ row'.status # "transmitted"
  /\ Over => row'.status \in {row.status, "cancelled"}
  /\ \A v \in Workers :
       \/ /\ pc'[v] = pc[v] /\ copy'[v] = copy[v]
          /\ seen'[v] = seen[v] /\ known'[v] = known[v]
       \/ pc'[v] \notin Polling /\ known'[v] \subseteq known[v]
  /\ logged' = logged
  /\ events' = events \/ Publish
  /\ Reports' <= Reports

Onward == Sending' /\ (Over => Over')

LEMMA SendingLabels ==
  /\ TransmitLabels \cap (Polling \union Payers \union {"idle", "auto_cancel"}) = {}
  /\ PollHolding \subseteq Polling /\ Polling \cap (Payers \union {"idle"}) = {}
  /\ SubmitLabels \subseteq TransmitLabels
  /\ {"idle", "edit", "delete", "validate", "send_generate", "record_payment", "generate",
      "generated", "ereport", "send_ereport", "auto_cancel"}
       \cap (Polling \union TransmitLabels \union Payers) = {}
  /\ TransmitLabels \subseteq LateLabels
BY DEF TransmitLabels, SubmitLabels, Polling, PollHolding, Payers, LateLabels, TransmissionLabels

LEMMA SendingTyped ==
  ASSUME LifecycleTypeInv, LifecycleTypeInv'
  PROVE  /\ Reports \in Nat /\ Reports' \in Nat
         /\ queue["transmit"] \in Nat /\ queue'["transmit"] \in Nat
<1>1. "paid212" \in Tasks /\ "transmit" \in Tasks
  BY DEF Tasks
<1>2. queue \in [Tasks -> Nat] /\ reported \in Nat
  BY TypedParts DEF PaTypeOK
<1>3. queue' \in [Tasks -> Nat] /\ reported' \in Nat
  BY DEF LifecycleTypeInv, LifecycleTypeOK, PaTypeOK
<1>4. /\ queue["transmit"] \in Nat /\ queue["paid212"] \in Nat
      /\ queue'["transmit"] \in Nat /\ queue'["paid212"] \in Nat
  BY <1>1, <1>2, <1>3
<1> QED
  BY <1>2, <1>3, <1>4 DEF Reports

LEMMA SendingFrame ==
  ASSUME Underway, NEW w \in Workers, NEW l, NEW c, Stepped(w, l, c),
         OneOf(pc', TransmitLabels, queue'["transmit"]),
         InUse(pc', SubmitLabels, queue'["transmit"]) => Away(row'.status),
         Over => Over', row'.flow # 0 => Over',
         \A i \in DOMAIN flows' : flows'[i] # "error",
         l \notin Payers, l \in Polling => w \in Pollers, l \in PollHolding /\ c.flow # 0 => Over
  PROVE  Sending'
<1>1. /\ pc'[w] = l /\ copy'[w] = c
      /\ \A v \in Workers : v # w => pc'[v] = pc[v] /\ copy'[v] = copy[v]
  BY TypedParts DEF Underway, Stepped
<1>2. ASSUME NEW v \in Workers
      PROVE  /\ pc'[v] \notin Payers
             /\ pc'[v] \in Polling => v \in Pollers
             /\ pc'[v] \in PollHolding /\ copy'[v].flow # 0 => Over'
  <2>1. CASE v = w
    BY <1>1, <2>1
  <2>2. CASE v # w
    BY <1>1, <2>2 DEF Underway, Sending
  <2> QED
    BY <2>1, <2>2
<1> QED
  BY <1>2 DEF Sending

\* A worker passes a submission on, or does something else.
LEMMA SendingPasses ==
  ASSUME Underway, LifecycleTypeInv', NEW w \in Workers, NEW l, NEW c, Stepped(w, l, c),
         Passes(pc[w], l, TransmitLabels, queue["transmit"], queue'["transmit"]),
         Passes(pc[w], l, SubmitLabels, queue["transmit"], queue'["transmit"]),
         Away(row.status) => Away(row'.status),
         \/ row'.flow \in {0, row.flow}
         \/ pc[w] \in PollHolding /\ row'.flow = copy[w].flow,
         \A i \in DOMAIN flows' : flows'[i] # "error",
         l \notin Payers, l \in Polling => w \in Pollers, l \in PollHolding /\ c.flow # 0 => Over
  PROVE  Onward
<1>1. /\ pc \in [Workers -> Labels] /\ pc' = [pc EXCEPT ![w] = l]
      /\ queue["transmit"] \in Nat /\ queue'["transmit"] \in Nat
  BY TypedParts, SendingTyped DEF Underway, Stepped
<1>2. /\ OneOf(pc', TransmitLabels, queue'["transmit"])
      /\ InUse(pc', TransmitLabels, queue'["transmit"])
           => InUse(pc, TransmitLabels, queue["transmit"])
  BY <1>1, WorkPasses DEF Underway, Sending
<1>3. InUse(pc', SubmitLabels, queue'["transmit"]) => InUse(pc, SubmitLabels, queue["transmit"])
  <2>1. OneOf(pc, SubmitLabels, queue["transmit"])
    BY DEF Underway, Sending, OneOf, TransmitLabels
  <2> QED
    BY <1>1, <2>1, WorkPasses
<1>4. Over => Over'
  BY <1>2 DEF Over
<1>5. row'.flow # 0 => Over'
  BY <1>4 DEF Underway, Sending
<1>6. InUse(pc', SubmitLabels, queue'["transmit"]) => Away(row'.status)
  BY <1>3 DEF Underway, Sending
<1> QED
  BY <1>2, <1>4, <1>5, <1>6, SendingFrame DEF Onward

LEMMA BesideFrame ==
  ASSUME Underway, NEW w \in Workers, NEW l, NEW c, Stepped(w, l, c), l \notin Polling,
         UNCHANGED <<events, logged, seen, known>>, Reports' <= Reports,
         row'.status = row.status \/ row'.status # "transmitted",
         Over => row'.status \in {row.status, "cancelled"}
  PROVE  Beside
<1>1. pc'[w] = l /\ \A v \in Workers : v # w => pc'[v] = pc[v] /\ copy'[v] = copy[v]
  BY TypedParts DEF Underway, Stepped
<1> QED
  BY <1>1 DEF Beside

\* A step of a handler that neither submits nor polls.
LEMMA ApartStep ==
  ASSUME Underway, LifecycleTypeInv', NEW w \in Workers, NEW l, NEW c, Stepped(w, l, c),
         l \in {"idle", "edit", "delete", "validate", "send_generate", "record_payment",
                "generate", "generated", "ereport", "send_ereport", "auto_cancel"},
         UNCHANGED paVars,
         queue'["transmit"] = queue["transmit"], queue'["paid212"] = queue["paid212"],
         row'.flow \in {0, row.flow},
         \/ row'.status \in {row.status, "cancelled"}
         \/ ~Away(row.status) /\ row'.status # "transmitted"
  PROVE  Onward /\ Beside
<1>1. l \notin Polling \union TransmitLabels \union Payers
  BY SendingLabels
<1>2. /\ Passes(pc[w], l, TransmitLabels, queue["transmit"], queue'["transmit"])
      /\ Passes(pc[w], l, SubmitLabels, queue["transmit"], queue'["transmit"])
  BY <1>1 DEF Passes, TransmitLabels
<1>3. Away(row.status) => Away(row'.status)
  BY DEF Away, Early
<1>4. l \notin PollHolding /\ \A i \in DOMAIN flows' : flows'[i] # "error"
  BY <1>1 DEF Polling, Underway, Sending, paVars
<1>5. Onward
  BY <1>1, <1>2, <1>3, <1>4, SendingPasses
<1>6. Reports' = Reports /\ Reports \in Nat
  BY SendingTyped DEF Reports, paVars, Underway
<1>7. Beside
  BY <1>1, <1>6, BesideFrame DEF paVars, Over
<1> QED
  BY <1>5, <1>7

LEMMA IssuanceRequestOnward ==
  ASSUME Underway, LifecycleTypeInv', NEW w \in Workers, IssuanceRequest(w), UNCHANGED paVars
  PROVE  Onward /\ Beside
<1>1. row \in Row /\ copy[w] \in Row /\ copy[w].flow <= Len(flows) /\ copy[w].flow \in Nat
  BY TypedParts DEF Underway, Row
<1>2. CASE OpenEdit(w) \/ OpenDelete(w) \/ OpenValidate(w) \/ OpenRecordPayment(w)
  <2>1. PICK l \in {"edit", "delete", "validate", "record_payment"} : Stepped(w, l, row)
    BY <1>2 DEF OpenEdit, OpenDelete, OpenValidate, OpenRecordPayment, Open, Read, Stepped
  <2>2. UNCHANGED <<row, queue>>
    BY <1>2 DEF OpenEdit, OpenDelete, OpenValidate, OpenRecordPayment, Open
  <2> QED
    BY <2>1, <2>2, ApartStep
<1>3. CASE UpdateInvoice(w) \/ SoftDelete(w) \/ ValidateInvoice(w)
  <2>1. pc[w] \in DraftLabels /\ queue' = queue
    BY <1>3 DEF UpdateInvoice, SoftDelete, ValidateInvoice, DraftLabels
  <2>2. PICK l \in {"idle", "send_generate"} : Stepped(w, l, Forgotten)
    BY <1>3 DEF UpdateInvoice, SoftDelete, ValidateInvoice, Finish, SendNext, Stepped
  <2>3. row.status \in Early /\ flows = <<>>
    BY <2>1, Alone DEF Underway
  <2>4. copy[w].flow = 0 /\ ~Away(row.status)
    BY <1>1, <2>3 DEF Away
  <2>5. row.status = "draft" /\ copy[w].status = "draft"
    BY <2>1 DEF Underway, IssuanceTurns, InTurn
  <2>6. row'.status \in {"draft", "processing"} /\ row'.flow \in {0, row.flow}
    <3>1. CASE UpdateInvoice(w)
      BY <1>1, <2>4, <2>5, <3>1 DEF UpdateInvoice, Save, Edited, Row
    <3>2. CASE SoftDelete(w)
      BY <1>1, <2>5, <3>2 DEF SoftDelete, SaveFields, Row
    <3>3. CASE ValidateInvoice(w)
      BY <1>1, <2>4, <3>3 DEF ValidateInvoice, Save, Row
    <3> QED
      BY <1>3, <3>1, <3>2, <3>3
  <2> QED
    BY <2>1, <2>2, <2>4, <2>6, ApartStep
<1>4. CASE SendGenerate(w)
  <2>1. /\ Stepped(w, "idle", Forgotten) /\ row' = row
        /\ queue' = [queue EXCEPT !["generate"] = @ + 1]
    BY <1>4 DEF SendGenerate, Send, Finish, Stepped
  <2>2. queue'["transmit"] = queue["transmit"] /\ queue'["paid212"] = queue["paid212"]
    BY <2>1, OneMessage DEF Underway, Tasks
  <2> QED
    BY <2>1, <2>2, ApartStep
<1>5. CASE RecordPayment(w)
  <2>1. /\ Stepped(w, "idle", Forgotten) /\ row' = [row EXCEPT !.payment = TRUE] /\ queue' = queue
    BY <1>5 DEF RecordPayment, SaveFields, Finish, Stepped
  <2>2. row'.status = row.status /\ row'.flow = row.flow
    BY <1>1, <2>1 DEF Row
  <2> QED
    BY <2>1, <2>2, ApartStep
<1> QED
  BY <1>2, <1>3, <1>4, <1>5 DEF IssuanceRequest

\* A step of nobody: a message is dropped, the PA answers.
LEMMA NobodyOnward ==
  ASSUME OneReporter, Underway, LifecycleTypeInv', UNCHANGED <<row, pc, copy, logged, seen, known>>,
         events' = events \/ Publish, \A i \in DOMAIN flows' : flows'[i] # "error",
         queue'["transmit"] <= queue["transmit"], Reports' <= Reports
  PROVE  Onward /\ Beside
<1>1. queue["transmit"] \in {0, 1} /\ queue'["transmit"] \in Nat
  BY SendingTyped DEF Underway, Sending, OneOf
<1>2. \A L : InUse(pc', L, queue'["transmit"]) => InUse(pc, L, queue["transmit"])
  BY <1>1 DEF InUse
<1>3. OneOf(pc', TransmitLabels, queue'["transmit"])
  BY <1>1 DEF OneOf, Underway, Sending
<1>4. Over => Over'
  BY <1>2 DEF Over
<1>5. Sending'
  BY <1>2, <1>3, <1>4 DEF Underway, Sending
<1> QED
  BY <1>4, <1>5 DEF Onward, Beside

LEMMA DropOnward ==
  ASSUME OneReporter, Underway, LifecycleTypeInv', NEW t \in Tasks \ {"paid212"}, Drop(t),
         UNCHANGED paVars
  PROVE  Onward /\ Beside
<1>1. queue' = [queue EXCEPT ![t] = @ - 1] /\ UNCHANGED <<row, pc, copy>>
  BY DEF Drop
<1>2. queue["transmit"] \in Nat /\ Reports \in Nat
  BY SendingTyped DEF Underway
<1>3. queue'["transmit"] <= queue["transmit"] /\ queue'["paid212"] = queue["paid212"]
  BY <1>1, <1>2, OneMessage DEF Underway, Tasks
<1>4. Reports' <= Reports
  BY <1>2, <1>3 DEF Reports, paVars
<1>5. \A i \in DOMAIN flows' : flows'[i] # "error"
  BY DEF Underway, Sending, paVars
<1> QED
  BY <1>1, <1>3, <1>4, <1>5, NobodyOnward DEF paVars

LEMMA IssuanceTaskOnward ==
  ASSUME OneReporter, Underway, LifecycleTypeInv', NEW w \in Workers, IssuanceTask(w),
         UNCHANGED paVars
  PROVE  Onward /\ Beside
<1>1. row \in Row /\ copy[w] \in Row /\ copy[w].flow <= Len(flows) /\ copy[w].flow \in Nat
  BY TypedParts DEF Underway, Row
<1>2. /\ ~TakePreview(w) /\ ~GenerateSourcePdf(w)
      /\ ~AfterGenerationFails(w) /\ ~SendEreporting(w)
  BY DEF TakePreview, Take, GenerateSourcePdf, AfterGenerationFails, SendEreporting, Underway,
         IssuanceTurns, InTurn, OneReporter, Serial
<1>3. CASE TakeGenerate(w)
  <2>1. row' = row /\ queue' = [queue EXCEPT !["generate"] = @ - 1]
    BY <1>3 DEF TakeGenerate, Take, Drop
  <2>2. queue'["transmit"] = queue["transmit"] /\ queue'["paid212"] = queue["paid212"]
    BY <2>1, OneMessage DEF Underway, Tasks
  <2>3. CASE Drop("generate")
    BY <2>3, DropOnward DEF Tasks
  <2>4. CASE Take(w, "generate", "generate")
    <3>1. Stepped(w, "generate", row)
      BY <2>4 DEF Take, Read, Stepped
    <3> QED
      BY <2>1, <2>2, <3>1, ApartStep
  <2> QED
    BY <1>3, <2>3, <2>4 DEF TakeGenerate
<1>4. CASE Generate(w)
  <2>1. /\ pc[w] = "generate" /\ queue' = queue
        /\ \/ /\ row' = [copy[w] EXCEPT !.status = "validated", !.pdf = "facturx"]
              /\ Stepped(w, "generated", row')
           \/ /\ row' = [copy[w] EXCEPT !.status = "draft"]
              /\ Stepped(w, "idle", Forgotten)
    BY <1>4 DEF Generate, GenerateSucceeds, GenerateFails, Save, Finish, Stepped
  <2>2. row.status \in Early /\ flows = <<>>
    BY <2>1, Alone DEF Underway
  <2>3. copy[w].flow = 0 /\ ~Away(row.status)
    BY <1>1, <2>2 DEF Away
  <2>4. row'.status \in {"validated", "draft"} /\ row'.flow = 0
    BY <1>1, <2>1, <2>3 DEF Row
  <2>5. PICK l \in {"generated", "idle"}, c \in {row', Forgotten} : Stepped(w, l, c)
    BY <2>1
  <2> QED
    BY <2>1, <2>3, <2>4, <2>5, ApartStep
<1>5. CASE AfterGeneration(w)
  <2>1. Stepped(w, "idle", Forgotten) /\ row' = row /\ queue' = WithEreporting
    BY <1>5 DEF AfterGeneration, Finish, Stepped
  <2>2. queue'["transmit"] = queue["transmit"] /\ queue'["paid212"] = queue["paid212"]
    BY <2>1, OneMessage DEF Underway, Tasks, WithEreporting
  <2> QED
    BY <2>1, <2>2, ApartStep
<1> QED
  BY <1>2, <1>3, <1>4, <1>5 DEF IssuanceTask

LEMMA EreportingOnward ==
  ASSUME OneReporter, Underway, LifecycleTypeInv', NEW w \in Workers, EreportingTask(w),
         UNCHANGED paVars
  PROVE  Onward /\ Beside
<1>1. row \in Row
  BY TypedParts DEF Underway
<1>2. CASE TakeEreporting(w)
  <2>1. CASE Drop("ereporting")
    BY <2>1, DropOnward DEF Tasks
  <2>2. CASE Take(w, "ereporting", "ereport")
    <3>1. Stepped(w, "ereport", row) /\ row' = row /\ queue' = [queue EXCEPT !["ereporting"] = @ - 1]
      BY <2>2 DEF Take, Read, Stepped
    <3>2. queue'["transmit"] = queue["transmit"] /\ queue'["paid212"] = queue["paid212"]
      BY <3>1, OneMessage DEF Underway, Tasks
    <3> QED
      BY <3>1, <3>2, ApartStep
  <2> QED
    BY <1>2, <2>1, <2>2 DEF TakeEreporting
<1>3. CASE Ereport(w)
  <2>1. /\ Stepped(w, "idle", Forgotten) \/ Stepped(w, "send_ereport", Forgotten)
        /\ queue' = queue
        /\ \E s : row' = [row EXCEPT !.ereporting = s]
    BY <1>3 DEF Ereport, EreportingSucceeds, EreportingRefused, EreportingUnavailable,
                SaveEreporting, SaveFields, Finish, SendNext, Stepped
  <2>2. row'.status = row.status /\ row'.flow = row.flow
    BY <1>1, <2>1 DEF Row
  <2> QED
    BY <2>1, <2>2, ApartStep
<1>4. CASE RetryEreporting(w)
  <2>1. /\ Stepped(w, "idle", Forgotten) /\ row' = row
        /\ queue' = [queue EXCEPT !["ereporting"] = @ + 1]
    BY <1>4 DEF RetryEreporting, Send, Finish, Stepped
  <2>2. queue'["transmit"] = queue["transmit"] /\ queue'["paid212"] = queue["paid212"]
    BY <2>1, OneMessage DEF Underway, Tasks
  <2> QED
    BY <2>1, <2>2, ApartStep
<1> QED
  BY <1>2, <1>3, <1>4 DEF EreportingTask

\* A step of the submission that passes it on.
LEMMA SubmitOnward ==
  ASSUME Underway, LifecycleTypeInv', NEW w \in Workers, NEW l, NEW c, Stepped(w, l, c),
         l \in TransmitLabels \union {"idle"}, UNCHANGED <<events, logged, seen, known, reported>>,
         Passes(pc[w], l, TransmitLabels, queue["transmit"], queue'["transmit"]),
         Passes(pc[w], l, SubmitLabels, queue["transmit"], queue'["transmit"]),
         queue'["paid212"] = queue["paid212"], row' = row,
         \A i \in DOMAIN flows' : flows'[i] # "error"
  PROVE  Onward /\ Beside
<1>1. l \notin Polling \union Payers /\ l \notin PollHolding
  BY SendingLabels DEF Polling
<1>2. Onward
  BY <1>1, SendingPasses
<1>3. Reports' = Reports /\ Reports \in Nat
  BY SendingTyped DEF Reports, Underway
<1>4. Beside
  BY <1>1, <1>3, BesideFrame
<1> QED
  BY <1>2, <1>4

\* The steps of the submission that begin or end it, and save.
LEMMA SubmitSaves ==
  ASSUME Underway, LifecycleTypeInv', NEW w \in Workers, NEW l, Stepped(w, l, Forgotten),
         pc[w] \in TransmitLabels, l \in {"send_transmit", "idle"}, UNCHANGED <<queue, paVars>>,
         l = "send_transmit" => Away(row'.status),
         row'.flow # 0 => l = "idle" /\ Away(row'.status),
         row'.status # "transmitted" \/ row'.status = row.status
  PROVE  Onward /\ Beside
<1>1. /\ pc'[w] = l /\ \A v \in Workers : v # w => pc'[v] = pc[v]
  BY TypedParts DEF Underway, Stepped
<1>2. /\ queue["transmit"] = 0 /\ queue'["transmit"] = 0
      /\ \A v \in Workers : v # w => pc[v] \notin TransmitLabels
  BY DEF Underway, Sending, OneOf
<1>3. ~Over
  BY DEF Over, InUse
<1>4. l \notin Polling \union Payers /\ l \notin PollHolding
      /\ (l = "idle" => l \notin TransmitLabels)
  BY SendingLabels DEF Polling, TransmitLabels, SubmitLabels
<1>5. OneOf(pc', TransmitLabels, queue'["transmit"])
  BY <1>1, <1>2 DEF OneOf
<1>6. InUse(pc', SubmitLabels, queue'["transmit"]) => Away(row'.status)
  BY <1>1, <1>2, <1>4, SendingLabels DEF InUse
<1>7. row'.flow # 0 => Over'
  <2> SUFFICES ASSUME row'.flow # 0 PROVE Over'
    OBVIOUS
  <2>1. \A v \in Workers : pc'[v] \notin TransmitLabels
    BY <1>1, <1>2, <1>4
  <2> QED
    BY <1>2, <2>1 DEF Over, InUse
<1>8. \A i \in DOMAIN flows' : flows'[i] # "error"
  BY DEF Underway, Sending, paVars
<1>9. Sending'
  BY <1>3, <1>4, <1>5, <1>6, <1>7, <1>8, SendingFrame
<1>10. Reports' = Reports /\ Reports \in Nat
  BY SendingTyped DEF Reports, Underway, paVars
<1>11. Beside
  BY <1>3, <1>4, <1>10, BesideFrame DEF paVars
<1> QED
  BY <1>3, <1>9, <1>11 DEF Onward

LEMMA TransmissionRequestOnward ==
  ASSUME OneReporter, Underway, LifecycleTypeInv', NEW w \in Workers, TransmissionRequest(w)
  PROVE  Onward /\ Beside
<1>1. row \in Row /\ pc[w] \notin Payers /\ \A i \in DOMAIN flows : flows[i] # "error"
  BY TypedParts DEF Underway, Sending
<1>2. ~OpenMarkPaid(w) /\ ~OpenOnlinePayment(w) /\ ~MarkPaid(w) /\ ~SendPaid212(w)
  BY <1>1 DEF OpenMarkPaid, OpenOnlinePayment, Open, MarkPaid, SendPaid212, Send, OneReporter,
              Payers
<1>3. CASE OpenTransmit(w)
  <2>1. /\ pc[w] = "idle" /\ Stepped(w, "transmit", row) /\ UNCHANGED <<row, queue, paVars>>
        /\ \A v \in Workers : pc[v] # "transmit"
    BY <1>3 DEF OpenTransmit, Open, Read, Stepped, OneReporter, Serial, RequestLabels
  <2>2. row.status = "validated"
    BY <1>1, <1>3, TableFacts DEF OpenTransmit, Row
  <2>3. ~Away(row.status) /\ ~Over
    BY <2>2 DEF Away, Over
  <2>4. ~InUse(pc, TransmitLabels, queue["transmit"])
    BY <2>1, <2>3 DEF Underway, Sending, InUse, TransmitLabels
  <2>5. OneOf(pc', TransmitLabels, queue'["transmit"])
    BY <2>1, <2>4, TypedParts, SendingTyped, WorkBegins DEF Underway, Stepped
  <2>6. ~InUse(pc', SubmitLabels, queue'["transmit"])
    <3>1. \A v \in Workers : pc'[v] \in {pc[v], "transmit"}
      BY <2>1, TypedParts DEF Underway, Stepped
    <3>2. "transmit" \notin SubmitLabels
      BY DEF SubmitLabels
    <3> QED
      BY <2>1, <2>4, <3>1, <3>2 DEF InUse, TransmitLabels
  <2>7. "transmit" \notin Polling \union Payers /\ "transmit" \notin PollHolding
    BY SendingLabels DEF TransmitLabels, Polling
  <2>8. row'.flow = 0 /\ \A i \in DOMAIN flows' : flows'[i] # "error"
    BY <1>1, <2>1, <2>3 DEF Underway, Sending, paVars
  <2>9. Sending'
    BY <2>1, <2>3, <2>5, <2>6, <2>7, <2>8, SendingFrame
  <2>10. Reports' = Reports /\ Reports \in Nat
    BY <2>1, SendingTyped DEF Reports, Underway, paVars
  <2>11. Beside
    BY <2>1, <2>7, <2>10, BesideFrame DEF paVars
  <2> QED
    BY <2>3, <2>9, <2>11 DEF Onward
<1>4. CASE RequestTransmission(w)
  <2>1. /\ pc[w] = "transmit" /\ Stepped(w, "send_transmit", Forgotten)
        /\ row' = [row EXCEPT !.status = "transmitting"] /\ UNCHANGED <<queue, paVars>>
    BY <1>4 DEF RequestTransmission, SaveFields, SendNext, Stepped
  <2>2. row'.status = "transmitting" /\ row'.flow = row.flow
    BY <1>1, <2>1 DEF Row
  <2>3. pc[w] \in TransmitLabels
    BY <2>1 DEF TransmitLabels
  <2>4. row.flow = 0
    BY <2>3 DEF Underway, Sending, Over, InUse
  <2> QED
    BY <2>1, <2>2, <2>3, <2>4, SubmitSaves DEF Away, Early
<1>5. CASE SendTransmit(w)
  <2>1. /\ pc[w] = "send_transmit" /\ Stepped(w, "idle", Forgotten) /\ UNCHANGED <<row, paVars>>
        /\ queue' = [queue EXCEPT !["transmit"] = @ + 1]
    BY <1>5 DEF SendTransmit, Send, Finish, Stepped
  <2>2. queue'["transmit"] = queue["transmit"] + 1 /\ queue'["paid212"] = queue["paid212"]
    BY <2>1, OneMessage DEF Underway, Tasks
  <2>3. /\ Passes(pc[w], "idle", TransmitLabels, queue["transmit"], queue'["transmit"])
        /\ Passes(pc[w], "idle", SubmitLabels, queue["transmit"], queue'["transmit"])
    BY <2>1, <2>2 DEF Passes, TransmitLabels, SubmitLabels
  <2> QED
    BY <1>1, <2>1, <2>2, <2>3, SubmitOnward DEF paVars
<1> QED
  BY <1>2, <1>3, <1>4, <1>5 DEF TransmissionRequest

LEMMA TransmissionTaskOnward ==
  ASSUME OneReporter, Underway, LifecycleTypeInv', NEW w \in Workers, TransmissionTask(w)
  PROVE  Onward /\ Beside
<1>1. row \in Row /\ Knows(pc[w], copy[w]) /\ copy = [copy EXCEPT ![w] = copy[w]]
      /\ \A i \in DOMAIN flows : flows[i] # "error"
  BY TypedParts DEF Underway, Sending, KnowsInv
<1>2. CASE TakeTransmit(w)
  <2>1. CASE Drop("transmit")
    BY <1>2, <2>1, DropOnward DEF TakeTransmit, Tasks
  <2>2. CASE Take(w, "transmit", "submit")
    <3>1. /\ pc[w] = "idle" /\ Stepped(w, "submit", row) /\ UNCHANGED <<row, paVars>>
          /\ queue' = [queue EXCEPT !["transmit"] = @ - 1]
      BY <1>2, <2>2 DEF TakeTransmit, Take, Read, Stepped
    <3>2. queue'["transmit"] = queue["transmit"] - 1 /\ queue'["paid212"] = queue["paid212"]
          /\ queue["transmit"] \in Nat
      BY <3>1, OneMessage, SendingTyped DEF Underway, Tasks
    <3>3. /\ Passes(pc[w], "submit", TransmitLabels, queue["transmit"], queue'["transmit"])
          /\ Passes(pc[w], "submit", SubmitLabels, queue["transmit"], queue'["transmit"])
          /\ "submit" \in TransmitLabels
      BY <3>1, <3>2 DEF Passes, TransmitLabels, SubmitLabels
    <3> QED
      BY <1>1, <3>1, <3>2, <3>3, SubmitOnward DEF paVars
  <2> QED
    BY <1>2, <2>1, <2>2 DEF TakeTransmit
<1>3. CASE SubmitFlow(w)
  <2>1. /\ pc[w] = "submit"
        /\ UNCHANGED <<row, queue, events, logged, seen, known, reported>>
    BY <1>3 DEF SubmitFlow
  <2>2. PICK l, c : l \in {"submitted", "submit_failed"} /\ Stepped(w, l, c)
    <3>1. \/ /\ pc' = [pc EXCEPT ![w] = "submitted"]
             /\ \E f \in FlowIds : copy' = [copy EXCEPT ![w].flow = f]
          \/ pc' = [pc EXCEPT ![w] = "submit_failed"] /\ copy' = copy
      BY <1>3 DEF SubmitFlow
    <3>2. CASE pc' = [pc EXCEPT ![w] = "submit_failed"] /\ copy' = copy
      <4>1. Stepped(w, "submit_failed", copy[w])
        BY <1>1, <3>2 DEF Stepped
      <4> QED
        BY <4>1
    <3>3. CASE /\ pc' = [pc EXCEPT ![w] = "submitted"]
               /\ \E f \in FlowIds : copy' = [copy EXCEPT ![w].flow = f]
      <4>1. PICK f \in FlowIds : copy' = [copy EXCEPT ![w].flow = f]
        BY <3>3
      <4>2. Stepped(w, "submitted", [copy[w] EXCEPT !.flow = f])
        BY <3>3, <4>1 DEF Stepped
      <4> QED
        BY <4>2
    <3> QED
      BY <3>1, <3>2, <3>3
  <2>3. \A i \in DOMAIN flows' : flows'[i] # "error"
    <3>1. flows' = flows \/ flows' = Append(flows, "pending")
      BY <1>3 DEF SubmitFlow
    <3>2. flows \in Seq({"pending", "ok", "error"})
      BY PollParts DEF Underway
    <3> QED
      BY <1>1, <3>1, <3>2
  <2>4. /\ Passes(pc[w], l, TransmitLabels, queue["transmit"], queue'["transmit"])
        /\ Passes(pc[w], l, SubmitLabels, queue["transmit"], queue'["transmit"])
        /\ l \in TransmitLabels
    BY <2>1, <2>2 DEF Passes, TransmitLabels, SubmitLabels
  <2> QED
    BY <2>1, <2>2, <2>3, <2>4, SubmitOnward
<1>4. CASE SaveFlow(w)
  <2>1. /\ pc[w] = "submitted" /\ Stepped(w, "idle", Forgotten) /\ UNCHANGED <<queue, paVars>>
        /\ row' = [row EXCEPT !.flow = copy[w].flow]
    BY <1>4 DEF SaveFlow, SaveFields, Finish, Stepped
  <2>2. row'.status = row.status
    BY <1>1, <2>1, LateRows
  <2>3. pc[w] \in SubmitLabels /\ pc[w] \in TransmitLabels
    BY <2>1 DEF SubmitLabels, TransmitLabels
  <2>4. Away(row.status)
    BY <2>3 DEF Underway, Sending, InUse
  <2> QED
    BY <2>1, <2>2, <2>3, <2>4, SubmitSaves
<1>5. CASE RevertTransmission(w)
  <2>1. /\ pc[w] = "submit_failed" /\ Stepped(w, "idle", Forgotten) /\ UNCHANGED <<queue, paVars>>
        /\ row' = [row EXCEPT !.status = "validated"]
    BY <1>5 DEF RevertTransmission, SaveFields, Finish, Stepped
  <2>2. row'.status = "validated" /\ row'.flow = row.flow
    BY <1>1, <2>1 DEF Row
  <2>3. pc[w] \in TransmitLabels
    BY <2>1 DEF SubmitLabels, TransmitLabels
  <2>4. row.flow = 0
    BY <2>3 DEF Underway, Sending, Over, InUse
  <2> QED
    BY <2>1, <2>2, <2>3, <2>4, SubmitSaves
<1>6. CASE OpenAutoCancel(w)
  <2>1. Stepped(w, "auto_cancel", row) /\ UNCHANGED <<row, queue, paVars>>
    BY <1>6 DEF OpenAutoCancel, Read, Stepped
  <2> QED
    BY <2>1, ApartStep
<1>7. CASE AutoCancel(w)
  <2>1. /\ Stepped(w, "idle", Forgotten) /\ row' = [row EXCEPT !.status = "cancelled"]
        /\ UNCHANGED <<queue, paVars>>
    BY <1>7 DEF AutoCancel, SaveFields, Finish, Stepped
  <2>2. row'.status = "cancelled" /\ row'.flow = row.flow
    BY <1>1, <2>1 DEF Row
  <2> QED
    BY <2>1, <2>2, ApartStep
<1> QED
  BY <1>2, <1>3, <1>4, <1>5, <1>6, <1>7 DEF TransmissionTask

LEMMA CrashOnward ==
  ASSUME Underway, LifecycleTypeInv', NEW w \in Workers, CrashPa(w)
  PROVE  Onward /\ Beside
<1>1. /\ Stepped(w, "idle", Forgotten) /\ UNCHANGED <<row, queue, flows, events, logged, reported>>
      /\ seen' = [seen EXCEPT ![w] = 0] /\ known' = [known EXCEPT ![w] = {}]
  BY DEF CrashPa, Crash, Finish, Rest, Stepped
<1>2. "idle" \notin Polling \union TransmitLabels \union Payers /\ "idle" \notin PollHolding
  BY SendingLabels
<1>3. /\ Passes(pc[w], "idle", TransmitLabels, queue["transmit"], queue'["transmit"])
      /\ Passes(pc[w], "idle", SubmitLabels, queue["transmit"], queue'["transmit"])
  BY <1>1, <1>2 DEF Passes, TransmitLabels
<1>4. \A i \in DOMAIN flows' : flows'[i] # "error"
  BY <1>1 DEF Underway, Sending
<1>5. Onward
  BY <1>1, <1>2, <1>3, <1>4, SendingPasses
<1>6. Reports' = Reports /\ Reports \in Nat
  BY <1>1, SendingTyped DEF Reports, Underway
<1>7. /\ pc'[w] = "idle" /\ \A v \in Workers : v # w => pc'[v] = pc[v] /\ copy'[v] = copy[v]
  BY <1>1, TypedParts DEF Underway, Stepped
<1>8. known'[w] = {} /\ \A v \in Workers : v # w => seen'[v] = seen[v] /\ known'[v] = known[v]
  BY <1>1, PollParts DEF Underway
<1>9. Beside
  BY <1>1, <1>2, <1>6, <1>7, <1>8 DEF Beside
<1> QED
  BY <1>5, <1>9

LEMMA OutsideOnward ==
  ASSUME OneReporter, Underway, LifecycleTypeInv',
         ReportPaid \/ CancelInvoice \/ Acknowledge \/ Publish
  PROVE  Onward /\ Beside
<1>1. UNCHANGED <<row, pc, copy, logged, seen, known>> /\ (events' = events \/ Publish)
  BY DEF ReportPaid, CancelInvoice, Acknowledge, Publish, rowVars
<1>2. /\ flows \in Seq({"pending", "ok", "error"}) /\ reported \in Nat
      /\ queue["transmit"] \in Nat /\ Reports \in Nat /\ queue["paid212"] \in Nat
      /\ \A i \in DOMAIN flows : flows[i] # "error"
  BY TypedParts, PollParts, SendingTyped DEF Underway, Sending, PaTypeOK, Tasks
<1>3. \A i \in DOMAIN flows' : flows'[i] # "error"
  <2>1. CASE Acknowledge
    <3>1. PICK j \in DOMAIN flows, a \in {"ok", "error"} :
            (a = "error" => "nack" \in Faults) /\ flows' = [flows EXCEPT ![j] = a]
      BY <2>1 DEF Acknowledge
    <3>2. a # "error"
      BY <3>1 DEF OneReporter
    <3> QED
      BY <1>2, <3>1, <3>2
  <2>2. CASE flows' = flows
    BY <1>2, <2>2
  <2> QED
    BY <2>1, <2>2 DEF ReportPaid, CancelInvoice, Publish
<1>4. queue'["transmit"] <= queue["transmit"] /\ Reports' <= Reports
  <2>1. CASE ReportPaid
    <3>1. /\ queue' = [queue EXCEPT !["paid212"] = @ - 1]
          /\ reported' = reported \/ reported' = reported + 1
      BY <2>1 DEF ReportPaid
    <3>2. queue'["paid212"] = queue["paid212"] - 1 /\ queue'["transmit"] = queue["transmit"]
      BY <3>1, OneMessage DEF Underway, Tasks
    <3> QED
      BY <1>2, <3>1, <3>2 DEF Reports
  <2>2. CASE CancelInvoice \/ Acknowledge \/ Publish
    BY <1>2, <2>2 DEF CancelInvoice, Acknowledge, Publish, rowVars, Reports
  <2> QED
    BY <2>1, <2>2
<1> QED
  BY <1>1, <1>3, <1>4, NobodyOnward

\* A step of the poller: it sends no submission, and what it saves is from the PA.
LEMMA PollerOnward ==
  ASSUME Underway, LifecycleTypeInv', NEW w \in Workers, w \in Pollers, NEW l, NEW c,
         Stepped(w, l, c), l \in Polling \union {"idle"}, queue'["transmit"] = queue["transmit"],
         flows' = flows, Away(row.status) => Away(row'.status),
         row'.flow = row.flow \/ (pc[w] \in PollHolding /\ row'.flow = copy[w].flow),
         l \in PollHolding /\ c.flow # 0 => Over
  PROVE  Onward
<1>1. l \notin TransmitLabels \union Payers
  BY SendingLabels
<1>2. /\ Passes(pc[w], l, TransmitLabels, queue["transmit"], queue'["transmit"])
      /\ Passes(pc[w], l, SubmitLabels, queue["transmit"], queue'["transmit"])
  BY <1>1 DEF Passes, TransmitLabels
<1>3. \A i \in DOMAIN flows' : flows'[i] # "error"
  BY DEF Underway, Sending
<1> QED
  BY <1>1, <1>2, <1>3, SendingPasses

LEMMA PollIsPollers ==
  ASSUME Underway, NEW w \in Workers, Poll(w) \/ PollStep(w)
  PROVE  w \in Pollers /\ (PollStep(w) => pc[w] \in Polling)
<1>1. pc[w] \in Polling => w \in Pollers
  BY DEF Underway, Sending
<1> QED
  BY <1>1
  DEF Poll, PollStep, ReadForEvents, ReadLogs, LogEvent, ApplyEvent, AutoMarkPaid, SendAuto212,
      PollEnds, ReadForFallback, FallbackApply, Polling, PollHolding

\* What the acknowledgement of a flow leads to.
LEMMA FallbackParts ==
  ASSUME Underway, NEW w \in Workers, FallbackApply(w)
  PROVE  /\ pc[w] = "flow_check" /\ copy[w].flow # 0 /\ UNCHANGED <<queue, Rest>>
         /\ \/ EndPoll(w) /\ row' = row
            \/ /\ row' = [row EXCEPT !.status = "transmitted"] /\ UNCHANGED <<seen, known>>
               /\ \E l \in {"auto_paid", "event"} :
                    Stepped(w, l, [copy[w] EXCEPT !.status = "transmitted"])
<1> DEFINE a == flows[copy[w].flow]
           s == AckStatus(a)
           r == [copy[w] EXCEPT !.status = s]
<1>1. /\ row \in Row /\ copy[w] \in Row
  BY TypedParts DEF Underway
<1>2. pc[w] = "flow_check" /\ UNCHANGED <<queue, Rest>>
  BY DEF FallbackApply, Rest
<1>3. copy[w].flow \in Nat /\ copy[w].flow # 0 /\ copy[w].flow <= Len(flows)
  BY <1>1, <1>2, TypedParts DEF Underway, LifecycleTypeInv, FlowsKnown, Row
<1>4. copy[w].flow \in DOMAIN flows
  <2>1. DOMAIN flows = 1..Len(flows) /\ Len(flows) \in Nat
    BY PollParts DEF Underway
  <2> QED
    BY <1>3, <2>1
<1>5. a # "error" /\ a \in {"pending", "ok", "error"}
  BY <1>4, PollParts DEF Underway, Sending
<1>6. r.status = s
  BY <1>1, LateRows
<1>7. \/ a = "pending" /\ EndPoll(w) /\ row' = row
      \/ /\ a # "pending" /\ row' = [row EXCEPT !.status = r.status]
         /\ Stepped(w, NextAfter(r), r) \/ Stepped(w, "event", r)
         /\ UNCHANGED <<seen, known>>
  BY DEF FallbackApply, SaveFields, Stepped
<1>8. a # "pending" => s = "transmitted"
  <2> HIDE DEF a
  <2> QED
    BY <1>5 DEF AckStatus
<1>9. NextAfter(r) \in {"auto_paid", "event"}
  BY DEF NextAfter
<1> HIDE DEF a
<1>10. CASE a = "pending"
  BY <1>2, <1>3, <1>7, <1>10
<1>11. CASE a # "pending"
  <2>1. s = "transmitted" /\ r = [copy[w] EXCEPT !.status = "transmitted"]
    BY <1>8, <1>11
  <2>2. row' = [row EXCEPT !.status = "transmitted"] /\ UNCHANGED <<seen, known>>
    BY <1>6, <1>7, <1>11, <2>1
  <2>3. \E l \in {"auto_paid", "event"} : Stepped(w, l, r)
    <3> HIDE DEF r
    <3> QED
      BY <1>7, <1>9, <1>11
  <2> QED
    BY <1>2, <1>3, <2>1, <2>2, <2>3
<1> QED
  BY <1>10, <1>11

\* What the poll does with an event that it applies or skips.
LEMMA ApplyParts ==
  ASSUME Underway, NEW w \in Workers, ApplyEvent(w)
  PROVE  \E i \in Due(w) :
           /\ pc[w] = "apply" /\ UNCHANGED <<queue, seen, Rest>>
           /\ \A j \in Due(w) : i <= j
           /\ known' = [known EXCEPT ![w] = @ \union {i}]
           /\ \/ row' = row /\ Stepped(w, "event", copy[w])
              \/ /\ CanTransition(copy[w].status, StatusOf[events[i]])
                 /\ row' = [row EXCEPT !.status = StatusOf[events[i]]]
                 /\ \E l \in {"auto_paid", "event"} :
                      /\ l = "auto_paid" => CanTransition(StatusOf[events[i]], "paid")
                      /\ Stepped(w, l, [copy[w] EXCEPT !.status = StatusOf[events[i]]])
<1>1. PICK i \in Due(w) : ApplyEvent(w)!2!(i)
  BY DEF ApplyEvent
<1> DEFINE s == StatusOf[events[i]]
           r == [copy[w] EXCEPT !.status = s]
<1>2. pc[w] = "apply" /\ UNCHANGED <<queue, seen, Rest>>
  BY DEF ApplyEvent, Rest
<1>3. copy[w] \in Row /\ copy = [copy EXCEPT ![w] = copy[w]]
  BY TypedParts DEF Underway
<1>4. \/ /\ CanTransition(copy[w].status, s) /\ row' = [row EXCEPT !.status = s]
         /\ Stepped(w, NextAfter(r), r)
      \/ row' = row /\ Stepped(w, "event", copy[w])
  BY <1>1, <1>3 DEF SaveFields, Stepped
<1>5. r.status = s
  BY <1>3, LateRows
<1>6. NextAfter(r) \in {"auto_paid", "event"} /\ (NextAfter(r) = "auto_paid" => CanTransition(s, "paid"))
  <2> HIDE DEF r
  <2> QED
    BY <1>5 DEF NextAfter
<1>7. \/ row' = row /\ Stepped(w, "event", copy[w])
      \/ /\ CanTransition(copy[w].status, s) /\ row' = [row EXCEPT !.status = s]
         /\ \E l \in {"auto_paid", "event"} :
              (l = "auto_paid" => CanTransition(s, "paid")) /\ Stepped(w, l, r)
  <2> HIDE DEF r, s
  <2> QED
    BY <1>4, <1>6
<1> QED
  BY <1>1, <1>2, <1>7

LEMMA PollOnward ==
  ASSUME Underway, LifecycleTypeInv', NEW w \in Workers, Poll(w) \/ PollStep(w)
  PROVE  Onward
<1>1. /\ row \in Row /\ copy[w] \in Row /\ copy = [copy EXCEPT ![w] = copy[w]]
      /\ (row.flow # 0 => Over) /\ (pc[w] \in PollHolding /\ copy[w].flow # 0 => Over)
  BY TypedParts DEF Underway, Sending
<1>2. w \in Pollers
  BY PollIsPollers
<1>3. CASE EndPoll(w) /\ UNCHANGED <<row, queue, flows>>
  <2>1. Stepped(w, "idle", Forgotten) /\ "idle" \notin PollHolding
    BY <1>3, SendingLabels DEF EndPoll, Finish, Stepped
  <2> QED
    BY <1>2, <1>3, <2>1, PollerOnward
<1>4. CASE Poll(w)
  <2>1. /\ Stepped(w, "poll", copy[w]) /\ UNCHANGED <<row, queue, flows>>
        /\ "poll" \notin PollHolding
    BY <1>1, <1>4 DEF Poll, Rest, Stepped, PollHolding
  <2> QED
    BY <1>2, <2>1, PollerOnward DEF Polling
<1>5. CASE (ReadForEvents(w) \/ ReadForFallback(w)) /\ ~EndPoll(w)
  <2>1. /\ Stepped(w, "dedup", row) \/ Stepped(w, "flow_check", row)
        /\ UNCHANGED <<row, queue, flows>>
    BY <1>5 DEF ReadForEvents, ReadForFallback, Rest, Stepped
  <2>2. {"dedup", "flow_check"} \subseteq Polling
    BY DEF Polling, PollHolding
  <2> QED
    BY <1>1, <1>2, <2>1, <2>2, PollerOnward
<1>6. CASE ReadLogs(w) \/ LogEvent(w) \/ SendAuto212(w)
  <2>1. /\ pc[w] \in PollHolding /\ UNCHANGED <<row, flows>>
        /\ queue' = queue \/ queue' = [queue EXCEPT !["paid212"] = @ + 1]
        /\ Stepped(w, "event", copy[w]) \/ Stepped(w, "apply", copy[w])
    BY <1>1, <1>6 DEF ReadLogs, LogEvent, SendAuto212, Rest, paVars, PollHolding, Stepped
  <2>2. queue'["transmit"] = queue["transmit"]
    BY <2>1, OneMessage DEF Underway, Tasks
  <2>3. {"event", "apply"} \subseteq Polling
    BY DEF Polling, PollHolding
  <2> QED
    BY <1>1, <1>2, <2>1, <2>2, <2>3, PollerOnward
<1>7. ASSUME NEW s, Away(s), row' = [row EXCEPT !.status = s], UNCHANGED <<queue, flows>>,
             pc[w] \in PollHolding,
             NEW l \in {"auto_paid", "event"}, Stepped(w, l, [copy[w] EXCEPT !.status = s])
      PROVE  Onward
  <2>1. row'.status = s /\ row'.flow = row.flow /\ [copy[w] EXCEPT !.status = s].flow = copy[w].flow
    BY <1>1, <1>7 DEF Row
  <2>2. l \in Polling
    BY DEF Polling, PollHolding
  <2> QED
    BY <1>1, <1>2, <1>7, <2>1, <2>2, PollerOnward
<1>8. CASE ApplyEvent(w)
  <2>1. PICK i \in Due(w) :
           /\ pc[w] = "apply" /\ UNCHANGED <<queue, seen, Rest>>
           /\ \/ row' = row /\ Stepped(w, "event", copy[w])
              \/ /\ row' = [row EXCEPT !.status = StatusOf[events[i]]]
                 /\ \E l \in {"auto_paid", "event"} :
                      Stepped(w, l, [copy[w] EXCEPT !.status = StatusOf[events[i]]])
    BY <1>8, ApplyParts
  <2>2. pc[w] \in PollHolding /\ UNCHANGED <<queue, flows>> /\ "event" \in Polling
    BY <2>1 DEF PollHolding, Polling, Rest
  <2>3. Away(StatusOf[events[i]])
    BY <2>1, PollParts DEF Underway, StatusOf, Codes, Away, Early
  <2>4. CASE row' = row /\ Stepped(w, "event", copy[w])
    BY <1>1, <1>2, <2>2, <2>4, PollerOnward
  <2> QED
    BY <1>7, <2>1, <2>2, <2>3, <2>4
<1>9. CASE AutoMarkPaid(w)
  <2>1. /\ pc[w] \in PollHolding /\ row' = PaidCopy(copy[w])
        /\ Stepped(w, "send_auto212", PaidCopy(copy[w])) /\ UNCHANGED <<queue, flows>>
    BY <1>9 DEF AutoMarkPaid, Save, Stepped, paVars, PollHolding
  <2>2. PaidCopy(copy[w]).status = "paid" /\ PaidCopy(copy[w]).flow = copy[w].flow
    BY <1>1 DEF Row, PaidCopy
  <2>3. "send_auto212" \in Polling /\ Away("paid")
    BY DEF Polling, PollHolding, Away, Early
  <2> QED
    BY <1>1, <1>2, <2>1, <2>2, <2>3, PollerOnward
<1>10. CASE PollEnds(w)
  BY <1>3, <1>10 DEF PollEnds, Rest
<1>11. CASE FallbackApply(w)
  <2>1. pc[w] \in PollHolding /\ UNCHANGED <<queue, flows>> /\ Away("transmitted")
    BY <1>11, FallbackParts DEF PollHolding, Rest, Away, Early
  <2>2. CASE EndPoll(w) /\ row' = row
    BY <1>3, <2>1, <2>2
  <2>3. CASE /\ row' = [row EXCEPT !.status = "transmitted"]
             /\ \E l \in {"auto_paid", "event"} :
                  Stepped(w, l, [copy[w] EXCEPT !.status = "transmitted"])
    BY <1>7, <2>1, <2>3
  <2>4. \/ EndPoll(w) /\ row' = row
        \/ /\ row' = [row EXCEPT !.status = "transmitted"]
           /\ \E l \in {"auto_paid", "event"} :
                Stepped(w, l, [copy[w] EXCEPT !.status = "transmitted"])
    BY <1>11, FallbackParts
  <2> QED
    BY <2>2, <2>3, <2>4
<1> QED
  BY <1>3, <1>4, <1>5, <1>6, <1>8, <1>9, <1>10, <1>11
  DEF PollStep, ReadForEvents, ReadForFallback, Rest

LEMMA StepOnward ==
  ASSUME OneReporter, Underway, LifecycleTypeInv', [LifecycleNext]_lifecycleVars
  PROVE  Onward /\ (Beside \/ \E w \in Workers : Poll(w) \/ PollStep(w))
<1>1. CASE UNCHANGED lifecycleVars
  <2>1. /\ UNCHANGED <<row, pc, copy, queue, flows, events, logged, seen, known, reported>>
        /\ queue["transmit"] \in Nat /\ Reports \in Nat
    BY <1>1, SendingTyped DEF lifecycleVars, rowVars, paVars, Underway
  <2>2. queue'["transmit"] <= queue["transmit"] /\ Reports' <= Reports
    BY <2>1 DEF Reports
  <2>3. \A i \in DOMAIN flows' : flows'[i] # "error"
    BY <2>1 DEF Underway, Sending
  <2> QED
    BY <2>1, <2>2, <2>3, NobodyOnward
<1>2. ~RequestPreview
  BY DEF RequestPreview, OneReporter, Serial
<1> QED
  BY <1>1, <1>2, IssuanceRequestOnward, IssuanceTaskOnward, EreportingOnward,
     TransmissionRequestOnward, TransmissionTaskOnward, PollOnward, CrashOnward, OutsideOnward
  DEF LifecycleNext, TransmissionNext, TransmissionStep

\* What a poll has gone through was logged, the event that it applies too; and it pays an
\* invoice that has left for good, or after the first event, the only one that is a deposit.
Reads ==
  /\ \A i \in DOMAIN events : i # 1 => events[i] # "200"
  /\ \A w \in Workers :
       /\ known[w] \subseteq logged
       /\ pc[w] = "apply" => \A i \in Due(w) : (\A j \in Due(w) : i <= j) => i \in logged
       /\ pc[w] = "auto_paid" => copy[w].flow # 0 \/ 1 \in known[w]

LEMMA PublishReads ==
  ASSUME LifecycleTypeInv, Reads, Publish
  PROVE  \A i \in DOMAIN events' : i # 1 => events'[i] # "200"
<1>1. PICK c \in NextCodes : events' = Append(events, c)
  BY DEF Publish
<1>2. events \in Seq(Codes) /\ Len(events) \in Nat /\ DOMAIN events = 1..Len(events)
  BY PollParts
<1>3. /\ DOMAIN events' = 1..(Len(events) + 1) /\ events'[Len(events) + 1] = c
      /\ \A i \in 1..Len(events) : events'[i] = events[i]
  BY <1>1, <1>2
<1>4. Len(events) # 0 => c # "200"
  <2> SUFFICES ASSUME Len(events) # 0 PROVE c # "200"
    OBVIOUS
  <2>1. events # <<>> /\ events[Len(events)] \in Codes
    BY <1>2
  <2>2. events[Len(events)] # "none"
    BY <2>1 DEF Codes
  <2> QED
    BY <1>1, <2>1, <2>2 DEF NextCodes
<1> QED
  BY <1>2, <1>3, <1>4 DEF Reads

LEMMA BesideReads ==
  ASSUME LifecycleTypeInv, Reads, Beside
  PROVE  Reads'
<1>1. \A i \in DOMAIN events' : i # 1 => events'[i] # "200"
  BY PublishReads DEF Beside, Reads
<1>2. "apply" \in Polling /\ "auto_paid" \in Polling
  BY DEF Polling, PollHolding
<1>3. ASSUME NEW v \in Workers
      PROVE  /\ known'[v] \subseteq logged'
             /\ pc'[v] = "apply" =>
                  \A i \in Due(v)' : (\A j \in Due(v)' : i <= j) => i \in logged'
             /\ pc'[v] = "auto_paid" => copy'[v].flow # 0 \/ 1 \in known'[v]
  <2>1. logged' = logged /\ known[v] \subseteq logged
    BY DEF Beside, Reads
  <2>2. CASE pc'[v] \notin Polling /\ known'[v] \subseteq known[v]
    BY <1>2, <2>1, <2>2
  <2>3. CASE /\ pc'[v] = pc[v] /\ copy'[v] = copy[v]
             /\ seen'[v] = seen[v] /\ known'[v] = known[v]
    <3>1. Due(v)' = Due(v)
      BY <2>3 DEF Due
    <3> QED
      BY <2>1, <2>3, <3>1 DEF Reads
  <2> QED
    BY <2>2, <2>3 DEF Beside
<1> QED
  BY <1>1, <1>3 DEF Reads

\* A step of a poll that leaves the PA's side alone, but for the log.
LEMMA PollerReads ==
  ASSUME LifecycleTypeInv, Reads, NEW w \in Workers, NEW l, NEW c, NEW n, NEW k,
         Stepped(w, l, c), seen' = [seen EXCEPT ![w] = n], known' = [known EXCEPT ![w] = k],
         events' = events, logged \subseteq logged', k \subseteq logged',
         l = "apply" => \A i \in 1..n \ k : (\A j \in 1..n \ k : i <= j) => i \in logged',
         l = "auto_paid" => c.flow # 0 \/ 1 \in k
  PROVE  Reads'
<1>1. /\ pc'[w] = l /\ copy'[w] = c
      /\ \A v \in Workers : v # w => pc'[v] = pc[v] /\ copy'[v] = copy[v]
  BY TypedParts DEF Stepped
<1>2. /\ seen'[w] = n /\ known'[w] = k
      /\ \A v \in Workers : v # w => seen'[v] = seen[v] /\ known'[v] = known[v]
  BY PollParts
<1>3. ASSUME NEW v \in Workers
      PROVE  /\ known'[v] \subseteq logged'
             /\ pc'[v] = "apply" =>
                  \A i \in Due(v)' : (\A j \in Due(v)' : i <= j) => i \in logged'
             /\ pc'[v] = "auto_paid" => copy'[v].flow # 0 \/ 1 \in known'[v]
  <2>1. CASE v = w
    BY <1>1, <1>2, <2>1 DEF Due
  <2>2. CASE v # w
    <3>1. Due(v)' = Due(v)
      BY <1>2, <2>2 DEF Due
    <3>2. /\ known[v] \subseteq logged
          /\ pc[v] = "apply" => \A i \in Due(v) : (\A j \in Due(v) : i <= j) => i \in logged
          /\ pc[v] = "auto_paid" => copy[v].flow # 0 \/ 1 \in known[v]
      BY DEF Reads
    <3> QED
      BY <1>1, <1>2, <2>2, <3>1, <3>2
  <2> QED
    BY <2>1, <2>2
<1> QED
  BY <1>3 DEF Reads

LEMMA PollReads ==
  ASSUME Underway, Reads, NEW w \in Workers, Poll(w) \/ PollStep(w)
  PROVE  Reads'
<1>1. /\ LifecycleTypeInv /\ copy[w] \in Row /\ copy = [copy EXCEPT ![w] = copy[w]]
      /\ seen = [seen EXCEPT ![w] = seen[w]] /\ known = [known EXCEPT ![w] = known[w]]
      /\ known[w] \subseteq logged /\ seen[w] \in Nat /\ logged \subseteq Nat
  <2>1. /\ seen \in [Workers -> 0..Len(events)] /\ known \in [Workers -> SUBSET DOMAIN events]
        /\ logged \subseteq 1..Len(events) /\ Len(events) \in Nat
    BY PollParts DEF Underway
  <2>2. seen = [seen EXCEPT ![w] = seen[w]] /\ known = [known EXCEPT ![w] = known[w]]
    BY <2>1
  <2>3. seen[w] \in Nat /\ logged \subseteq Nat
    BY <2>1
  <2>4. LifecycleTypeInv /\ copy[w] \in Row /\ copy = [copy EXCEPT ![w] = copy[w]]
    BY TypedParts DEF Underway
  <2>5. known[w] \subseteq logged
    BY DEF Reads
  <2> QED
    BY <2>2, <2>3, <2>4, <2>5, Zenon
<1>2. CASE EndPoll(w) /\ UNCHANGED Rest
  <2> DEFINE n == 0
             k == {}
  <2>1. /\ Stepped(w, "idle", Forgotten) /\ UNCHANGED <<events, logged>>
        /\ seen' = [seen EXCEPT ![w] = n] /\ known' = [known EXCEPT ![w] = k]
    BY <1>2 DEF EndPoll, Finish, Rest, Stepped
  <2>2. k \subseteq logged'
    OBVIOUS
  <2> HIDE DEF n, k
  <2> QED
    BY <1>1, <2>1, <2>2, PollerReads
<1>3. CASE Poll(w)
  <2>1. /\ Stepped(w, "poll", copy[w]) /\ UNCHANGED <<events, logged, known>>
        /\ seen' = [seen EXCEPT ![w] = Len(events)]
    BY <1>1, <1>3 DEF Poll, Rest, Stepped
  <2> QED
    BY <1>1, <2>1, PollerReads
<1>4. CASE (ReadForEvents(w) \/ ReadForFallback(w)) /\ ~EndPoll(w)
  <2>1. /\ Stepped(w, "dedup", row) \/ Stepped(w, "flow_check", row)
        /\ UNCHANGED <<events, logged, seen, known>>
    BY <1>4 DEF ReadForEvents, ReadForFallback, Rest, Stepped
  <2> QED
    BY <1>1, <2>1, PollerReads
<1>5. CASE ReadLogs(w)
  <2>1. /\ Stepped(w, "event", copy[w]) /\ UNCHANGED <<events, logged, seen>>
        /\ known' = [known EXCEPT ![w] = logged]
    BY <1>1, <1>5 DEF ReadLogs, Rest, Stepped
  <2> QED
    BY <1>1, <2>1, PollerReads
<1>6. CASE LogEvent(w)
  <2>1. PICK i \in Due(w) : (\A j \in Due(w) : i <= j) /\ logged' = logged \union {i}
    BY <1>6 DEF LogEvent
  <2>2. Stepped(w, "apply", copy[w]) /\ UNCHANGED <<events, seen, known>>
    BY <1>1, <1>6 DEF LogEvent, Stepped
  <2>3. \A k \in Due(w) : (\A j \in Due(w) : k <= j) => k \in logged'
    <3>1. Due(w) \subseteq Nat
      BY <1>1 DEF Due
    <3> QED
      BY <2>1, <3>1
  <2> QED
    BY <1>1, <2>1, <2>2, <2>3, PollerReads DEF Due
<1>7. CASE ApplyEvent(w)
  <2>1. PICK i \in Due(w) :
           /\ pc[w] = "apply" /\ UNCHANGED <<seen, Rest>>
           /\ \A j \in Due(w) : i <= j
           /\ known' = [known EXCEPT ![w] = @ \union {i}]
           /\ \/ Stepped(w, "event", copy[w])
              \/ \E l \in {"auto_paid", "event"} :
                   Stepped(w, l, [copy[w] EXCEPT !.status = StatusOf[events[i]]])
    BY <1>7, ApplyParts
  <2>2. i \in logged
    BY <2>1 DEF Reads
  <2> DEFINE k == known[w] \union {i}
  <2>3. known' = [known EXCEPT ![w] = k] /\ k \subseteq logged
    BY <1>1, <2>1, <2>2
  <2>4. 1 \in k
    <3>1. i \in Nat /\ 1 <= i /\ i <= seen[w]
      BY <1>1 DEF Due
    <3>2. CASE 1 \in Due(w)
      BY <2>1, <3>1, <3>2
    <3>3. CASE 1 \notin Due(w)
      BY <1>1, <3>1, <3>3 DEF Due
    <3> QED
      BY <3>2, <3>3
  <2>5. PICK l, c : l \in {"auto_paid", "event"} /\ Stepped(w, l, c)
    BY <2>1
  <2>6. UNCHANGED <<seen, events, logged>>
    BY <2>1 DEF Rest
  <2> HIDE DEF k
  <2> QED
    BY <1>1, <2>3, <2>4, <2>5, <2>6, PollerReads
<1>8. CASE AutoMarkPaid(w) \/ SendAuto212(w)
  <2>1. /\ Stepped(w, "send_auto212", PaidCopy(copy[w])) \/ Stepped(w, "event", copy[w])
        /\ UNCHANGED <<events, logged, seen, known>>
    BY <1>1, <1>8 DEF AutoMarkPaid, SendAuto212, paVars, Stepped
  <2> QED
    BY <1>1, <2>1, PollerReads
<1>9. CASE PollEnds(w)
  BY <1>2, <1>9 DEF PollEnds
<1>10. CASE FallbackApply(w)
  <2>1. copy[w].flow # 0 /\ UNCHANGED Rest
        /\ \/ EndPoll(w)
           \/ /\ UNCHANGED <<seen, known>>
              /\ \E l \in {"auto_paid", "event"} :
                   Stepped(w, l, [copy[w] EXCEPT !.status = "transmitted"])
    BY <1>10, FallbackParts
  <2>2. CASE EndPoll(w)
    BY <1>2, <2>1, <2>2
  <2>3. ASSUME NEW l \in {"auto_paid", "event"}, UNCHANGED <<seen, known>>,
               Stepped(w, l, [copy[w] EXCEPT !.status = "transmitted"])
        PROVE  Reads'
    <3>1. [copy[w] EXCEPT !.status = "transmitted"].flow # 0
      BY <1>1, <2>1 DEF Row
    <3>2. UNCHANGED <<events, logged>>
      BY <2>1 DEF Rest
    <3> QED
      BY <1>1, <2>3, <3>1, <3>2, PollerReads
  <2> QED
    BY <2>1, <2>2, <2>3
<1> QED
  BY <1>2, <1>3, <1>4, <1>5, <1>6, <1>7, <1>8, <1>9, <1>10
  DEF PollStep, ReadForEvents, ReadForFallback

Ended(s) == s \in {"paid", "cancelled"}

\* The end of the invoice: nobody takes it back, and the poll has seen it.
Settled ==
  /\ Over /\ Ended(row.status)
  /\ \A w \in Workers : pc[w] \in PollHolding =>
       pc[w] \notin {"auto_paid", "flow_check"} /\ Ended(copy[w].status)

\* The deposit was handled: no poll finds it again, nor a deposited invoice.
BeyondDeposit(l, c, k, n) ==
  /\ l \notin {"auto_paid", "flow_check"}
  /\ l \in PollHolding => c.status # "transmitted"
  /\ l \in {"event", "apply", "send_auto212"} => 1 \in k
  /\ l = "poll" => n # 0

PastDeposit ==
  /\ 1 \in logged /\ row.status # "transmitted"
  /\ \A w \in Workers : BeyondDeposit(pc[w], copy[w], known[w], seen[w])

\* One report, of an invoice that stays paid, or that no poll will pay again.
Accounted ==
  /\ OneOf(pc, {"send_auto212"}, Reports)
  /\ InUse(pc, {"send_auto212"}, Reports) => Settled \/ PastDeposit

LEMMA BesideAccounted ==
  ASSUME LifecycleTypeInv, LifecycleTypeInv', Accounted, Beside, Over => Over'
  PROVE  Accounted'
<1>1. Reports \in {0, 1} /\ Reports' \in Nat /\ Reports' <= Reports
  BY SendingTyped DEF Accounted, OneOf, Beside
<1>2. PollHolding \subseteq Polling /\ "send_auto212" \in PollHolding /\ "poll" \in Polling
      /\ {"auto_paid", "flow_check", "event", "apply"} \subseteq Polling
  BY DEF Polling, PollHolding
<1>3. \A v \in Workers :
        \/ /\ pc'[v] = pc[v] /\ copy'[v] = copy[v]
           /\ seen'[v] = seen[v] /\ known'[v] = known[v]
        \/ pc'[v] \notin Polling
  BY DEF Beside
<1>4. \A v \in Workers : pc'[v] = "send_auto212" => pc[v] = "send_auto212"
  BY <1>2, <1>3
<1>5. /\ OneOf(pc', {"send_auto212"}, Reports')
      /\ InUse(pc', {"send_auto212"}, Reports') => InUse(pc, {"send_auto212"}, Reports)
  BY <1>1, <1>4 DEF Accounted, OneOf, InUse
<1>6. Settled => Settled'
  <2> SUFFICES ASSUME Settled PROVE Settled'
    OBVIOUS
  <2>1. Ended(row'.status)
    BY DEF Settled, Beside, Ended
  <2>2. ASSUME NEW v \in Workers, pc'[v] \in PollHolding
        PROVE  pc'[v] \notin {"auto_paid", "flow_check"} /\ Ended(copy'[v].status)
    BY <1>2, <1>3, <2>2 DEF Settled
  <2> QED
    BY <2>1, <2>2 DEF Settled, Ended
<1>7. PastDeposit => PastDeposit'
  <2> SUFFICES ASSUME PastDeposit PROVE PastDeposit'
    OBVIOUS
  <2>1. 1 \in logged' /\ row'.status # "transmitted"
    BY DEF PastDeposit, Beside
  <2>2. ASSUME NEW v \in Workers
        PROVE  BeyondDeposit(pc'[v], copy'[v], known'[v], seen'[v])
    <3>1. CASE pc'[v] \notin Polling
      BY <1>2, <3>1 DEF BeyondDeposit
    <3>2. CASE /\ pc'[v] = pc[v] /\ copy'[v] = copy[v]
               /\ seen'[v] = seen[v] /\ known'[v] = known[v]
      BY <3>2 DEF PastDeposit
    <3> QED
      BY <1>3, <3>1, <3>2
  <2> QED
    BY <2>1, <2>2 DEF PastDeposit, BeyondDeposit
<1> QED
  BY <1>5, <1>6, <1>7 DEF Accounted

\* A step of the poll that pays nothing.
LEMMA PollerAccounts ==
  ASSUME LifecycleTypeInv, LifecycleTypeInv', Accounted, NEW w \in Workers,
         NEW l, NEW c, NEW n, NEW k, Stepped(w, l, c),
         seen' = [seen EXCEPT ![w] = n], known' = [known EXCEPT ![w] = k],
         logged \subseteq logged', Over => Over',
         Passes(pc[w], l, {"send_auto212"}, Reports, Reports'),
         Settled => /\ Ended(row'.status)
                    /\ l \in PollHolding => l \notin {"auto_paid", "flow_check"} /\ Ended(c.status),
         PastDeposit => row'.status # "transmitted" /\ BeyondDeposit(l, c, k, n)
  PROVE  Accounted'
<1>1. /\ pc \in [Workers -> Labels] /\ pc' = [pc EXCEPT ![w] = l] /\ Reports' \in Nat
      /\ pc'[w] = l /\ copy'[w] = c
      /\ \A v \in Workers : v # w => pc'[v] = pc[v] /\ copy'[v] = copy[v]
  BY TypedParts, SendingTyped DEF Stepped
<1>2. /\ seen'[w] = n /\ known'[w] = k
      /\ \A v \in Workers : v # w => seen'[v] = seen[v] /\ known'[v] = known[v]
  BY PollParts
<1>3. /\ OneOf(pc', {"send_auto212"}, Reports')
      /\ InUse(pc', {"send_auto212"}, Reports') => InUse(pc, {"send_auto212"}, Reports)
  BY <1>1, WorkPasses DEF Accounted
<1>4. Settled => Settled'
  <2> SUFFICES ASSUME Settled PROVE Settled'
    OBVIOUS
  <2>1. ASSUME NEW v \in Workers, pc'[v] \in PollHolding
        PROVE  pc'[v] \notin {"auto_paid", "flow_check"} /\ Ended(copy'[v].status)
    BY <1>1, <2>1 DEF Settled
  <2> QED
    BY <2>1 DEF Settled, Ended
<1>5. PastDeposit => PastDeposit'
  <2> SUFFICES ASSUME PastDeposit PROVE PastDeposit'
    OBVIOUS
  <2>1. 1 \in logged' /\ row'.status # "transmitted"
    BY DEF PastDeposit
  <2>2. ASSUME NEW v \in Workers
        PROVE  BeyondDeposit(pc'[v], copy'[v], known'[v], seen'[v])
    <3>1. CASE v = w
      BY <1>1, <1>2, <3>1
    <3>2. CASE v # w
      BY <1>1, <1>2, <3>2 DEF PastDeposit
    <3> QED
      BY <3>1, <3>2
  <2> QED
    BY <2>1, <2>2 DEF PastDeposit, BeyondDeposit
<1> QED
  BY <1>3, <1>4, <1>5 DEF Accounted

LEMMA PollAccounts ==
  ASSUME OneReporter, Underway, LifecycleTypeInv', Reads, Accounted, Over => Over',
         NEW w \in Workers, Poll(w) \/ PollStep(w)
  PROVE  Accounted'
<1>1. /\ LifecycleTypeInv /\ copy[w] \in Row /\ copy = [copy EXCEPT ![w] = copy[w]]
      /\ row \in Row /\ Knows(pc[w], copy[w])
  BY TypedParts DEF Underway, KnowsInv
<1>2. seen = [seen EXCEPT ![w] = seen[w]] /\ known = [known EXCEPT ![w] = known[w]]
  BY <1>1, PollParts
<1>3. /\ Reports \in Nat /\ ~Ended("transmitting") /\ ~CanTransition("paid", "transmitted")
      /\ "poll" \notin PollHolding
  BY <1>1, SendingTyped DEF Ended, CanTransition, Transitions, PollHolding
<1>4. PastDeposit => BeyondDeposit(pc[w], copy[w], known[w], seen[w])
  BY DEF PastDeposit
<1>5. ASSUME UNCHANGED <<queue, reported>>, NEW l, l # "send_auto212"
      PROVE  Passes(pc[w], l, {"send_auto212"}, Reports, Reports')
  BY <1>5 DEF Passes, Reports
<1>6. CASE EndPoll(w) /\ UNCHANGED <<row, queue, Rest>>
  <2>1. /\ Stepped(w, "idle", Forgotten) /\ UNCHANGED <<row, queue, logged, reported>>
        /\ seen' = [seen EXCEPT ![w] = 0] /\ known' = [known EXCEPT ![w] = {}]
    BY <1>6 DEF EndPoll, Finish, Rest, Stepped
  <2>2. BeyondDeposit("idle", Forgotten, {}, 0) /\ "idle" \notin PollHolding
    BY DEF BeyondDeposit, PollHolding
  <2> QED
    BY <1>1, <1>5, <2>1, <2>2, PollerAccounts DEF Settled, PastDeposit
<1>7. CASE Poll(w)
  <2>1. /\ Stepped(w, "poll", copy[w]) /\ UNCHANGED <<row, queue, logged, known, reported>>
        /\ seen' = [seen EXCEPT ![w] = Len(events)]
    BY <1>1, <1>7 DEF Poll, Rest, Stepped
  <2>2. PastDeposit => BeyondDeposit("poll", copy[w], known[w], Len(events))
    <3>1. 1 \in logged => Len(events) # 0
      BY <1>1, PollParts
    <3> QED
      BY <3>1 DEF BeyondDeposit, PastDeposit, PollHolding
  <2> QED
    BY <1>1, <1>2, <1>3, <1>5, <2>1, <2>2, PollerAccounts DEF Settled, PastDeposit
<1>8. CASE ReadForEvents(w) /\ ~EndPoll(w)
  <2>1. Stepped(w, "dedup", row) /\ UNCHANGED <<row, queue, logged, seen, known, reported>>
    BY <1>8 DEF ReadForEvents, Rest, Stepped
  <2>2. PastDeposit => BeyondDeposit("dedup", row, known[w], seen[w])
    BY DEF BeyondDeposit, PastDeposit
  <2> QED
    BY <1>1, <1>2, <1>5, <2>1, <2>2, PollerAccounts DEF Settled, PastDeposit
<1>9. CASE ReadForFallback(w) /\ ~EndPoll(w)
  <2>1. /\ Stepped(w, "flow_check", row) /\ UNCHANGED <<row, queue, logged, seen, known, reported>>
        /\ pc[w] = "poll" /\ seen[w] = 0 /\ row.status = "transmitting"
    BY <1>9 DEF ReadForFallback, Rest, Stepped, Stuck
  <2>2. ~Settled /\ ~PastDeposit
    BY <1>3, <1>4, <2>1 DEF Settled, BeyondDeposit
  <2> QED
    BY <1>1, <1>2, <1>5, <2>1, <2>2, PollerAccounts
<1>10. CASE ReadLogs(w)
  <2>1. /\ Stepped(w, "event", copy[w]) /\ UNCHANGED <<row, queue, logged, seen, reported>>
        /\ known' = [known EXCEPT ![w] = logged] /\ pc[w] = "dedup"
    BY <1>1, <1>10 DEF ReadLogs, Rest, Stepped
  <2>2. "dedup" \in PollHolding
    BY DEF PollHolding
  <2>3. PastDeposit => BeyondDeposit("event", copy[w], logged, seen[w])
    BY <1>4, <2>1, <2>2 DEF BeyondDeposit, PastDeposit
  <2> QED
    BY <1>1, <1>2, <1>5, <2>1, <2>2, <2>3, PollerAccounts DEF Settled, PastDeposit
<1>11. CASE LogEvent(w)
  <2>1. /\ Stepped(w, "apply", copy[w]) /\ UNCHANGED <<row, queue, seen, known, reported>>
        /\ pc[w] = "event" /\ logged \subseteq logged'
    BY <1>1, <1>11 DEF LogEvent, Stepped
  <2>2. "event" \in PollHolding
    BY DEF PollHolding
  <2>3. PastDeposit => row'.status # "transmitted"
                       /\ BeyondDeposit("apply", copy[w], known[w], seen[w])
    BY <1>4, <2>1, <2>2 DEF BeyondDeposit, PastDeposit
  <2>4. Settled => Ended(row'.status) /\ Ended(copy[w].status)
    BY <2>1, <2>2 DEF Settled
  <2>5. Passes(pc[w], "apply", {"send_auto212"}, Reports, Reports')
    BY <1>5, <2>1
  <2>6. Stepped(w, "apply", copy[w]) /\ seen' = [seen EXCEPT ![w] = seen[w]]
        /\ known' = [known EXCEPT ![w] = known[w]] /\ logged \subseteq logged'
    BY <1>2, <2>1
  <2> QED
    BY <1>1, <2>3, <2>4, <2>5, <2>6, PollerAccounts
<1>12. CASE ApplyEvent(w)
  <2>1. PICK i \in Due(w) :
           /\ pc[w] = "apply" /\ UNCHANGED <<queue, seen, Rest>>
           /\ known' = [known EXCEPT ![w] = @ \union {i}]
           /\ \/ row' = row /\ Stepped(w, "event", copy[w])
              \/ /\ CanTransition(copy[w].status, StatusOf[events[i]])
                 /\ row' = [row EXCEPT !.status = StatusOf[events[i]]]
                 /\ \E l \in {"auto_paid", "event"} :
                      /\ l = "auto_paid" => CanTransition(StatusOf[events[i]], "paid")
                      /\ Stepped(w, l, [copy[w] EXCEPT !.status = StatusOf[events[i]]])
    BY <1>12, ApplyParts
  <2> DEFINE k == known[w] \union {i}
  <2>2. /\ known' = [known EXCEPT ![w] = k] /\ UNCHANGED <<queue, seen, logged, reported>>
        /\ known[w] \subseteq k /\ pc[w] \in PollHolding
    BY <1>2, <2>1 DEF Rest, PollHolding
  <2>3. /\ Settled => Ended(copy[w].status)
        /\ PastDeposit => 1 \in known[w] /\ copy[w].status # "transmitted"
    BY <1>4, <2>1, <2>2 DEF Settled, BeyondDeposit
  <2> HIDE DEF k
  <2>4. CASE row' = row /\ Stepped(w, "event", copy[w])
    <3>1. PastDeposit => BeyondDeposit("event", copy[w], k, seen[w])
      BY <2>2, <2>3 DEF BeyondDeposit
    <3> QED
      BY <1>1, <1>2, <1>5, <2>2, <2>3, <2>4, <3>1, PollerAccounts DEF Settled, PastDeposit
  <2>5. CASE /\ CanTransition(copy[w].status, StatusOf[events[i]])
             /\ row' = [row EXCEPT !.status = StatusOf[events[i]]]
             /\ \E l \in {"auto_paid", "event"} :
                  /\ l = "auto_paid" => CanTransition(StatusOf[events[i]], "paid")
                  /\ Stepped(w, l, [copy[w] EXCEPT !.status = StatusOf[events[i]]])
    <3> DEFINE s == StatusOf[events[i]]
               r == [copy[w] EXCEPT !.status = s]
    <3>1. events[i] \in Codes /\ i \in DOMAIN events
      BY <1>1, <2>1, PollParts
    <3>2. s \in {"transmitted", "accepted", "refused", "rejected"}
          /\ (s = "transmitted" => events[i] = "200")
      BY <3>1 DEF StatusOf, Codes
    <3>3. row'.status = s /\ r.status = s
      BY <1>1, <2>5, LateRows
    <3>4. PICK l \in {"auto_paid", "event"} :
            (l = "auto_paid" => CanTransition(s, "paid")) /\ Stepped(w, l, r)
      BY <2>5
    <3>5. CanTransition(copy[w].status, s)
      BY <2>5
    <3>6. i # 1 => s # "transmitted"
      BY <3>1, <3>2 DEF Reads
    <3>7. 1 \in known[w] => i # 1
      BY <2>1 DEF Due
    <3> HIDE DEF s, r
    <3>8. ~Settled
      BY <2>3, <3>2, <3>5 DEF Ended, CanTransition, Transitions
    <3>9. PastDeposit => l = "event" /\ s # "transmitted" /\ 1 \in k
      <4> SUFFICES ASSUME PastDeposit PROVE l = "event" /\ s # "transmitted" /\ 1 \in k
        OBVIOUS
      <4>1. s # "transmitted" /\ 1 \in k /\ copy[w].status # "transmitted"
        BY <2>2, <2>3, <3>6, <3>7
      <4>2. copy[w].status \in Status
        BY <1>1 DEF Row
      <4>3. s # "accepted"
        BY <3>5, <4>1, <4>2 DEF CanTransition, Transitions, Status
      <4>4. ~CanTransition(s, "paid")
        BY <3>2, <4>1, <4>3 DEF CanTransition, Transitions
      <4> QED
        BY <3>4, <4>1, <4>4
    <3>10. PastDeposit => row'.status # "transmitted" /\ BeyondDeposit(l, r, k, seen[w])
      BY <3>3, <3>9 DEF BeyondDeposit
    <3>11. Passes(pc[w], l, {"send_auto212"}, Reports, Reports')
      BY <1>5, <2>2
    <3> QED
      BY <1>1, <1>2, <2>2, <3>4, <3>8, <3>10, <3>11, PollerAccounts
  <2> QED
    BY <2>1, <2>4, <2>5
<1>13. CASE AutoMarkPaid(w)
  <2>1. /\ pc[w] = "auto_paid" /\ row' = PaidCopy(copy[w])
        /\ Stepped(w, "send_auto212", PaidCopy(copy[w]))
        /\ UNCHANGED <<queue, reported, logged, seen, known>>
    BY <1>13 DEF AutoMarkPaid, Save, Stepped, paVars
  <2>2. /\ PaidCopy(copy[w]).status = "paid" /\ row'.status = "paid" /\ "paid" # "transmitted"
    BY <1>1, <2>1, LateRows
  <2>3. ~Settled /\ ~PastDeposit
    BY <1>4, <2>1 DEF Settled, BeyondDeposit, PollHolding
  <2>4. ~InUse(pc, {"send_auto212"}, Reports) /\ Reports' = Reports
    BY <2>1, <2>3 DEF Accounted, Reports
  <2>5. OneOf(pc', {"send_auto212"}, Reports')
    BY <1>1, <1>3, <2>1, <2>4, TypedParts, WorkBegins DEF Stepped
  <2>6. /\ pc'[w] = "send_auto212" /\ copy'[w] = PaidCopy(copy[w])
        /\ \A v \in Workers : v # w => pc'[v] = pc[v] /\ copy'[v] = copy[v]
    BY <1>1, <2>1, TypedParts DEF Stepped
  <2>7. \A v \in Workers : v # w => pc'[v] \notin Polling
    <3>1. w \in Pollers /\ \A v \in Workers : pc[v] \in Polling => v \in Pollers
      BY PollIsPollers DEF Underway, Sending
    <3> QED
      BY <2>6, <3>1 DEF OneReporter
  <2>8. CASE copy[w].flow # 0
    <3>1. Over
      BY <2>1, <2>8 DEF Underway, Sending, PollHolding
    <3>2. Settled'
      BY <2>2, <2>6, <2>7, <3>1 DEF Settled, Ended, Polling
    <3> QED
      BY <2>5, <3>2 DEF Accounted
  <2>9. CASE 1 \in known[w]
    <3>1. 1 \in logged' /\ 1 \in known'[w]
      BY <2>1, <2>9 DEF Reads
    <3>2. BeyondDeposit(pc'[w], copy'[w], known'[w], seen'[w])
      BY <2>2, <2>6, <3>1 DEF BeyondDeposit
    <3>3. \A v \in Workers : v # w => BeyondDeposit(pc'[v], copy'[v], known'[v], seen'[v])
      BY <2>7 DEF BeyondDeposit, Polling, PollHolding
    <3>4. PastDeposit'
      BY <2>2, <3>1, <3>2, <3>3 DEF PastDeposit, BeyondDeposit
    <3> QED
      BY <2>5, <3>4 DEF Accounted
  <2> QED
    BY <2>1, <2>8, <2>9 DEF Reads
<1>14. CASE SendAuto212(w)
  <2>1. /\ pc[w] = "send_auto212" /\ Stepped(w, "event", copy[w])
        /\ UNCHANGED <<row, reported, logged, seen, known>>
        /\ queue' = [queue EXCEPT !["paid212"] = @ + 1]
    BY <1>1, <1>14 DEF SendAuto212, Stepped, paVars
  <2>2. queue'["paid212"] = queue["paid212"] + 1 /\ queue["paid212"] \in Nat /\ reported \in Nat
    <3>1. "paid212" \in Tasks
      BY DEF Tasks
    <3>2. queue \in [Tasks -> Nat] /\ reported \in Nat
      BY <1>1, TypedParts DEF PaTypeOK
    <3> QED
      BY <1>1, <2>1, <3>1, <3>2, OneMessage
  <2>3. Passes(pc[w], "event", {"send_auto212"}, Reports, Reports')
    BY <2>1, <2>2 DEF Passes, Reports
  <2>4. "send_auto212" \in PollHolding
    BY DEF PollHolding
  <2>5. PastDeposit => row'.status # "transmitted"
                       /\ BeyondDeposit("event", copy[w], known[w], seen[w])
    BY <1>4, <2>1, <2>4 DEF BeyondDeposit, PastDeposit
  <2>6. Settled => Ended(row'.status) /\ Ended(copy[w].status)
    BY <2>1, <2>4 DEF Settled
  <2>7. Stepped(w, "event", copy[w]) /\ seen' = [seen EXCEPT ![w] = seen[w]]
        /\ known' = [known EXCEPT ![w] = known[w]] /\ logged \subseteq logged'
    BY <1>2, <2>1
  <2> QED
    BY <1>1, <2>3, <2>5, <2>6, <2>7, PollerAccounts
<1>15. CASE PollEnds(w)
  BY <1>6, <1>15 DEF PollEnds
<1>16. CASE FallbackApply(w)
  <2>1. pc[w] = "flow_check" /\ UNCHANGED <<queue, Rest>>
        /\ \/ EndPoll(w) /\ row' = row
           \/ /\ UNCHANGED <<seen, known>>
              /\ \E l \in {"auto_paid", "event"} :
                   Stepped(w, l, [copy[w] EXCEPT !.status = "transmitted"])
    BY <1>16, FallbackParts
  <2>2. ~Settled /\ ~PastDeposit
    BY <1>4, <2>1 DEF Settled, BeyondDeposit, PollHolding
  <2>3. CASE EndPoll(w) /\ row' = row
    BY <1>6, <2>1, <2>3
  <2>4. ASSUME NEW l \in {"auto_paid", "event"}, UNCHANGED <<seen, known>>,
               Stepped(w, l, [copy[w] EXCEPT !.status = "transmitted"])
        PROVE  Accounted'
    <3>1. UNCHANGED <<queue, reported, logged>>
      BY <2>1 DEF Rest
    <3>2. Passes(pc[w], l, {"send_auto212"}, Reports, Reports')
      BY <1>5, <3>1
    <3> QED
      BY <1>1, <1>2, <2>2, <2>4, <3>1, <3>2, PollerAccounts
  <2> QED
    BY <2>1, <2>3, <2>4
<1> QED
  BY <1>6, <1>7, <1>8, <1>9, <1>10, <1>11, <1>12, <1>13, <1>14, <1>15, <1>16
  DEF PollStep, ReadForEvents, ReadForFallback

LEMMA BeginsAccounted == LifecycleInit => Sending /\ Reads /\ Accounted
<1> SUFFICES ASSUME LifecycleInit PROVE Sending /\ Reads /\ Accounted
  OBVIOUS
<1>1. /\ \E n \in {0, 1} : row = NewRow(n)
      /\ pc = [w \in Workers |-> "idle"] /\ queue = [t \in Tasks |-> 0] /\ flows = <<>>
      /\ events = <<>> /\ known = [w \in Workers |-> {}] /\ reported = 0
  BY DEF LifecycleInit, RowInit, PaInit
<1>2. /\ \A w \in Workers : pc[w] = "idle" /\ known[w] = {}
      /\ row.flow = 0 /\ queue["transmit"] = 0 /\ Reports = 0
  BY <1>1 DEF NewRow, Tasks, Reports
<1>3. "idle" \notin Polling \union TransmitLabels \union Payers /\ "idle" \notin PollHolding
  BY SendingLabels
<1>4. Sending
  BY <1>1, <1>2, <1>3 DEF Sending, OneOf, InUse, TransmitLabels
<1>5. Reads
  BY <1>1, <1>2 DEF Reads
<1>6. Accounted
  BY <1>2 DEF Accounted, OneOf, InUse
<1> QED
  BY <1>4, <1>5, <1>6

\* A payment is reported to the PA at most once: the poll that finds the invoice paid by
\* an earlier Stripe event marks it as paid once (_maybe_auto_mark_paid) and leaves one
\* message, through crashes, refusals, lost answers, submissions that are made again and
\* cancellations by a credit note.
THEOREM LifecycleReportsOnce ==
  ASSUME OneReporter
  PROVE  LifecycleSpec => []ReportedOnce
<1>1. LifecycleSpec => [](LifecycleTypeInv /\ KnowsInv /\ IssuanceTurns)
  BY TurnsHold DEF OneReporter
<1>2. (LifecycleTypeInv /\ KnowsInv /\ IssuanceTurns) /\ LifecycleTypeInv'
        /\ Sending /\ Reads /\ Accounted /\ [LifecycleNext]_lifecycleVars
        => Sending' /\ Reads' /\ Accounted'
  <2> SUFFICES ASSUME Underway, LifecycleTypeInv', Reads, Accounted, [LifecycleNext]_lifecycleVars
               PROVE  Sending' /\ Reads' /\ Accounted'
    BY DEF Underway
  <2>1. LifecycleTypeInv
    BY DEF Underway
  <2> QED
    BY <2>1, StepOnward, BesideReads, BesideAccounted, PollReads, PollAccounts DEF Onward
<1>3. LifecycleTypeInv /\ Accounted => ReportedOnce
  <2> SUFFICES ASSUME LifecycleTypeInv, Accounted PROVE ReportedOnce
    OBVIOUS
  <2>1. queue["paid212"] \in Nat /\ reported \in Nat
    BY TypedParts DEF Tasks, PaTypeOK
  <2> QED
    BY <2>1 DEF Accounted, OneOf, Reports, ReportedOnce
<1> QED
  BY <1>1, <1>2, <1>3, BeginsAccounted, PTL DEF LifecycleSpec

----------------------------------------------------------------------------
(* The status moves along the table when one poller alone writes what the  *)
(* PA says, and nobody else pays or cancels the invoice.                   *)

\* Requests do not overlap, one worker polls, payments come from the poll, and the PA's
\* answers arrive.
OnePoller ==
  /\ Serial
  /\ {"mark_paid", "online_payment", "auto_cancel"} \cap Handlers = {}
  /\ {"timed_out", "nack"} \cap Faults = {}
  /\ \A v, w \in Pollers : v = w

\* The statuses of an invoice that the PA has.
Sent == {"transmitting", "transmitted", "accepted", "rejected", "refused", "paid"}

\* The labels that do not occur: their handlers are not in use.
OutOfUse == {"mark_paid", "online_payment", "send_paid212", "auto_cancel"}

\* What holds for a worker w at label l with object c, the status being s and f the flows.
InPlace(l, w, c, s, f) ==
  /\ l \notin OutOfUse
  /\ l = "transmit" => s = "validated"
  /\ l = "submitted" => f # <<>>
  /\ l \in PollHolding \union {"poll"} => w \in Pollers
  /\ l \in PollHolding => f # <<>> /\ c.status = s

\* A submission that is going on is of a transmitting invoice, and a poll's object has the
\* status of the row.
Placed ==
  /\ \A w \in Workers : InPlace(pc[w], w, copy[w], row.status, flows)
  /\ InUse(pc, SentLabels, queue["transmit"]) => row.status = "transmitting"
  /\ ~credited
  /\ flows # <<>> => row.status \in Sent

Known == LifecycleTypeInv /\ KnowsInv /\ IssuanceTurns /\ Handed /\ Placed

\* A step that moves the status along the table.
Legal == row'.status = row.status \/ CanTransition(row.status, row'.status)

LEMMA OneSubmission ==
  ASSUME OnePoller, Known
  PROVE  /\ OneOf(pc, SentLabels, queue["transmit"])
         /\ flows # <<>> => queue["transmit"] = 0
         /\ \A w \in Workers : pc[w] \in SubmissionLabels =>
              /\ flows = <<>> /\ queue["transmit"] = 0
              /\ \A v \in Workers : pc[v] \in SubmissionLabels => v = w
<1>1. /\ queue["transmit"] \in Nat /\ Len(flows) \in Nat /\ (Len(flows) = 0 <=> flows = <<>>)
  BY TypedParts DEF Tasks, PaTypeOK, Known
<1>2. OneOf(pc, SubmissionLabels, queue["transmit"] + Len(flows))
  BY DEF Known, Handed, Submissions, OnePoller
<1>3. queue["transmit"] \in {0, 1} /\ (flows # <<>> => queue["transmit"] = 0)
  BY <1>1, <1>2 DEF OneOf
<1>4. ASSUME NEW w \in Workers, pc[w] \in SubmissionLabels
      PROVE  /\ flows = <<>> /\ queue["transmit"] = 0
             /\ \A v \in Workers : pc[v] \in SubmissionLabels => v = w
  BY <1>1, <1>2, <1>4 DEF OneOf
<1>5. OneOf(pc, SentLabels, queue["transmit"])
  BY <1>3, <1>4 DEF OneOf, SentLabels
<1> QED
  BY <1>3, <1>4, <1>5

LEMMA PlacedLabels ==
  /\ SentLabels \cap (PollHolding \union {"poll", "submitted", "idle", "transmit"} \union OutOfUse) = {}
  /\ PollHolding \cap (SubmissionLabels \union {"idle", "poll", "submitted"} \union OutOfUse) = {}
  /\ PollHolding \union {"transmit", "submitted", "poll"} \union OutOfUse \union SentLabels
       \subseteq LateLabels
  /\ {"idle", "edit", "delete", "validate", "send_generate", "record_payment", "generate",
      "generated", "ereport", "send_ereport"}
       \cap (PollHolding \union SubmissionLabels \union {"poll", "submitted"} \union OutOfUse) = {}
  /\ "send_auto212" \in PollHolding
BY DEF SentLabels, PollHolding, SubmissionLabels, OutOfUse, LateLabels, TransmissionLabels

\* Without a flow to hold or a draft to keep, nobody minds what the status becomes.
LEMMA MindsNot ==
  ASSUME NEW l, NEW w, NEW c, NEW s, NEW t, NEW f, NEW g, InPlace(l, w, c, s, f),
         f # <<>> => g # <<>>, s = t \/ l \notin PollHolding \union {"transmit"}
  PROVE  InPlace(l, w, c, t, g)
BY DEF InPlace

LEMMA PlacesFrame ==
  ASSUME Known, NEW w \in Workers, NEW l, NEW c, Stepped(w, l, c),
         InPlace(l, w, c, row'.status, flows'), flows # <<>> => flows' # <<>>,
         \A v \in Workers : v # w =>
           row'.status = row.status \/ pc[v] \notin PollHolding \union {"transmit"}
  PROVE  \A v \in Workers : InPlace(pc'[v], v, copy'[v], row'.status, flows')
<1>1. pc \in [Workers -> Labels] /\ copy \in [Workers -> Row]
  BY TypedParts DEF Known
<1> SUFFICES ASSUME NEW v \in Workers PROVE InPlace(pc'[v], v, copy'[v], row'.status, flows')
  OBVIOUS
<1>2. CASE v = w
  BY <1>1, <1>2 DEF Stepped
<1>3. CASE v # w
  <2>1. pc'[v] = pc[v] /\ copy'[v] = copy[v]
    BY <1>1, <1>3 DEF Stepped
  <2>2. InPlace(pc[v], v, copy[v], row.status, flows)
    BY DEF Known, Placed
  <2>3. InPlace(pc[v], v, copy[v], row'.status, flows')
    BY <1>3, <2>2, MindsNot
  <2> QED
    BY <2>1, <2>3
<1> QED
  BY <1>2, <1>3

\* A step of a worker that leaves the status.
LEMMA KeepsStatus ==
  ASSUME OnePoller, Known, LifecycleTypeInv', NEW w \in Workers, NEW l, NEW c, Stepped(w, l, c),
         row'.status = row.status, flows # <<>> <=> flows' # <<>>, credited' = credited,
         InPlace(l, w, c, row.status, flows),
         Passes(pc[w], l, SentLabels, queue["transmit"], queue'["transmit"])
  PROVE  Placed' /\ Legal
<1>1. pc \in [Workers -> Labels] /\ pc' = [pc EXCEPT ![w] = l]
  BY TypedParts DEF Known, Stepped
<1>2. \A v \in Workers : InPlace(pc'[v], v, copy'[v], row'.status, flows')
  BY MindsNot, PlacesFrame
<1>3. InUse(pc', SentLabels, queue'["transmit"]) => row'.status = "transmitting"
  BY <1>1, OneSubmission, SendingTyped, WorkPasses DEF Known, Placed
<1> QED
  BY <1>2, <1>3 DEF Known, Placed, Legal

\* A step that is not one of transmission, polling or payment.
LEMMA KeepsAll ==
  ASSUME OnePoller, Known, LifecycleTypeInv', NEW w \in Workers, NEW l, NEW c, Stepped(w, l, c),
         row'.status = row.status, UNCHANGED paVars,
         l \in {"idle", "edit", "delete", "validate", "send_generate", "record_payment",
                "generate", "generated", "ereport", "send_ereport"},
         queue'["transmit"] = queue["transmit"]
  PROVE  Placed' /\ Legal
<1>1. Passes(pc[w], l, SentLabels, queue["transmit"], queue'["transmit"])
  BY PlacedLabels DEF Passes, SentLabels
<1>2. InPlace(l, w, c, row.status, flows)
  BY PlacedLabels DEF InPlace, SubmissionLabels
<1> QED
  BY <1>1, <1>2, KeepsStatus DEF paVars

\* A step of nobody.
LEMMA NobodyPlaced ==
  ASSUME OnePoller, Known, LifecycleTypeInv', UNCHANGED <<row, pc, copy, credited>>,
         flows # <<>> <=> flows' # <<>>, queue'["transmit"] <= queue["transmit"]
  PROVE  Placed' /\ Legal
<1>1. queue["transmit"] \in {0, 1} /\ queue'["transmit"] \in Nat
  BY OneSubmission, SendingTyped DEF Known, OneOf
<1>2. InUse(pc', SentLabels, queue'["transmit"]) => row'.status = "transmitting"
  BY <1>1 DEF InUse, Known, Placed
<1>3. \A w \in Workers : InPlace(pc'[w], w, copy'[w], row'.status, flows')
  BY MindsNot DEF Known, Placed
<1> QED
  BY <1>2, <1>3 DEF Known, Placed, Legal

\* The work on a draft and the generation: the invoice is not with the PA.
LEMMA AlonePlaced ==
  ASSUME OnePoller, Known, LifecycleTypeInv', NEW w \in Workers, NEW l, NEW c, Stepped(w, l, c),
         pc[w] \in DraftLabels \union {"generate"}, l \in {"idle", "send_generate", "generated"},
         UNCHANGED <<queue, paVars>>
  PROVE  Placed'
<1>1. /\ row.status \in Early /\ flows = <<>>
      /\ \A v \in Workers : v # w => pc[v] \notin LateLabels
  BY Alone DEF Known
<1>2. pc'[w] = l /\ \A v \in Workers : v # w => pc'[v] = pc[v]
  BY TypedParts DEF Known, Stepped
<1>3. l \notin PollHolding \union SubmissionLabels \union {"poll", "submitted"} \union OutOfUse
  BY PlacedLabels
<1>4. \A v \in Workers : pc'[v] \notin PollHolding \union SentLabels \union
                                   {"transmit", "submitted", "poll"} \union OutOfUse
  BY <1>1, <1>2, <1>3, PlacedLabels DEF SentLabels, SubmissionLabels
<1>5. \A v \in Workers : InPlace(pc'[v], v, copy'[v], row'.status, flows')
  BY <1>4 DEF InPlace
<1>6. queue["transmit"] = 0
  BY <1>1 DEF Known, Placed, InUse, Early
<1>7. queue'["transmit"] = 0 /\ flows' = <<>> /\ credited' = credited
  BY <1>1, <1>6 DEF paVars
<1> QED
  BY <1>4, <1>5, <1>7 DEF Known, Placed, InUse

LEMMA IssuanceRequestPlaced ==
  ASSUME OnePoller, Known, LifecycleTypeInv', NEW w \in Workers, IssuanceRequest(w),
         UNCHANGED <<ereportingVars, paVars>>
  PROVE  Placed' /\ Legal
<1>1. row \in Row /\ copy[w] \in Row
  BY TypedParts DEF Known
<1>2. CASE OpenEdit(w) \/ OpenDelete(w) \/ OpenValidate(w) \/ OpenRecordPayment(w)
  <2>1. PICK l \in {"edit", "delete", "validate", "record_payment"} : Stepped(w, l, row)
    BY <1>2 DEF OpenEdit, OpenDelete, OpenValidate, OpenRecordPayment, Open, Read, Stepped
  <2>2. UNCHANGED <<row, queue>>
    BY <1>2 DEF OpenEdit, OpenDelete, OpenValidate, OpenRecordPayment, Open
  <2> QED
    BY <2>1, <2>2, KeepsAll
<1>3. CASE UpdateInvoice(w) \/ SoftDelete(w) \/ ValidateInvoice(w)
  <2>1. pc[w] \in DraftLabels /\ queue' = queue
    BY <1>3 DEF UpdateInvoice, SoftDelete, ValidateInvoice, DraftLabels
  <2>2. PICK l \in {"idle", "send_generate"} : Stepped(w, l, Forgotten)
    BY <1>3 DEF UpdateInvoice, SoftDelete, ValidateInvoice, Finish, SendNext, Stepped
  <2>3. Placed'
    BY <2>1, <2>2, AlonePlaced
  <2>4. row.status = "draft" /\ copy[w].status = "draft"
    BY <2>1 DEF Known, IssuanceTurns, InTurn
  <2>5. row'.status \in {"draft", "processing"}
    <3>1. CASE UpdateInvoice(w)
      BY <1>1, <2>4, <3>1 DEF UpdateInvoice, Save, Edited, Row
    <3>2. CASE SoftDelete(w)
      BY <1>1, <2>4, <3>2 DEF SoftDelete, SaveFields, Row
    <3>3. CASE ValidateInvoice(w)
      BY <1>1, <3>3 DEF ValidateInvoice, Save, Row
    <3> QED
      BY <1>3, <3>1, <3>2, <3>3
  <2> QED
    BY <2>3, <2>4, <2>5, TableFacts DEF Legal
<1>4. CASE SendGenerate(w)
  <2>1. /\ Stepped(w, "idle", Forgotten) /\ row' = row
        /\ queue' = [queue EXCEPT !["generate"] = @ + 1]
    BY <1>4 DEF SendGenerate, Send, Finish, Stepped
  <2>2. queue'["transmit"] = queue["transmit"]
    BY <2>1, OneMessage DEF Known, Tasks
  <2> QED
    BY <2>1, <2>2, KeepsAll
<1>5. CASE RecordPayment(w)
  <2>1. /\ Stepped(w, "idle", Forgotten) /\ row' = [row EXCEPT !.payment = TRUE] /\ queue' = queue
    BY <1>5 DEF RecordPayment, SaveFields, Finish, Stepped
  <2>2. row'.status = row.status
    BY <1>1, <2>1 DEF Row
  <2> QED
    BY <2>1, <2>2, KeepsAll
<1> QED
  BY <1>2, <1>3, <1>4, <1>5 DEF IssuanceRequest

LEMMA IssuanceTaskPlaced ==
  ASSUME OnePoller, Known, LifecycleTypeInv', NEW w \in Workers, IssuanceTask(w),
         UNCHANGED <<ereportingVars, paVars>>
  PROVE  Placed' /\ Legal
<1>1. row \in Row /\ copy[w] \in Row
  BY TypedParts DEF Known
<1>2. /\ ~TakePreview(w) /\ ~GenerateSourcePdf(w)
      /\ ~AfterGenerationFails(w) /\ ~SendEreporting(w)
  BY DEF TakePreview, Take, GenerateSourcePdf, AfterGenerationFails, SendEreporting, Known, IssuanceTurns, InTurn,
         OnePoller, Serial
<1>3. CASE TakeGenerate(w)
  <2>1. row' = row /\ queue' = [queue EXCEPT !["generate"] = @ - 1]
    BY <1>3 DEF TakeGenerate, Take, Drop
  <2>2. queue'["transmit"] = queue["transmit"]
    BY <2>1, OneMessage DEF Known, Tasks
  <2>3. CASE Drop("generate")
    <3>1. UNCHANGED <<row, pc, copy, paVars>>
      BY <2>3 DEF Drop
    <3>2. queue["transmit"] \in Nat
      BY TypedParts DEF Known, Tasks
    <3> QED
      BY <2>2, <3>1, <3>2, NobodyPlaced DEF paVars
  <2>4. CASE Take(w, "generate", "generate")
    <3>1. Stepped(w, "generate", row)
      BY <2>4 DEF Take, Read, Stepped
    <3> QED
      BY <2>1, <2>2, <3>1, KeepsAll
  <2> QED
    BY <1>3, <2>3, <2>4 DEF TakeGenerate
<1>4. CASE Generate(w)
  <2>1. /\ pc[w] = "generate" /\ queue' = queue
        /\ \/ /\ row' = [copy[w] EXCEPT !.status = "validated", !.pdf = "facturx"]
              /\ Stepped(w, "generated", row')
           \/ /\ row' = [copy[w] EXCEPT !.status = "draft"]
              /\ Stepped(w, "idle", Forgotten)
    BY <1>4 DEF Generate, GenerateSucceeds, GenerateFails, Save, Finish, Stepped
  <2>2. Placed'
    BY <2>1, AlonePlaced
  <2>3. row.status = "processing"
    BY <2>1, LabelsApart DEF Known, IssuanceTurns, InUse
  <2>4. row'.status \in {"validated", "draft"}
    BY <1>1, <2>1 DEF Row
  <2> QED
    BY <2>2, <2>3, <2>4, TableFacts DEF Legal
<1>5. CASE AfterGeneration(w)
  <2>1. Stepped(w, "idle", Forgotten) /\ row' = row /\ queue' = WithEreporting
    BY <1>5 DEF AfterGeneration, Finish, Stepped
  <2>2. queue'["transmit"] = queue["transmit"]
    BY <2>1, OneMessage DEF Known, Tasks, WithEreporting
  <2> QED
    BY <2>1, <2>2, KeepsAll
<1> QED
  BY <1>2, <1>3, <1>4, <1>5 DEF IssuanceTask

LEMMA EreportingPlaced ==
  ASSUME OnePoller, Known, LifecycleTypeInv', NEW w \in Workers, EreportingTask(w),
         UNCHANGED paVars
  PROVE  Placed' /\ Legal
<1>1. row \in Row
  BY TypedParts DEF Known
<1>2. CASE TakeEreporting(w)
  <2>1. row' = row /\ queue' = [queue EXCEPT !["ereporting"] = @ - 1]
    BY <1>2 DEF TakeEreporting, Take, Drop
  <2>2. queue'["transmit"] = queue["transmit"]
    BY <2>1, OneMessage DEF Known, Tasks
  <2>3. CASE Drop("ereporting")
    <3>1. UNCHANGED <<row, pc, copy, paVars>>
      BY <2>3 DEF Drop
    <3>2. queue["transmit"] \in Nat
      BY TypedParts DEF Known, Tasks
    <3> QED
      BY <2>2, <3>1, <3>2, NobodyPlaced DEF paVars
  <2>4. CASE Take(w, "ereporting", "ereport")
    <3>1. Stepped(w, "ereport", row)
      BY <2>4 DEF Take, Read, Stepped
    <3> QED
      BY <2>1, <2>2, <3>1, KeepsAll
  <2> QED
    BY <1>2, <2>3, <2>4 DEF TakeEreporting
<1>3. CASE Ereport(w)
  <2>1. /\ Stepped(w, "idle", Forgotten) \/ Stepped(w, "send_ereport", Forgotten)
        /\ queue' = queue
        /\ \E s : row' = [row EXCEPT !.ereporting = s]
    BY <1>3 DEF Ereport, EreportingSucceeds, EreportingRefused, EreportingUnavailable,
                SaveEreporting, SaveFields, Finish, SendNext, Stepped
  <2>2. row'.status = row.status
    BY <1>1, <2>1, LateRows
  <2> QED
    BY <2>1, <2>2, KeepsAll
<1>4. ~RetryEreporting(w)
  BY DEF RetryEreporting, Send, Known, Handed
<1> QED
  BY <1>2, <1>3, <1>4 DEF EreportingTask

\* The steps of the submission itself that move the status: the polls have nothing to
\* hold yet.
LEMMA SubmissionMoves ==
  ASSUME OnePoller, Known, LifecycleTypeInv', NEW w \in Workers, pc[w] \in SubmissionLabels,
         NEW l \in {"send_transmit", "idle"}, Stepped(w, l, Forgotten), UNCHANGED <<queue, paVars>>,
         row'.status \in {"transmitting", "validated"},
         l = "send_transmit" => row'.status = "transmitting"
  PROVE  Placed'
<1>1. /\ flows = <<>> /\ queue["transmit"] = 0
      /\ \A v \in Workers : pc[v] \in SubmissionLabels => v = w
  BY OneSubmission
<1>2. pc'[w] = l /\ \A v \in Workers : v # w => pc'[v] = pc[v]
  BY TypedParts DEF Known, Stepped
<1>3. flows' = <<>> /\ credited' = credited
  BY <1>1 DEF paVars
<1>4. \A v \in Workers : pc[v] \notin PollHolding
  BY <1>1 DEF Known, Placed, InPlace
<1>5. \A v \in Workers : v # w => pc[v] \notin PollHolding \union {"transmit"}
  BY <1>1, <1>4 DEF SubmissionLabels
<1>6. InPlace(l, w, Forgotten, row'.status, flows')
  BY DEF InPlace, PollHolding, OutOfUse
<1>7. \A v \in Workers : InPlace(pc'[v], v, copy'[v], row'.status, flows')
  BY <1>1, <1>5, <1>6, PlacesFrame
<1>8. InUse(pc', SentLabels, queue'["transmit"]) => row'.status = "transmitting"
  BY <1>1, <1>2 DEF InUse, SentLabels, SubmissionLabels
<1> QED
  BY <1>3, <1>7, <1>8 DEF Known, Placed

LEMMA TransmissionRequestPlaced ==
  ASSUME OnePoller, Known, LifecycleTypeInv', NEW w \in Workers, TransmissionRequest(w),
         UNCHANGED ereportingVars
  PROVE  Placed' /\ Legal
<1>1. row \in Row /\ InPlace(pc[w], w, copy[w], row.status, flows)
  BY TypedParts DEF Known, Placed
<1>2. ~OpenMarkPaid(w) /\ ~OpenOnlinePayment(w) /\ ~MarkPaid(w) /\ ~SendPaid212(w)
  BY <1>1 DEF OpenMarkPaid, OpenOnlinePayment, Open, MarkPaid, SendPaid212, Send, OnePoller,
              InPlace, OutOfUse
<1>3. CASE OpenTransmit(w)
  <2>1. /\ pc[w] = "idle" /\ Stepped(w, "transmit", row) /\ UNCHANGED <<row, queue, paVars>>
    BY <1>3 DEF OpenTransmit, Open, Read, Stepped
  <2>2. row.status = "validated"
    BY <1>1, <1>3, TableFacts DEF OpenTransmit, Row
  <2>3. InPlace("transmit", w, row, row.status, flows)
    BY <2>2 DEF InPlace, OutOfUse, PollHolding
  <2>4. Passes(pc[w], "transmit", SentLabels, queue["transmit"], queue'["transmit"])
    BY <2>1, PlacedLabels DEF Passes
  <2> QED
    BY <2>1, <2>3, <2>4, KeepsStatus DEF paVars
<1>4. CASE RequestTransmission(w)
  <2>1. /\ pc[w] = "transmit" /\ Stepped(w, "send_transmit", Forgotten)
        /\ row' = [row EXCEPT !.status = "transmitting"] /\ UNCHANGED <<queue, paVars>>
    BY <1>4 DEF RequestTransmission, SaveFields, SendNext, Stepped
  <2>2. row'.status = "transmitting" /\ row.status = "validated"
    BY <1>1, <2>1, LateRows DEF InPlace
  <2> QED
    BY <2>1, <2>2, SubmissionMoves, TableFacts DEF SubmissionLabels, Legal
<1>5. CASE SendTransmit(w)
  <2>1. /\ pc[w] = "send_transmit" /\ Stepped(w, "idle", Forgotten) /\ UNCHANGED <<row, paVars>>
        /\ queue' = [queue EXCEPT !["transmit"] = @ + 1]
    BY <1>5 DEF SendTransmit, Send, Finish, Stepped
  <2>2. queue'["transmit"] = queue["transmit"] + 1
    BY <2>1, OneMessage DEF Known, Tasks
  <2>3. InPlace("idle", w, Forgotten, row.status, flows)
    BY DEF InPlace, OutOfUse, PollHolding
  <2>4. Passes(pc[w], "idle", SentLabels, queue["transmit"], queue'["transmit"])
    BY <2>1, <2>2 DEF Passes, SentLabels, SubmissionLabels
  <2> QED
    BY <2>1, <2>3, <2>4, KeepsStatus DEF paVars
<1> QED
  BY <1>2, <1>3, <1>4, <1>5 DEF TransmissionRequest

LEMMA TransmissionTaskPlaced ==
  ASSUME OnePoller, Known, LifecycleTypeInv', NEW w \in Workers, TransmissionTask(w),
         UNCHANGED ereportingVars
  PROVE  Placed' /\ Legal
<1>1. row \in Row /\ InPlace(pc[w], w, copy[w], row.status, flows)
  BY TypedParts DEF Known, Placed
<1>2. ~OpenAutoCancel(w) /\ ~AutoCancel(w)
  BY <1>1 DEF OpenAutoCancel, AutoCancel, InPlace, OutOfUse, Known, Placed
<1>3. CASE TakeTransmit(w)
  <2>1. UNCHANGED <<row, paVars>> /\ queue' = [queue EXCEPT !["transmit"] = @ - 1]
    BY <1>3 DEF TakeTransmit, Take, Drop
  <2>2. queue'["transmit"] = queue["transmit"] - 1
    BY <2>1, OneMessage DEF Known, Tasks
  <2>3. queue["transmit"] \in Nat
    BY TypedParts DEF Known, Tasks
  <2>4. CASE Drop("transmit")
    BY <2>1, <2>2, <2>3, <2>4, NobodyPlaced DEF Drop, paVars
  <2>5. CASE Take(w, "transmit", "submit")
    <3>1. pc[w] = "idle" /\ Stepped(w, "submit", row)
      BY <2>5 DEF Take, Read, Stepped
    <3>2. InPlace("submit", w, row, row.status, flows)
      BY DEF InPlace, OutOfUse, PollHolding
    <3>3. Passes(pc[w], "submit", SentLabels, queue["transmit"], queue'["transmit"])
      BY <2>2, <2>3, <3>1, PlacedLabels DEF Passes
    <3> QED
      BY <2>1, <3>1, <3>2, <3>3, KeepsStatus DEF paVars
  <2> QED
    BY <1>3, <2>4, <2>5 DEF TakeTransmit
<1>4. CASE SubmitFlow(w)
  <2>1. /\ pc[w] = "submit" /\ UNCHANGED <<row, queue, credited, reported>>
    BY <1>4 DEF SubmitFlow
  <2>2. /\ flows = <<>> /\ queue["transmit"] = 0
        /\ \A v \in Workers : pc[v] \in SubmissionLabels => v = w
    BY <2>1, OneSubmission DEF SubmissionLabels
  <2>3. row.status = "transmitting"
    BY <2>1 DEF Known, Placed, InUse, SentLabels, SubmissionLabels
  <2>4. PICK l, c :
          /\ l \in {"submitted", "submit_failed"}
          /\ Stepped(w, l, c)
          /\ l = "submitted" => flows' # <<>>
          /\ l = "submit_failed" => flows' = flows
    <3>1. copy = [copy EXCEPT ![w] = copy[w]]
      BY TypedParts DEF Known
    <3>2. \/ /\ pc' = [pc EXCEPT ![w] = "submitted"] /\ flows' = Append(flows, "pending")
             /\ \E f \in FlowIds : copy' = [copy EXCEPT ![w].flow = f]
          \/ pc' = [pc EXCEPT ![w] = "submit_failed"] /\ copy' = copy /\ flows' = flows
      BY <1>4 DEF SubmitFlow, OnePoller
    <3>3. Append(flows, "pending") # <<>>
      BY <2>2
    <3>4. CASE pc' = [pc EXCEPT ![w] = "submit_failed"] /\ copy' = copy /\ flows' = flows
      <4>1. Stepped(w, "submit_failed", copy[w])
        BY <3>1, <3>4 DEF Stepped
      <4> QED
        BY <3>4, <4>1
    <3>5. CASE /\ pc' = [pc EXCEPT ![w] = "submitted"] /\ flows' = Append(flows, "pending")
               /\ \E f \in FlowIds : copy' = [copy EXCEPT ![w].flow = f]
      <4>1. PICK f \in FlowIds : copy' = [copy EXCEPT ![w].flow = f]
        BY <3>5
      <4>2. Stepped(w, "submitted", [copy[w] EXCEPT !.flow = f])
        BY <3>5, <4>1 DEF Stepped
      <4>3. flows' # <<>>
        BY <3>3, <3>5
      <4> QED
        BY <4>2, <4>3
    <3> QED
      BY <3>2, <3>4, <3>5
  <2>5. CASE l = "submit_failed"
    <3>1. InPlace(l, w, c, row.status, flows)
      BY <2>5 DEF InPlace, OutOfUse, PollHolding
    <3>2. Passes(pc[w], l, SentLabels, queue["transmit"], queue'["transmit"])
      BY <2>1, <2>5 DEF Passes, SentLabels, SubmissionLabels
    <3> QED
      BY <2>1, <2>4, <2>5, <3>1, <3>2, KeepsStatus
  <2>6. CASE l = "submitted"
    <3>1. pc'[w] = l /\ \A v \in Workers : v # w => pc'[v] = pc[v]
      BY <2>4, TypedParts DEF Known, Stepped
    <3>2. InPlace(l, w, c, row'.status, flows')
      BY <2>4, <2>6 DEF InPlace, OutOfUse, PollHolding
    <3>3. \A v \in Workers : InPlace(pc'[v], v, copy'[v], row'.status, flows')
      BY <2>1, <2>2, <2>4, <3>2, PlacesFrame
    <3> QED
      BY <2>1, <2>3, <3>3 DEF Known, Placed, Legal, Sent
  <2> QED
    BY <2>4, <2>5, <2>6
<1>5. CASE SaveFlow(w)
  <2>1. /\ pc[w] = "submitted" /\ Stepped(w, "idle", Forgotten) /\ UNCHANGED <<queue, paVars>>
        /\ row' = [row EXCEPT !.flow = copy[w].flow]
    BY <1>5 DEF SaveFlow, SaveFields, Finish, Stepped
  <2>2. row'.status = row.status
    BY <1>1, <2>1, LateRows
  <2> QED
    BY <2>1, <2>2, KeepsAll
<1>6. CASE RevertTransmission(w)
  <2>1. /\ pc[w] = "submit_failed" /\ Stepped(w, "idle", Forgotten) /\ UNCHANGED <<queue, paVars>>
        /\ row' = [row EXCEPT !.status = "validated"]
    BY <1>6 DEF RevertTransmission, SaveFields, Finish, Stepped
  <2>2. row'.status = "validated" /\ row.status = "transmitting"
    BY <1>1, <2>1, LateRows DEF Known, Placed, InUse, SentLabels, SubmissionLabels
  <2> QED
    BY <2>1, <2>2, SubmissionMoves, TableFacts DEF SubmissionLabels, Legal
<1> QED
  BY <1>2, <1>3, <1>4, <1>5, <1>6 DEF TransmissionTask

\* A step of the poller that leaves the status.
LEMMA PollerKeeps ==
  ASSUME OnePoller, Known, LifecycleTypeInv', NEW w \in Pollers, NEW l, NEW c, w \in Workers,
         Stepped(w, l, c), UNCHANGED <<row, queue, flows, credited, reported>>,
         l \in PollHolding \union {"idle", "poll"},
         l \in PollHolding => flows # <<>> /\ c.status = row.status
  PROVE  Placed' /\ Legal
<1>1. InPlace(l, w, c, row.status, flows)
  BY DEF InPlace, PollHolding, OutOfUse
<1>2. Passes(pc[w], l, SentLabels, queue["transmit"], queue'["transmit"])
  BY PlacedLabels DEF Passes
<1> QED
  BY <1>1, <1>2, KeepsStatus

\* A save of the poller.
LEMMA PollerMoves ==
  ASSUME OnePoller, Known, LifecycleTypeInv', NEW w \in Pollers, NEW l, NEW c, w \in Workers,
         pc[w] \in PollHolding, Stepped(w, l, c),
         UNCHANGED <<queue, flows, credited, reported>>,
         l \in PollHolding, c.status = row'.status, row'.status \in Sent,
         CanTransition(row.status, row'.status)
  PROVE  Placed' /\ Legal
<1>1. flows # <<>> /\ queue["transmit"] = 0
  BY OneSubmission DEF Known, Placed, InPlace
<1>2. pc'[w] = l /\ \A v \in Workers : v # w => pc'[v] = pc[v]
  BY TypedParts DEF Known, Stepped
<1>3. \A v \in Workers : v # w => pc[v] \notin PollHolding \union {"transmit"}
  <2>1. \A v \in Workers : pc[v] # "transmit"
    BY <1>1, OneSubmission DEF SubmissionLabels
  <2>2. \A v \in Workers : pc[v] \in PollHolding => v = w
    BY DEF Known, Placed, InPlace, OnePoller
  <2> QED
    BY <2>1, <2>2
<1>4. InPlace(l, w, c, row'.status, flows')
  BY <1>1 DEF InPlace, PollHolding, OutOfUse
<1>5. \A v \in Workers : InPlace(pc'[v], v, copy'[v], row'.status, flows')
  BY <1>3, <1>4, PlacesFrame
<1>6. ~InUse(pc', SentLabels, queue'["transmit"])
  <2>1. \A v \in Workers : pc[v] \notin SentLabels
    BY <1>1, OneSubmission DEF SentLabels
  <2>2. l \notin SentLabels
    BY PlacedLabels
  <2> QED
    BY <1>1, <1>2, <2>1, <2>2 DEF InUse
<1> QED
  BY <1>5, <1>6 DEF Known, Placed, Legal

LEMMA PollPlaced ==
  ASSUME OnePoller, Known, LifecycleTypeInv', NEW w \in Workers, Poll(w) \/ PollStep(w),
         UNCHANGED ereportingVars
  PROVE  Placed' /\ Legal
<1>1. /\ row \in Row /\ copy[w] \in Row /\ InPlace(pc[w], w, copy[w], row.status, flows)
      /\ Knows(pc[w], copy[w]) /\ copy = [copy EXCEPT ![w] = copy[w]]
  BY TypedParts DEF Known, Placed, KnowsInv
<1>2. w \in Pollers
  <2>1. pc[w] \in PollHolding \union {"poll"} => w \in Pollers
    BY <1>1 DEF InPlace
  <2> QED
    BY <2>1
    DEF Poll, PollStep, ReadForEvents, ReadLogs, LogEvent, ApplyEvent, AutoMarkPaid, SendAuto212,
        PollEnds, ReadForFallback, FallbackApply, PollHolding
<1>3. pc[w] \in PollHolding => flows # <<>> /\ copy[w].status = row.status
  BY <1>1 DEF InPlace
<1>4. CASE EndPoll(w) /\ UNCHANGED <<row, queue, flows, credited, reported>>
  BY <1>2, <1>4, PollerKeeps, PlacedLabels DEF EndPoll, Finish, Stepped
<1>5. CASE Poll(w)
  BY <1>1, <1>2, <1>5, PollerKeeps, PlacedLabels DEF Poll, Rest, Stepped
<1>6. CASE ReadForEvents(w) /\ ~EndPoll(w)
  <2>1. flows # <<>>
    <3>1. seen[w] > 0 /\ seen[w] \in 0..Len(events) /\ Len(events) \in Nat
      BY <1>6, PollParts DEF ReadForEvents, Known
    <3>2. Len(events) # 0
      BY <3>1
    <3>3. events # <<>>
      BY <3>2
    <3>4. FlowAccepted
      BY <3>3 DEF Known, KnowsInv
    <3> QED
      BY <3>4 DEF FlowAccepted
  <2>2. Stepped(w, "dedup", row) /\ UNCHANGED <<row, queue, flows, credited, reported>>
    BY <1>6 DEF ReadForEvents, Rest, Stepped
  <2> QED
    BY <1>2, <2>1, <2>2, PollerKeeps DEF PollHolding
<1>7. CASE ReadForFallback(w) /\ ~EndPoll(w)
  <2>1. flows # <<>>
    <3>1. row.flow # 0 /\ row.flow \in Nat /\ row.flow <= Len(flows) /\ Len(flows) \in Nat
      BY <1>1, <1>7, TypedParts DEF ReadForFallback, Stuck, Known, Row
    <3>2. Len(flows) # 0
      BY <3>1
    <3> QED
      BY <3>2
  <2>2. Stepped(w, "flow_check", row) /\ UNCHANGED <<row, queue, flows, credited, reported>>
    BY <1>7 DEF ReadForFallback, Rest, Stepped
  <2> QED
    BY <1>2, <2>1, <2>2, PollerKeeps DEF PollHolding
<1>8. CASE ReadLogs(w) \/ LogEvent(w)
  <2>1. pc[w] \in PollHolding /\ UNCHANGED <<row, queue, flows, credited, reported>>
    BY <1>8 DEF ReadLogs, LogEvent, Rest, PollHolding
  <2>2. Stepped(w, "event", copy[w]) \/ Stepped(w, "apply", copy[w])
    BY <1>1, <1>8 DEF ReadLogs, LogEvent, Stepped
  <2> QED
    BY <1>2, <1>3, <2>1, <2>2, PollerKeeps DEF PollHolding
<1>9. ASSUME NEW r PROVE NextAfter(r) \in PollHolding
  BY DEF NextAfter, PollHolding
<1>10. CASE ApplyEvent(w)
  <2>1. PICK i \in Due(w) : ApplyEvent(w)!2!(i)
    BY <1>10 DEF ApplyEvent
  <2>2. /\ pc[w] = "apply" /\ pc[w] \in PollHolding
        /\ UNCHANGED <<queue, flows, credited, reported>>
    BY <1>10 DEF ApplyEvent, Rest, PollHolding
  <2> DEFINE s == StatusOf[events[i]]
             r == [copy[w] EXCEPT !.status = s]
  <2>3. s \in Sent
    BY <2>1, PollParts DEF StatusOf, Codes, Sent, Known
  <2>4. \/ /\ CanTransition(copy[w].status, s) /\ row' = [row EXCEPT !.status = s]
           /\ Stepped(w, NextAfter(r), r)
        \/ row' = row /\ Stepped(w, "event", copy[w])
    BY <1>1, <2>1 DEF SaveFields, Stepped
  <2>5. r.status = s
    BY <1>1, LateRows
  <2> HIDE DEF s
  <2>6. CASE row' = row /\ Stepped(w, "event", copy[w])
    BY <1>2, <1>3, <2>2, <2>6, PollerKeeps DEF PollHolding
  <2>7. CASE /\ CanTransition(copy[w].status, s) /\ row' = [row EXCEPT !.status = s]
             /\ Stepped(w, NextAfter(r), r)
    <3>1. row'.status = s
      BY <1>1, <2>7, LateRows
    <3>2. CanTransition(row.status, row'.status)
      BY <1>3, <2>2, <2>7, <3>1
    <3> HIDE DEF r
    <3> QED
      BY <1>2, <1>9, <2>2, <2>3, <2>5, <2>7, <3>1, <3>2, PollerMoves
  <2> QED
    BY <2>4, <2>6, <2>7
<1>11. CASE AutoMarkPaid(w)
  <2>1. /\ pc[w] = "auto_paid" /\ pc[w] \in PollHolding
        /\ row' = PaidCopy(copy[w]) /\ Stepped(w, "send_auto212", PaidCopy(copy[w]))
        /\ UNCHANGED <<queue, flows, credited, reported>>
    BY <1>11 DEF AutoMarkPaid, Save, Stepped, paVars, PollHolding
  <2>2. row'.status = "paid"
    BY <1>1, <2>1, LateRows
  <2>3. CanTransition(row.status, "paid")
    BY <1>1, <1>3, <2>1 DEF Knows
  <2> QED
    BY <1>2, <2>1, <2>2, <2>3, PollerMoves, PlacedLabels DEF Sent
<1>12. CASE SendAuto212(w)
  <2>1. /\ pc[w] = "send_auto212" /\ Stepped(w, "event", copy[w])
        /\ UNCHANGED <<row, flows, credited, reported>>
        /\ queue' = [queue EXCEPT !["paid212"] = @ + 1]
    BY <1>1, <1>12 DEF SendAuto212, Stepped, paVars
  <2>2. queue'["transmit"] = queue["transmit"]
    BY <2>1, OneMessage DEF Known, Tasks
  <2>3. Passes(pc[w], "event", SentLabels, queue["transmit"], queue'["transmit"])
    BY <2>1, <2>2 DEF Passes, SentLabels, SubmissionLabels
  <2>4. InPlace("event", w, copy[w], row.status, flows)
    BY <1>2, <1>3, <2>1, PlacedLabels DEF InPlace, OutOfUse
  <2> QED
    BY <2>1, <2>3, <2>4, KeepsStatus
<1>13. CASE PollEnds(w)
  BY <1>4, <1>13 DEF PollEnds, Rest
<1>14. CASE FallbackApply(w)
  <2> DEFINE a == flows[copy[w].flow]
             s == AckStatus(a)
             r == [copy[w] EXCEPT !.status = s]
  <2>1. /\ pc[w] = "flow_check" /\ pc[w] \in PollHolding
        /\ UNCHANGED <<queue, flows, credited, reported>>
    BY <1>14 DEF FallbackApply, Rest, PollHolding
  <2>2. copy[w].flow \in DOMAIN flows
    <3>1. copy[w].flow \in Nat /\ copy[w].flow # 0 /\ copy[w].flow <= Len(flows)
      BY <1>1, <2>1, TypedParts DEF Known, LifecycleTypeInv, FlowsKnown, Row
    <3>2. DOMAIN flows = 1..Len(flows) /\ Len(flows) \in Nat
      BY PollParts DEF Known
    <3> QED
      BY <3>1, <3>2
  <2>3. a # "error"
    BY <2>2 DEF Known, Handed, OnePoller
  <2>4. r.status = s
    BY <1>1, LateRows
  <2>5. \/ a = "pending" /\ EndPoll(w) /\ row' = row
        \/ /\ a # "pending" /\ row' = [row EXCEPT !.status = r.status]
           /\ Stepped(w, NextAfter(r), r) \/ Stepped(w, "event", r)
    BY <1>14 DEF FallbackApply, SaveFields, Stepped
  <2>6. a \in {"pending", "ok", "error"}
    BY <2>2, PollParts DEF Known
  <2>7. a # "pending" => s = "transmitted"
    <3> HIDE DEF a
    <3> QED
      BY <2>3, <2>6 DEF AckStatus
  <2>8. row.status = "transmitting"
    BY <1>1, <1>3, <2>1 DEF Knows
  <2> HIDE DEF a, s
  <2>9. CASE a = "pending" /\ EndPoll(w) /\ row' = row
    BY <1>4, <2>1, <2>9
  <2>10. CASE /\ a # "pending" /\ row' = [row EXCEPT !.status = r.status]
              /\ Stepped(w, NextAfter(r), r) \/ Stepped(w, "event", r)
    <3>1. row'.status = "transmitted" /\ r.status = "transmitted"
      BY <1>1, <2>4, <2>7, <2>10, LateRows
    <3>2. CanTransition(row.status, row'.status) /\ row'.status \in Sent
      BY <2>8, <3>1, TableFacts DEF Sent
    <3>3. "event" \in PollHolding
      BY DEF PollHolding
    <3> HIDE DEF r
    <3> QED
      BY <1>2, <1>9, <2>1, <2>10, <3>1, <3>2, <3>3, PollerMoves
  <2> QED
    BY <2>5, <2>9, <2>10
<1> QED
  BY <1>4, <1>5, <1>6, <1>7, <1>8, <1>10, <1>11, <1>12, <1>13, <1>14
  DEF PollStep, ReadForEvents, ReadForFallback, Rest

LEMMA CrashPlaced ==
  ASSUME OnePoller, Known, LifecycleTypeInv', NEW w \in Workers, CrashPa(w)
  PROVE  Placed' /\ Legal
<1>1. /\ Stepped(w, "idle", Forgotten) /\ UNCHANGED <<row, queue, flows, credited, reported>>
  BY DEF CrashPa, Crash, Finish, Rest, Stepped
<1>2. InPlace("idle", w, Forgotten, row.status, flows)
  BY DEF InPlace, PollHolding, OutOfUse
<1>3. Passes(pc[w], "idle", SentLabels, queue["transmit"], queue'["transmit"])
  BY <1>1, PlacedLabels DEF Passes
<1> QED
  BY <1>1, <1>2, <1>3, KeepsStatus

LEMMA OutsidePlaced ==
  ASSUME OnePoller, Known, LifecycleTypeInv',
         ReportPaid \/ CancelInvoice \/ Acknowledge \/ Publish
  PROVE  Placed' /\ Legal
<1>1. ~CancelInvoice
  BY DEF CancelInvoice, OnePoller
<1>2. UNCHANGED <<row, pc, copy, credited>>
  BY <1>1 DEF ReportPaid, Acknowledge, Publish, rowVars
<1>3. queue["transmit"] \in Nat /\ flows \in Seq({"pending", "ok", "error"})
  BY TypedParts DEF Known, Tasks, PaTypeOK
<1>4. flows # <<>> <=> flows' # <<>>
  <2>1. CASE Acknowledge
    <3>1. PICK i, a : i \in DOMAIN flows /\ flows' = [flows EXCEPT ![i] = a]
      BY <2>1 DEF Acknowledge
    <3> QED
      BY <1>3, <3>1
  <2> QED
    BY <1>1, <2>1 DEF ReportPaid, Publish
<1>5. queue'["transmit"] <= queue["transmit"]
  <2>1. CASE ReportPaid
    <3>1. queue' = [queue EXCEPT !["paid212"] = @ - 1]
      BY <2>1 DEF ReportPaid
    <3>2. queue'["transmit"] = queue["transmit"]
      BY <3>1, OneMessage DEF Known, Tasks
    <3> QED
      BY <1>3, <3>2
  <2>2. CASE Acknowledge \/ Publish
    BY <1>3, <2>2 DEF Acknowledge, Publish, rowVars
  <2> QED
    BY <1>1, <2>1, <2>2
<1> QED
  BY <1>2, <1>4, <1>5, NobodyPlaced

LEMMA StepPlaced ==
  ASSUME OnePoller, Known, LifecycleTypeInv', [LifecycleNext]_lifecycleVars
  PROVE  Placed' /\ Legal
<1>1. CASE UNCHANGED lifecycleVars
  <2>1. UNCHANGED <<row, pc, copy, queue, flows, credited>>
    BY <1>1 DEF lifecycleVars, rowVars, paVars
  <2> QED
    BY <2>1 DEF Known, Placed, Legal
<1>2. ~RequestPreview
  BY DEF RequestPreview, OnePoller, Serial
<1> QED
  BY <1>1, <1>2, IssuanceRequestPlaced, IssuanceTaskPlaced, EreportingPlaced,
     TransmissionRequestPlaced, TransmissionTaskPlaced, PollPlaced, CrashPlaced, OutsidePlaced
  DEF LifecycleNext, TransmissionNext, TransmissionStep

LEMMA BeginsPlaced == LifecycleInit => Placed
<1> SUFFICES ASSUME LifecycleInit PROVE Placed
  OBVIOUS
<1>1. /\ pc = [w \in Workers |-> "idle"] /\ queue = [t \in Tasks |-> 0] /\ flows = <<>>
      /\ credited = FALSE
  BY DEF LifecycleInit, RowInit, PaInit
<1>2. \A w \in Workers : pc[w] = "idle"
  BY <1>1
<1>3. queue["transmit"] = 0
  BY <1>1 DEF Tasks
<1>4. \A w \in Workers : InPlace(pc[w], w, copy[w], row.status, flows)
  BY <1>2 DEF InPlace, PollHolding, OutOfUse
<1>5. "idle" \notin SentLabels
  BY PlacedLabels
<1> QED
  BY <1>1, <1>2, <1>3, <1>4, <1>5 DEF Placed, InUse

LEMMA PlacedHolds ==
  ASSUME OnePoller
  PROVE  LifecycleSpec => []Known
<1>1. Serial /\ "timed_out" \notin Faults
  BY DEF OnePoller
<1>2. LifecycleSpec => [](LifecycleTypeInv /\ KnowsInv /\ IssuanceTurns /\ Handed)
  BY <1>1, HandedHolds
<1>3. LifecycleInit => Placed
  BY BeginsPlaced
<1>4. (LifecycleTypeInv /\ KnowsInv /\ IssuanceTurns /\ Handed) /\ LifecycleTypeInv' /\ Placed
        /\ [LifecycleNext]_lifecycleVars => Placed'
  BY StepPlaced DEF Known
<1>5. (LifecycleTypeInv /\ KnowsInv /\ IssuanceTurns /\ Handed) /\ Placed => Known
  BY DEF Known
<1> QED
  BY <1>2, <1>3, <1>4, <1>5, PTL DEF LifecycleSpec

LEMMA LegalHolds ==
  ASSUME OnePoller
  PROVE  LifecycleSpec => [][Legal]_lifecycleVars
<1>1. Known /\ LifecycleTypeInv' /\ [LifecycleNext]_lifecycleVars => [Legal]_lifecycleVars
  BY StepPlaced
<1>2. Known => LifecycleTypeInv
  BY DEF Known
<1> QED
  BY <1>1, <1>2, PlacedHolds, PTL DEF LifecycleSpec

\* The status moves along the table of state_machine.py through the whole life of the
\* invoice, though the saves of a failed submission and of a poll's fallback test no
\* transition: each of them finds the status its handler has read.
THEOREM LifecycleMovesLegally ==
  ASSUME OnePoller
  PROVE  LifecycleSpec => LegalTransitions
<1>1. [Legal]_lifecycleVars => [row'.status # row.status => CanTransition(row.status, row'.status)]_rowVars
  BY DEF Legal, lifecycleVars, rowVars
<1> QED
  BY <1>1, LegalHolds, PTL DEF LegalTransitions

\* A paid invoice stays paid: no late event and no acknowledgement of its flow is applied
\* over the payment.
THEOREM LifecycleStaysPaid ==
  ASSUME OnePoller
  PROVE  LifecycleSpec => PaidStays
<1>1. [Legal]_lifecycleVars =>
        [row.status = "paid" => row'.status \in {"paid", "cancelled"}]_<<rowVars, paVars>>
  BY DEF Legal, lifecycleVars, rowVars, paVars, CanTransition, Transitions
<1> QED
  BY <1>1, LegalHolds, PTL DEF PaidStays

----------------------------------------------------------------------------
(* No save loses another one, when no Stripe event records its payment on  *)
(* an invoice that somebody edits.                                         *)

NoEarlyPayment == OnePoller /\ "record_payment" \notin Handlers

\* What a worker at label l has in its object c, the row being r: what it will save is
\* what the row has.
HoldsWell(l, c, r) ==
  /\ l \in DraftLabels \union {"generate"} => c = r
  /\ l = "ereport" => c.ereporting = r.ereporting
  /\ l \notin {"auto_paid", "record_payment", "send_auto212"}
  /\ l \in PollHolding => c.payment = FALSE

Quiet ==
  /\ clean = TRUE
  /\ row.payment = FALSE
  /\ \A w \in Workers : HoldsWell(pc[w], copy[w], row)

LEMMA QuietFrame ==
  ASSUME Known, Quiet, NEW w \in Workers, NEW l, NEW c, Stepped(w, l, c),
         clean' = TRUE, row'.payment = FALSE, HoldsWell(l, c, row'),
         \A v \in Workers : v # w => HoldsWell(pc[v], copy[v], row')
  PROVE  Quiet'
<1>1. pc \in [Workers -> Labels] /\ copy \in [Workers -> Row]
  BY TypedParts DEF Known
<1> SUFFICES ASSUME NEW v \in Workers PROVE HoldsWell(pc'[v], copy'[v], row')
  BY DEF Quiet
<1>2. CASE v = w
  BY <1>1, <1>2 DEF Stepped
<1>3. CASE v # w
  BY <1>1, <1>3 DEF Stepped
<1> QED
  BY <1>2, <1>3

\* A step that leaves the row.
LEMMA QuietKeeps ==
  ASSUME Known, Quiet, NEW w \in Workers, NEW l, NEW c, Stepped(w, l, c),
         UNCHANGED <<row, clean>>, HoldsWell(l, c, row)
  PROVE  Quiet'
BY QuietFrame DEF Quiet

\* The end of the work on a draft or of a generation.
LEMMA QuietAlone ==
  ASSUME Known, Quiet, NEW w \in Workers, NEW l \in {"idle", "send_generate", "generated"}, NEW c,
         Stepped(w, l, c), pc[w] \in DraftLabels \union {"generate"}, clean' = TRUE,
         row'.payment = FALSE
  PROVE  Quiet'
<1>1. HoldsWell(l, c, row')
  BY DEF HoldsWell, PollHolding, DraftLabels
<1>2. ASSUME NEW v \in Workers, v # w PROVE HoldsWell(pc[v], copy[v], row')
  <2>1. pc[v] \notin DraftLabels \union GenerationLabels \union LateLabels
    BY <1>2, Alone DEF Known
  <2>2. HoldsWell(pc[v], copy[v], row)
    BY DEF Quiet
  <2>3. pc[v] # "ereport" /\ pc[v] # "generate"
    BY <2>1 DEF LateLabels, EreportingLabels, GenerationLabels
  <2> QED
    BY <2>1, <2>2, <2>3 DEF HoldsWell
<1> QED
  BY <1>1, <1>2, QuietFrame

\* A save on an issued invoice: nobody holds a draft.
LEMMA QuietLate ==
  ASSUME Known, Quiet, NEW w \in Workers, NEW l, NEW c, Stepped(w, l, c), pc[w] \in LateLabels,
         clean' = TRUE, row'.payment = FALSE, HoldsWell(l, c, row'),
         row'.ereporting = row.ereporting \/ pc[w] = "ereport"
  PROVE  Quiet'
<1>1. row.status \notin Early
  BY LateWorkers DEF Known
<1>2. ASSUME NEW v \in Workers, v # w PROVE HoldsWell(pc[v], copy[v], row')
  <2>1. HoldsWell(pc[v], copy[v], row)
    BY DEF Quiet
  <2>2. pc[v] \notin DraftLabels \union {"generate"}
    BY <1>1, Alone DEF Known
  <2>3. pc[v] = "ereport" => row'.ereporting = row.ereporting
    <3>1. pc[w] = "ereport" => pc[v] # "ereport"
      BY <1>2 DEF Known, Handed, OneOf, DeclarationLabels
    <3> QED
      BY <3>1
  <2> QED
    BY <2>1, <2>2, <2>3 DEF HoldsWell
<1> QED
  BY <1>2, QuietFrame

\* Saves of some columns leave the others.
LEMMA OtherColumns ==
  ASSUME NEW r \in Row
  PROVE  /\ \A s : /\ [r EXCEPT !.status = s].payment = r.payment
                   /\ [r EXCEPT !.status = s].ereporting = r.ereporting
         /\ \A e : [r EXCEPT !.ereporting = e].payment = r.payment
         /\ \A f : /\ [r EXCEPT !.flow = f].payment = r.payment
                   /\ [r EXCEPT !.flow = f].ereporting = r.ereporting
         /\ Edited(r).payment = r.payment
         /\ [r EXCEPT !.deleted = TRUE].payment = r.payment
         /\ \A p : [r EXCEPT !.status = "validated", !.pdf = p].payment = r.payment
         /\ \A n : [r EXCEPT !.status = "processing", !.number = n,
                      !.ereporting = IF EreportingFlow THEN "pending" ELSE @].payment = r.payment
BY DEF Row, Edited

LEMMA IssuanceQuiet ==
  ASSUME NoEarlyPayment, Known, Quiet, NEW w \in Workers, IssuanceRequest(w) \/ IssuanceTask(w)
  PROVE  Quiet'
<1>1. /\ row \in Row /\ HoldsWell(pc[w], copy[w], row) /\ clean = TRUE /\ row.payment = FALSE
      /\ copy = [copy EXCEPT ![w] = copy[w]]
  BY TypedParts DEF Known, Quiet
<1>2. /\ ~TakePreview(w) /\ ~GenerateSourcePdf(w)
      /\ ~AfterGenerationFails(w) /\ ~SendEreporting(w)
      /\ ~OpenRecordPayment(w) /\ ~RecordPayment(w)
  <2>1. ~TakePreview(w) /\ ~GenerateSourcePdf(w)
    BY DEF TakePreview, Take, GenerateSourcePdf, Known, IssuanceTurns, InTurn
  <2>2. ~AfterGenerationFails(w) /\ ~SendEreporting(w) /\ ~OpenRecordPayment(w)
    BY DEF AfterGenerationFails, SendEreporting, OpenRecordPayment, NoEarlyPayment, OnePoller, Serial
  <2>3. ~RecordPayment(w)
    BY <1>1 DEF RecordPayment, HoldsWell
  <2> QED
    BY <2>1, <2>2, <2>3
<1>3. \A l, c : l \in {"idle", "send_generate", "generated"} => HoldsWell(l, c, row)
  BY DEF HoldsWell, DraftLabels, PollHolding
<1>4. \A l \in DraftLabels \union {"generate"} : HoldsWell(l, row, row)
  BY DEF HoldsWell, DraftLabels, PollHolding
<1>5. CASE OpenEdit(w) \/ OpenDelete(w) \/ OpenValidate(w)
  <2>1. PICK l \in DraftLabels : Stepped(w, l, row)
    BY <1>5 DEF OpenEdit, OpenDelete, OpenValidate, Open, Read, Stepped, DraftLabels
  <2>2. UNCHANGED <<row, clean>>
    BY <1>5 DEF OpenEdit, OpenDelete, OpenValidate, Open
  <2> QED
    BY <1>4, <2>1, <2>2, QuietKeeps
<1>6. CASE SendGenerate(w) \/ AfterGeneration(w)
  BY <1>3, <1>6, QuietKeeps DEF SendGenerate, AfterGeneration, Send, Finish, Stepped
<1>7. CASE TakeGenerate(w)
  <2>1. CASE Take(w, "generate", "generate")
    BY <1>4, <2>1, QuietKeeps DEF Take, Read, Stepped
  <2>2. CASE Drop("generate")
    BY <2>2 DEF Drop, Quiet
  <2> QED
    BY <1>7, <2>1, <2>2 DEF TakeGenerate
<1>8. pc[w] \in DraftLabels \union {"generate"} => copy[w] = row
  BY <1>1 DEF HoldsWell
<1>9. ASSUME NEW r, Save(w, r), pc[w] \in DraftLabels \union {"generate"}
      PROVE  row' = r /\ clean' = TRUE
  BY <1>1, <1>8, <1>9 DEF Save
<1>10. CASE UpdateInvoice(w)
  <2>1. pc[w] \in DraftLabels /\ Stepped(w, "idle", Forgotten) /\ row' = Edited(row) /\ clean' = TRUE
    BY <1>8, <1>9, <1>10 DEF UpdateInvoice, Finish, Stepped, DraftLabels
  <2>2. row'.payment = FALSE
    BY <1>1, <2>1, OtherColumns
  <2> QED
    BY <2>1, <2>2, QuietAlone
<1>11. CASE SoftDelete(w)
  <2>1. pc[w] \in DraftLabels /\ Stepped(w, "idle", Forgotten)
        /\ row' = [row EXCEPT !.deleted = TRUE]
    BY <1>11 DEF SoftDelete, SaveFields, Finish, Stepped, DraftLabels
  <2>2. clean' = TRUE
    BY <1>1, <1>8, <1>11, <2>1 DEF SoftDelete, SaveFields
  <2>3. row'.payment = FALSE
    BY <1>1, <2>1, OtherColumns
  <2> QED
    BY <2>1, <2>2, <2>3, QuietAlone
<1>12. CASE ValidateInvoice(w)
  <2>1. pc[w] \in DraftLabels /\ Stepped(w, "send_generate", Forgotten)
    BY <1>12 DEF ValidateInvoice, SendNext, Stepped, DraftLabels
  <2>2. copy[w] = row
    BY <1>8, <2>1
  <2> DEFINE r == [row EXCEPT !.status = "processing", !.number = NumberFor(row),
                     !.ereporting = IF EreportingFlow THEN "pending" ELSE @]
  <2>3. Save(w, r)
    BY <1>12, <2>2 DEF ValidateInvoice
  <2>4. r.payment = FALSE
    BY <1>1, OtherColumns
  <2> HIDE DEF r
  <2>5. row' = r /\ clean' = TRUE
    BY <1>9, <2>1, <2>3
  <2> QED
    BY <2>1, <2>4, <2>5, QuietAlone
<1>13. CASE GenerateSucceeds(w)
  <2>1. /\ pc[w] = "generate" /\ Stepped(w, "generated", row') /\ clean' = TRUE
        /\ row' = [row EXCEPT !.status = "validated", !.pdf = "facturx"]
    BY <1>8, <1>9, <1>13 DEF GenerateSucceeds, Stepped
  <2>2. row'.payment = FALSE
    BY <1>1, <2>1, OtherColumns
  <2> QED
    BY <2>1, <2>2, QuietAlone
<1>14. CASE GenerateFails(w)
  <2>1. /\ pc[w] = "generate" /\ Stepped(w, "idle", Forgotten) /\ clean' = TRUE
        /\ row' = [row EXCEPT !.status = "draft"]
    BY <1>8, <1>9, <1>14 DEF GenerateFails, Finish, Stepped
  <2>2. row'.payment = FALSE
    BY <1>1, <2>1, OtherColumns
  <2> QED
    BY <2>1, <2>2, QuietAlone
<1> QED
  BY <1>2, <1>5, <1>6, <1>7, <1>10, <1>11, <1>12, <1>13, <1>14
  DEF IssuanceRequest, IssuanceTask, Generate


LEMMA EreportingQuiet ==
  ASSUME NoEarlyPayment, Known, Quiet, NEW w \in Workers, EreportingTask(w)
  PROVE  Quiet'
<1>1. /\ row \in Row /\ HoldsWell(pc[w], copy[w], row) /\ clean = TRUE /\ row.payment = FALSE
  BY TypedParts DEF Known, Quiet
<1>2. CASE TakeEreporting(w)
  <2>1. CASE Take(w, "ereporting", "ereport")
    <3>1. HoldsWell("ereport", row, row)
      BY DEF HoldsWell, DraftLabels, PollHolding
    <3> QED
      BY <2>1, <3>1, QuietKeeps DEF Take, Read, Stepped
  <2>2. CASE Drop("ereporting")
    BY <2>2 DEF Drop, Quiet
  <2> QED
    BY <1>2, <2>1, <2>2 DEF TakeEreporting
<1>3. CASE Ereport(w)
  <2>1. PICK s : SaveEreporting(w, s) /\ pc[w] = "ereport" /\ Stepped(w, "idle", Forgotten)
    BY <1>3 DEF Ereport, EreportingSucceeds, EreportingRefused, EreportingUnavailable, Finish,
                Stepped, NoEarlyPayment, OnePoller
  <2>2. copy[w].ereporting = row.ereporting
    BY <1>1, <2>1 DEF HoldsWell
  <2>3. clean' = TRUE /\ row' = [row EXCEPT !.ereporting = s]
    BY <1>1, <2>1, <2>2 DEF SaveEreporting, SaveFields
  <2>4. row'.payment = FALSE
    BY <1>1, <2>3, OtherColumns
  <2>5. HoldsWell("idle", Forgotten, row')
    BY DEF HoldsWell, DraftLabels, PollHolding
  <2>6. pc[w] \in LateLabels
    BY <2>1 DEF LateLabels, EreportingLabels
  <2> QED
    BY <2>1, <2>3, <2>4, <2>5, <2>6, QuietLate
<1>4. ~RetryEreporting(w)
  BY DEF RetryEreporting, Send, Known, Handed
<1> QED
  BY <1>2, <1>3, <1>4 DEF EreportingTask

\* A save of the status, tested on a status that the object shares with the row.
LEMMA StatusSaved ==
  ASSUME Known, Quiet, NEW w \in Workers, NEW l, NEW c, NEW s, Stepped(w, l, c),
         pc[w] \in LateLabels, copy[w].status = row.status,
         SaveFields(w, [row EXCEPT !.status = s], {"status"}),
         l \in PollHolding => c.payment = FALSE,
         l \notin DraftLabels \union {"generate", "ereport", "auto_paid", "record_payment",
                                      "send_auto212"}
  PROVE  Quiet'
<1>1. row \in Row /\ clean = TRUE /\ row.payment = FALSE
  BY TypedParts DEF Known, Quiet
<1>2. clean' = TRUE /\ row' = [row EXCEPT !.status = s]
  BY <1>1 DEF SaveFields
<1>3. row'.payment = FALSE /\ row'.ereporting = row.ereporting
  BY <1>1, <1>2, OtherColumns
<1>4. HoldsWell(l, c, row')
  BY DEF HoldsWell
<1> QED
  BY <1>2, <1>3, <1>4, QuietLate

LEMMA TransmissionQuiet ==
  ASSUME NoEarlyPayment, Known, Quiet, NEW w \in Workers,
         TransmissionRequest(w) \/ TransmissionTask(w)
  PROVE  Quiet'
<1>1. /\ row \in Row /\ clean = TRUE /\ row.payment = FALSE
      /\ InPlace(pc[w], w, copy[w], row.status, flows) /\ Knows(pc[w], copy[w])
  BY TypedParts DEF Known, Placed, KnowsInv, Quiet
<1>2. /\ ~OpenMarkPaid(w) /\ ~OpenOnlinePayment(w) /\ ~MarkPaid(w) /\ ~SendPaid212(w)
      /\ ~OpenAutoCancel(w) /\ ~AutoCancel(w)
  <2>1. ~OpenMarkPaid(w) /\ ~OpenOnlinePayment(w) /\ ~OpenAutoCancel(w)
    BY DEF OpenMarkPaid, OpenOnlinePayment, OpenAutoCancel, Open, NoEarlyPayment, OnePoller,
           Known, Placed
  <2>2. ~MarkPaid(w) /\ ~SendPaid212(w) /\ ~AutoCancel(w)
    BY <1>1 DEF MarkPaid, SendPaid212, Send, AutoCancel, InPlace, OutOfUse
  <2> QED
    BY <2>1, <2>2
<1>3. \A l, c : l \in SubmissionLabels \union {"idle", "submitted"} => HoldsWell(l, c, row)
  BY DEF HoldsWell, DraftLabels, PollHolding, SubmissionLabels
<1>4. CASE OpenTransmit(w)
  BY <1>3, <1>4, QuietKeeps DEF OpenTransmit, Open, Read, Stepped, SubmissionLabels
<1>5. CASE RequestTransmission(w)
  <2>1. /\ pc[w] = "transmit" /\ Stepped(w, "send_transmit", Forgotten)
        /\ SaveFields(w, [row EXCEPT !.status = "transmitting"], {"status"})
    BY <1>5 DEF RequestTransmission, SendNext, Stepped
  <2>2. copy[w].status = row.status
    BY <1>1, <2>1 DEF InPlace, Knows
  <2>3. "send_transmit" \notin DraftLabels \union PollHolding
    BY DEF DraftLabels, PollHolding
  <2> QED
    BY <2>1, <2>2, <2>3, StatusSaved, PlacedLabels
<1>6. CASE SendTransmit(w)
  BY <1>3, <1>6, QuietKeeps DEF SendTransmit, Send, Finish, Stepped
<1>7. CASE TakeTransmit(w)
  <2>1. CASE Take(w, "transmit", "submit")
    BY <1>3, <2>1, QuietKeeps DEF Take, Read, Stepped, SubmissionLabels
  <2>2. CASE Drop("transmit")
    BY <2>2 DEF Drop, Quiet
  <2> QED
    BY <1>7, <2>1, <2>2 DEF TakeTransmit
<1>8. CASE SubmitFlow(w)
  <2>1. copy = [copy EXCEPT ![w] = copy[w]]
    BY TypedParts DEF Known
  <2>2. UNCHANGED <<row, clean>>
    BY <1>8 DEF SubmitFlow
  <2>3. \/ pc' = [pc EXCEPT ![w] = "submitted"] /\ \E f : copy' = [copy EXCEPT ![w].flow = f]
        \/ pc' = [pc EXCEPT ![w] = "submit_failed"] /\ copy' = copy
    BY <1>8 DEF SubmitFlow
  <2>4. \E l, c : l \in {"submitted", "submit_failed"} /\ Stepped(w, l, c)
    BY <2>1, <2>3 DEF Stepped
  <2> QED
    BY <1>3, <2>2, <2>4, QuietKeeps DEF SubmissionLabels
<1>9. CASE SaveFlow(w)
  <2>1. /\ pc[w] = "submitted" /\ Stepped(w, "idle", Forgotten)
        /\ row' = [row EXCEPT !.flow = copy[w].flow] /\ clean' = TRUE
    BY <1>1, <1>9 DEF SaveFlow, SaveFields, Finish, Stepped
  <2>2. row'.payment = FALSE /\ row'.ereporting = row.ereporting
    BY <1>1, <2>1, OtherColumns
  <2>3. HoldsWell("idle", Forgotten, row')
    BY DEF HoldsWell, DraftLabels, PollHolding
  <2> QED
    BY <2>1, <2>2, <2>3, QuietLate, PlacedLabels
<1>10. CASE RevertTransmission(w)
  <2>1. /\ pc[w] = "submit_failed" /\ Stepped(w, "idle", Forgotten)
        /\ SaveFields(w, [row EXCEPT !.status = "validated"], {"status"})
    BY <1>10 DEF RevertTransmission, Finish, Stepped
  <2>2. copy[w].status = row.status
    BY <1>1, <2>1 DEF Knows, Known, Placed, InUse, SentLabels, SubmissionLabels
  <2>3. pc[w] \in LateLabels
    BY <2>1, PlacedLabels DEF SentLabels, SubmissionLabels
  <2>4. "idle" \notin DraftLabels \union PollHolding
    BY DEF DraftLabels, PollHolding
  <2> QED
    BY <2>1, <2>2, <2>3, <2>4, StatusSaved
<1> QED
  BY <1>2, <1>4, <1>5, <1>6, <1>7, <1>8, <1>9, <1>10 DEF TransmissionRequest, TransmissionTask

LEMMA PollQuiet ==
  ASSUME NoEarlyPayment, Known, Quiet, NEW w \in Workers, Poll(w) \/ PollStep(w)
  PROVE  Quiet'
<1>1. /\ row \in Row /\ copy[w] \in Row /\ InPlace(pc[w], w, copy[w], row.status, flows)
      /\ HoldsWell(pc[w], copy[w], row) /\ row.payment = FALSE
      /\ copy = [copy EXCEPT ![w] = copy[w]]
  BY TypedParts DEF Known, Placed, Quiet
<1>2. ~AutoMarkPaid(w) /\ ~SendAuto212(w)
  BY <1>1 DEF AutoMarkPaid, SendAuto212, HoldsWell
<1>3. pc[w] \in PollHolding => copy[w].status = row.status /\ copy[w].payment = FALSE
  BY <1>1 DEF InPlace, HoldsWell
<1>4. ASSUME NEW l, l \in {"idle", "poll", "dedup", "event", "apply", "flow_check"}
      PROVE  l \notin DraftLabels \union {"generate", "ereport", "auto_paid", "record_payment",
                                          "send_auto212"}
  BY <1>4 DEF DraftLabels
<1>5. ASSUME NEW l \in {"idle", "poll", "dedup", "event", "apply", "flow_check"}, NEW c,
             l \in PollHolding => c.payment = FALSE
      PROVE  HoldsWell(l, c, row)
  BY <1>4, <1>5 DEF HoldsWell
<1>6. "idle" \notin PollHolding /\ "poll" \notin PollHolding
  BY DEF PollHolding
<1>7. CASE EndPoll(w) /\ UNCHANGED <<row, clean>>
  BY <1>5, <1>6, <1>7, QuietKeeps DEF EndPoll, Finish, Stepped
<1>8. CASE Poll(w)
  <2>1. Stepped(w, "poll", copy[w]) /\ UNCHANGED <<row, clean>>
    BY <1>1, <1>8 DEF Poll, Stepped
  <2> QED
    BY <1>5, <1>6, <2>1, QuietKeeps
<1>9. CASE (ReadForEvents(w) \/ ReadForFallback(w)) /\ ~EndPoll(w)
  <2>1. /\ Stepped(w, "dedup", row) \/ Stepped(w, "flow_check", row)
        /\ UNCHANGED <<row, clean>>
    BY <1>9 DEF ReadForEvents, ReadForFallback, Stepped
  <2> QED
    BY <1>1, <1>5, <2>1, QuietKeeps
<1>10. CASE ReadLogs(w) \/ LogEvent(w)
  <2>1. pc[w] \in PollHolding /\ UNCHANGED <<row, clean>>
    BY <1>10 DEF ReadLogs, LogEvent, PollHolding
  <2>2. Stepped(w, "event", copy[w]) \/ Stepped(w, "apply", copy[w])
    BY <1>1, <1>10 DEF ReadLogs, LogEvent, Stepped
  <2> QED
    BY <1>3, <1>5, <2>1, <2>2, QuietKeeps
<1>11. ASSUME NEW s, pc[w] \in PollHolding
       PROVE  /\ [copy[w] EXCEPT !.status = s].payment = FALSE
              /\ NextAfter([copy[w] EXCEPT !.status = s]) = "event"
  BY <1>1, <1>3, <1>11, OtherColumns DEF NextAfter
<1>12. ASSUME NEW s, NEW c, pc[w] \in PollHolding, c.payment = FALSE, Stepped(w, "event", c),
              SaveFields(w, [row EXCEPT !.status = s], {"status"})
       PROVE  Quiet'
  <2>1. pc[w] \in LateLabels
    BY <1>12, PlacedLabels
  <2> QED
    BY <1>3, <1>4, <1>12, <2>1, StatusSaved
<1>13. CASE ApplyEvent(w)
  <2>1. PICK i \in Due(w) : ApplyEvent(w)!2!(i)
    BY <1>13 DEF ApplyEvent
  <2>2. pc[w] = "apply" /\ pc[w] \in PollHolding
    BY <1>13 DEF ApplyEvent, PollHolding
  <2> DEFINE s == StatusOf[events[i]]
             r == [copy[w] EXCEPT !.status = s]
  <2>3. \/ /\ SaveFields(w, [row EXCEPT !.status = s], {"status"})
           /\ Stepped(w, NextAfter(r), r)
        \/ UNCHANGED <<row, clean>> /\ Stepped(w, "event", copy[w])
    BY <1>1, <2>1 DEF Stepped
  <2>4. r.payment = FALSE /\ NextAfter(r) = "event"
    BY <1>11, <2>2
  <2>5. CASE UNCHANGED <<row, clean>> /\ Stepped(w, "event", copy[w])
    BY <1>3, <1>5, <2>2, <2>5, QuietKeeps
  <2> HIDE DEF s, r
  <2> QED
    BY <1>12, <2>2, <2>3, <2>4, <2>5
<1>14. CASE PollEnds(w)
  BY <1>7, <1>14 DEF PollEnds
<1>15. CASE FallbackApply(w)
  <2> DEFINE s == AckStatus(flows[copy[w].flow])
             r == [copy[w] EXCEPT !.status = s]
  <2>1. pc[w] = "flow_check" /\ pc[w] \in PollHolding
    BY <1>15 DEF FallbackApply, PollHolding
  <2>2. r.payment = FALSE /\ NextAfter(r) = "event" /\ r.status = s
    BY <1>1, <1>11, <2>1, LateRows
  <2>3. \/ EndPoll(w) /\ UNCHANGED <<row, clean>>
        \/ /\ SaveFields(w, [row EXCEPT !.status = r.status], {"status"})
           /\ Stepped(w, NextAfter(r), r) \/ Stepped(w, "event", r)
    BY <1>15 DEF FallbackApply, Stepped
  <2> HIDE DEF s, r
  <2> QED
    BY <1>7, <1>12, <2>1, <2>2, <2>3
<1> QED
  BY <1>2, <1>7, <1>8, <1>9, <1>10, <1>13, <1>14, <1>15
  DEF PollStep, ReadForEvents, ReadForFallback

LEMMA StepQuiet ==
  ASSUME NoEarlyPayment, Known, Quiet, [LifecycleNext]_lifecycleVars
  PROVE  Quiet'
<1>1. CASE UNCHANGED <<row, pc, copy, clean>>
  BY <1>1 DEF Quiet
<1>2. CASE UNCHANGED lifecycleVars
  BY <1>1, <1>2 DEF lifecycleVars, rowVars
<1>3. ~RequestPreview
  BY DEF RequestPreview, NoEarlyPayment, OnePoller, Serial
<1>4. CASE ReportPaid \/ CancelInvoice \/ Acknowledge \/ Publish
  BY <1>1, <1>4 DEF ReportPaid, CancelInvoice, Acknowledge, Publish, rowVars
<1>5. ASSUME NEW w \in Workers, CrashPa(w) PROVE Quiet'
  <2>1. HoldsWell("idle", Forgotten, row)
    BY DEF HoldsWell, DraftLabels, PollHolding
  <2> QED
    BY <1>5, <2>1, QuietKeeps DEF CrashPa, Crash, Finish, Stepped
<1> QED
  BY <1>2, <1>3, <1>4, <1>5, IssuanceQuiet, EreportingQuiet, TransmissionQuiet, PollQuiet
  DEF LifecycleNext, TransmissionNext, TransmissionStep

\* No handler saves an object that another one has changed, in the whole life of the
\* invoice: generation, e-reporting, submission and the poll take turns by the status
\* alone, without a lock.
THEOREM LifecycleLosesNoUpdate ==
  ASSUME NoEarlyPayment
  PROVE  LifecycleSpec => []NoLostUpdate
<1>1. LifecycleInit => Quiet
  <2> SUFFICES ASSUME LifecycleInit PROVE Quiet
    OBVIOUS
  <2>1. /\ clean = TRUE /\ \E n \in {0, 1} : row = NewRow(n)
        /\ \A w \in Workers : pc[w] = "idle"
    BY DEF LifecycleInit, RowInit
  <2>2. row.payment = FALSE
    BY <2>1 DEF NewRow
  <2> QED
    BY <2>1, <2>2 DEF Quiet, HoldsWell, DraftLabels, PollHolding
<1>2. Known /\ Quiet /\ [LifecycleNext]_lifecycleVars => Quiet'
  BY StepQuiet
<1>3. LifecycleSpec => []Known
  BY PlacedHolds DEF NoEarlyPayment
<1>4. Quiet => NoLostUpdate
  BY DEF Quiet, NoLostUpdate
<1> QED
  BY <1>1, <1>2, <1>3, <1>4, PTL DEF LifecycleSpec

----------------------------------------------------------------------------
(* The verdict of the last event that was handled shows, when no worker    *)
(* dies between the log of an event and the save of its status.            *)

NoCrash == OnePoller /\ "crash" \notin Faults

VerdictStatus == {"accepted", "rejected", "refused"}

\* The codes the PA publishes after code c.
Follows(c) ==
  CASE c = "200" -> {"201", "210", "213"} [] c = "201" -> {"210"} [] OTHER -> {}

Ordered ==
  /\ events # <<>> => events[1] \in {"200", "213"}
  /\ \A i \in DOMAIN events : i # 1 => events[i] \in Follows(events[i - 1])

\* What the status may be once the first m events were applied.
Shows(s, m) ==
  IF m = 0 THEN s \notin VerdictStatus ELSE s \in {StatusOf[events[m]], "paid"}

GoingOn == {"event", "auto_paid", "send_auto212"}

\* Where a poll at label l is, that found s events and has gone through k, when the first
\* m events are logged: it applies the last of these, or goes on after it.
GoneThrough(l, s, k, m) ==
  /\ l = "apply" => m # 0 /\ m <= s /\ k = 1..(m - 1)
  /\ l \in GoingOn => k = 1..m
  /\ l \notin GoingOn \union {"apply"} => k = {}
  /\ l = "flow_check" \/ (l = "poll" /\ s = 0) => m = 0

VerdictsUpTo(m) ==
  /\ logged = 1..m
  /\ \A w \in Workers : GoneThrough(pc[w], seen[w], known[w], m)
  /\ \A w \in Workers : pc[w] = "apply" => Shows(row.status, m - 1)
  /\ (\A w \in Workers : pc[w] # "apply") => Shows(row.status, m)

\* The events are logged in their order, one after the other, each applied before the next
\* is logged.
Verdicts == Ordered /\ \E m \in 0..Len(events) : VerdictsUpTo(m)

\* The steps of the others, which move the status before there is a flow.
LEMMA OthersShow ==
  ASSUME Known, Verdicts, UNCHANGED <<events, logged, seen, known>>,
         \A v \in Workers : pc'[v] = pc[v] \/ (pc[v] \notin Polling /\ pc'[v] \notin Polling),
         row'.status = row.status \/ (flows = <<>> /\ row'.status \notin VerdictStatus)
  PROVE  Verdicts'
<1>1. PICK m \in 0..Len(events) : VerdictsUpTo(m)
  BY DEF Verdicts
<1>2. Ordered'
  BY DEF Verdicts, Ordered
<1>3. ASSUME NEW v \in Workers PROVE GoneThrough(pc'[v], seen'[v], known'[v], m)
  <2>1. GoneThrough(pc[v], seen[v], known[v], m)
    BY <1>1 DEF VerdictsUpTo
  <2>2. CASE pc'[v] = pc[v]
    BY <2>1, <2>2
  <2>3. CASE pc[v] \notin Polling /\ pc'[v] \notin Polling
    BY <2>1, <2>3 DEF GoneThrough, Polling, PollHolding, GoingOn
  <2> QED
    BY <2>2, <2>3
<1>4. \A v \in Workers : pc'[v] = "apply" <=> pc[v] = "apply"
  BY DEF Polling, PollHolding
<1>5. /\ \A v \in Workers : pc'[v] = "apply" => Shows(row'.status, m - 1)
      /\ (\A v \in Workers : pc'[v] # "apply") => Shows(row'.status, m)
  <2>1. CASE row'.status = row.status
    BY <1>1, <1>4, <2>1 DEF VerdictsUpTo
  <2>2. CASE flows = <<>> /\ row'.status \notin VerdictStatus
    <3>1. \A v \in Workers : pc[v] # "apply"
      BY <2>2 DEF Known, Placed, InPlace, PollHolding
    <3>2. events = <<>>
      <4>1. ~FlowAccepted
        BY <2>2 DEF FlowAccepted
      <4> QED
        BY <4>1 DEF Known, KnowsInv
    <3>3. Len(events) = 0
      BY <3>2
    <3>4. m = 0
      BY <3>3
    <3> QED
      BY <1>4, <2>2, <3>1, <3>4 DEF Shows
  <2> QED
    BY <2>1, <2>2
<1>6. VerdictsUpTo(m)'
  <2>1. \A s, n : Shows(s, n)' <=> Shows(s', n)
    BY DEF Shows
  <2> QED
    BY <1>1, <1>3, <1>5 DEF VerdictsUpTo, Shows
<1> QED
  BY <1>2, <1>6 DEF Verdicts

Elsewhere ==
  {"idle"} \union IssuanceLabels \union EreportingLabels \union SubmissionLabels
    \union {"submitted"} \union OutOfUse

\* A step of a handler that is not a poll.
ElsewhereStep(w) ==
  \/ pc' = pc
  \/ pc[w] \in Elsewhere /\ \E l \in Elsewhere : pc' = [pc EXCEPT ![w] = l]

LEMMA StaysElsewhere ==
  ASSUME Known, NEW w \in Workers, ElsewhereStep(w)
  PROVE  \A v \in Workers : pc'[v] = pc[v] \/ (pc[v] \notin Polling /\ pc'[v] \notin Polling)
<1>1. Elsewhere \cap Polling = {}
  BY DEF Elsewhere, Polling, PollHolding, IssuanceLabels, EreportingLabels, SubmissionLabels,
         OutOfUse
<1>2. pc \in [Workers -> Labels]
  BY TypedParts DEF Known
<1> QED
  BY <1>1, <1>2 DEF ElsewhereStep

LEMMA IssuanceElsewhere ==
  ASSUME OnePoller, Known, NEW w \in Workers, IssuanceRequest(w) \/ IssuanceTask(w)
  PROVE  /\ ElsewhereStep(w)
         /\ row'.status = row.status \/ (flows = <<>> /\ row'.status \notin VerdictStatus)
<1>1. row \in Row /\ copy[w] \in Row /\ InTurn(pc[w], copy[w], row)
  BY TypedParts DEF Known, IssuanceTurns
<1>2. /\ ~TakePreview(w) /\ ~GenerateSourcePdf(w)
      /\ ~AfterGenerationFails(w) /\ ~SendEreporting(w)
  BY DEF TakePreview, Take, GenerateSourcePdf, AfterGenerationFails, SendEreporting, Known, IssuanceTurns, InTurn,
         OnePoller, Serial
<1>3. pc[w] \in DraftLabels \union {"generate"} => flows = <<>>
  BY Alone DEF Known
<1>4. CASE OpenEdit(w) \/ OpenDelete(w) \/ OpenValidate(w) \/ OpenRecordPayment(w)
  BY <1>4 DEF OpenEdit, OpenDelete, OpenValidate, OpenRecordPayment, Open, Read, ElsewhereStep,
              Elsewhere, IssuanceLabels
<1>5. CASE UpdateInvoice(w)
  <2>1. pc[w] = "edit" /\ row' = Edited(copy[w]) /\ pc' = [pc EXCEPT ![w] = "idle"]
    BY <1>5 DEF UpdateInvoice, Save, Finish
  <2>2. row'.status = copy[w].status
    BY <1>1, <2>1 DEF Row, Edited
  <2>3. row'.status = row.status
    BY <1>1, <2>1, <2>2 DEF InTurn, DraftLabels
  <2> QED
    BY <2>1, <2>3 DEF ElsewhereStep, Elsewhere, IssuanceLabels
<1>6. CASE SoftDelete(w)
  <2>1. pc[w] = "delete" /\ row' = [row EXCEPT !.deleted = TRUE] /\ pc' = [pc EXCEPT ![w] = "idle"]
    BY <1>6 DEF SoftDelete, SaveFields, Finish
  <2>2. row'.status = row.status
    BY <1>1, <2>1 DEF Row
  <2> QED
    BY <2>1, <2>2 DEF ElsewhereStep, Elsewhere, IssuanceLabels
<1>7. CASE ValidateInvoice(w)
  <2>1. pc[w] = "validate" /\ pc' = [pc EXCEPT ![w] = "send_generate"]
    BY <1>7 DEF ValidateInvoice, SendNext
  <2>2. row'.status = "processing"
    BY <1>1, <1>7 DEF ValidateInvoice, Save, Row
  <2> QED
    BY <1>3, <2>1, <2>2 DEF ElsewhereStep, Elsewhere, IssuanceLabels, VerdictStatus, DraftLabels
<1>8. CASE SendGenerate(w) \/ AfterGeneration(w)
  BY <1>8 DEF SendGenerate, Send, AfterGeneration, Finish, ElsewhereStep, Elsewhere, IssuanceLabels
<1>9. CASE RecordPayment(w)
  <2>1. /\ pc[w] = "record_payment" /\ row' = [row EXCEPT !.payment = TRUE]
        /\ pc' = [pc EXCEPT ![w] = "idle"]
    BY <1>9 DEF RecordPayment, SaveFields, Finish
  <2>2. row'.status = row.status
    BY <1>1, <2>1 DEF Row
  <2> QED
    BY <2>1, <2>2 DEF ElsewhereStep, Elsewhere, IssuanceLabels
<1>10. CASE TakeGenerate(w)
  BY <1>10 DEF TakeGenerate, Take, Read, Drop, ElsewhereStep, Elsewhere, IssuanceLabels
<1>11. CASE Generate(w)
  <2>1. /\ pc[w] = "generate"
        /\ \E l \in {"generated", "idle"} : pc' = [pc EXCEPT ![w] = l]
    BY <1>11 DEF Generate, GenerateSucceeds, GenerateFails, Finish
  <2>2. \/ row' = [copy[w] EXCEPT !.status = "validated", !.pdf = "facturx"]
        \/ row' = [copy[w] EXCEPT !.status = "draft"]
    BY <1>11 DEF Generate, GenerateSucceeds, GenerateFails, Save
  <2>3. row'.status \in {"validated", "draft"}
    BY <1>1, <2>2 DEF Row
  <2> QED
    BY <1>3, <2>1, <2>3 DEF ElsewhereStep, Elsewhere, IssuanceLabels, VerdictStatus
<1> QED
  BY <1>2, <1>4, <1>5, <1>6, <1>7, <1>8, <1>9, <1>10, <1>11 DEF IssuanceRequest, IssuanceTask

LEMMA EreportingElsewhere ==
  ASSUME OnePoller, Known, NEW w \in Workers, EreportingTask(w)
  PROVE  ElsewhereStep(w) /\ row'.status = row.status
<1>1. row \in Row
  BY TypedParts DEF Known
<1>2. CASE TakeEreporting(w) \/ RetryEreporting(w)
  BY <1>2 DEF TakeEreporting, Take, Read, Drop, RetryEreporting, Send, Finish, ElsewhereStep,
              Elsewhere, EreportingLabels
<1>3. CASE Ereport(w)
  <2>1. PICK s : row' = [row EXCEPT !.ereporting = s]
    BY <1>3 DEF Ereport, EreportingSucceeds, EreportingRefused, EreportingUnavailable,
                SaveEreporting, SaveFields
  <2>2. row'.status = row.status
    BY <1>1, <2>1, LateRows
  <2>3. ElsewhereStep(w)
    BY <1>3 DEF Ereport, EreportingSucceeds, EreportingRefused, EreportingUnavailable, Finish,
                SendNext, ElsewhereStep, Elsewhere, EreportingLabels
  <2> QED
    BY <2>2, <2>3
<1> QED
  BY <1>2, <1>3 DEF EreportingTask

LEMMA TransmissionElsewhere ==
  ASSUME OnePoller, Known, NEW w \in Workers, TransmissionRequest(w) \/ TransmissionTask(w)
  PROVE  /\ ElsewhereStep(w) /\ UNCHANGED <<events, logged, seen, known>>
         /\ row'.status = row.status \/ (flows = <<>> /\ row'.status \notin VerdictStatus)
<1>1. /\ row \in Row /\ InPlace(pc[w], w, copy[w], row.status, flows)
      /\ (pc[w] \in SubmissionLabels => flows = <<>>)
  BY TypedParts, OneSubmission DEF Known, Placed
<1>2. /\ ~OpenMarkPaid(w) /\ ~OpenOnlinePayment(w) /\ ~MarkPaid(w) /\ ~SendPaid212(w)
      /\ ~OpenAutoCancel(w) /\ ~AutoCancel(w)
  <2>1. ~OpenMarkPaid(w) /\ ~OpenOnlinePayment(w) /\ ~OpenAutoCancel(w)
    BY DEF OpenMarkPaid, OpenOnlinePayment, OpenAutoCancel, Open, OnePoller, Known, Placed
  <2>2. ~MarkPaid(w) /\ ~SendPaid212(w) /\ ~AutoCancel(w)
    BY <1>1 DEF MarkPaid, SendPaid212, Send, AutoCancel, InPlace, OutOfUse
  <2> QED
    BY <2>1, <2>2
<1>3. CASE OpenTransmit(w) \/ SendTransmit(w) \/ TakeTransmit(w)
  BY <1>3 DEF OpenTransmit, Open, SendTransmit, Send, TakeTransmit, Take, Read, Drop, Finish, paVars,
              ElsewhereStep, Elsewhere, SubmissionLabels
<1>4. CASE SubmitFlow(w)
  BY <1>4 DEF SubmitFlow, ElsewhereStep, Elsewhere, SubmissionLabels
<1>5. CASE RequestTransmission(w) \/ RevertTransmission(w)
  <2>1. /\ pc[w] \in SubmissionLabels
        /\ \E s \in {"transmitting", "validated"} : row' = [row EXCEPT !.status = s]
    BY <1>5 DEF RequestTransmission, RevertTransmission, SaveFields, SubmissionLabels
  <2>2. row'.status \notin VerdictStatus
    BY <1>1, <2>1, LateRows DEF VerdictStatus
  <2> QED
    BY <1>1, <1>5, <2>1, <2>2
    DEF RequestTransmission, RevertTransmission, SendNext, Finish, paVars, ElsewhereStep, Elsewhere,
        SubmissionLabels
<1>6. CASE SaveFlow(w)
  <2>1. row' = [row EXCEPT !.flow = copy[w].flow]
    BY <1>6 DEF SaveFlow, SaveFields
  <2>2. row'.status = row.status
    BY <1>1, <2>1, LateRows
  <2> QED
    BY <1>6, <2>2 DEF SaveFlow, Finish, paVars, ElsewhereStep, Elsewhere
<1> QED
  BY <1>2, <1>3, <1>4, <1>5, <1>6 DEF TransmissionRequest, TransmissionTask

LEMMA NextDue ==
  ASSUME NEW s \in Nat, NEW m \in Nat, NEW i \in (1..s) \ (1..m),
         \A j \in (1..s) \ (1..m) : i <= j
  PROVE  i = m + 1 /\ m + 1 <= s
<1>1. i \in Nat /\ i <= s /\ m + 1 <= i
  OBVIOUS
<1>2. m + 1 \in (1..s) \ (1..m)
  BY <1>1
<1>3. i <= m + 1
  BY <1>2
<1> QED
  BY <1>1, <1>3

LEMMA WholeRange ==
  ASSUME NEW n \in Nat, n # 0, NEW m \in 0..n, 1..m = 1..n
  PROVE  m = n
<1>1. n \in 1..n /\ m \in Nat /\ m <= n
  OBVIOUS
<1>2. n \in 1..m
  BY <1>1
<1>3. n <= m
  BY <1>1, <1>2
<1> QED
  BY <1>1, <1>3

\* A step of the poller, the only one there is: it is at label l then, found s events and
\* has gone through k, and the first n events are logged.
LEMMA PollerShows ==
  ASSUME OnePoller, Known, Verdicts, NEW m \in 0..Len(events), VerdictsUpTo(m),
         NEW n \in 0..Len(events), logged' = 1..n, events' = events,
         NEW w \in Pollers, w \in Workers, NEW l, NEW s, NEW k,
         pc' = [pc EXCEPT ![w] = l], seen' = [seen EXCEPT ![w] = s],
         known' = [known EXCEPT ![w] = k],
         GoneThrough(l, s, k, n),
         l = "apply" => Shows(row'.status, n - 1),
         l # "apply" => Shows(row'.status, n)
  PROVE  Verdicts'
<1>1. pc \in [Workers -> Labels] /\ seen \in [Workers -> 0..Len(events)]
      /\ known \in [Workers -> SUBSET DOMAIN events]
  BY TypedParts, PollParts DEF Known
<1>2. pc'[w] = l /\ seen'[w] = s /\ known'[w] = k
  BY <1>1
<1>3. \A v \in Workers : v # w => pc'[v] = pc[v] /\ seen'[v] = seen[v] /\ known'[v] = known[v]
  BY <1>1
<1>4. \A v \in Workers : v # w => pc[v] \notin Polling
  <2>1. \A v \in Workers : pc[v] \in Polling => v \in Pollers
    BY DEF Known, Placed, InPlace, Polling
  <2> QED
    BY <2>1 DEF OnePoller
<1>5. ASSUME NEW v \in Workers PROVE GoneThrough(pc'[v], seen'[v], known'[v], n)
  <2>1. CASE v = w
    BY <1>2, <2>1
  <2>2. CASE v # w
    <3>1. GoneThrough(pc[v], seen[v], known[v], m) /\ pc[v] \notin Polling
      BY <1>4, <2>2 DEF VerdictsUpTo
    <3>2. GoneThrough(pc[v], seen[v], known[v], n)
      BY <3>1 DEF GoneThrough, GoingOn, Polling, PollHolding
    <3> QED
      BY <1>3, <2>2, <3>2
  <2> QED
    BY <2>1, <2>2
<1>6. \A v \in Workers : v # w => pc'[v] # "apply"
  BY <1>3, <1>4 DEF Polling, PollHolding
<1>7. /\ \A v \in Workers : pc'[v] = "apply" => Shows(row'.status, n - 1)
      /\ (\A v \in Workers : pc'[v] # "apply") => Shows(row'.status, n)
  BY <1>2, <1>6
<1>8. VerdictsUpTo(n)'
  BY <1>5, <1>7 DEF VerdictsUpTo, Shows
<1>9. Ordered'
  BY DEF Verdicts, Ordered
<1> QED
  BY <1>8, <1>9 DEF Verdicts

\* The event that follows those that show is the one to show, or the invoice is paid.
LEMMA ShowsNext ==
  ASSUME Ordered, events \in Seq(Codes), NEW m \in DOMAIN events, NEW s \in Sent,
         Shows(s, m - 1)
  PROVE  /\ CanTransition(s, StatusOf[events[m]]) => Shows(StatusOf[events[m]], m)
         /\ ~CanTransition(s, StatusOf[events[m]]) => Shows(s, m)
<1>1. DOMAIN events = 1..Len(events) /\ Len(events) \in Nat /\ m \in Nat \ {0}
  OBVIOUS
<1>2. Shows(StatusOf[events[m]], m)
  BY <1>1 DEF Shows
<1>3. ASSUME ~CanTransition(s, StatusOf[events[m]]) PROVE s \in {StatusOf[events[m]], "paid"}
  <2>1. CASE m = 1
    <3>1. events[m] \in {"200", "213"}
      BY <1>1, <2>1 DEF Ordered
    <3>2. s \in {"transmitting", "transmitted", "paid"}
      BY <2>1 DEF Shows, Sent, VerdictStatus
    <3> QED
      BY <1>3, <3>1, <3>2 DEF StatusOf, Codes, CanTransition, Transitions
  <2>2. CASE m # 1
    <3>1. m - 1 \in DOMAIN events /\ m - 1 # 0
      BY <1>1, <2>2
    <3>2. events[m - 1] \in Codes /\ events[m] \in Codes /\ events[m] \in Follows(events[m - 1])
      BY <1>1, <2>2, <3>1 DEF Ordered
    <3>3. s \in {StatusOf[events[m - 1]], "paid"}
      BY <3>1 DEF Shows
    <3>4. CASE events[m - 1] = "200"
      BY <1>3, <3>2, <3>3, <3>4 DEF Follows, StatusOf, Codes, CanTransition, Transitions
    <3>5. CASE events[m - 1] = "201"
      BY <1>3, <3>2, <3>3, <3>5 DEF Follows, StatusOf, Codes, CanTransition, Transitions
    <3>6. CASE events[m - 1] \in {"210", "213"}
      BY <3>2, <3>6 DEF Follows
    <3> QED
      BY <3>2, <3>4, <3>5, <3>6 DEF Codes
  <2> QED
    BY <2>1, <2>2
<1>4. ~CanTransition(s, StatusOf[events[m]]) => Shows(s, m)
  BY <1>1, <1>3 DEF Shows
<1> QED
  BY <1>2, <1>4

LEMMA PollShows ==
  ASSUME OnePoller, Known, Verdicts, NEW w \in Workers, Poll(w) \/ PollStep(w)
  PROVE  Verdicts'
<1>1. PICK m \in 0..Len(events) : VerdictsUpTo(m)
  BY DEF Verdicts
<1>2. /\ logged = 1..m /\ GoneThrough(pc[w], seen[w], known[w], m)
      /\ (pc[w] = "apply" => Shows(row.status, m - 1))
      /\ m \in Nat /\ Len(events) \in Nat
  BY <1>1, PollParts DEF VerdictsUpTo, Known
<1>3. /\ row \in Row /\ copy[w] \in Row /\ InPlace(pc[w], w, copy[w], row.status, flows)
      /\ Knows(pc[w], copy[w]) /\ (flows # <<>> => row.status \in Sent)
  BY TypedParts DEF Known, Placed, KnowsInv
<1>4. /\ seen = [seen EXCEPT ![w] = seen[w]] /\ known = [known EXCEPT ![w] = known[w]]
      /\ seen[w] \in 0..Len(events) /\ seen[w] \in Nat /\ known[w] \subseteq DOMAIN events
  BY PollParts DEF Known
<1>5. w \in Pollers
  <2>1. pc[w] \in PollHolding \union {"poll"} => w \in Pollers
    BY <1>3 DEF InPlace
  <2> QED
    BY <2>1
    DEF Poll, PollStep, ReadForEvents, ReadLogs, LogEvent, ApplyEvent, AutoMarkPaid, SendAuto212,
        PollEnds, ReadForFallback, FallbackApply, PollHolding
<1>6. pc[w] # "apply" => Shows(row.status, m)
  <2>1. \A v \in Workers : v # w => pc[v] # "apply"
    BY <1>5 DEF Known, Placed, InPlace, PollHolding, OnePoller
  <2>2. ASSUME pc[w] # "apply" PROVE Shows(row.status, m)
    <3>1. \A v \in Workers : pc[v] # "apply"
      BY <2>1, <2>2
    <3> QED
      BY <1>1, <3>1 DEF VerdictsUpTo
  <2> QED
    BY <2>2
<1>7. pc[w] \in PollHolding => copy[w].status = row.status /\ row.status \in Sent
  BY <1>3 DEF InPlace
<1>8. CASE EndPoll(w) /\ pc[w] # "apply" /\ UNCHANGED <<row, Rest>>
  <2>1. GoneThrough("idle", 0, {}, m)
    BY DEF GoneThrough, GoingOn
  <2>2. /\ pc' = [pc EXCEPT ![w] = "idle"] /\ seen' = [seen EXCEPT ![w] = 0]
        /\ known' = [known EXCEPT ![w] = {}] /\ UNCHANGED <<row, events, logged>>
    BY <1>8 DEF EndPoll, Finish, Rest
  <2> QED
    BY <1>1, <1>2, <1>5, <1>6, <1>8, <2>1, <2>2, PollerShows
<1>9. CASE Poll(w)
  <2>1. /\ pc' = [pc EXCEPT ![w] = "poll"] /\ seen' = [seen EXCEPT ![w] = Len(events)]
        /\ pc[w] = "idle" /\ UNCHANGED <<row, known, events, logged>>
    BY <1>9 DEF Poll, Rest
  <2>2. GoneThrough("poll", Len(events), known[w], m)
    BY <1>2, <2>1 DEF GoneThrough, GoingOn
  <2> QED
    BY <1>1, <1>2, <1>4, <1>5, <1>6, <2>1, <2>2, PollerShows
<1>10. CASE (ReadForEvents(w) \/ ReadForFallback(w)) /\ ~EndPoll(w)
  <2>1. PICK l \in {"dedup", "flow_check"} :
          /\ pc' = [pc EXCEPT ![w] = l] /\ pc[w] = "poll"
          /\ l = "flow_check" => seen[w] = 0
          /\ UNCHANGED <<row, seen, known, events, logged>>
    BY <1>10 DEF ReadForEvents, ReadForFallback, Rest
  <2>2. GoneThrough(l, seen[w], known[w], m)
    BY <1>2, <2>1 DEF GoneThrough, GoingOn
  <2> QED
    BY <1>1, <1>2, <1>4, <1>5, <1>6, <2>1, <2>2, PollerShows
<1>11. CASE ReadLogs(w)
  <2>1. /\ pc' = [pc EXCEPT ![w] = "event"] /\ pc[w] = "dedup"
        /\ known' = [known EXCEPT ![w] = logged] /\ UNCHANGED <<row, seen, events, logged>>
    BY <1>11 DEF ReadLogs, Rest
  <2>2. GoneThrough("event", seen[w], logged, m)
    BY <1>2 DEF GoneThrough, GoingOn
  <2> QED
    BY <1>1, <1>2, <1>4, <1>5, <1>6, <2>1, <2>2, PollerShows
<1>12. CASE LogEvent(w)
  <2>1. PICK i \in Due(w) : (\A j \in Due(w) : i <= j) /\ logged' = logged \union {i}
    BY <1>12 DEF LogEvent
  <2>2. /\ pc[w] = "event" /\ pc' = [pc EXCEPT ![w] = "apply"]
        /\ UNCHANGED <<row, seen, known, events>>
    BY <1>12 DEF LogEvent
  <2>3. known[w] = 1..m
    BY <1>2, <2>2 DEF GoneThrough, GoingOn
  <2>4. i = m + 1 /\ m + 1 <= seen[w]
    BY <1>2, <1>4, <2>1, <2>3, NextDue DEF Due
  <2> DEFINE n == m + 1
  <2>5. n \in 0..Len(events) /\ logged' = 1..n /\ n - 1 = m
    BY <1>2, <1>4, <2>1, <2>4
  <2>6. GoneThrough("apply", seen[w], known[w], n)
    BY <1>2, <2>3, <2>4, <2>5 DEF GoneThrough, GoingOn
  <2> HIDE DEF n
  <2>7. Shows(row'.status, n - 1)
    BY <1>6, <2>2, <2>5
  <2> QED
    BY <1>1, <1>4, <1>5, <2>2, <2>5, <2>6, <2>7, PollerShows
<1>13. ASSUME NEW r PROVE NextAfter(r) \in GoingOn
  BY DEF NextAfter, GoingOn
<1>14. CASE ApplyEvent(w)
  <2>1. PICK i \in Due(w) : ApplyEvent(w)!2!(i)
    BY <1>14 DEF ApplyEvent
  <2>2. /\ pc[w] = "apply" /\ pc[w] \in PollHolding /\ UNCHANGED <<seen, events, logged>>
    BY <1>14 DEF ApplyEvent, Rest, PollHolding
  <2>3. m # 0 /\ m <= seen[w] /\ known[w] = 1..(m - 1) /\ m - 1 \in Nat
    BY <1>2, <2>2 DEF GoneThrough
  <2>4. i = m
    BY <1>2, <1>4, <2>1, <2>3, NextDue DEF Due
  <2>5. known' = [known EXCEPT ![w] = 1..m]
    <3>1. known[w] \union {i} = 1..m
      BY <1>2, <2>3, <2>4
    <3> QED
      BY <1>4, <2>1, <3>1
  <2>6. m \in DOMAIN events /\ Ordered /\ events \in Seq(Codes)
    BY <1>1, <1>2, <2>3, PollParts DEF Known, Verdicts
  <2> DEFINE s == StatusOf[events[m]]
             r == [copy[w] EXCEPT !.status = s]
  <2>7. \/ /\ CanTransition(row.status, s) /\ row' = [row EXCEPT !.status = s]
           /\ pc' = [pc EXCEPT ![w] = NextAfter(r)]
        \/ /\ ~CanTransition(row.status, s) /\ row' = row
           /\ pc' = [pc EXCEPT ![w] = "event"]
    BY <1>7, <2>1, <2>2, <2>4 DEF SaveFields
  <2>8. Shows(row'.status, m)
    <3>1. /\ CanTransition(row.status, s) => Shows(s, m)
          /\ ~CanTransition(row.status, s) => Shows(row.status, m)
      BY <1>2, <1>7, <2>2, <2>6, ShowsNext
    <3>2. [row EXCEPT !.status = s].status = s
      BY <1>3, LateRows
    <3> HIDE DEF s
    <3> QED
      BY <2>7, <3>1, <3>2
  <2>9. \E l \in GoingOn : pc' = [pc EXCEPT ![w] = l]
    <3>1. NextAfter(r) \in GoingOn /\ "event" \in GoingOn
      BY <1>13 DEF GoingOn
    <3> HIDE DEF r, s
    <3> QED
      BY <2>7, <3>1
  <2>10. \A l \in GoingOn : GoneThrough(l, seen[w], 1..m, m) /\ l # "apply"
    BY DEF GoneThrough, GoingOn
  <2> QED
    BY <1>1, <1>2, <1>4, <1>5, <2>2, <2>5, <2>8, <2>9, <2>10, PollerShows
<1>15. CASE AutoMarkPaid(w)
  <2>1. /\ pc[w] = "auto_paid" /\ row' = PaidCopy(copy[w])
        /\ pc' = [pc EXCEPT ![w] = "send_auto212"] /\ UNCHANGED <<seen, known, events, logged>>
    BY <1>15 DEF AutoMarkPaid, Save, paVars
  <2>2. row'.status = "paid" /\ Shows("paid", m)
    BY <1>3, <2>1, LateRows DEF Shows, VerdictStatus
  <2>3. GoneThrough("send_auto212", seen[w], known[w], m)
    BY <1>2, <2>1 DEF GoneThrough, GoingOn
  <2> QED
    BY <1>1, <1>2, <1>4, <1>5, <2>1, <2>2, <2>3, PollerShows
<1>16. CASE SendAuto212(w)
  <2>1. /\ pc[w] = "send_auto212" /\ pc' = [pc EXCEPT ![w] = "event"]
        /\ UNCHANGED <<row, seen, known, events, logged>>
    BY <1>16 DEF SendAuto212, paVars
  <2>2. GoneThrough("event", seen[w], known[w], m)
    BY <1>2, <2>1 DEF GoneThrough, GoingOn
  <2> QED
    BY <1>1, <1>2, <1>4, <1>5, <1>6, <2>1, <2>2, PollerShows
<1>17. CASE PollEnds(w)
  BY <1>8, <1>17 DEF PollEnds
<1>18. CASE FallbackApply(w)
  <2> DEFINE a == flows[copy[w].flow]
             s == AckStatus(a)
             r == [copy[w] EXCEPT !.status = s]
  <2>1. pc[w] = "flow_check" /\ UNCHANGED <<events, logged>>
    BY <1>18 DEF FallbackApply, Rest
  <2>2. m = 0 /\ known[w] = {} /\ s \in {"transmitted", "validated"} /\ r.status = s
    BY <1>2, <1>3, <2>1, LateRows DEF GoneThrough, GoingOn, AckStatus
  <2>3. \/ EndPoll(w) /\ row' = row
        \/ /\ row' = [row EXCEPT !.status = r.status] /\ UNCHANGED <<seen, known>>
           /\ \/ pc' = [pc EXCEPT ![w] = NextAfter(r)]
              \/ pc' = [pc EXCEPT ![w] = "event"]
    BY <1>18 DEF FallbackApply, SaveFields
  <2>4. CASE EndPoll(w) /\ row' = row
    <3>1. UNCHANGED <<row, Rest>>
      BY <1>18, <2>4 DEF FallbackApply
    <3> QED
      BY <1>8, <2>1, <2>4, <3>1
  <2>5. NextAfter(r) \in GoingOn /\ "event" \in GoingOn
    BY <1>13 DEF GoingOn
  <2> HIDE DEF a, s, r
  <2>6. CASE /\ row' = [row EXCEPT !.status = r.status] /\ UNCHANGED <<seen, known>>
             /\ \/ pc' = [pc EXCEPT ![w] = NextAfter(r)]
                \/ pc' = [pc EXCEPT ![w] = "event"]
    <3>1. Shows(row'.status, m)
      BY <1>3, <2>2, <2>6, LateRows DEF Shows, VerdictStatus
    <3>2. PICK l \in GoingOn : pc' = [pc EXCEPT ![w] = l]
      BY <2>5, <2>6
    <3>3. GoneThrough(l, seen[w], known[w], m) /\ l # "apply"
      BY <2>2 DEF GoneThrough, GoingOn
    <3> QED
      BY <1>1, <1>2, <1>4, <1>5, <2>1, <2>6, <3>1, <3>2, <3>3, PollerShows
  <2> QED
    BY <2>3, <2>4, <2>6
<1> QED
  BY <1>8, <1>9, <1>10, <1>11, <1>12, <1>14, <1>15, <1>16, <1>17, <1>18
  DEF PollStep, ReadForEvents, ReadForFallback

\* The PA publishes the next event.
LEMMA PublishShows ==
  ASSUME Known, Verdicts, Publish
  PROVE  Verdicts'
<1>1. PICK m \in 0..Len(events) : VerdictsUpTo(m)
  BY DEF Verdicts
<1>2. PICK c \in NextCodes : events' = Append(events, c)
  BY DEF Publish
<1>3. UNCHANGED <<row, pc, logged, seen, known>>
  BY DEF Publish, rowVars
<1>4. events \in Seq(Codes) /\ Len(events) \in Nat /\ DOMAIN events = 1..Len(events)
  BY PollParts DEF Known
<1>5. /\ Len(events') = Len(events) + 1 /\ DOMAIN events' = 1..(Len(events) + 1)
      /\ \A i \in 1..Len(events) : events'[i] = events[i]
      /\ events'[Len(events) + 1] = c
  BY <1>2, <1>4
<1>6. Ordered'
  <2>1. events'[1] \in {"200", "213"}
    <3>1. CASE events = <<>>
      BY <1>2, <1>5, <3>1 DEF NextCodes
    <3>2. CASE events # <<>>
      <4>1. 1 \in 1..Len(events)
        BY <1>4, <3>2
      <4> QED
        BY <1>5, <3>2, <4>1 DEF Verdicts, Ordered
    <3> QED
      BY <3>1, <3>2
  <2>2. ASSUME NEW i \in DOMAIN events', i # 1 PROVE events'[i] \in Follows(events'[i - 1])
    <3>1. CASE i \in DOMAIN events
      <4>1. i \in 1..Len(events) /\ i - 1 \in 1..Len(events)
        BY <1>4, <2>2, <3>1
      <4>2. events[i] \in Follows(events[i - 1])
        BY <2>2, <3>1 DEF Verdicts, Ordered
      <4> QED
        BY <1>5, <4>1, <4>2
    <3>2. CASE i \notin DOMAIN events
      <4>1. i = Len(events) + 1 /\ Len(events) \in 1..Len(events)
        BY <1>4, <1>5, <2>2, <3>2
      <4>2. events'[i] = c /\ events'[i - 1] = events[Len(events)] /\ i - 1 = Len(events)
        BY <1>4, <1>5, <4>1
      <4>3. events # <<>> /\ events[Len(events)] \in Codes
        BY <1>4, <4>1
      <4>4. events[Len(events)] # "none"
        BY <4>3 DEF Codes
      <4>5. c \in Follows(events[Len(events)])
        BY <1>2, <4>3, <4>4 DEF NextCodes, Follows
      <4> QED
        BY <4>2, <4>5
    <3> QED
      BY <3>1, <3>2
  <2> QED
    BY <2>1, <2>2 DEF Ordered
<1>7. ASSUME NEW s, NEW k \in 0..Len(events), Shows(s, k) PROVE Shows(s, k)'
  <2>1. k # 0 => k \in 1..Len(events)
    BY <1>4
  <2> QED
    BY <1>3, <1>5, <1>7, <2>1 DEF Shows
<1>8. m \in 0..Len(events') /\ (\A w \in Workers : pc[w] = "apply" => m - 1 \in 0..Len(events))
  <2>1. \A w \in Workers : pc[w] = "apply" => m # 0
    BY <1>1 DEF VerdictsUpTo, GoneThrough
  <2> QED
    BY <1>4, <1>5, <2>1
<1>9. \A w \in Workers : pc[w] = "apply" => Shows(row.status, m - 1)'
  BY <1>1, <1>3, <1>7, <1>8 DEF VerdictsUpTo
<1>10. (\A w \in Workers : pc[w] # "apply") => Shows(row.status, m)'
  BY <1>1, <1>3, <1>7 DEF VerdictsUpTo
<1>11. VerdictsUpTo(m)'
  BY <1>1, <1>3, <1>9, <1>10 DEF VerdictsUpTo
<1> QED
  BY <1>6, <1>8, <1>11 DEF Verdicts

LEMMA StepShows ==
  ASSUME NoCrash, Known, Verdicts, [LifecycleNext]_lifecycleVars
  PROVE  Verdicts'
<1>1. OnePoller
  BY DEF NoCrash
<1>2. CASE UNCHANGED <<row, pc, events, logged, seen, known>>
  BY <1>2, OthersShow
<1>3. CASE UNCHANGED lifecycleVars \/ ReportPaid \/ CancelInvoice \/ Acknowledge
  BY <1>2, <1>3 DEF lifecycleVars, rowVars, paVars, ReportPaid, CancelInvoice, Acknowledge
<1>4. ASSUME NEW w \in Workers, (IssuanceRequest(w) \/ IssuanceTask(w)) /\ UNCHANGED paVars
      PROVE  Verdicts'
  BY <1>1, <1>4, IssuanceElsewhere, StaysElsewhere, OthersShow DEF paVars
<1>5. ASSUME NEW w \in Workers, EreportingTask(w) /\ UNCHANGED paVars
      PROVE  Verdicts'
  BY <1>1, <1>5, EreportingElsewhere, StaysElsewhere, OthersShow DEF paVars
<1>6. ASSUME NEW w \in Workers, TransmissionRequest(w) \/ TransmissionTask(w)
      PROVE  Verdicts'
  BY <1>1, <1>6, TransmissionElsewhere, StaysElsewhere, OthersShow
<1>7. ~RequestPreview /\ \A w \in Workers : ~CrashPa(w)
  BY DEF RequestPreview, CrashPa, Crash, NoCrash, OnePoller, Serial
<1> QED
  BY <1>1, <1>3, <1>4, <1>5, <1>6, <1>7, PollShows, PublishShows
  DEF LifecycleNext, TransmissionNext, TransmissionStep

\* The verdict of the last event is not lost between the log that marks it as handled and
\* the save of its status: each event finds a status that may go to its own, whatever the
\* acknowledgement of the flow has saved before.
THEOREM LifecycleShowsVerdict ==
  ASSUME NoCrash
  PROVE  LifecycleSpec => []VerdictShown
<1>1. LifecycleInit => Verdicts
  <2> SUFFICES ASSUME LifecycleInit PROVE Verdicts
    OBVIOUS
  <2>1. /\ events = <<>> /\ logged = {} /\ \E n \in {0, 1} : row = NewRow(n)
        /\ \A w \in Workers : pc[w] = "idle" /\ known[w] = {}
    BY DEF LifecycleInit, RowInit, PaInit
  <2>2. row.status = "draft"
    BY <2>1 DEF NewRow
  <2>3. VerdictsUpTo(0)
    BY <2>1, <2>2 DEF VerdictsUpTo, GoneThrough, GoingOn, Shows, VerdictStatus
  <2>4. Ordered /\ 0 \in 0..Len(events)
    BY <2>1 DEF Ordered
  <2> QED
    BY <2>3, <2>4 DEF Verdicts
<1>2. Known /\ Verdicts /\ [LifecycleNext]_lifecycleVars => Verdicts'
  BY StepShows
<1>3. LifecycleSpec => []Known
  BY PlacedHolds DEF NoCrash
<1>4. Known /\ Verdicts => VerdictShown
  <2> SUFFICES ASSUME Known, Verdicts, \A w \in Workers : pc[w] # "apply",
                      events # <<>>, logged = DOMAIN events
               PROVE  row.status \in {StatusOf[events[Len(events)]], "paid"}
    BY DEF VerdictShown
  <2>1. PICK m \in 0..Len(events) : VerdictsUpTo(m)
    BY DEF Verdicts
  <2>2. DOMAIN events = 1..Len(events) /\ Len(events) \in Nat /\ Len(events) # 0
    BY PollParts DEF Known
  <2>3. 1..m = 1..Len(events) /\ Shows(row.status, m)
    BY <2>1, <2>2, Zenon DEF VerdictsUpTo
  <2>4. m = Len(events)
    BY <2>2, <2>3, WholeRange, Zenon
  <2> QED
    BY <2>2, <2>3, <2>4 DEF Shows
<1> QED
  BY <1>1, <1>2, <1>3, <1>4, PTL DEF LifecycleSpec
=============================================================================
