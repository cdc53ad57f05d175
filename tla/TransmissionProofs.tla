-------------------------- MODULE TransmissionProofs --------------------------
(***************************************************************************)
(* Theorems about Transmission, for any set of workers and pollers, any    *)
(* handlers and faults, and any bounds: what the row says of the PA has    *)
(* happened there, and a payment is not lost once the invoice is issued.   *)
(***************************************************************************)
EXTENDS Transmission, TLAPS

----------------------------------------------------------------------------
(* Type correctness.                                                       *)

\* A flow that an object names is one the PA knows; the fallback reads it.
FlowsKnown ==
  /\ row.flow <= Len(flows)
  /\ \A w \in Workers :
       /\ copy[w].flow <= Len(flows)
       /\ pc[w] = "flow_check" => copy[w].flow # 0

TypeInv == TransmissionTypeOK /\ FlowsKnown

LEMMA ForgottenIsARow == Forgotten \in Row /\ Forgotten.flow = 0
  BY DEF Forgotten, NewRow, Row, Status

\* What the handlers make of a row is a row, which names the same flow unless it is
\* given one.
LEMMA TransmittedRowTypes ==
  ASSUME NEW r \in Row
  PROVE  /\ \A s \in Status : /\ [r EXCEPT !.status = s] \in Row
                              /\ [r EXCEPT !.status = s].flow = r.flow
         /\ \A n \in Nat : /\ [r EXCEPT !.flow = n] \in Row
                           /\ [r EXCEPT !.flow = n].flow = n
         /\ PaidCopy(r) \in Row /\ PaidCopy(r).flow = r.flow
         /\ r.flow \in Nat
  BY DEF Row, Status, PaidCopy

LEMMA WithFlow ==
  ASSUME NEW r \in Row, NEW n \in Nat
  PROVE  [r EXCEPT !.flow = n] \in Row /\ [r EXCEPT !.flow = n].flow = n
  BY DEF Row, Status

LEMMA StatusesSaved ==
  /\ {"validated", "transmitting", "cancelled"} \subseteq Status
  /\ \A c \in Codes : StatusOf[c] \in Status
  /\ \A a : AckStatus(a) \in Status
  BY DEF Codes, StatusOf, Status, AckStatus

LEMMA OneMore ==
  ASSUME NEW S, NEW s \in Seq(S), NEW e \in S
  PROVE  /\ Append(s, e) \in Seq(S)
         /\ Len(Append(s, e)) = Len(s) + 1
         /\ DOMAIN Append(s, e) = 1..(Len(s) + 1)
         /\ \A i \in DOMAIN s : Append(s, e)[i] = s[i]
         /\ Append(s, e)[Len(s) + 1] = e
  OBVIOUS

LEMMA Submitted ==
  ASSUME NEW s \in Seq({"pending", "ok", "error"})
  PROVE  /\ Append(s, "pending") \in Seq({"pending", "ok", "error"})
         /\ Len(Append(s, "pending")) = Len(s) + 1
         /\ Len(s) \in Nat
  OBVIOUS

LEMMA InitTyped == TransmissionInit => TypeInv
<1> SUFFICES ASSUME TransmissionInit PROVE TypeInv
  OBVIOUS
<1>1. PICK p \in BOOLEAN :
        /\ row = [NewRow(1) EXCEPT !.status = "validated", !.pdf = "facturx", !.payment = p]
        /\ received = p
  BY DEF TransmissionInit
<1>2. row \in Row /\ row.flow = 0
  BY <1>1 DEF NewRow, Row, Status
<1>3. PaTypeOK
  <2>1. /\ flows = <<>> /\ events = <<>> /\ logged = {}
        /\ credited = FALSE /\ reported = 0
        /\ seen = [w \in Workers |-> 0] /\ known = [w \in Workers |-> {}]
    BY DEF TransmissionInit, PaInit
  <2>2. flows \in Seq({"pending", "ok", "error"}) /\ events \in Seq(Codes)
    BY <2>1
  <2>3. Len(events) = 0
    BY <2>1
  <2>4. seen \in [Workers -> 0..Len(events)]
    BY <2>1, <2>3
  <2>5. known \in [Workers -> SUBSET DOMAIN events] /\ logged \subseteq DOMAIN events
    BY <2>1
  <2>6. reported = 0 /\ credited = FALSE
    BY <2>1
  <2>7. reported \in 0..2
    BY <2>6
  <2>8. credited \in BOOLEAN
    BY <2>6
  <2> QED
    BY <2>2, <2>4, <2>5, <2>7, <2>8, Zenon DEF PaTypeOK
<1>4. TransmissionTypeOK
  BY <1>1, <1>2, <1>3, ForgottenIsARow DEF TransmissionInit, TransmissionTypeOK, Tasks
<1>5. FlowsKnown
  BY <1>2, ForgottenIsARow DEF TransmissionInit, PaInit, FlowsKnown
<1> QED
  BY <1>4, <1>5 DEF TypeInv

\* A step of the requests keeps the PA's side, and its saves keep the flow.
LEMMA RequestsTyped ==
  ASSUME TypeInv, NEW w \in Workers, TransmissionRequest(w)
  PROVE  TypeInv'
<1> USE DEF TypeInv, TransmissionTypeOK, FlowsKnown, PaTypeOK, TransmissionLabels, paVars
<1>1. CASE OpenTransmit(w)
  BY <1>1 DEF OpenTransmit, Open, Read
<1>2. CASE RequestTransmission(w)
  BY <1>2, ForgottenIsARow, TransmittedRowTypes, StatusesSaved
  DEF RequestTransmission, SaveFields, SendNext
<1>3. CASE SendTransmit(w)
  BY <1>3, ForgottenIsARow DEF SendTransmit, Send, Finish, Tasks
<1>4. CASE OpenMarkPaid(w)
  BY <1>4 DEF OpenMarkPaid, Open, Read
<1>5. CASE OpenOnlinePayment(w)
  BY <1>5 DEF OpenOnlinePayment, Read
<1>6. CASE MarkPaid(w)
  BY <1>6, ForgottenIsARow, TransmittedRowTypes DEF MarkPaid, Save, SendNext
<1>7. CASE SendPaid212(w)
  BY <1>7, ForgottenIsARow DEF SendPaid212, Send, Finish, Tasks
<1> QED
  BY <1>1, <1>2, <1>3, <1>4, <1>5, <1>6, <1>7 DEF TransmissionRequest

LEMMA SubmitTyped ==
  ASSUME TypeInv, NEW w \in Workers, SubmitFlow(w)
  PROVE  TypeInv'
<1> DEFINE Acks == {"pending", "ok", "error"}
<1>1. /\ TransmissionTypeOK /\ FlowsKnown /\ PaTypeOK
      /\ flows \in Seq(Acks) /\ copy \in [Workers -> Row]
  BY DEF TypeInv, TransmissionTypeOK, PaTypeOK
<1>2. \A v \in Workers : copy[v] \in Row /\ copy[v].flow \in Nat /\ copy[v].flow <= Len(flows)
  BY <1>1 DEF FlowsKnown, Row
<1>3. Len(flows) \in Nat
  BY <1>1
<1>4. PICK f \in FlowIds :
        \/ flows' = flows /\ copy' = copy
        \/ flows' = Append(flows, "pending") /\ copy' = copy
        \/ /\ flows' = Append(flows, "pending")
           /\ copy' = [copy EXCEPT ![w] = [copy[w] EXCEPT !.flow = f]]
  BY <1>1 DEF SubmitFlow, FlowIds
<1>11. f \in Nat /\ f <= Len(flows) + 1
  BY <1>3 DEF FlowIds
<1>5. /\ Append(flows, "pending") \in Seq(Acks)
      /\ Len(Append(flows, "pending")) = Len(flows) + 1
  BY <1>1, Submitted
<1>6. /\ flows' \in Seq(Acks)
      /\ Len(flows') \in Nat /\ Len(flows) <= Len(flows')
  BY <1>1, <1>3, <1>4, <1>5
<1>7. copy' \in [Workers -> Row] /\ \A v \in Workers : copy'[v].flow <= Len(flows')
  <2>1. CASE copy' = copy
    BY <1>1, <1>2, <1>3, <1>6, <2>1
  <2>2. CASE copy' # copy
    <3> DEFINE r == [copy[w] EXCEPT !.flow = f]
    <3>1. r \in Row /\ r.flow = f
      <4>1. copy[w] \in Row /\ f \in Nat
        BY <1>2, <1>11
      <4> QED
        BY <4>1, WithFlow
    <3>2. copy' = [copy EXCEPT ![w] = r] /\ Len(flows') = Len(flows) + 1
      BY <1>4, <1>5, <2>2
    <3> HIDE DEF r
    <3>3. copy' \in [Workers -> Row]
      BY <1>1, <3>1, <3>2
    <3>4. ASSUME NEW v \in Workers PROVE copy'[v].flow <= Len(flows')
      <4>1. CASE v = w
        BY <1>1, <1>3, <1>11, <3>1, <3>2, <4>1
      <4>2. CASE v # w
        <5>1. copy'[v] = copy[v]
          BY <1>1, <3>2, <4>2
        <5> QED
          BY <5>1, <1>2, <1>3, <3>2
      <4> QED
        BY <4>1, <4>2
    <3> QED
      BY <3>3, <3>4
  <2> QED
    BY <2>1, <2>2
<1>8. /\ pc' \in [Workers -> {"idle"} \union TransmissionLabels]
      /\ pc[w] = "submit"
      /\ \A v \in Workers : pc'[v] = "flow_check" => pc[v] = "flow_check" /\ copy'[v] = copy[v]
  BY <1>1 DEF SubmitFlow, TransmissionTypeOK, TransmissionLabels
<1>9. FlowsKnown'
  <2>1. row' = row /\ row \in Row /\ row.flow \in Nat /\ row.flow <= Len(flows)
    BY <1>1 DEF SubmitFlow, FlowsKnown, TransmissionTypeOK, Row
  <2>2. row'.flow <= Len(flows')
    BY <2>1, <1>3, <1>6
  <2> QED
    BY <1>1, <1>7, <1>8, <2>2 DEF FlowsKnown
<1>10. PaTypeOK'
  BY <1>1, <1>6 DEF SubmitFlow, PaTypeOK
<1> QED
  BY <1>1, <1>7, <1>8, <1>9, <1>10 DEF SubmitFlow, TypeInv, TransmissionTypeOK

LEMMA TasksTyped ==
  ASSUME TypeInv, NEW w \in Workers, TransmissionTask(w)
  PROVE  TypeInv'
<1> USE DEF TypeInv, TransmissionTypeOK, FlowsKnown, PaTypeOK, TransmissionLabels, paVars
<1>1. CASE TakeTransmit(w)
  <2>1. queue' = [queue EXCEPT !["transmit"] = @ - 1] /\ queue["transmit"] > 0
    BY <1>1 DEF TakeTransmit, Take, Drop
  <2>2. queue' \in [Tasks -> Nat]
    BY <2>1 DEF Tasks
  <2>3. CASE Take(w, "transmit", "submit") /\ UNCHANGED paVars
    BY <2>2, <2>3 DEF Take, Read
  <2>4. CASE Drop("transmit") /\ UNCHANGED paVars
    BY <2>2, <2>4 DEF Drop
  <2> QED
    BY <1>1, <2>3, <2>4 DEF TakeTransmit
<1>2. CASE SubmitFlow(w)
  BY <1>2, SubmitTyped
<1>3. CASE SaveFlow(w)
  BY <1>3, ForgottenIsARow, TransmittedRowTypes DEF SaveFlow, SaveFields, Finish
<1>4. CASE RevertTransmission(w)
  BY <1>4, ForgottenIsARow, TransmittedRowTypes, StatusesSaved
  DEF RevertTransmission, SaveFields, Finish
<1>5. CASE OpenAutoCancel(w)
  BY <1>5 DEF OpenAutoCancel, Read
<1>6. CASE AutoCancel(w)
  BY <1>6, ForgottenIsARow, TransmittedRowTypes, StatusesSaved
  DEF AutoCancel, SaveFields, Finish
<1> QED
  BY <1>1, <1>2, <1>3, <1>4, <1>5, <1>6 DEF TransmissionTask

LEMMA EndPollTyped ==
  ASSUME TypeInv, NEW w \in Workers, EndPoll(w),
         UNCHANGED <<row, queue, drawn, received, clean, Rest>>
  PROVE  TypeInv'
BY ForgottenIsARow
DEF TypeInv, TransmissionTypeOK, FlowsKnown, PaTypeOK, TransmissionLabels,
    Rest, EndPoll, Finish

\* A poll that has saved status st of its object.
LEMMA StatusTyped ==
  ASSUME TypeInv, NEW w \in Workers, NEW st \in Status,
         NEW k \in SUBSET DOMAIN events, NEW l \in {"event", "auto_paid"},
         SaveFields(w, [row EXCEPT !.status = st], {"status"}),
         copy' = [copy EXCEPT ![w] = [copy[w] EXCEPT !.status = st]],
         pc' = [pc EXCEPT ![w] = l],
         known' = [known EXCEPT ![w] = k],
         UNCHANGED <<queue, drawn, received, seen, Rest>>
  PROVE  TypeInv'
<1>1. /\ row \in Row /\ copy \in [Workers -> Row] /\ copy[w] \in Row
      /\ clean \in BOOLEAN
  BY DEF TypeInv, TransmissionTypeOK
<1>2. row' \in Row /\ row'.flow = row.flow
  BY <1>1, TransmittedRowTypes DEF SaveFields
<1>3. /\ [copy[w] EXCEPT !.status = st] \in Row
      /\ [copy[w] EXCEPT !.status = st].flow = copy[w].flow
  BY <1>1, TransmittedRowTypes
<1>4. copy' \in [Workers -> Row] /\ \A v \in Workers : copy'[v].flow = copy[v].flow
  BY <1>1, <1>3
<1>5. clean' \in BOOLEAN
  BY DEF SaveFields
<1>6. pc' \in [Workers -> {"idle"} \union TransmissionLabels]
  BY DEF TypeInv, TransmissionTypeOK, TransmissionLabels
<1>7. PaTypeOK'
  BY DEF TypeInv, TransmissionTypeOK, PaTypeOK, Rest
<1>8. FlowsKnown'
  BY <1>2, <1>4 DEF TypeInv, TransmissionTypeOK, FlowsKnown, Rest
<1> QED
  BY <1>2, <1>4, <1>5, <1>6, <1>7, <1>8 DEF TypeInv, TransmissionTypeOK

LEMMA PollTyped ==
  ASSUME TypeInv, NEW w \in Workers, Poll(w) \/ PollStep(w)
  PROVE  TypeInv'
<1> USE DEF TypeInv, TransmissionTypeOK, FlowsKnown, PaTypeOK, TransmissionLabels, paVars, Rest
<1>1. CASE Poll(w)
  BY <1>1 DEF Poll
<1>2. CASE ReadForEvents(w)
  <2>1. CASE EndPoll(w)
    BY <1>2, <2>1, EndPollTyped DEF ReadForEvents
  <2>2. CASE ~EndPoll(w)
    BY <1>2, <2>2 DEF ReadForEvents
  <2> QED
    BY <2>1, <2>2
<1>3. CASE ReadLogs(w)
  BY <1>3 DEF ReadLogs
<1>4. CASE LogEvent(w)
  BY <1>4 DEF LogEvent, Due
<1>5. CASE ApplyEvent(w)
  <2>1. PICK i \in Due(w) : ApplyEvent(w)!2!(i)
    BY <1>5 DEF ApplyEvent
  <2> DEFINE s == StatusOf[events[i]]
  <2>2. s \in Status /\ i \in DOMAIN events /\ known[w] \union {i} \subseteq DOMAIN events
    BY <2>1, StatusesSaved DEF Due
  <2>3. CASE CanTransition(copy[w].status, s)
    BY <1>5, <2>1, <2>2, <2>3, StatusTyped DEF ApplyEvent, NextAfter
  <2>4. CASE ~CanTransition(copy[w].status, s)
    BY <1>5, <2>1, <2>2, <2>4 DEF ApplyEvent
  <2> QED
    BY <2>3, <2>4
<1>6. CASE AutoMarkPaid(w)
  BY <1>6, TransmittedRowTypes DEF AutoMarkPaid, Save
<1>7. CASE SendAuto212(w)
  BY <1>7 DEF SendAuto212, Tasks
<1>8. CASE PollEnds(w)
  BY <1>8, ForgottenIsARow DEF PollEnds, EndPoll, Finish
<1>9. CASE ReadForFallback(w)
  <2>1. CASE EndPoll(w)
    BY <1>9, <2>1, EndPollTyped DEF ReadForFallback
  <2>2. CASE ~EndPoll(w)
    BY <1>9, <2>2 DEF ReadForFallback, Stuck
  <2> QED
    BY <2>1, <2>2
<1>10. CASE FallbackApply(w)
  <2> DEFINE a == flows[copy[w].flow]
  <2>1. CASE a # "pending"
    <3>1. known' = [known EXCEPT ![w] = known[w]] /\ known[w] \subseteq DOMAIN events
      BY <1>10, <2>1 DEF FallbackApply
    <3> DEFINE r == [copy[w] EXCEPT !.status = AckStatus(a)]
               l == IF a = "ok" THEN NextAfter(r) ELSE "event"
    <3>2. AckStatus(a) \in Status /\ l \in {"event", "auto_paid"}
      BY StatusesSaved DEF NextAfter
    <3>3. /\ SaveFields(w, [row EXCEPT !.status = AckStatus(a)], {"status"})
          /\ UNCHANGED <<queue, drawn, received, seen, Rest>>
      <4>1. r.status = AckStatus(a)
        BY DEF Row
      <4> QED
        BY <1>10, <2>1, <4>1 DEF FallbackApply
    <3>4. copy' = [copy EXCEPT ![w] = r] /\ pc' = [pc EXCEPT ![w] = l]
      BY <1>10, <2>1 DEF FallbackApply
    <3> HIDE DEF l
    <3> QED
      BY <3>1, <3>2, <3>3, <3>4, StatusTyped
  <2>2. CASE a = "pending"
    BY <1>10, <2>2, EndPollTyped DEF FallbackApply
  <2> QED
    BY <2>1, <2>2
<1> QED
  BY <1>1, <1>2, <1>3, <1>4, <1>5, <1>6, <1>7, <1>8, <1>9, <1>10 DEF PollStep

LEMMA OutsideTyped ==
  ASSUME TypeInv, ReportPaid \/ CancelInvoice \/ Acknowledge \/ Publish
  PROVE  TypeInv'
<1> USE DEF TypeInv, TransmissionTypeOK, FlowsKnown, PaTypeOK, TransmissionLabels, paVars, rowVars
<1>1. CASE ReportPaid
  BY <1>1 DEF ReportPaid, Tasks
<1>2. CASE CancelInvoice
  BY <1>2 DEF CancelInvoice
<1>3. CASE Acknowledge
  BY <1>3 DEF Acknowledge
<1>4. CASE Publish
  BY <1>4, OneMore DEF Publish, NextCodes, Codes
<1> QED
  BY <1>1, <1>2, <1>3, <1>4

LEMMA CrashTyped ==
  ASSUME TypeInv, NEW w \in Workers, CrashPa(w)
  PROVE  TypeInv'
BY ForgottenIsARow
DEF TypeInv, TransmissionTypeOK, FlowsKnown, PaTypeOK, TransmissionLabels, CrashPa, Crash, Finish, Rest

\* Every state the component reaches is of its type, and every flow that an
\* object names is one of the PA's.
THEOREM TransmissionTypeCorrect == TransmissionSpec => []TypeInv
<1>1. TypeInv /\ [TransmissionNext]_<<rowVars, paVars>> => TypeInv'
  <2> SUFFICES ASSUME TypeInv, [TransmissionNext]_<<rowVars, paVars>> PROVE TypeInv'
    OBVIOUS
  <2>1. CASE UNCHANGED <<rowVars, paVars>>
    BY <2>1 DEF rowVars, paVars, TypeInv, TransmissionTypeOK, FlowsKnown, PaTypeOK
  <2> QED
    BY <2>1, RequestsTyped, TasksTyped, PollTyped, OutsideTyped, CrashTyped
    DEF TransmissionNext, TransmissionStep
<1> QED
  BY <1>1, InitTyped, PTL DEF TransmissionSpec

----------------------------------------------------------------------------
(* A payment is kept once the invoice is issued.                           *)

\* The saves of this part either write the payment or leave its column alone.
LEMMA PaymentSaved ==
  ASSUME TypeInv, [TransmissionNext]_<<rowVars, paVars>>
  PROVE  /\ row'.payment = row.payment \/ row'.payment = TRUE
         /\ received' = received \/ row'.payment = TRUE
<1>1. /\ row \in Row /\ copy \in [Workers -> Row]
      /\ \A st : [row EXCEPT !.status = st].payment = row.payment
      /\ \A n : [row EXCEPT !.flow = n].payment = row.payment
      /\ \A w \in Workers : PaidCopy(copy[w]).payment = TRUE
  BY DEF TypeInv, TransmissionTypeOK, Row, PaidCopy
<1>2. ASSUME NEW w \in Workers, TransmissionRequest(w)
      PROVE  /\ row'.payment = row.payment \/ row'.payment = TRUE
             /\ received' = received \/ row'.payment = TRUE
  BY <1>1, <1>2
  DEF TransmissionRequest, OpenTransmit, Open, RequestTransmission, SaveFields,
      SendTransmit, Send, OpenMarkPaid, OpenOnlinePayment, MarkPaid, Save, SendPaid212
<1>3. ASSUME NEW w \in Workers, TransmissionTask(w)
      PROVE  row'.payment = row.payment /\ received' = received
  BY <1>1, <1>3
  DEF TransmissionTask, TakeTransmit, Take, Drop, SubmitFlow, SaveFlow, SaveFields,
      RevertTransmission, OpenAutoCancel, AutoCancel
<1>4. ASSUME NEW w \in Workers, Poll(w) \/ PollStep(w)
      PROVE  /\ row'.payment = row.payment \/ row'.payment = TRUE
             /\ received' = received \/ row'.payment = TRUE
  BY <1>1, <1>4
  DEF Poll, PollStep, ReadForEvents, ReadLogs, LogEvent, ApplyEvent, AutoMarkPaid, Save,
      SendAuto212, PollEnds, ReadForFallback, FallbackApply, SaveFields
<1>5. ASSUME ReportPaid \/ CancelInvoice \/ Acknowledge \/ Publish
      PROVE  row' = row /\ received' = received
  BY <1>5 DEF ReportPaid, CancelInvoice, Acknowledge, Publish, rowVars
<1>6. ASSUME NEW w \in Workers, CrashPa(w)
      PROVE  row' = row /\ received' = received
  BY <1>6 DEF CrashPa, Crash
<1>7. CASE UNCHANGED <<rowVars, paVars>>
  BY <1>7 DEF rowVars
<1> QED
  BY <1>2, <1>3, <1>4, <1>5, <1>6, <1>7 DEF TransmissionNext, TransmissionStep

\* Whatever the handlers interleave from the issue of the invoice on, a payment
\* that was recorded stays on the row (mark_paid, _maybe_auto_mark_paid and the
\* saves of the transmission and of the polls).
THEOREM PaymentIsKept == TransmissionSpec => []PaymentKeptOnceIssued
<1>1. TransmissionInit => PaymentKeptOnceIssued
  BY DEF TransmissionInit, PaymentKeptOnceIssued, NewRow
<1>2. TypeInv /\ PaymentKeptOnceIssued /\ [TransmissionNext]_<<rowVars, paVars>>
      => PaymentKeptOnceIssued'
  BY PaymentSaved DEF PaymentKeptOnceIssued
<1> QED
  BY <1>1, <1>2, TransmissionTypeCorrect, PTL DEF TransmissionSpec

----------------------------------------------------------------------------
(* What the row says of the PA has happened there.                         *)

FlowAccepted == \E i \in DOMAIN flows : flows[i] = "ok"

\* A status is backed by what the PA did.
Backed(s) ==
  /\ s = "transmitted" => FlowAccepted
  /\ \A c \in Codes : s = StatusOf[c] /\ c # "200" => \E i \in DOMAIN events : events[i] = c

\* The PA publishes events of an accepted flow only.
BackedInv ==
  /\ Backed(row.status)
  /\ events # <<>> => FlowAccepted

\* The PA takes nothing back.
LEMMA PaGrows ==
  ASSUME PaTypeOK, [TransmissionNext]_<<rowVars, paVars>>
  PROVE  /\ FlowAccepted => FlowAccepted'
         /\ \A i \in DOMAIN events : i \in DOMAIN events' /\ events'[i] = events[i]
         /\ events' = events \/ FlowAccepted
         /\ flows # <<>> => flows' # <<>>
<1>1. /\ flows \in Seq({"pending", "ok", "error"}) /\ events \in Seq(Codes)
  BY DEF PaTypeOK
<1>2. CASE UNCHANGED <<flows, events>>
  BY <1>2 DEF FlowAccepted
<1>3. ASSUME NEW w \in Workers, SubmitFlow(w), flows' # flows
      PROVE  flows' = Append(flows, "pending") /\ events' = events
  BY <1>3 DEF SubmitFlow
<1>4. CASE flows' = Append(flows, "pending") /\ events' = events
  <2>1. \A i \in DOMAIN flows : i \in DOMAIN flows' /\ flows'[i] = flows[i]
    BY <1>1, <1>4, OneMore
  <2>2. flows' # <<>>
    BY <1>1, <1>4
  <2> QED
    BY <1>4, <2>1, <2>2 DEF FlowAccepted
<1>5. CASE Acknowledge
  <2>1. PICK i \in DOMAIN flows, a \in {"ok", "error"} :
          flows[i] = "pending" /\ flows' = [flows EXCEPT ![i] = a]
    BY <1>5 DEF Acknowledge
  <2>2. DOMAIN flows' = DOMAIN flows /\ flows' # <<>>
    BY <1>1, <2>1
  <2> QED
    BY <1>5, <2>1, <2>2 DEF Acknowledge, FlowAccepted
<1>6. CASE Publish
  <2>1. FlowAccepted /\ flows' = flows
    BY <1>6 DEF Publish, FlowAccepted
  <2>2. PICK c \in Codes : events' = Append(events, c)
    BY <1>6 DEF Publish, NextCodes, Codes
  <2>3. \A i \in DOMAIN events : i \in DOMAIN events' /\ events'[i] = events[i]
    BY <1>1, <2>2, OneMore
  <2> QED
    BY <2>1, <2>3 DEF FlowAccepted
<1>7. ASSUME NEW w \in Workers,
             TransmissionRequest(w) \/ (TransmissionTask(w) /\ ~SubmitFlow(w))
      PROVE  UNCHANGED <<flows, events>>
  BY <1>7
  DEF TransmissionRequest, OpenTransmit, RequestTransmission, SendTransmit,
      OpenMarkPaid, OpenOnlinePayment, MarkPaid, SendPaid212, TransmissionTask,
      TakeTransmit, SaveFlow, RevertTransmission, OpenAutoCancel, AutoCancel, paVars
<1>8. ASSUME NEW w \in Workers, Poll(w) \/ PollStep(w) \/ CrashPa(w)
      PROVE  UNCHANGED <<flows, events>>
  BY <1>8
  DEF Poll, PollStep, ReadForEvents, ReadLogs, LogEvent, ApplyEvent, AutoMarkPaid,
      SendAuto212, PollEnds, ReadForFallback, FallbackApply, CrashPa, Rest, paVars
<1>9. ASSUME ReportPaid \/ CancelInvoice PROVE UNCHANGED <<flows, events>>
  BY <1>9 DEF ReportPaid, CancelInvoice
<1>10. ASSUME NEW w \in Workers, SubmitFlow(w) PROVE events' = events
  BY <1>10 DEF SubmitFlow
<1> QED
  BY <1>2, <1>3, <1>4, <1>5, <1>6, <1>7, <1>8, <1>9, <1>10
  DEF TransmissionNext, TransmissionStep, paVars

\* A status that a step gives the row is one that needs no backing, or is the
\* meaning of an event the poll found, or of a flow it found accepted.
StatusFrom(s) ==
  \/ s \in {"validated", "transmitting", "paid", "cancelled"}
  \/ \E i \in DOMAIN events : s = StatusOf[events[i]]
  \/ s = "transmitted" /\ FlowAccepted

LEMMA StatusGiven ==
  ASSUME TypeInv, [TransmissionNext]_<<rowVars, paVars>>
  PROVE  row'.status = row.status \/ StatusFrom(row'.status)
<1>1. /\ row \in Row /\ copy \in [Workers -> Row]
      /\ \A st : [row EXCEPT !.status = st].status = st
      /\ \A n : [row EXCEPT !.flow = n].status = row.status
      /\ \A w \in Workers : PaidCopy(copy[w]).status = "paid"
  BY DEF TypeInv, TransmissionTypeOK, Row, PaidCopy
<1>2. ASSUME NEW w \in Workers, TransmissionRequest(w)
      PROVE  row'.status = row.status \/ StatusFrom(row'.status)
  BY <1>1, <1>2
  DEF TransmissionRequest, OpenTransmit, Open, RequestTransmission, SaveFields, SendTransmit,
      Send, OpenMarkPaid, OpenOnlinePayment, MarkPaid, Save, SendPaid212, StatusFrom
<1>3. ASSUME NEW w \in Workers, TransmissionTask(w)
      PROVE  row'.status = row.status \/ StatusFrom(row'.status)
  BY <1>1, <1>3
  DEF TransmissionTask, TakeTransmit, Take, Drop, SubmitFlow, SaveFlow, SaveFields,
      RevertTransmission, OpenAutoCancel, AutoCancel, StatusFrom
<1>4. ASSUME NEW w \in Workers, ApplyEvent(w)
      PROVE  row'.status = row.status \/ StatusFrom(row'.status)
  <2>1. PICK i \in Due(w) : ApplyEvent(w)!2!(i)
    BY <1>4 DEF ApplyEvent
  <2>2. i \in DOMAIN events
    BY <2>1 DEF Due, TypeInv, TransmissionTypeOK, PaTypeOK
  <2> QED
    BY <1>1, <2>1, <2>2 DEF SaveFields, StatusFrom
<1>5. ASSUME NEW w \in Workers, FallbackApply(w)
      PROVE  row'.status = row.status \/ StatusFrom(row'.status)
  <2> DEFINE n == copy[w].flow
  <2>1. n \in DOMAIN flows
    BY <1>5 DEF FallbackApply, TypeInv, TransmissionTypeOK, FlowsKnown, PaTypeOK, Row
  <2>2. CASE flows[n] = "pending"
    BY <1>5, <2>2 DEF FallbackApply
  <2>3. CASE flows[n] # "pending"
    <3>1. row'.status = AckStatus(flows[n])
      BY <1>1, <1>5, <2>3 DEF FallbackApply, SaveFields, Row
    <3> QED
      BY <2>1, <3>1 DEF AckStatus, StatusFrom, FlowAccepted
  <2> QED
    BY <2>2, <2>3
<1>6. ASSUME NEW w \in Workers, AutoMarkPaid(w)
      PROVE  StatusFrom(row'.status)
  BY <1>1, <1>6 DEF AutoMarkPaid, Save, StatusFrom
<1>7. ASSUME NEW w \in Workers,
             \/ Poll(w) \/ ReadForEvents(w) \/ ReadLogs(w) \/ LogEvent(w)
             \/ SendAuto212(w) \/ PollEnds(w) \/ ReadForFallback(w) \/ CrashPa(w)
      PROVE  row' = row
  BY <1>7
  DEF Poll, ReadForEvents, ReadLogs, LogEvent, SendAuto212, PollEnds, ReadForFallback,
      CrashPa, Crash
<1>8. ASSUME ReportPaid \/ CancelInvoice \/ Acknowledge \/ Publish
      PROVE  row' = row
  BY <1>8 DEF ReportPaid, CancelInvoice, Acknowledge, Publish, rowVars
<1>9. CASE UNCHANGED <<rowVars, paVars>>
  BY <1>9 DEF rowVars
<1> QED
  BY <1>2, <1>3, <1>4, <1>5, <1>6, <1>7, <1>8, <1>9
  DEF TransmissionNext, TransmissionStep, PollStep

LEMMA BackedStep ==
  ASSUME TypeInv, BackedInv, [TransmissionNext]_<<rowVars, paVars>>
  PROVE  BackedInv'
<1>1. PaTypeOK /\ events \in Seq(Codes)
  BY DEF TypeInv, TransmissionTypeOK, PaTypeOK
<1>2. ASSUME NEW s, StatusFrom(s) PROVE Backed(s)
  <2>1. CASE s \in {"validated", "transmitting", "paid", "cancelled"}
    BY <2>1 DEF Backed, StatusOf, Codes
  <2>2. CASE s = "transmitted" /\ FlowAccepted
    BY <2>2 DEF Backed, StatusOf, Codes
  <2>3. ASSUME NEW i \in DOMAIN events, s = StatusOf[events[i]] PROVE Backed(s)
    <3>1. events[i] \in Codes /\ events # <<>>
      BY <1>1
    <3>2. FlowAccepted
      BY <3>1 DEF BackedInv
    <3>3. \A c, d \in Codes : StatusOf[c] = StatusOf[d] => c = d
      BY DEF StatusOf, Codes
    <3> QED
      BY <2>3, <3>1, <3>2, <3>3 DEF Backed
  <2> QED
    BY <1>2, <2>1, <2>2, <2>3 DEF StatusFrom
<1>3. Backed(row'.status)
  BY <1>2, StatusGiven DEF BackedInv
<1>4. Backed(row.status)'
  BY <1>1, <1>3, PaGrows DEF Backed
<1>5. events' # <<>> => FlowAccepted'
  BY <1>1, PaGrows DEF BackedInv
<1> QED
  BY <1>4, <1>5 DEF BackedInv

\* No interleaving of submissions, polls and crashes makes the row say more than
\* the PA did: transmitted needs an accepted flow, a verdict its published event
\* (_process_cdar_events, _apply_flow_fallback).
THEOREM BackedByPA == TransmissionSpec => []BackedByThePA
<1>1. TransmissionInit => BackedInv
  BY DEF TransmissionInit, PaInit, NewRow, BackedInv, Backed, StatusOf, Codes
<1>2. TypeInv /\ BackedInv /\ [TransmissionNext]_<<rowVars, paVars>> => BackedInv'
  BY BackedStep
<1>3. BackedInv => BackedByThePA
  BY DEF BackedInv, Backed, BackedByThePA, FlowAccepted
<1> QED
  BY <1>1, <1>2, <1>3, TransmissionTypeCorrect, PTL DEF TransmissionSpec
=============================================================================
