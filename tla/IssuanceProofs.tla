--------------------------- MODULE IssuanceProofs ---------------------------
(***************************************************************************)
(* Theorems about Issuance, for any set of workers and any bounds.         *)
(***************************************************************************)
EXTENDS Issuance, TLAPS

----------------------------------------------------------------------------
(* Type correctness.                                                       *)

LEMMA NewRowType == \A n \in Nat : NewRow(n) \in Row
  BY DEF NewRow, Row, Status

LEMMA ForgottenType == Forgotten \in Row
  BY NewRowType DEF Forgotten

\* What the handlers make of a row is a row.
LEMMA EditedRowTypes ==
  ASSUME NEW r \in Row
  PROVE  /\ Edited(r) \in Row
         /\ [r EXCEPT !.deleted = TRUE] \in Row
         /\ [r EXCEPT !.payment = TRUE] \in Row
         /\ [r EXCEPT !.pdf = "source"] \in Row
         /\ [r EXCEPT !.status = "draft"] \in Row
         /\ [r EXCEPT !.status = "validated", !.pdf = "facturx"] \in Row
         /\ \A n \in Nat :
              [r EXCEPT !.status = "processing", !.number = n,
                 !.ereporting = IF EreportingFlow THEN "pending" ELSE @] \in Row
<1>1. Edited(r) \in Row
  <2>1. r.version + 1 \in Nat
    BY DEF Row
  <2>2. \A n \in Nat : [r EXCEPT !.version = n, !.pdf = "none"] \in Row
    BY DEF Row
  <2> QED
    BY <2>1, <2>2 DEF Edited
<1>2. [r EXCEPT !.deleted = TRUE] \in Row /\ [r EXCEPT !.payment = TRUE] \in Row
  BY DEF Row
<1>3. [r EXCEPT !.pdf = "source"] \in Row /\ [r EXCEPT !.status = "draft"] \in Row
  BY DEF Row, Status
<1>4. [r EXCEPT !.status = "validated", !.pdf = "facturx"] \in Row
  BY DEF Row, Status
<1>5. ASSUME NEW n \in Nat
      PROVE  [r EXCEPT !.status = "processing", !.number = n,
                !.ereporting = IF EreportingFlow THEN "pending" ELSE @] \in Row
  BY RowAssumption DEF Row, Status
<1> QED
  BY <1>1, <1>2, <1>3, <1>4, <1>5

\* Every state the component reaches is of its type.
THEOREM IssuanceTypeCorrect == IssuanceSpec => []TypeOK
<1>1. ASSUME RowInit PROVE TypeOK
  <2>1. PICK n \in {0, 1} : row = NewRow(n) /\ drawn = n
    BY <1>1 DEF RowInit
  <2>2. row \in Row /\ drawn \in Nat
    BY <2>1, NewRowType
  <2> QED
    BY <1>1, <2>2, ForgottenType DEF RowInit, TypeOK
<1>2. TypeOK /\ [IssuanceNext]_rowVars => TypeOK'
  <2> SUFFICES ASSUME TypeOK, [IssuanceNext]_rowVars
               PROVE  TypeOK'
    OBVIOUS
  <2> USE RowAssumption, IssuanceAssumption DEF TypeOK, IssuanceLabels, Tasks
  <2>1. ASSUME NEW w \in Workers, IssuanceRequest(w)
        PROVE  TypeOK'
    <3>1. CASE OpenEdit(w)
      BY <3>1 DEF OpenEdit, Open, Read
    <3>2. CASE UpdateInvoice(w)
      BY <3>2, EditedRowTypes, ForgottenType DEF UpdateInvoice, Save, Finish
    <3>3. CASE OpenDelete(w)
      BY <3>3 DEF OpenDelete, Open, Read
    <3>4. CASE SoftDelete(w)
      BY <3>4, EditedRowTypes, ForgottenType DEF SoftDelete, SaveFields, Finish
    <3>5. CASE OpenValidate(w)
      BY <3>5 DEF OpenValidate, Open, Read
    <3>6. CASE ValidateInvoice(w)
      <4>1. NumberFor(copy[w]) \in Nat
        BY DEF NumberFor, Row
      <4>2. row' \in Row
        BY <3>6, <4>1, EditedRowTypes DEF ValidateInvoice, Save
      <4> QED
        BY <3>6, <4>2, ForgottenType DEF ValidateInvoice, Save, SendNext
    <3>7. CASE SendGenerate(w)
      BY <3>7, ForgottenType DEF SendGenerate, Send, Finish
    <3>8. CASE OpenRecordPayment(w)
      BY <3>8 DEF OpenRecordPayment, Read
    <3>9. CASE RecordPayment(w)
      BY <3>9, EditedRowTypes, ForgottenType DEF RecordPayment, SaveFields, Finish
    <3> QED
      BY <2>1, <3>1, <3>2, <3>3, <3>4, <3>5, <3>6, <3>7, <3>8, <3>9
      DEF IssuanceRequest
  <2>2. ASSUME NEW w \in Workers, IssuanceTask(w)
        PROVE  TypeOK'
    <3>1. CASE TakePreview(w)
      BY <3>1 DEF TakePreview, Take, Read
    <3>2. CASE GenerateSourcePdf(w)
      BY <3>2, EditedRowTypes, ForgottenType DEF GenerateSourcePdf, Save, Finish
    <3>3. CASE TakeGenerate(w)
      BY <3>3 DEF TakeGenerate, Take, Read, Drop
    <3>4. CASE GenerateSucceeds(w)
      BY <3>4, EditedRowTypes DEF GenerateSucceeds, Save
    <3>5. CASE GenerateFails(w)
      BY <3>5, EditedRowTypes, ForgottenType DEF GenerateFails, Save, Finish
    <3>6. CASE AfterGeneration(w)
      BY <3>6, ForgottenType DEF AfterGeneration, WithEreporting, Finish
    <3>7. CASE AfterGenerationFails(w)
      <4>1. row' \in Row
        BY <3>7, EditedRowTypes DEF AfterGenerationFails, Save
      <4>2. clean' \in BOOLEAN
        BY <3>7 DEF AfterGenerationFails, Save
      <4> QED
        BY <3>7, <4>1, <4>2, ForgottenType DEF AfterGenerationFails, Finish
    <3>8. CASE SendEreporting(w)
      BY <3>8 DEF SendEreporting, WithEreporting
    <3> QED
      BY <2>2, <3>1, <3>2, <3>3, <3>4, <3>5, <3>6, <3>7, <3>8
      DEF IssuanceTask, Generate
  <2>3. ASSUME NEW w \in Workers, Crash(w)
        PROVE  TypeOK'
    BY <2>3, ForgottenType DEF Crash, Finish
  <2>4. CASE RequestPreview
    BY <2>4 DEF RequestPreview
  <2>5. CASE UNCHANGED rowVars
    BY <2>5 DEF rowVars
  <2> QED
    BY <2>1, <2>2, <2>3, <2>4, <2>5 DEF IssuanceNext
<1> QED
  BY <1>1, <1>2, PTL DEF IssuanceSpec

----------------------------------------------------------------------------
(* Every save writes a complete invoice.                                   *)

\* No preview was requested, and none runs: its task is the one that saves a
\* document of its own on an invoice of any status.
NoPreview ==
  /\ queue["preview"] = 0
  /\ \A w \in Workers : pc[w] # "preview"

\* A stale object is complete too: that is why no interleaving can produce an
\* issued invoice without number or document.
CompleteInv ==
  /\ TypeOK
  /\ "preview" \notin Handlers => NoPreview
  /\ Complete(row)
  /\ \A w \in Workers : Complete(copy[w])
  /\ \A w \in Workers :
       /\ pc[w] = "edit" => copy[w].status = "draft"
       /\ pc[w] = "generate" => copy[w].status = "processing"

LEMMA CompleteRows ==
  ASSUME NEW r \in Row, Complete(r)
  PROVE  /\ r.status = "draft" => Complete(Edited(r))
         /\ Complete([r EXCEPT !.deleted = TRUE])
         /\ Complete([r EXCEPT !.payment = TRUE])
         /\ Complete([r EXCEPT !.status = "draft"])
         /\ "preview" \in Handlers => Complete([r EXCEPT !.pdf = "source"])
         /\ r.status # "draft" =>
              Complete([r EXCEPT !.status = "validated", !.pdf = "facturx"])
         /\ \A n \in Nat : n # 0 =>
              Complete([r EXCEPT !.status = "processing", !.number = n,
                         !.ereporting = IF EreportingFlow THEN "pending" ELSE @])
  BY DEF Complete, Documents, Issued, Status, Row, Edited

LEMMA CompleteNew == Complete(Forgotten) /\ \A n \in Nat : Complete(NewRow(n))
  BY DEF Complete, Issued, Status, NewRow, Forgotten

LEMMA CompleteInvHolds == IssuanceSpec => []CompleteInv
<1>1. ASSUME TypeOK, RowInit PROVE CompleteInv
  <2>1. PICK n \in {0, 1} : row = NewRow(n)
    BY <1>1 DEF RowInit
  <2> QED
    BY <1>1, <2>1, CompleteNew DEF RowInit, CompleteInv, NoPreview, Tasks
<1>2. TypeOK' /\ CompleteInv /\ [IssuanceNext]_rowVars => CompleteInv'
  <2> SUFFICES ASSUME TypeOK', CompleteInv, [IssuanceNext]_rowVars
               PROVE  CompleteInv'
    OBVIOUS
  <2> USE DEF CompleteInv, NoPreview, TypeOK, Tasks
  <2>1. ASSUME NEW w \in Workers, IssuanceRequest(w)
        PROVE  CompleteInv'
    <3>1. CASE OpenEdit(w)
      BY <3>1 DEF OpenEdit, Open, Read, IsEditable
    <3>2. CASE UpdateInvoice(w)
      BY <3>2, CompleteRows, CompleteNew DEF UpdateInvoice, Save, Finish
    <3>3. CASE OpenDelete(w)
      BY <3>3 DEF OpenDelete, Open, Read
    <3>4. CASE SoftDelete(w)
      BY <3>4, CompleteRows, CompleteNew DEF SoftDelete, SaveFields, Finish
    <3>5. CASE OpenValidate(w)
      BY <3>5 DEF OpenValidate, Open, Read
    <3>6. CASE ValidateInvoice(w)
      <4>1. NumberFor(copy[w]) \in Nat /\ NumberFor(copy[w]) # 0
        BY DEF NumberFor, Row
      <4>2. Complete(row')
        BY <3>6, <4>1, CompleteRows DEF ValidateInvoice, Save
      <4> QED
        BY <3>6, <4>2, CompleteNew DEF ValidateInvoice, Save, SendNext
    <3>7. CASE SendGenerate(w)
      BY <3>7, CompleteNew DEF SendGenerate, Send, Finish
    <3>8. CASE OpenRecordPayment(w)
      BY <3>8 DEF OpenRecordPayment, Read
    <3>9. CASE RecordPayment(w)
      BY <3>9, CompleteRows, CompleteNew DEF RecordPayment, SaveFields, Finish
    <3> QED
      BY <2>1, <3>1, <3>2, <3>3, <3>4, <3>5, <3>6, <3>7, <3>8, <3>9
      DEF IssuanceRequest
  <2>2. ASSUME NEW w \in Workers, IssuanceTask(w)
        PROVE  CompleteInv'
    <3>1. CASE TakePreview(w)
      BY <3>1 DEF TakePreview, Take, Read
    <3>2. CASE GenerateSourcePdf(w)
      BY <3>2, CompleteRows, CompleteNew DEF GenerateSourcePdf, Save, Finish
    <3>3. CASE TakeGenerate(w)
      BY <3>3 DEF TakeGenerate, Take, Read, Drop
    <3>4. CASE GenerateSucceeds(w)
      BY <3>4, CompleteRows DEF GenerateSucceeds, Save
    <3>5. CASE GenerateFails(w)
      BY <3>5, CompleteRows, CompleteNew DEF GenerateFails, Save, Finish
    <3>6. CASE AfterGeneration(w)
      BY <3>6, CompleteNew DEF AfterGeneration, WithEreporting, Finish
    <3>7. CASE AfterGenerationFails(w)
      BY <3>7, CompleteRows, CompleteNew DEF AfterGenerationFails, Save, Finish
    <3>8. CASE SendEreporting(w)
      BY <3>8 DEF SendEreporting, WithEreporting
    <3> QED
      BY <2>2, <3>1, <3>2, <3>3, <3>4, <3>5, <3>6, <3>7, <3>8
      DEF IssuanceTask, Generate
  <2>3. ASSUME NEW w \in Workers, Crash(w)
        PROVE  CompleteInv'
    BY <2>3, CompleteNew DEF Crash, Finish
  <2>4. CASE RequestPreview
    BY <2>4 DEF RequestPreview
  <2>5. CASE UNCHANGED rowVars
    BY <2>5 DEF rowVars
  <2> QED
    BY <2>1, <2>2, <2>3, <2>4, <2>5 DEF IssuanceNext
<1> QED
  BY <1>1, <1>2, IssuanceTypeCorrect, PTL DEF IssuanceSpec

\* Whatever edits, deletions, validations, payments, previews, generations and
\* crashes interleave, no invoice is ever issued without a number or without a
\* document, which is its Factur-X one if previews are not in use.
THEOREM IssuedInvoicesAreComplete == IssuanceSpec => []IssuedComplete
<1>1. CompleteInv => IssuedComplete
  BY DEF CompleteInv, IssuedComplete
<1> QED
  BY <1>1, CompleteInvHolds, PTL

----------------------------------------------------------------------------
(* With requests that do not overlap, the statuses are locks.              *)

\* The handlers that respect the locks, and the fault that breaks them left
\* out.
Locked ==
  /\ Serialised
  /\ "preview" \notin Handlers
  /\ "record_payment" \notin Handlers
  /\ "ui" \notin Handlers
  /\ "post_save" \notin Faults

DraftLabels == {"edit", "delete", "validate"}

GenerationLabels == {"send_generate", "generate"}

\* One request at a time, holding the draft as it is in the database.
DraftLock ==
  /\ \A v, w \in Workers :
       pc[v] \in DraftLabels /\ pc[w] \in DraftLabels => v = w
  /\ \A w \in Workers : pc[w] \in DraftLabels =>
       copy[w] = row /\ row.status = "draft" /\ ~row.deleted
  /\ \A w \in Workers : pc[w] = "delete" => row.number = 0

\* One generation at a time, from the request that starts it to the task that
\* ends it, and the invoice is processing all along.
GenerationLock ==
  /\ \A v, w \in Workers :
       pc[v] \in GenerationLabels /\ pc[w] \in GenerationLabels => v = w
  /\ \A w \in Workers : pc[w] \in GenerationLabels =>
       queue["generate"] = 0 /\ row.status = "processing"
  /\ \A w \in Workers : pc[w] = "generate" => copy[w] = row
  /\ queue["generate"] \in {0, 1}
  /\ queue["generate"] = 1 => row.status = "processing"

LockInv ==
  /\ TypeOK
  /\ NoPreview
  /\ \A w \in Workers : pc[w] # "record_payment"
  /\ DraftLock
  /\ GenerationLock
  /\ row.deleted => row.status = "draft" /\ row.number = 0
  /\ drawn = row.number
  /\ clean

LEMMA LockInvInit ==
  ASSUME TypeOK, RowInit
  PROVE  LockInv
<1>1. PICK n \in {0, 1} : row = NewRow(n) /\ drawn = n
  BY DEF RowInit
<1>2. row.status = "draft" /\ row.number = n /\ row.deleted = FALSE
  BY <1>1 DEF NewRow
<1> QED
  BY <1>1, <1>2
  DEF RowInit, LockInv, NoPreview, DraftLock, GenerationLock, Tasks,
      DraftLabels, GenerationLabels

LEMMA OnlyDraftsProcess ==
  \A s \in Status : CanTransition(s, "processing") => s = "draft"
  BY DEF CanTransition, Transitions, Status

\* Each step of a request keeps the locks.
LEMMA RequestKeepsLocks ==
  ASSUME Locked, LockInv, TypeOK', NEW w \in Workers, IssuanceRequest(w)
  PROVE  LockInv' /\ (row'.status # row.status =>
                        CanTransition(row.status, row'.status))
<1> USE DEF LockInv, NoPreview, DraftLock, GenerationLock, TypeOK, Tasks,
            DraftLabels, GenerationLabels
<1>1. ASSUME NEW l \in DraftLabels, Open(w, l), row.status = "draft",
             l = "delete" => row.number = 0
      PROVE  LockInv' /\ row' = row
  BY <1>1 DEF Open, Read, Locked, Reachable, RequestLabels
<1>2. CASE OpenEdit(w)
  BY <1>1, <1>2 DEF OpenEdit, IsEditable
<1>3. CASE OpenDelete(w)
  BY <1>1, <1>3 DEF OpenDelete, IsDeletable
<1>4. CASE OpenValidate(w)
  <2>1. row.status = "draft"
    BY <1>4, OnlyDraftsProcess DEF OpenValidate, Row
  <2> QED
    BY <1>1, <1>4, <2>1 DEF OpenValidate
<1>5. CASE UpdateInvoice(w)
  <2>1. row' = Edited(row) /\ row.status = "draft" /\ ~row.deleted /\ clean'
    BY <1>5 DEF UpdateInvoice, Save
  <2>2. row'.status = "draft" /\ row'.number = row.number /\ ~row'.deleted
    BY <2>1 DEF Edited, Row
  <2> QED
    BY <1>5, <2>1, <2>2 DEF UpdateInvoice, Finish
<1>6. CASE SoftDelete(w)
  <2>1. row' = [row EXCEPT !.deleted = TRUE] /\ row.status = "draft"
        /\ row.number = 0 /\ copy[w] = row /\ clean'
    BY <1>6 DEF SoftDelete, SaveFields
  <2>2. row'.status = "draft" /\ row'.number = 0
    BY <2>1 DEF Row
  <2> QED
    BY <1>6, <2>1, <2>2 DEF SoftDelete, Finish
<1>7. CASE ValidateInvoice(w)
  <2>1. copy[w] = row /\ row.status = "draft" /\ ~row.deleted /\ clean'
    BY <1>7 DEF ValidateInvoice, Save
  <2>2. row'.status = "processing" /\ row'.number = NumberFor(row)
        /\ ~row'.deleted
    BY <1>7, <2>1 DEF ValidateInvoice, Save, Row
  <2>3. drawn' = row'.number
    BY <1>7, <2>1, <2>2 DEF ValidateInvoice, NumberFor
  <2>4. CanTransition("draft", "processing")
    BY DEF CanTransition, Transitions
  <2> QED
    BY <1>7, <2>1, <2>2, <2>3, <2>4 DEF ValidateInvoice, SendNext
<1>8. CASE SendGenerate(w)
  BY <1>8 DEF SendGenerate, Send, Finish
<1>9. ~OpenRecordPayment(w) /\ ~RecordPayment(w)
  BY DEF OpenRecordPayment, RecordPayment, Locked
<1> QED
  BY <1>2, <1>3, <1>4, <1>5, <1>6, <1>7, <1>8, <1>9 DEF IssuanceRequest

\* So does each step of a task.
LEMMA TaskKeepsLocks ==
  ASSUME Locked, LockInv, TypeOK', NEW w \in Workers, IssuanceTask(w)
  PROVE  LockInv' /\ (row'.status # row.status =>
                        CanTransition(row.status, row'.status))
<1> USE DEF LockInv, NoPreview, DraftLock, GenerationLock, TypeOK, Tasks,
            DraftLabels, GenerationLabels
<1>1. /\ ~TakePreview(w)
      /\ ~GenerateSourcePdf(w)
      /\ ~AfterGenerationFails(w) /\ ~SendEreporting(w)
  <2>1. ~TakePreview(w)
    BY DEF TakePreview, Take
  <2>2. ~GenerateSourcePdf(w)
    BY DEF GenerateSourcePdf
  <2>3. ~AfterGenerationFails(w) /\ ~SendEreporting(w)
    BY DEF AfterGenerationFails, SendEreporting, Locked
  <2> QED
    BY <2>1, <2>2, <2>3
<1>2. CASE TakeGenerate(w)
  <2>0. queue["generate"] > 0
    BY <1>2 DEF TakeGenerate, Take, Drop
  <2>1. queue["generate"] = 1 /\ row.status = "processing"
    BY <2>0
  <2>2. /\ pc[w] = "idle"
        /\ pc' = [pc EXCEPT ![w] = "generate"]
        /\ copy' = [copy EXCEPT ![w] = row]
        /\ queue' = [queue EXCEPT !["generate"] = 0]
        /\ UNCHANGED <<row, drawn, received, clean>>
    BY <1>2, <2>1 DEF TakeGenerate, Take, Read
  <2>3. \A v \in Workers : pc[v] \notin GenerationLabels \union DraftLabels
    BY <2>1
  <2> QED
    BY <2>1, <2>2, <2>3
<1>3. CASE GenerateSucceeds(w)
  <2>1. copy[w] = row /\ row.status = "processing" /\ clean'
    BY <1>3 DEF GenerateSucceeds, Save
  <2>2. row'.status = "validated" /\ row'.number = row.number
        /\ row'.deleted = row.deleted
    BY <1>3, <2>1 DEF GenerateSucceeds, Save, Row
  <2>3. CanTransition("processing", "validated")
    BY DEF CanTransition, Transitions
  <2> QED
    BY <1>3, <2>1, <2>2, <2>3 DEF GenerateSucceeds
<1>4. CASE GenerateFails(w)
  <2>1. copy[w] = row /\ row.status = "processing" /\ clean'
    BY <1>4 DEF GenerateFails, Save
  <2>2. row'.status = "draft" /\ row'.number = row.number
        /\ row'.deleted = row.deleted
    BY <1>4, <2>1 DEF GenerateFails, Save, Row
  <2>3. CanTransition("processing", "draft")
    BY DEF CanTransition, Transitions
  <2> QED
    BY <1>4, <2>1, <2>2, <2>3 DEF GenerateFails, Finish
<1>5. CASE AfterGeneration(w)
  BY <1>5 DEF AfterGeneration, WithEreporting, Finish
<1> QED
  BY <1>1, <1>2, <1>3, <1>4, <1>5 DEF IssuanceTask, Generate

LEMMA StepKeepsLocks ==
  ASSUME Locked, LockInv, TypeOK', [IssuanceNext]_rowVars
  PROVE  LockInv' /\ (row'.status # row.status =>
                        CanTransition(row.status, row'.status))
<1>1. ASSUME NEW w \in Workers, Crash(w)
      PROVE  LockInv' /\ row' = row
  BY <1>1 DEF Crash, Finish, LockInv, NoPreview, DraftLock, GenerationLock,
              TypeOK, Tasks, DraftLabels, GenerationLabels
<1>2. ~RequestPreview
  BY DEF RequestPreview, Locked
<1>3. CASE UNCHANGED rowVars
  BY <1>3 DEF rowVars, LockInv, NoPreview, DraftLock, GenerationLock, TypeOK,
              DraftLabels, GenerationLabels
<1> QED
  BY <1>1, <1>2, <1>3, RequestKeepsLocks, TaskKeepsLocks DEF IssuanceNext

LEMMA LockInvHolds ==
  ASSUME Locked
  PROVE  IssuanceSpec => []LockInv
<1>1. TypeOK /\ RowInit => LockInv
  BY LockInvInit
<1>2. TypeOK' /\ LockInv /\ [IssuanceNext]_rowVars => LockInv'
  BY StepKeepsLocks
<1> QED
  BY <1>1, <1>2, IssuanceTypeCorrect, PTL DEF IssuanceSpec

\* When the requests on an invoice do not overlap, no edit, validation or
\* generation ever overwrites what another one saved.
THEOREM LocksPreventLostUpdates ==
  ASSUME Locked
  PROVE  IssuanceSpec => []NoLostUpdate
<1>1. LockInv => NoLostUpdate
  BY DEF LockInv, NoLostUpdate
<1> QED
  BY <1>1, LockInvHolds, PTL

\* Then the invoice consumes one number of its sequence at most and keeps it,
\* however often its generation fails, is retried or crashes.
THEOREM LocksKeepNumbers ==
  ASSUME Locked
  PROVE  IssuanceSpec => []NumbersWithoutHole
<1>1. LockInv => NumbersWithoutHole
  BY DEF LockInv, NumbersWithoutHole
<1> QED
  BY <1>1, LockInvHolds, PTL

\* What was deleted has no number, and nobody works on it any more.
THEOREM LocksKeepDeletions ==
  ASSUME Locked
  PROVE  IssuanceSpec => []DeletedForGood
<1>1. LockInv => DeletedForGood
  BY DEF LockInv, DeletedForGood, DraftLock, GenerationLock, DraftLabels,
         GenerationLabels
<1> QED
  BY <1>1, LockInvHolds, PTL

\* And the status follows the table of transitions.
THEOREM LocksKeepTransitions ==
  ASSUME Locked
  PROVE  IssuanceSpec => LegalTransitions
<1>1. LockInv /\ TypeOK' /\ [IssuanceNext]_rowVars
        => [row'.status # row.status
              => CanTransition(row.status, row'.status)]_rowVars
  BY StepKeepsLocks
<1> QED
  BY <1>1, LockInvHolds, IssuanceTypeCorrect, PTL
  DEF IssuanceSpec, LegalTransitions
=============================================================================
