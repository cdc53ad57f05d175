--------------------------- MODULE StripeImportProofs ---------------------------
(***************************************************************************)
(* Theorems about StripeImport, for any number of workers, of nights and   *)
(* of failures: what the user has deleted stays deleted, and a payment     *)
(* that Stripe announced is on the invoice.                                *)
(***************************************************************************)
EXTENDS StripeImport, TLAPS

\* A paid invoice shows its payment.
RowType ==
  {r \in [status : {"none", "draft", "processing", "deleted"} \union Issued,
          number : {"none", "stripe", "own"}, payment : BOOLEAN, linked : BOOLEAN] :
     r.status = "paid" => r.payment = TRUE}

Labels == {"idle", "process", "processed", "import", "insert", "link", "save"}

ImportTypes ==
  /\ rows \in [Documents -> RowType]
  /\ pc \in [All -> Labels]
  /\ notice \in [All -> Notices \union {NoNotice}]
  /\ task = [w \in All |-> task[w]]
  /\ log \in [Notices -> {"none", "logged", "processed"}]

\* What a worker holds fits where it is: only webhooks hold a notification, and
\* a credit note is final when it is imported.
Fits(label, n, t) ==
  /\ t.copy \in RowType
  /\ t.doc = "credit_note" => t.final = TRUE
  /\ label \in {"idle", "import", "save"} => n = NoNotice
  /\ label = "save" => Live(t.copy)
  /\ label \in {"process", "processed"} => n \in Notices
  /\ label \in {"insert", "link"} => n # "paid"

\* The row that waits for its link has a number: it cannot be deleted.
Waits ==
  (\E w \in All : pc[w] = "link") => Live(rows["credit_note"]) /\ rows["credit_note"].number = "stripe"

ImportInv == ImportTypes /\ (\A w \in All : Fits(pc[w], notice[w], task[w])) /\ Waits

LEMMA RowTypes ==
  /\ NoRow \in RowType /\ NoRow.status = "none"
  /\ NoTask = [doc |-> "invoice", final |-> FALSE, copy |-> NoRow]
  /\ NoNotice \notin Notices
  BY ImportAssumption DEF NoRow, NoTask, RowType

LEMMA EditorsWork == Editors \subseteq All
  BY ImportAssumption DEF All

LEMMA NewTasks ==
  /\ \A d, f : /\ [NoTask EXCEPT !.doc = d, !.final = f].doc = d
               /\ [NoTask EXCEPT !.doc = d, !.final = f].final = f
               /\ [NoTask EXCEPT !.doc = d, !.final = f].copy = NoRow
  /\ \A c : /\ [NoTask EXCEPT !.copy = c].doc = "invoice"
            /\ [NoTask EXCEPT !.copy = c].copy = c
  BY DEF NoTask

\* What is saved of a row is a row still there, with the payment it showed.
LEMMA SavedRow ==
  ASSUME NEW r \in RowType, Live(r), NEW s \in Follows(r.status)
  PROVE  /\ Saved(r, s) \in RowType
         /\ r.payment => Saved(r, s).payment
<1>1. s \in {"draft", "processing"} \union Issued
  <2>1. Reached \subseteq Issued
    BY ImportAssumption
  <2>2. CASE r.status = "draft"
    BY <2>2 DEF Follows
  <2>3. CASE r.status = "processing"
    BY <2>1, <2>3 DEF Follows
  <2>4. CASE r.status \notin {"draft", "processing"}
    BY <2>1, <2>4 DEF Follows
  <2> QED
    BY <2>2, <2>3, <2>4
<1>2. /\ r = [status |-> r.status, number |-> r.number, payment |-> r.payment, linked |-> r.linked]
      /\ r.number \in {"none", "stripe", "own"} /\ r.payment \in BOOLEAN /\ r.linked \in BOOLEAN
  BY DEF RowType
<1> DEFINE n == IF r.number = "none" /\ s = "processing" THEN "own" ELSE r.number
           p == r.payment \/ s = "paid"
<1>3. Saved(r, s) = [r EXCEPT !.status = s, !.number = n, !.payment = p]
  BY DEF Saved
<1>4. n \in {"none", "stripe", "own"} /\ p \in BOOLEAN
  <2>1. n \in {"none", "stripe", "own"}
    BY <1>2
  <2>2. p \in BOOLEAN
    <3>1. r.payment = TRUE \/ r.payment = FALSE
      BY <1>2
    <3>2. CASE r.payment = TRUE
      BY <3>2
    <3>3. CASE r.payment = FALSE /\ s = "paid"
      BY <3>3
    <3>4. CASE r.payment = FALSE /\ s # "paid"
      BY <3>4
    <3> QED
      BY <3>1, <3>2, <3>3, <3>4
  <2> QED
    BY <2>1, <2>2
<1>5. (s = "paid" => p = TRUE) /\ (r.payment => p)
  BY <1>2
<1> HIDE DEF n, p
<1>6. Saved(r, s) \in RowType
  BY <1>1, <1>2, <1>3, <1>4, <1>5 DEF RowType
<1>7. r.payment => Saved(r, s).payment
  BY <1>3, <1>5
<1> QED
  BY <1>6, <1>7

LEMMA ImportInitially == Init => ImportInv
<1> SUFFICES ASSUME Init PROVE ImportInv
  OBVIOUS
<1>1. ImportTypes
  BY RowTypes DEF Init, Log!LogInit, ImportTypes, Labels
<1>2. ASSUME NEW w \in All PROVE Fits(pc[w], notice[w], task[w])
  <2>1. pc[w] = "idle" /\ notice[w] = NoNotice /\ task[w] = NoTask
    BY DEF Init, Log!LogInit
  <2> QED
    BY <2>1, RowTypes DEF Fits
<1>3. Waits
  BY DEF Init, Log!LogInit, Waits
<1> QED
  BY <1>1, <1>2, <1>3 DEF ImportInv

\* The step of one worker: it is enough to look at that worker and at the rows.
LEMMA WorkerStep ==
  ASSUME ImportInv, NEW w \in All,
         NEW l \in Labels, NEW n \in Notices \union {NoNotice}, NEW t,
         pc' = [pc EXCEPT ![w] = l], notice' = [notice EXCEPT ![w] = n],
         task' = [task EXCEPT ![w] = t],
         Fits(l, n, t),
         rows' \in [Documents -> RowType],
         log' \in [Notices -> {"none", "logged", "processed"}],
         Waits'
  PROVE  ImportInv'
<1>1. ImportTypes'
  BY DEF ImportInv, ImportTypes
<1>2. ASSUME NEW v \in All PROVE Fits(pc'[v], notice'[v], task'[v])
  BY DEF ImportInv, ImportTypes
<1> QED
  BY <1>1, <1>2 DEF ImportInv

\* A row that waits for its link goes on waiting, if no step touches it.
LEMMA StillWaits ==
  ASSUME ImportInv, NEW w \in All, NEW l \in Labels \ {"link"}, pc' = [pc EXCEPT ![w] = l],
         rows'["credit_note"] = rows["credit_note"]
  PROVE  Waits'
  BY DEF ImportInv, ImportTypes, Waits, Live

\* What the event of a payment does to the rows.
LEMMA PaidRow ==
  ASSUME ImportInv, NEW w \in All, Paid(w)
  PROVE  /\ rows' \in [Documents -> RowType] /\ rows'["credit_note"] = rows["credit_note"]
         /\ rows' # rows => /\ Live(rows["invoice"])
                             /\ rows'["invoice"].payment = TRUE
         /\ trouble' \intersect {"paid_unknown", "conflict"} = {} => rows'["invoice"].payment = TRUE
<1>1. rows \in [Documents -> RowType] /\ "invoice" \in Documents /\ "credit_note" \in Documents
  BY DEF ImportInv, ImportTypes, Documents
<1>2. rows["invoice"] \in RowType
  BY <1>1
<1>3. ASSUME NEW s \in {"paid", "draft", "processing"}, Live(rows["invoice"]), Record(s)
      PROVE  /\ rows' \in [Documents -> RowType] /\ rows'["credit_note"] = rows["credit_note"]
             /\ rows'["invoice"].payment = TRUE
  <2> DEFINE r == [rows["invoice"] EXCEPT !.payment = TRUE, !.status = s]
  <2>1. rows' = [rows EXCEPT !["invoice"] = r]
    BY <1>1, <1>2, <1>3 DEF Record, RowType
  <2>2. r \in RowType /\ r.payment = TRUE
    BY <1>2, <1>3 DEF RowType, Issued
  <2> HIDE DEF r
  <2> QED
    BY <1>1, <2>1, <2>2
<1>4. CASE rows["invoice"].status = "payable" /\ Record("paid")
  BY <1>3, <1>4 DEF Live, Issued
<1>5. CASE rows["invoice"].status \in {"draft", "processing"} /\ Record(rows["invoice"].status)
  BY <1>3, <1>5 DEF Live
<1>6. CASE rows["invoice"].status = "paid" /\ UNCHANGED rows
  BY <1>1, <1>2, <1>6 DEF RowType
<1>7. CASE UNCHANGED rows /\ trouble' \intersect {"paid_unknown", "conflict"} # {}
  BY <1>1, <1>7
<1> QED
  BY <1>4, <1>5, <1>6, <1>7 DEF Paid

LEMMA Handled ==
  ASSUME ImportInv, NEW w \in All, Handle(w)
  PROVE  ImportInv'
<1>1. /\ ImportTypes /\ Fits(pc[w], notice[w], task[w]) /\ Waits
      /\ pc[w] \in Labels /\ notice[w] \in Notices \union {NoNotice}
      /\ rows["invoice"] \in RowType /\ rows["credit_note"] \in RowType
  BY DEF ImportInv, ImportTypes, Documents
<1> DEFINE after == IF notice[w] # NoNotice THEN "processed" ELSE "idle"
<1>2. Fits(after, notice[w], NoTask) /\ after \in Labels \ {"link"}
  BY <1>1, RowTypes DEF Fits, Labels
<1>3. ASSUME Done(w)
      PROVE  /\ pc' = [pc EXCEPT ![w] = after] /\ notice' = [notice EXCEPT ![w] = notice[w]]
             /\ task' = [task EXCEPT ![w] = NoTask]
             /\ log' = log
  BY <1>1, <1>3 DEF Done, Goto, ImportTypes
<1> HIDE DEF after
<1>4. ASSUME Done(w), rows' \in [Documents -> RowType],
             rows'["credit_note"] = rows["credit_note"]
      PROVE  ImportInv'
  <2>1. Waits'
    BY <1>2, <1>3, <1>4, StillWaits
  <2>2. log' \in [Notices -> {"none", "logged", "processed"}]
    BY <1>1, <1>3, <1>4 DEF ImportTypes
  <2> QED
    BY <1>1, <1>2, <1>3, <1>4, <2>1, <2>2, WorkerStep
<1>5. CASE LookUp(w)
  <2>1. CASE Done(w)
    BY <1>1, <1>4, <1>5, <2>1 DEF LookUp, ImportTypes
  <2>2. CASE ~Done(w)
    <3>1. /\ pc' = [pc EXCEPT ![w] = "insert"] /\ notice' = [notice EXCEPT ![w] = notice[w]]
          /\ task' = [task EXCEPT ![w] = task[w]] /\ log' = log /\ rows' = rows
          /\ ToImport(w)
      BY <1>1, <1>5, <2>2 DEF LookUp, Goto, ImportTypes
    <3>2. Fits("insert", notice[w], task[w])
      BY <1>1, <3>1, RowTypes DEF ToImport, Fits, Notices
    <3>3. Waits'
      BY <3>1, StillWaits DEF Labels
    <3> QED
      BY <1>1, <3>1, <3>2, <3>3, WorkerStep DEF Labels, ImportTypes
  <2> QED
    BY <2>1, <2>2
<1>6. CASE Insert(w)
  <2> DEFINE d == task[w].doc
             r == [NoRow EXCEPT !.status = "draft",
                                !.number = IF task[w].final THEN "stripe" ELSE "none"]
  <2>1. rows' = [rows EXCEPT ![d] = r] /\ pc[w] = "insert" /\ rows[d] = NoRow
    BY <1>6 DEF Insert, Free
  <2>2. r \in RowType
    BY DEF NoRow, RowType
  <2>3. rows' \in [Documents -> RowType]
    BY <1>1, <2>1, <2>2 DEF ImportTypes
  <2>4. CASE d # "credit_note"
    BY <1>4, <1>6, <2>1, <2>3, <2>4 DEF Insert
  <2>5. CASE d = "credit_note"
    <3>1. /\ pc' = [pc EXCEPT ![w] = "link"] /\ notice' = [notice EXCEPT ![w] = notice[w]]
          /\ task' = [task EXCEPT ![w] = task[w]] /\ log' = log
      BY <1>1, <1>6, <2>5 DEF Insert, Goto, ImportTypes
    <3>2. Fits("link", notice[w], task[w])
      BY <1>1, <2>1 DEF Fits
    <3>3. task[w].final = TRUE
      BY <1>1, <2>5 DEF Fits
    <3>4. Live(r) /\ r.number = "stripe"
      BY <3>3 DEF Live, NoRow
    <3>5. rows'["credit_note"] = r
      BY <1>1, <2>1, <2>5 DEF ImportTypes, Documents
    <3>6. Waits'
      BY <3>4, <3>5 DEF Waits, Live
    <3> QED
      BY <1>1, <2>3, <3>1, <3>2, <3>6, WorkerStep DEF Labels, ImportTypes
  <2> QED
    BY <2>4, <2>5
<1>7. CASE InsertRefused(w)
  <2>1. /\ pc' = [pc EXCEPT ![w] = "idle"] /\ notice' = [notice EXCEPT ![w] = NoNotice]
        /\ task' = [task EXCEPT ![w] = NoTask] /\ log' = log /\ rows' = rows
    BY <1>7 DEF InsertRefused, Abandon, Log!Interrupted, Log!Leave, Log!GoTo
  <2>2. Fits("idle", NoNotice, NoTask)
    BY RowTypes DEF Fits
  <2>3. Waits'
    BY <2>1, StillWaits DEF Labels
  <2> QED
    BY <1>1, <2>1, <2>2, <2>3, WorkerStep DEF Labels, ImportTypes
<1>8. CASE Link(w)
  <2>1. /\ rows' = [rows EXCEPT !["credit_note"] = [rows["credit_note"] EXCEPT !.linked = TRUE]]
        /\ Done(w)
    BY <1>1, <1>8 DEF Link, ImportTypes
  <2>2. [rows["credit_note"] EXCEPT !.linked = TRUE] \in RowType
    BY <1>1 DEF RowType
  <2>3. rows' \in [Documents -> RowType]
    BY <1>1, <2>1, <2>2 DEF ImportTypes
  <2>4. /\ rows'["credit_note"].status = rows["credit_note"].status
        /\ rows'["credit_note"].number = rows["credit_note"].number
    BY <1>1, <2>1 DEF ImportTypes, Documents, RowType
  <2>5. \A v \in All : pc'[v] = "link" => pc[v] = "link"
    BY <1>1, <1>2, <1>3, <2>1 DEF ImportTypes
  <2>6. Waits'
    BY <1>1, <2>4, <2>5 DEF Waits, Live
  <2>7. /\ pc' = [pc EXCEPT ![w] = after] /\ notice' = [notice EXCEPT ![w] = notice[w]]
        /\ task' = [task EXCEPT ![w] = NoTask]
    BY <1>3, <2>1
  <2>8. log' \in [Notices -> {"none", "logged", "processed"}]
    BY <1>1, <1>3, <2>1 DEF ImportTypes
  <2>9. after \in Labels /\ Fits(after, notice[w], NoTask)
    BY <1>2
  <2> QED
    BY <1>1, <2>3, <2>6, <2>7, <2>8, <2>9, WorkerStep
<1>9. CASE Paid(w)
  <2>1. rows' \in [Documents -> RowType] /\ rows'["credit_note"] = rows["credit_note"]
    BY <1>9, PaidRow
  <2> QED
    BY <1>4, <1>9, <2>1 DEF Paid
<1>10. CASE Answer(w)
  <2>1. /\ pc' = [pc EXCEPT ![w] = "idle"] /\ notice' = [notice EXCEPT ![w] = NoNotice]
        /\ task' = [task EXCEPT ![w] = task[w]]
        /\ log' = [log EXCEPT ![notice[w]] = "processed"]
        /\ rows' = rows /\ pc[w] = "processed"
    BY <1>1, <1>10 DEF Answer, Log!Processed, Log!Leave, Log!GoTo, importVars, ImportTypes
  <2>2. Fits("idle", NoNotice, task[w])
    BY <1>1 DEF Fits
  <2>3. Waits'
    BY <2>1, StillWaits DEF Labels
  <2> QED
    BY <1>1, <2>1, <2>2, <2>3, WorkerStep DEF Labels, ImportTypes
<1>11. CASE SaveRow(w)
  <2>1. PICK s \in Follows(task[w].copy.status) :
          rows' = [rows EXCEPT !["invoice"] = Saved(task[w].copy, s)]
    BY <1>11 DEF SaveRow
  <2>2. task[w].copy \in RowType /\ Live(task[w].copy)
    BY <1>1, <1>11 DEF SaveRow, Fits
  <2>3. Saved(task[w].copy, s) \in RowType
    BY <2>2, SavedRow
  <2>4. rows' \in [Documents -> RowType] /\ rows'["credit_note"] = rows["credit_note"]
    BY <1>1, <2>1, <2>3 DEF ImportTypes, Documents
  <2> QED
    BY <1>4, <1>11, <2>4 DEF SaveRow
<1> QED
  BY <1>5, <1>6, <1>7, <1>8, <1>9, <1>10, <1>11 DEF Handle

\* A worker that starts.
LEMMA Started ==
  ASSUME ImportInv, NEW w \in All,
         Receive(w) \/ ImportByHand(w) \/ OpenRow(w) \/ (w = Night /\ NextDocument)
  PROVE  ImportInv'
<1>1. /\ ImportTypes /\ Fits(pc[w], notice[w], task[w]) /\ rows["invoice"] \in RowType
  BY DEF ImportInv, ImportTypes, Documents
<1>2. rows' = rows /\ rows' \in [Documents -> RowType] /\ pc[w] = "idle"
  BY <1>1
  DEF Receive, ReceiveDocument, Log!LogEvent, ImportByHand, OpenRow, NextDocument, ImportTypes
<1>3. ASSUME NEW n \in Notices, NEW d \in Documents, ReceiveDocument(w, n, d)
      PROVE  ImportInv'
  <2> DEFINE t == [NoTask EXCEPT !.doc = d, !.final = TRUE]
  <2>1. /\ pc' = [pc EXCEPT ![w] = "process"] /\ notice' = [notice EXCEPT ![w] = n]
        /\ task' = [task EXCEPT ![w] = t]
        /\ log' = [log EXCEPT ![n] = "logged"]
    BY <1>3, NewTasks DEF ReceiveDocument, Log!LogEvent, Log!GoTo, Fetched
  <2>2. Fits("process", n, t)
    BY RowTypes, NewTasks DEF Fits
  <2>3. Waits'
    BY <1>2, <2>1, StillWaits DEF Labels
  <2> QED
    BY <1>1, <1>2, <2>1, <2>2, <2>3, WorkerStep DEF Labels, ImportTypes
<1>4. CASE Receive(w)
  BY <1>3, <1>4 DEF Receive, Notices, Documents
<1>5. ASSUME NEW d, NEW f, d = "credit_note" => f = TRUE,
             pc' = [pc EXCEPT ![w] = "import"], notice' = notice, log' = log,
             Fetched(w, d, f)
      PROVE  ImportInv'
  <2> DEFINE t == [NoTask EXCEPT !.doc = d, !.final = f]
  <2>1. task' = [task EXCEPT ![w] = t] /\ notice' = [notice EXCEPT ![w] = NoNotice]
    BY <1>1, <1>2, <1>5, NewTasks DEF Fetched, Fits, ImportTypes
  <2>2. Fits("import", NoNotice, t)
    BY <1>5, RowTypes, NewTasks DEF Fits
  <2>3. Waits'
    BY <1>2, <1>5, StillWaits DEF Labels
  <2> HIDE DEF t
  <2> QED
    BY <1>1, <1>2, <1>5, <2>1, <2>2, <2>3, WorkerStep DEF Labels, ImportTypes
<1>6. CASE ImportByHand(w)
  BY <1>5, <1>6 DEF ImportByHand, Goto
<1>7. CASE w = Night /\ NextDocument
  BY <1>5, <1>7 DEF NextDocument, Goto
<1>8. CASE OpenRow(w)
  <2> DEFINE t == [NoTask EXCEPT !.copy = rows["invoice"]]
  <2>1. /\ pc' = [pc EXCEPT ![w] = "save"] /\ log' = log
        /\ task' = [task EXCEPT ![w] = t] /\ notice' = [notice EXCEPT ![w] = NoNotice]
    BY <1>1, <1>2, <1>8, NewTasks DEF OpenRow, Goto, Fits, ImportTypes
  <2>2. Fits("save", NoNotice, t)
    BY <1>1, <1>8, RowTypes, NewTasks DEF OpenRow, Fits
  <2>3. Waits'
    BY <1>2, <2>1, StillWaits DEF Labels
  <2> QED
    BY <1>1, <1>2, <2>1, <2>2, <2>3, WorkerStep DEF Labels, ImportTypes
<1> QED
  BY <1>4, <1>6, <1>7, <1>8

\* A row with a number cannot be deleted.
LEMMA UserActs ==
  ASSUME ImportInv, NEW d \in Documents, Delete(d)
  PROVE  ImportInv'
<1>1. ImportTypes /\ Waits /\ rows[d] \in RowType
  BY DEF ImportInv, ImportTypes
<1> DEFINE r == [rows[d] EXCEPT !.status = "deleted"]
<1>2. r \in RowType
  BY <1>1 DEF RowType
<1>3. rows' = [rows EXCEPT ![d] = r] /\ rows[d].number = "none" /\ UNCHANGED <<pc, notice, task, log>>
  BY <1>1 DEF Delete, ImportTypes
<1> HIDE DEF r
<1>4. rows' \in [Documents -> RowType]
  BY <1>1, <1>2, <1>3 DEF ImportTypes
<1>5. rows["credit_note"].number = "stripe" => rows'["credit_note"] = rows["credit_note"]
  BY <1>1, <1>3 DEF ImportTypes, Documents
<1>6. Waits'
  BY <1>1, <1>3, <1>5 DEF Waits, Live
<1> QED
  BY <1>3, <1>4, <1>6 DEF ImportInv, ImportTypes

LEMMA ImportStep ==
  ASSUME ImportInv, [Next]_vars
  PROVE  ImportInv'
<1>1. CASE UNCHANGED <<rows, pc, notice, task, log>>
  BY <1>1 DEF ImportInv, ImportTypes, Waits
<1>2. ASSUME NEW w \in All, Interrupted(w) PROVE ImportInv'
  <2>1. /\ pc' = [pc EXCEPT ![w] = "idle"] /\ notice' = [notice EXCEPT ![w] = NoNotice]
        /\ task' = [task EXCEPT ![w] = NoTask] /\ log' = log /\ rows' = rows
    BY <1>2 DEF Interrupted, Abandon, Log!Interrupted, Log!Leave, Log!GoTo
  <2>2. Fits("idle", NoNotice, NoTask)
    BY RowTypes DEF Fits
  <2>3. Waits'
    BY <2>1, StillWaits DEF Labels
  <2> QED
    BY <2>1, <2>2, <2>3, WorkerStep DEF Labels, ImportInv, ImportTypes
<1>3. ASSUME NEW w \in All, OpenRow(w) \/ (w \in Workers /\ (Receive(w) \/ ImportByHand(w)))
      PROVE  ImportInv'
  BY <1>3, Started
<1>4. CASE NextDocument
  BY <1>4, Started DEF All
<1>5. ASSUME Finalise \/ Pay \/ Credit \/ SaveSettings \/ CatchUp
      PROVE  UNCHANGED <<rows, pc, notice, task, log>>
  BY <1>5 DEF Finalise, Pay, Credit, SaveSettings, CatchUp
<1>6. CASE UNCHANGED vars
  BY <1>1, <1>6 DEF vars, importVars
<1> QED
  BY <1>1, <1>2, <1>3, <1>4, <1>5, <1>6, Handled, UserActs, EditorsWork DEF Next, All

----------------------------------------------------------------------------
(* What the rows keep.                                                     *)

\* How a step may change the row of a document.
LEMMA RowsChange ==
  ASSUME ImportInv, [Next]_vars, NEW d \in Documents, rows'[d] # rows[d]
  PROVE  \/ rows[d] = NoRow
         \/ Live(rows[d]) /\ (rows[d].payment => rows'[d].payment)
         \/ "overwritten" \in trouble'
<1>1. rows \in [Documents -> RowType] /\ rows[d] \in RowType /\ Waits
  BY DEF ImportInv, ImportTypes
<1>2. \A e, r : rows' = [rows EXCEPT ![e] = r] => e = d /\ rows'[d] = r
  BY <1>1
<1>3. ASSUME NEW w \in All, Insert(w) PROVE rows[d] = NoRow
  BY <1>2, <1>3 DEF Insert, Free
<1>4. ASSUME NEW w \in All, Link(w) PROVE Live(rows[d]) /\ (rows[d].payment => rows'[d].payment)
  <2>1. pc[w] = "link" /\ rows' = [rows EXCEPT !["credit_note"] = [rows["credit_note"] EXCEPT !.linked = TRUE]]
    BY <1>1, <1>4 DEF Link
  <2>2. d = "credit_note" /\ rows'[d] = [rows[d] EXCEPT !.linked = TRUE]
    BY <1>2, <2>1
  <2> QED
    BY <1>1, <2>1, <2>2 DEF Waits, RowType
<1>5. ASSUME NEW w \in All, Paid(w) PROVE Live(rows[d]) /\ (rows[d].payment => rows'[d].payment)
  <2>1. rows'["credit_note"] = rows["credit_note"] /\ rows' # rows
    BY <1>5, PaidRow
  <2>2. d = "invoice"
    BY <2>1 DEF Documents
  <2> QED
    BY <1>5, <2>1, <2>2, PaidRow
<1>6. ASSUME NEW w \in All, SaveRow(w)
      PROVE  \/ Live(rows[d]) /\ (rows[d].payment => rows'[d].payment)
             \/ "overwritten" \in trouble'
  <2>1. PICK s \in Follows(task[w].copy.status) :
          rows' = [rows EXCEPT !["invoice"] = Saved(task[w].copy, s)]
    BY <1>6 DEF SaveRow
  <2>2. d = "invoice" /\ rows'[d] = Saved(task[w].copy, s)
    BY <1>2, <2>1
  <2>3. task[w].copy \in RowType /\ Live(task[w].copy)
    BY <1>6 DEF SaveRow, ImportInv, Fits
  <2>4. task[w].copy.payment => Saved(task[w].copy, s).payment
    BY <2>3, SavedRow
  <2>5. rows[d] = task[w].copy \/ "overwritten" \in trouble'
    BY <1>6, <2>2 DEF SaveRow
  <2> QED
    BY <2>2, <2>3, <2>4, <2>5
<1>7. ASSUME NEW e \in Documents, Delete(e)
      PROVE  Live(rows[d]) /\ (rows[d].payment => rows'[d].payment)
  <2>1. rows' = [rows EXCEPT ![e] = [rows[e] EXCEPT !.status = "deleted"]]
    BY <1>1, <1>7 DEF Delete
  <2> QED
    BY <1>1, <1>2, <1>7, <2>1 DEF Delete, Live, RowType
<1>8. ASSUME NEW w \in All,
             LookUp(w) \/ InsertRefused(w) \/ Answer(w) \/ Interrupted(w)
      PROVE  rows' = rows
  BY <1>8 DEF LookUp, InsertRefused, Answer, Interrupted, importVars
<1>9. ASSUME NEW w \in All, Receive(w) \/ ImportByHand(w) \/ OpenRow(w)
      PROVE  rows' = rows
  BY <1>9 DEF Receive, ReceiveDocument, ImportByHand, OpenRow
<1>10. ASSUME \/ Finalise \/ Pay \/ Credit \/ SaveSettings \/ CatchUp \/ NextDocument
              \/ UNCHANGED vars
       PROVE  rows' = rows
  BY <1>10 DEF Finalise, Pay, Credit, SaveSettings, CatchUp, NextDocument, vars, importVars
<1> QED
  BY <1>3, <1>4, <1>5, <1>6, <1>7, <1>8, <1>9, <1>10, EditorsWork DEF Next, Handle, All

LEMMA ImportInvariant == Spec => []ImportInv
  BY ImportInitially, ImportStep, PTL DEF Spec

\* No webhook, hand import or night brings back a draft the user has deleted, in
\* any interleaving with the deletion (catchup.py, services.py).
THEOREM DeletedStays == Spec => DeletedLeftAlone
<1>1. ImportInv /\ [Next]_vars =>
        \A d \in Documents : rows[d].status = "deleted" /\ "overwritten" \notin trouble'
                             => rows'[d] = rows[d]
  BY RowsChange, RowTypes DEF Live, Issued
<1>2. ImportInv /\ [Next]_vars =>
        [\A d \in Documents : rows[d].status = "deleted" /\ "overwritten" \notin trouble'
                             => rows'[d] = rows[d]]_vars
  BY <1>1
<1> QED
  BY <1>2, ImportInvariant, PTL DEF Spec, DeletedLeftAlone

----------------------------------------------------------------------------
(* The payment.                                                            *)

\* A payment that was processed is on the row, or its event came too early.
PaidInv ==
  trouble \intersect {"paid_unknown", "conflict", "overwritten"} = {} =>
    /\ log["paid"] = "processed" => rows["invoice"].payment = TRUE
    /\ \A w \in All : pc[w] = "processed" /\ notice[w] = "paid" => rows["invoice"].payment = TRUE

\* Nothing is taken from `trouble`.
LEMMA TroubleGrows ==
  ASSUME [Next]_vars
  PROVE  trouble \subseteq trouble'
  BY DEF Next, Handle, Finalise, Pay, Credit, Receive, ReceiveDocument, ImportByHand, OpenRow,
     LookUp, Insert, InsertRefused, Link, Paid, Answer, SaveRow, Interrupted, Harm, SaveSettings,
     Delete, CatchUp, NextDocument, vars, importVars

\* The event counts as processed once its worker has come to the end of it.
LEMMA LoggedProcessed ==
  ASSUME ImportInv, [Next]_vars, log'["paid"] = "processed", log["paid"] # "processed"
  PROVE  \E w \in All : pc[w] = "processed" /\ notice[w] = "paid"
<1>1. log \in [Notices -> {"none", "logged", "processed"}]
  BY DEF ImportInv, ImportTypes
<1>2. ASSUME NEW w \in All, Answer(w)
      PROVE  pc[w] = "processed" /\ notice[w] = "paid"
  <2>1. log' = [log EXCEPT ![notice[w]] = "processed"] /\ pc[w] = "processed"
    BY <1>2 DEF Answer, Log!Processed
  <2> QED
    BY <1>1, <2>1
<1>3. ASSUME NEW w \in Workers, Receive(w) PROVE FALSE
  <2>1. \E n : log' = [log EXCEPT ![n] = "logged"]
    BY <1>3 DEF Receive, ReceiveDocument, Log!LogEvent
  <2> QED
    BY <1>1, <2>1
<1>4. ASSUME NEW w \in All, Interrupted(w) \/ InsertRefused(w) PROVE log' = log
  BY <1>4 DEF Interrupted, InsertRefused, Abandon, Log!Interrupted
<1>5. ASSUME NEW w \in All,
             \/ LookUp(w) \/ Insert(w) \/ Link(w) \/ Paid(w) \/ SaveRow(w)
             \/ ImportByHand(w) \/ OpenRow(w)
      PROVE  log' = log
  BY <1>5 DEF LookUp, Insert, Link, Paid, SaveRow, ImportByHand, OpenRow, Done, Goto
<1>6. ASSUME \/ Finalise \/ Pay \/ Credit \/ SaveSettings \/ CatchUp \/ NextDocument
             \/ (\E d \in Documents : Delete(d)) \/ UNCHANGED vars
      PROVE  log' = log
  BY <1>6 DEF Finalise, Pay, Credit, SaveSettings, CatchUp, NextDocument, Goto, Delete, vars
<1> QED
  BY <1>2, <1>3, <1>4, <1>5, <1>6, EditorsWork DEF Next, Handle, All

\* A worker comes to the end of that event by recording the payment.
LEMMA PaidProcessed ==
  ASSUME ImportInv, [Next]_vars, NEW w \in All, pc'[w] = "processed", notice'[w] = "paid"
  PROVE  \/ pc[w] = "processed" /\ notice[w] = "paid"
         \/ rows'["invoice"].payment = TRUE
         \/ trouble' \intersect {"paid_unknown", "conflict"} # {}
<1>1. /\ ImportTypes /\ Waits
      /\ \A v \in All : Fits(pc[v], notice[v], task[v])
      /\ rows["invoice"] \in RowType
  BY DEF ImportInv, ImportTypes, Documents
<1>2. ASSUME NEW v \in All, NEW l, pc' = [pc EXCEPT ![v] = l], l # "processed"
      PROVE  pc[w] = "processed" /\ v # w
  BY <1>1, <1>2 DEF ImportTypes
<1>3. ASSUME NEW v \in All, v # w, NEW n, notice' = [notice EXCEPT ![v] = n]
      PROVE  notice[w] = "paid"
  BY <1>1, <1>3 DEF ImportTypes
<1>4. ASSUME NEW v \in All,
             InsertRefused(v) \/ Answer(v) \/ Interrupted(v)
      PROVE  pc[w] = "processed" /\ notice[w] = "paid"
  <2>1. pc' = [pc EXCEPT ![v] = "idle"] /\ notice' = [notice EXCEPT ![v] = NoNotice]
    BY <1>4 DEF InsertRefused, Answer, Interrupted, Abandon, Log!Interrupted, Log!Processed,
       Log!Leave, Log!GoTo
  <2> QED
    BY <2>1, <1>2, <1>3
<1>5. ASSUME NEW v \in All, LookUp(v) \/ Insert(v) \/ Link(v) \/ SaveRow(v)
      PROVE  pc[w] = "processed" /\ notice[w] = "paid"
  <2>1. notice' = notice
    BY <1>5 DEF LookUp, Insert, Link, SaveRow, Done, Goto
  <2>2. notice[v] # "paid"
    BY <1>1, <1>5, RowTypes DEF LookUp, ToImport, Insert, Link, SaveRow, Fits, Notices
  <2>3. v # w
    BY <2>1, <2>2
  <2>4. \E l : pc' = [pc EXCEPT ![v] = l]
    BY <1>5 DEF LookUp, Insert, Link, SaveRow, Done, Goto
  <2> QED
    BY <1>1, <2>1, <2>3, <2>4 DEF ImportTypes
<1>6. ASSUME NEW v \in All, Paid(v)
      PROVE  \/ rows'["invoice"].payment = TRUE
             \/ trouble' \intersect {"paid_unknown", "conflict"} # {}
  BY <1>6, PaidRow
<1>7. ASSUME NEW v \in All, Receive(v) \/ ImportByHand(v) \/ OpenRow(v)
      PROVE  pc[w] = "processed" /\ notice[w] = "paid"
  <2>1. \E l : pc' = [pc EXCEPT ![v] = l] /\ l # "processed"
    BY <1>7 DEF Receive, ReceiveDocument, Log!LogEvent, Log!GoTo, ImportByHand, OpenRow, Goto
  <2>2. pc[w] = "processed" /\ v # w
    BY <1>2, <2>1 DEF All
  <2>3. notice' = notice \/ \E n : notice' = [notice EXCEPT ![v] = n]
    BY <1>7 DEF Receive, ReceiveDocument, Log!LogEvent, ImportByHand, OpenRow, Goto
  <2> QED
    BY <2>2, <2>3, <1>3 DEF All
<1>8. CASE NextDocument
  <2>1. pc' = [pc EXCEPT ![Night] = "import"] /\ notice' = notice
    BY <1>8 DEF NextDocument, Goto
  <2> QED
    BY <2>1, <1>2 DEF All
<1>9. ASSUME \/ Finalise \/ Pay \/ Credit \/ SaveSettings \/ CatchUp
             \/ (\E d \in Documents : Delete(d)) \/ UNCHANGED vars
      PROVE  UNCHANGED <<pc, notice>>
  BY <1>9 DEF Finalise, Pay, Credit, SaveSettings, CatchUp, Delete, vars
<1> QED
  BY <1>4, <1>5, <1>6, <1>7, <1>8, <1>9, EditorsWork DEF Next, Handle, All

LEMMA PaidStep ==
  ASSUME ImportInv, PaidInv, [Next]_vars
  PROVE  PaidInv'
<1> SUFFICES ASSUME trouble' \intersect {"paid_unknown", "conflict", "overwritten"} = {}
             PROVE  /\ log'["paid"] = "processed" => rows'["invoice"].payment = TRUE
                    /\ \A w \in All : pc'[w] = "processed" /\ notice'[w] = "paid"
                                      => rows'["invoice"].payment = TRUE
  BY DEF PaidInv
<1>1. trouble \intersect {"paid_unknown", "conflict", "overwritten"} = {}
  BY TroubleGrows
<1>2. rows["invoice"].payment = TRUE => rows'["invoice"].payment = TRUE
  <2>1. NoRow.payment = FALSE /\ "invoice" \in Documents
    BY DEF NoRow, Documents
  <2>2. ImportInv' /\ (rows["invoice"].payment \in BOOLEAN /\ rows'["invoice"].payment \in BOOLEAN)
    BY ImportStep, <2>1 DEF ImportInv, ImportTypes, RowType
  <2> QED
    BY <2>1, <2>2, RowsChange
<1> QED
  BY <1>1, <1>2, LoggedProcessed, PaidProcessed DEF PaidInv

\* Once the event of a payment counts as processed the row of the invoice shows
\* it, whatever is imported, saved, deleted or interrupted meanwhile
\* (_handle_invoice_paid), but for the three troubles the property names.
THEOREM PaymentShown == Spec => []PaymentKnown
<1>1. Init => PaidInv
  BY DEF Init, Log!LogInit, PaidInv, All, Notices
<1>2. PaidInv => PaymentKnown
  BY DEF PaidInv, PaymentKnown
<1> QED
  BY <1>1, <1>2, PaidStep, ImportInvariant, PTL DEF Spec

----------------------------------------------------------------------------
(* Types.                                                                  *)

Troubles == {"paid_unknown", "conflict", "unconfigured", "overwritten", "unlinked"}

\* What ImportTypes leaves out.
OtherTypes ==
  /\ stripe \in [Documents -> {"absent", "draft", "open", "paid"}]
  /\ age \in [Documents -> 0..CatchupDays]
  /\ supplier \in BOOLEAN
  /\ queue \in Seq(Documents)
  /\ failures \in 0..MaxFailures
  /\ trouble \subseteq Troubles
  /\ sent \subseteq Notices
  /\ \A w \in All : task[w].doc \in Documents /\ task[w].final \in BOOLEAN

LEMMA TypesInitially == Init => OtherTypes
<1> SUFFICES ASSUME Init PROVE OtherTypes
  OBVIOUS
<1>1. stripe \in [Documents -> {"absent", "draft", "open", "paid"}]
  BY DEF Init, Documents
<1>2. age \in [Documents -> 0..CatchupDays] /\ failures \in 0..MaxFailures
  BY ImportAssumption DEF Init
<1>3. supplier \in BOOLEAN /\ trouble \subseteq Troubles /\ sent \subseteq Notices
  BY DEF Init, Log!LogInit
<1>4. queue \in Seq(Documents)
  <2>1. queue = <<>>
    BY DEF Init
  <2> QED
    BY <2>1
<1>5. \A w \in All : task[w].doc \in Documents /\ task[w].final \in BOOLEAN
  BY RowTypes DEF Init, Documents
<1> QED
  BY <1>1, <1>2, <1>3, <1>4, <1>5 DEF OtherTypes

\* A worker keeps its task, takes one up, or is done with it.
LEMMA TaskTypes ==
  ASSUME ImportInv, OtherTypes, NEW w \in All,
         \/ task' = task \/ task' = [task EXCEPT ![w] = NoTask]
         \/ \E d \in Documents, f \in BOOLEAN : Fetched(w, d, f)
         \/ \E c : task' = [task EXCEPT ![w] = [NoTask EXCEPT !.copy = c]]
  PROVE  \A v \in All : task'[v].doc \in Documents /\ task'[v].final \in BOOLEAN
<1>1. task = [v \in All |-> task[v]]
      /\ \A v \in All : task[v].doc \in Documents /\ task[v].final \in BOOLEAN
  BY DEF ImportInv, ImportTypes, OtherTypes
<1>2. ASSUME NEW t, t.doc \in Documents, t.final \in BOOLEAN, task' = [task EXCEPT ![w] = t]
      PROVE  \A v \in All : task'[v].doc \in Documents /\ task'[v].final \in BOOLEAN
  BY <1>1, <1>2
<1>3. NoTask.doc \in Documents /\ NoTask.final \in BOOLEAN
  BY DEF NoTask, Documents
<1>4. \A c : [NoTask EXCEPT !.copy = c].doc \in Documents /\ [NoTask EXCEPT !.copy = c].final \in BOOLEAN
  BY DEF NoTask, Documents
<1>5. CASE \E d \in Documents, f \in BOOLEAN : Fetched(w, d, f)
  <2>1. PICK d \in Documents, f \in BOOLEAN : task' = [task EXCEPT ![w] = [NoTask EXCEPT !.doc = d, !.final = f]]
    BY <1>5 DEF Fetched
  <2> DEFINE t == [NoTask EXCEPT !.doc = d, !.final = f]
  <2>2. t.doc = d /\ t.final = f
    BY NewTasks
  <2>3. task' = [task EXCEPT ![w] = t]
    BY <2>1
  <2> HIDE DEF t
  <2> QED
    BY <1>2, <2>2, <2>3
<1>6. CASE task' = [task EXCEPT ![w] = NoTask]
  BY <1>2, <1>3, <1>6
<1>7. CASE \E c : task' = [task EXCEPT ![w] = [NoTask EXCEPT !.copy = c]]
  BY <1>2, <1>4, <1>7
<1> QED
  BY <1>1, <1>5, <1>6, <1>7

\* What the handlers and the importers leave alone.
LEMMA HandlerTypes ==
  ASSUME ImportInv, OtherTypes, NEW w \in All,
         \/ Handle(w) \/ Interrupted(w)
         \/ Receive(w) \/ ImportByHand(w) \/ OpenRow(w)
  PROVE  OtherTypes'
<1> USE ImportAssumption
<1>1. UNCHANGED <<stripe, age, supplier, sent>>
  BY DEF Handle, LookUp, Insert, InsertRefused, Link, Paid, Answer, SaveRow, Interrupted, Abandon,
     Done, Goto, Receive, ReceiveDocument, ImportByHand, OpenRow, importVars,
     Log!Interrupted, Log!Processed, Log!LogEvent
<1>2. queue' \in {queue, <<>>}
  BY DEF Handle, LookUp, Insert, InsertRefused, Link, Paid, Answer, SaveRow, Interrupted, Abandon,
     Receive, ReceiveDocument, ImportByHand, OpenRow, importVars
<1>3. queue' \in Seq(Documents)
  <2>1. queue \in Seq(Documents) /\ <<>> \in Seq(Documents)
    BY DEF OtherTypes
  <2> QED
    BY <1>2, <2>1
<1>4. failures' \in 0..MaxFailures
  <2>1. failures \in 0..MaxFailures
    BY DEF OtherTypes
  <2>2. failures' = failures \/ (failures < MaxFailures /\ failures' = failures + 1)
    BY DEF Handle, LookUp, Insert, InsertRefused, Link, Paid, Answer, SaveRow, Interrupted,
       Receive, ReceiveDocument, ImportByHand, OpenRow, importVars
  <2> QED
    BY <2>1, <2>2
<1>5. trouble' \subseteq trouble \union Troubles
  BY DEF Handle, LookUp, Insert, InsertRefused, Link, Paid, Answer, SaveRow, Interrupted, Harm,
     Receive, ReceiveDocument, ImportByHand, OpenRow, importVars, Troubles
<1>6. \A v \in All : task'[v].doc \in Documents /\ task'[v].final \in BOOLEAN
  <2>1. CASE Handle(w) \/ Interrupted(w)
    <3>1. task' = task \/ task' = [task EXCEPT ![w] = NoTask]
      BY <2>1 DEF Handle, LookUp, Insert, InsertRefused, Link, Paid, Answer, SaveRow, Interrupted,
         Abandon, Done, importVars
    <3> QED
      BY <3>1, TaskTypes
  <2>2. CASE Receive(w)
    <3>1. \E d \in Documents : Fetched(w, d, TRUE)
      BY <2>2 DEF Receive, ReceiveDocument, Documents
    <3>2. TRUE \in BOOLEAN
      OBVIOUS
    <3>3. \E d \in Documents, f \in BOOLEAN : Fetched(w, d, f)
      BY <3>1, <3>2, Zenon
    <3> QED
      BY <3>3, TaskTypes
  <2>3. CASE ImportByHand(w)
    <3>1. Fetched(w, "invoice", Final("invoice")) /\ "invoice" \in Documents
      BY <2>3 DEF ImportByHand, Documents
    <3>2. Final("invoice") \in BOOLEAN
      BY DEF Final
    <3>3. \E d \in Documents, f \in BOOLEAN : Fetched(w, d, f)
      BY <3>1, <3>2, Zenon
    <3> QED
      BY <3>3, TaskTypes
  <2>4. CASE OpenRow(w)
    <3>1. \E c : task' = [task EXCEPT ![w] = [NoTask EXCEPT !.copy = c]]
      BY <2>4, Zenon DEF OpenRow
    <3> QED
      BY <3>1, TaskTypes
  <2> QED
    BY <2>1, <2>2, <2>3, <2>4
<1> QED
  BY <1>1, <1>3, <1>4, <1>5, <1>6 DEF OtherTypes

\* The night looks for at most one invoice and one credit note.
LEMMA MissingDocuments == Missing \in Seq(Documents)
<1>1. \A d \in Documents : ToCatchUp(d) \in Seq(Documents)
  <2>1. \A d \in Documents : <<d>> \in Seq(Documents) /\ <<>> \in Seq(Documents)
    OBVIOUS
  <2> QED
    BY <2>1 DEF ToCatchUp
<1>2. \A a, b \in Seq(Documents) : a \o b \in Seq(Documents)
  OBVIOUS
<1>3. "invoice" \in Documents /\ "credit_note" \in Documents
  BY DEF Documents
<1> QED
  BY <1>1, <1>2, <1>3, Zenon DEF Missing

LEMMA OtherStep ==
  ASSUME ImportInv, OtherTypes, [Next]_vars
  PROVE  OtherTypes'
<1> USE ImportAssumption
<1>1. CASE Finalise \/ Pay \/ Credit
  <2>1. UNCHANGED <<age, supplier, task, queue, failures, trouble>>
    BY <1>1 DEF Finalise, Pay, Credit
  <2>2. stripe' \in [Documents -> {"absent", "draft", "open", "paid"}]
    BY <1>1 DEF Finalise, Pay, Credit, OtherTypes
  <2>3. sent' \subseteq Notices
    BY <1>1 DEF Finalise, Pay, Credit, Tell, Notices, OtherTypes
  <2> QED
    BY <2>1, <2>2, <2>3 DEF OtherTypes
<1>2. CASE SaveSettings
  <2>1. UNCHANGED <<stripe, age, task, queue, sent>> /\ supplier' \in BOOLEAN
    BY <1>2 DEF SaveSettings
  <2>2. failures' \in 0..MaxFailures
    BY <1>2 DEF SaveSettings, OtherTypes
  <2>3. trouble' \subseteq Troubles
    BY <1>2 DEF SaveSettings, OtherTypes, Troubles
  <2> QED
    BY <2>1, <2>2, <2>3 DEF OtherTypes
<1>3. ASSUME NEW d \in Documents, Delete(d) PROVE OtherTypes'
  BY <1>3 DEF Delete, OtherTypes
<1>4. CASE CatchUp
  <2>1. UNCHANGED <<stripe, supplier, task, failures, trouble, sent>>
    BY <1>4 DEF CatchUp
  <2>2. queue' \in Seq(Documents)
    <3>1. queue' = Missing \/ queue' = <<>>
      BY <1>4 DEF CatchUp
    <3>2. <<>> \in Seq(Documents)
      OBVIOUS
    <3> QED
      BY <3>1, <3>2, MissingDocuments
  <2>3. age' \in [Documents -> 0..CatchupDays]
    <3>1. age' = [d \in Documents |-> IF stripe[d] # "absent" /\ Recent(d) THEN age[d] + 1 ELSE age[d]]
      BY <1>4 DEF CatchUp
    <3>2. \A d \in Documents : age[d] \in 0..CatchupDays /\ (Recent(d) => age[d] + 1 \in 0..CatchupDays)
      BY DEF OtherTypes, Recent
    <3> QED
      BY <3>1, <3>2
  <2> QED
    BY <2>1, <2>2, <2>3 DEF OtherTypes
<1>5. CASE NextDocument
  <2>1. UNCHANGED <<stripe, age, supplier, failures, trouble, sent>>
    BY <1>5 DEF NextDocument, Goto
  <2>2. queue' \in Seq(Documents) /\ Head(queue) \in Documents
    <3>1. queue # <<>> /\ queue' = Tail(queue)
      BY <1>5 DEF NextDocument
    <3>2. \A q \in Seq(Documents) : q # <<>> => Tail(q) \in Seq(Documents) /\ Head(q) \in Documents
      OBVIOUS
    <3> QED
      BY <3>1, <3>2 DEF OtherTypes
  <2>3. \E d \in Documents, f \in BOOLEAN : Fetched(Night, d, f)
    <3>1. Fetched(Night, Head(queue), TRUE)
      BY <1>5 DEF NextDocument
    <3>2. TRUE \in BOOLEAN
      OBVIOUS
    <3> QED
      BY <2>2, <3>1, <3>2, Zenon
  <2>4. Night \in All
    BY DEF All
  <2>5. \A v \in All : task'[v].doc \in Documents /\ task'[v].final \in BOOLEAN
    BY <2>3, <2>4, TaskTypes
  <2> QED
    BY <2>1, <2>2, <2>5 DEF OtherTypes
<1>6. ASSUME NEW w \in All, Receive(w) \/ ImportByHand(w) \/ OpenRow(w) PROVE OtherTypes'
  BY <1>6, HandlerTypes
<1>7. ASSUME NEW w \in All, Handle(w) \/ Interrupted(w) PROVE OtherTypes'
  BY <1>7, HandlerTypes
<1>8. CASE UNCHANGED vars
  BY <1>8 DEF vars, importVars, OtherTypes
<1> QED
  BY <1>1, <1>2, <1>3, <1>4, <1>5, <1>6, <1>7, <1>8, EditorsWork DEF Next, All

\* A document is never seen for more nights than the job looks back (catchup.py,
\* CATCHUP_DAYS), the night's queue holds documents only, and no row, task, event
\* or log takes a form the importers do not know.
THEOREM ImportTypeCorrect == Spec => []TypeOK
<1>1. ImportInv /\ OtherTypes => TypeOK
  BY DEF ImportInv, ImportTypes, OtherTypes, TypeOK, Log!LogTypeOK, RowType, Labels, Troubles
<1> QED
  BY <1>1, ImportInvariant, TypesInitially, OtherStep, PTL DEF Spec
=============================================================================
