----------------------------- MODULE PaymentProofs -----------------------------
(***************************************************************************)
(* Theorems about PaymentEvents, for any number of workers and sessions    *)
(* and any providers.                                                      *)
(***************************************************************************)
EXTENDS PaymentEvents, SequenceTheorems, FiniteSetTheorems, TLAPS

SessionStates == {"asked", "open", "authorised", "collected", "failed", "expired"}

References == {"session", "billing_request"} \X Nat

TxnRow == [reference : References, status : {"created", "confirmed", "failed"}]

Labels == {"idle", "process", "processed", "checkout", "opened", "pay"}

PaymentTypes ==
  /\ provider \in [Sessions -> AllProviders]
  /\ status \in Status
  /\ sessions \in Seq(SessionStates) /\ Len(sessions) <= MaxSessions
  /\ txns \in Seq(TxnRow)
  /\ mine \in [Workers -> Nat]
  /\ read \in [Workers -> Status]
  /\ log \in [Ids -> {"none", "logged", "processed"}]
  /\ pc \in [Workers -> Labels]
  /\ notice \in [Workers -> Notices \union {NoNotice}]
  /\ \A w \in Workers : pc[w] \in {"checkout", "opened"} => mine[w] \in DOMAIN sessions

LEMMA SessionDomain ==
  ASSUME PaymentTypes
  PROVE  DOMAIN sessions = 1..Len(sessions) /\ DOMAIN txns = 1..Len(txns)
         /\ Len(sessions) \in Nat /\ Len(txns) \in Nat
         /\ DOMAIN sessions \subseteq Sessions
<1>1. DOMAIN sessions = 1..Len(sessions) /\ DOMAIN txns = 1..Len(txns)
      /\ Len(sessions) \in Nat /\ Len(txns) \in Nat /\ Len(sessions) <= MaxSessions
  BY DEF PaymentTypes
<1> QED
  BY <1>1, PaymentAssumption DEF Sessions

----------------------------------------------------------------------------
(* What the notifications of a provider say.                               *)

LEMMA EventFacts ==
  ASSUME provider \in [Sessions -> AllProviders], NEW n \in Notices
  PROVE  /\ Event(n).id \in {<<"event", n.session, n.tiding>>, <<"session", n.session>>}
         /\ Event(n).id \in Ids
         /\ Event(n).type \in {"confirmed", "failed", "unknown", "payment_pending"}
         /\ Event(n).type = "confirmed" => n.tiding \in {"completed", "collected"}
         /\ Event(n).type = "failed" => n.tiding \in {"failed", "expired"}
         /\ Event(n).reference \in {<<"session", n.session>>, <<"payment", n.session>>}
         /\ Event(n).id = <<"session", n.session>> <=> provider[n.session] = "fintecture_without_ids"
<1>1. n.session \in Sessions /\ n.tiding \in Tidings
  BY DEF Notices
<1> QED
  BY <1>1
  DEF Event, StripeEvent, GoCardlessEvent, FintectureEvent, AllProviders, Tidings, Ids

LEMMA ReferenceFacts ==
  ASSUME NEW s, NEW x
  PROVE  /\ Reference(s) \in {<<"session", s>>, <<"billing_request", s>>}
         /\ Reference(s) = Reference(x) => s = x
         /\ <<"session", x>> = Reference(s) => s = x
         /\ <<"payment", x>> # Reference(s)
  BY DEF Reference, StripeReference, GoCardlessReference, FintectureReference, AllProviders

\* A notification that can confirm the transaction of its session.
Confirming(n) ==
  /\ Event(n).type = "confirmed"
  /\ Event(n).reference = Reference(n.session)
  /\ Event(n).id[1] = "event"

LEMMA OwnIdentifier ==
  ASSUME provider \in [Sessions -> AllProviders], NEW n \in Notices, NEW m \in Notices,
         Confirming(n), Event(n).id = Event(m).id
  PROVE  m = n
<1> DEFINE i == Event(n).id
<1>1. i \in {<<"event", n.session, n.tiding>>, <<"session", n.session>>}
      /\ i \in {<<"event", m.session, m.tiding>>, <<"session", m.session>>}
      /\ i[1] = "event"
  BY EventFacts DEF Confirming
<1> HIDE DEF i
<1>2. i = <<"event", n.session, n.tiding>> /\ i = <<"event", m.session, m.tiding>>
  BY <1>1
<1>3. n.session = m.session /\ n.tiding = m.tiding
  <2>1. i[2] = n.session /\ i[3] = n.tiding
    BY <1>2
  <2>2. i[2] = m.session /\ i[3] = m.tiding
    BY <1>2
  <2> QED
    BY <2>1, <2>2
<1> QED
  BY <1>3 DEF Notices

----------------------------------------------------------------------------
(* The two tables.                                                         *)

LEMMA StatusSet ==
  ASSUME PaymentTypes, NEW t \in DOMAIN txns, NEW x \in {"confirmed", "failed"},
         SetStatus(t, x)
  PROVE  /\ txns' \in Seq(TxnRow) /\ DOMAIN txns' = DOMAIN txns
         /\ \A u \in DOMAIN txns : txns'[u].reference = txns[u].reference
         /\ txns'[t].status = x
         /\ \A u \in DOMAIN txns : u # t => txns'[u] = txns[u]
<1> DEFINE row == [txns[t] EXCEPT !.status = x]
<1>1. txns \in Seq(TxnRow) /\ DOMAIN txns = 1..Len(txns) /\ Len(txns) \in Nat
  BY DEF PaymentTypes
<1>2. txns[t] \in TxnRow
  BY <1>1, ElementOfSeq
<1>3. row \in TxnRow /\ row.reference = txns[t].reference /\ row.status = x
  BY <1>2 DEF TxnRow
<1>4. txns' = [txns EXCEPT ![t] = row]
  BY DEF SetStatus
<1> HIDE DEF row
<1>5. /\ txns' \in Seq(TxnRow) /\ Len(txns') = Len(txns)
      /\ \A u \in 1..Len(txns) : txns'[u] = IF u = t THEN row ELSE txns[u]
  BY <1>1, <1>3, <1>4, ExceptSeq
<1>6. DOMAIN txns' = 1..Len(txns')
  BY <1>5
<1> QED
  BY <1>1, <1>3, <1>5, <1>6

LEMMA SessionSet ==
  ASSUME PaymentTypes, NEW s \in DOMAIN sessions, NEW x \in SessionStates,
         sessions' = [sessions EXCEPT ![s] = x]
  PROVE  /\ sessions' \in Seq(SessionStates) /\ DOMAIN sessions' = DOMAIN sessions
         /\ Len(sessions') = Len(sessions)
         /\ \A u \in DOMAIN sessions : sessions'[u] = IF u = s THEN x ELSE sessions[u]
<1>1. /\ sessions \in Seq(SessionStates) /\ DOMAIN sessions = 1..Len(sessions)
      /\ Len(sessions) \in Nat
  BY DEF PaymentTypes
<1>2. sessions' \in Seq(SessionStates) /\ Len(sessions') = Len(sessions)
      /\ \A u \in 1..Len(sessions) : sessions'[u] = IF u = s THEN x ELSE sessions[u]
  BY <1>1, ExceptSeq
<1> QED
  BY <1>1, <1>2

LEMMA SessionAdded ==
  ASSUME PaymentTypes, sessions' = Append(sessions, "asked")
  PROVE  /\ sessions' \in Seq(SessionStates)
         /\ DOMAIN sessions' = DOMAIN sessions \union {Len(sessions) + 1}
         /\ Len(sessions) + 1 \notin DOMAIN sessions
         /\ \A u \in DOMAIN sessions : sessions'[u] = sessions[u]
         /\ sessions'[Len(sessions) + 1] = "asked" /\ Len(sessions') = Len(sessions) + 1
<1>1. /\ sessions \in Seq(SessionStates) /\ DOMAIN sessions = 1..Len(sessions)
      /\ Len(sessions) \in Nat /\ "asked" \in SessionStates
  BY DEF PaymentTypes, SessionStates
<1>2. /\ sessions' \in Seq(SessionStates) /\ Len(sessions') = Len(sessions) + 1
      /\ \A u \in 1..Len(sessions) : sessions'[u] = sessions[u]
      /\ sessions'[Len(sessions) + 1] = "asked"
  BY <1>1, AppendProperties
<1>3. DOMAIN sessions' = 1..Len(sessions')
  BY <1>2
<1> QED
  BY <1>1, <1>2, <1>3

LEMMA TxnAdded ==
  ASSUME PaymentTypes, NEW w \in Workers, SaveTransaction(w)
  PROVE  /\ txns' \in Seq(TxnRow)
         /\ DOMAIN txns' = DOMAIN txns \union {Len(txns) + 1}
         /\ Len(txns) + 1 \notin DOMAIN txns
         /\ \A u \in DOMAIN txns : txns'[u] = txns[u]
         /\ txns'[Len(txns) + 1] = [reference |-> Reference(mine[w]), status |-> "created"]
<1> DEFINE row == [reference |-> Reference(mine[w]), status |-> "created"]
<1>1. /\ txns \in Seq(TxnRow) /\ DOMAIN txns = 1..Len(txns)
      /\ Len(txns) \in Nat
  BY DEF PaymentTypes
<1>2. row \in TxnRow
  <2>1. mine[w] \in Nat /\ provider \in [Sessions -> AllProviders]
    BY DEF PaymentTypes
  <2>2. Reference(mine[w]) \in References
    BY <2>1 DEF Reference, StripeReference, GoCardlessReference, FintectureReference, References
  <2> QED
    BY <2>2 DEF TxnRow
<1>3. txns' = Append(txns, row)
  BY DEF SaveTransaction
<1> HIDE DEF row
<1>4. /\ txns' \in Seq(TxnRow) /\ Len(txns') = Len(txns) + 1
      /\ \A u \in 1..Len(txns) : txns'[u] = txns[u]
      /\ txns'[Len(txns) + 1] = row
  BY <1>1, <1>2, <1>3, AppendProperties
<1>5. DOMAIN txns' = 1..Len(txns')
  BY <1>4
<1> QED
  BY <1>1, <1>4, <1>5 DEF row

----------------------------------------------------------------------------
(* Types.                                                                  *)

LEMMA TypesInitially == Init => PaymentTypes
  BY PaymentAssumption
  DEF Init, PaymentTypes, Log!LogInit, Labels, SessionStates, TxnRow, Status

\* What no worker does: the provider and the rest of the application.
LEMMA TypesOutside ==
  ASSUME PaymentTypes,
         (\E s \in DOMAIN sessions : Complete(s) \/ Settle(s) \/ Expire(s)) \/ Elsewhere \/ StaleSave
  PROVE  PaymentTypes'
<1>1. CASE Elsewhere \/ StaleSave
  <2>1. status' \in Status
    BY <1>1, PaymentAssumption DEF Elsewhere, StaleSave
  <2> QED
    BY <1>1, <2>1 DEF Elsewhere, StaleSave, PaymentTypes
<1>2. ASSUME NEW s \in DOMAIN sessions, Complete(s) \/ Settle(s) \/ Expire(s)
      PROVE  PaymentTypes'
  <2>1. /\ \E x \in SessionStates : sessions' = [sessions EXCEPT ![s] = x]
        /\ UNCHANGED <<provider, status, txns, mine, read, log, pc, notice>>
    BY <1>2 DEF Complete, Settle, Expire, SessionStates
  <2>2. /\ sessions' \in Seq(SessionStates) /\ DOMAIN sessions' = DOMAIN sessions
        /\ Len(sessions') = Len(sessions)
    BY <2>1, SessionSet
  <2> QED
    BY <2>1, <2>2 DEF PaymentTypes
<1> QED
  BY <1>1, <1>2

LEMMA TypesOfWorker ==
  ASSUME PaymentTypes, NEW w \in Workers,
         Checkout(w) \/ Handle(w) \/ Interrupted(w) \/ \E n \in Notices : Receive(w, n)
  PROVE  PaymentTypes'
<1>1. CASE Checkout(w)
  <2>1. /\ sessions' = Append(sessions, "asked")
        /\ mine' = [mine EXCEPT ![w] = Len(sessions) + 1]
        /\ pc' = [pc EXCEPT ![w] = "checkout"]
        /\ Len(sessions) + 1 \in Sessions
        /\ UNCHANGED <<provider, status, txns, read, log, notice>>
    BY <1>1 DEF Checkout, Ask, NextSession, Log!GoTo
  <2>2. /\ sessions' \in Seq(SessionStates)
        /\ DOMAIN sessions' = DOMAIN sessions \union {Len(sessions) + 1}
        /\ Len(sessions) + 1 \in Nat /\ Len(sessions') = Len(sessions) + 1
    BY <2>1, SessionAdded, SessionDomain
  <2>3. Len(sessions') <= MaxSessions
    BY <2>1, <2>2, PaymentAssumption DEF Sessions
  <2> QED
    BY <2>1, <2>2, <2>3 DEF PaymentTypes, Labels
<1>2. CASE OpenSession(w)
  <2>1. /\ sessions' = [sessions EXCEPT ![mine[w]] = "open"] /\ pc[w] = "checkout"
        /\ pc' = [pc EXCEPT ![w] = "opened"]
        /\ UNCHANGED <<provider, status, txns, mine, read, log, notice>>
    BY <1>2 DEF OpenSession, Log!GoTo
  <2>2. mine[w] \in DOMAIN sessions /\ "open" \in SessionStates
    BY <2>1 DEF PaymentTypes, SessionStates
  <2>3. /\ sessions' \in Seq(SessionStates) /\ DOMAIN sessions' = DOMAIN sessions
        /\ Len(sessions') = Len(sessions)
    BY <2>1, <2>2, SessionSet
  <2> QED
    BY <2>1, <2>2, <2>3 DEF PaymentTypes, Labels
<1>3. CASE SaveTransaction(w)
  <2>1. /\ mine' = [mine EXCEPT ![w] = 0] /\ pc' = [pc EXCEPT ![w] = "idle"]
        /\ UNCHANGED <<provider, status, sessions, read, log, notice>>
    BY <1>3 DEF SaveTransaction, Log!GoTo
  <2> QED
    BY <1>3, <2>1, TxnAdded DEF PaymentTypes, Labels
<1>4. ASSUME NEW l \in Labels \ {"checkout", "opened"}, pc' = [pc EXCEPT ![w] = l],
             txns' \in Seq(TxnRow), status' \in Status, read' \in [Workers -> Status],
             UNCHANGED <<provider, sessions, mine, log, notice>>
      PROVE  PaymentTypes'
  BY <1>4 DEF PaymentTypes
<1>5. CASE PaymentConfirmed(w)
  <2>1. txns' \in Seq(TxnRow)
    BY <1>5, StatusSet DEF PaymentConfirmed, Found, PaymentTypes
  <2>2. /\ \E l \in {"processed", "pay"} : pc' = [pc EXCEPT ![w] = l]
        /\ read' \in [Workers -> Status]
        /\ UNCHANGED <<provider, status, sessions, mine, log, notice>>
    BY <1>5 DEF PaymentConfirmed, Log!GoTo, PaymentTypes
  <2> QED
    BY <1>4, <2>1, <2>2 DEF PaymentTypes, Labels
<1>6. CASE MarkPaid(w)
  <2>1. /\ pc' = [pc EXCEPT ![w] = "processed"]
        /\ read' \in [Workers -> Status] /\ status' \in Status
        /\ UNCHANGED <<provider, txns, sessions, mine, log, notice>>
    BY <1>6 DEF MarkPaid, Log!GoTo, PaymentTypes, Status
  <2> QED
    BY <1>4, <2>1 DEF PaymentTypes, Labels
<1>7. CASE PaymentFailed(w)
  <2>1. txns' \in Seq(TxnRow)
    BY <1>7, StatusSet DEF PaymentFailed, Found, PaymentTypes
  <2>2. /\ pc' = [pc EXCEPT ![w] = "processed"]
        /\ UNCHANGED <<provider, status, sessions, mine, read, log, notice>>
    BY <1>7 DEF PaymentFailed, Log!GoTo
  <2> QED
    BY <1>4, <2>1, <2>2 DEF PaymentTypes, Labels
<1>8. CASE Unhandled(w)
  BY <1>4, <1>8 DEF Unhandled, Log!GoTo, paymentVars, PaymentTypes, Labels
<1>9. CASE Answer(w)
  <2>1. /\ pc' = [pc EXCEPT ![w] = "idle"] /\ notice' = [notice EXCEPT ![w] = NoNotice]
        /\ \E i : log' = [log EXCEPT ![i] = "processed"]
        /\ UNCHANGED <<provider, status, sessions, txns, mine, read>>
    BY <1>9 DEF Answer, Log!Processed, Log!Leave, Log!GoTo, paymentVars
  <2> QED
    BY <2>1 DEF PaymentTypes, Labels
<1>10. CASE Interrupted(w)
  <2>1. /\ pc' = [pc EXCEPT ![w] = "idle"] /\ notice' = [notice EXCEPT ![w] = NoNotice]
        /\ mine' = [mine EXCEPT ![w] = 0] /\ read' = [read EXCEPT ![w] = "draft"]
        /\ UNCHANGED <<provider, status, sessions, txns, log>>
    BY <1>10 DEF Interrupted, Log!Interrupted, Log!Leave, Log!GoTo, Forget
  <2>2. read' \in [Workers -> Status]
    BY <2>1 DEF PaymentTypes, Status
  <2> QED
    BY <2>1, <2>2 DEF PaymentTypes, Labels
<1>11. ASSUME NEW n \in Notices, Receive(w, n) PROVE PaymentTypes'
  <2>1. /\ pc' = [pc EXCEPT ![w] = "process"] /\ notice' = [notice EXCEPT ![w] = n]
        /\ log' = [log EXCEPT ![Event(n).id] = "logged"]
        /\ UNCHANGED <<provider, status, sessions, txns, mine, read>>
    BY <1>11 DEF Receive, Log!LogEvent, Log!GoTo, paymentVars
  <2> QED
    BY <2>1 DEF PaymentTypes, Labels
<1> QED
  BY <1>1, <1>2, <1>3, <1>5, <1>6, <1>7, <1>8, <1>9, <1>10, <1>11 DEF Handle

LEMMA TypesStep == PaymentTypes /\ [Next]_vars => PaymentTypes'
<1> SUFFICES ASSUME PaymentTypes, [Next]_vars PROVE PaymentTypes'
  OBVIOUS
<1>1. CASE UNCHANGED vars
  BY <1>1 DEF vars, paymentVars, PaymentTypes
<1> QED
  BY <1>1, TypesOutside, TypesOfWorker DEF Next

----------------------------------------------------------------------------
(* What is collected is recorded.                                          *)

Charged == {"authorised", "collected", "failed"}

\* A notification tells what has become of its session.
Told ==
  \A n \in sent :
    /\ n.session \in DOMAIN sessions
    /\ n.tiding = "completed" => sessions[n.session] \in Charged
    /\ n.tiding \in {"collected", "failed", "expired"} => sessions[n.session] = n.tiding

\* The customer had the link.
HadLink == \A s \in DOMAIN sessions : sessions[s] \in Charged => Linked(s)

\* The money of session s is on its way or there, and its transaction says so.
Good(s) ==
  /\ s \in DOMAIN sessions /\ sessions[s] \in Charged
  /\ sessions[s] # "failed" => Confirmed(s)

CheckingOut(w) == pc[w] \in {"checkout", "opened"}

\* A session that is asked for is not open yet, and each checkout has its own.
Asking ==
  /\ \A w \in Workers : pc[w] = "checkout" => sessions[mine[w]] = "asked"
  /\ \A v, w \in Workers : CheckingOut(v) /\ CheckingOut(w) /\ mine[v] = mine[w] => v = w

\* What a worker has done for its notification by the time it is at a label.
Knows ==
  \A w \in Workers : \A n \in Notices : notice[w] = n =>
    /\ pc[w] = "pay" /\ Confirming(n) => Good(n.session)
    /\ pc[w] = "processed" /\ Confirming(n) => Good(n.session) /\ Applied

Holds ==
  \A w \in Workers : pc[w] \in {"process", "pay", "processed"} => notice[w] \in sent \intersect Notices

Recorded ==
  \A n \in Notices : Confirming(n) /\ log[Event(n).id] = "processed" => Good(n.session) /\ Applied

CollectedInv == PaymentTypes /\ Asking /\ Told /\ HadLink /\ Holds /\ Knows /\ Recorded

LEMMA SameProvider ==
  ASSUME provider' = provider, NEW n
  PROVE  /\ Event(n)' = Event(n) /\ (Confirming(n)' <=> Confirming(n))
         /\ Reference(n)' = Reference(n)
  BY DEF Confirming, Event, StripeEvent, GoCardlessEvent, FintectureEvent,
         Reference, StripeReference, GoCardlessReference, FintectureReference

LEMMA NeverChanges ==
  ASSUME [Next]_vars PROVE provider' = provider
  BY DEF Next, Checkout, Ask, Handle, OpenSession, SaveTransaction, PaymentConfirmed, MarkPaid,
         PaymentFailed, Unhandled, Answer, Interrupted, Receive, Complete, Settle, Expire,
         Elsewhere, StaleSave, vars, paymentVars

\* What each step does to the sessions and to the transactions.
LEMMA Sessions1 ==
  ASSUME CollectedInv, [Next]_vars
  PROVE  \/ UNCHANGED <<sessions, sent>>
         \/ sessions' = Append(sessions, "asked") /\ UNCHANGED <<sent, txns>>
         \/ \E u \in DOMAIN sessions : /\ sessions[u] = "asked" /\ UNCHANGED <<sent, txns>>
                                      /\ sessions' = [sessions EXCEPT ![u] = "open"]
         \/ \E s \in DOMAIN sessions : Complete(s) \/ Settle(s) \/ Expire(s)
<1>1. ASSUME NEW w \in Workers, Checkout(w)
      PROVE  sessions' = Append(sessions, "asked") /\ UNCHANGED <<sent, txns>>
  BY <1>1 DEF Checkout, Ask
<1>2. ASSUME NEW w \in Workers, OpenSession(w)
      PROVE  /\ mine[w] \in DOMAIN sessions /\ sessions[mine[w]] = "asked"
             /\ sessions' = [sessions EXCEPT ![mine[w]] = "open"] /\ UNCHANGED <<sent, txns>>
  BY <1>2 DEF OpenSession, CollectedInv, Asking, PaymentTypes
<1>3. ASSUME NEW w \in Workers,
             \/ SaveTransaction(w) \/ PaymentConfirmed(w) \/ MarkPaid(w) \/ PaymentFailed(w)
             \/ Unhandled(w) \/ Answer(w) \/ Interrupted(w) \/ \E n \in Notices : Receive(w, n)
      PROVE  UNCHANGED <<sessions, sent>>
  BY <1>3 DEF SaveTransaction, PaymentConfirmed, MarkPaid, PaymentFailed, Unhandled, Answer,
              Interrupted, Receive, Log!LogEvent, Log!Processed, Log!Interrupted, paymentVars,
              Log!GoTo
<1>4. ASSUME Elsewhere \/ StaleSave \/ UNCHANGED vars PROVE UNCHANGED <<sessions, sent>>
  BY <1>4 DEF Elsewhere, StaleSave, vars, paymentVars
<1> QED
  BY <1>1, <1>2, <1>3, <1>4 DEF Next, Handle

LEMMA Txns1 ==
  ASSUME CollectedInv, [Next]_vars
  PROVE  \/ UNCHANGED txns
         \/ UNCHANGED <<sessions, sent>> /\ \E w \in Workers : SaveTransaction(w)
         \/ UNCHANGED <<sessions, sent>>
              /\ \E w \in Workers, t \in DOMAIN txns : PaymentConfirmed(w) /\ SetStatus(t, "confirmed")
         \/ UNCHANGED <<sessions, sent>>
              /\ \E w \in Workers, t \in DOMAIN txns :
                   /\ PaymentFailed(w) /\ SetStatus(t, "failed")
                   /\ t \in Found(Event(notice[w]).reference)
  BY DEF Next, Checkout, Ask, Handle, OpenSession, SaveTransaction, PaymentConfirmed, MarkPaid,
         PaymentFailed, Unhandled, Answer, Interrupted, Receive, Complete, Settle, Expire,
         Elsewhere, StaleSave, vars, paymentVars, Found

LEMMA LinkKept ==
  ASSUME CollectedInv, [Next]_vars, NEW s, Linked(s)
  PROVE  Linked(s)'
<1>1. PICK t \in DOMAIN txns : txns[t].reference = Reference(s)
  BY DEF Linked
<1>2. Reference(s)' = Reference(s)
  BY NeverChanges, SameProvider
<1>3. t \in DOMAIN txns' /\ txns'[t].reference = txns[t].reference
  <2>1. PaymentTypes
    BY DEF CollectedInv
  <2> QED
    BY <2>1, Txns1, TxnAdded, StatusSet
<1> QED
  BY <1>1, <1>2, <1>3 DEF Linked

\* A session that is failed or expired is told so.
LEMMA FailedSession ==
  ASSUME CollectedInv, NEW w \in Workers, PaymentFailed(w), NEW s,
         Event(notice[w]).reference = Reference(s)
  PROVE  s \in DOMAIN sessions /\ sessions[s] \in {"failed", "expired"}
<1>1. pc[w] = "process" /\ Event(notice[w]).type = "failed"
  BY DEF PaymentFailed
<1>2. notice[w] \in sent /\ notice[w] \in Notices /\ provider \in [Sessions -> AllProviders]
  BY <1>1 DEF CollectedInv, Holds, Told, PaymentTypes
<1>3. notice[w].tiding \in {"failed", "expired"}
      /\ Event(notice[w]).reference \in {<<"session", notice[w].session>>, <<"payment", notice[w].session>>}
  BY <1>1, <1>2, EventFacts
<1>4. s = notice[w].session
  BY <1>2, <1>3, ReferenceFacts
<1> QED
  BY <1>2, <1>3, <1>4 DEF CollectedInv, Told

\* What is open when it is asked for is not charged by that.
LEMMA OpenedSession ==
  ASSUME PaymentTypes, NEW u \in DOMAIN sessions, sessions[u] = "asked",
         sessions' = [sessions EXCEPT ![u] = "open"]
  PROVE  /\ DOMAIN sessions' = DOMAIN sessions
         /\ \A v \in DOMAIN sessions :
              \/ sessions'[v] = sessions[v]
              \/ v = u /\ sessions[v] = "asked" /\ sessions'[v] = "open"
<1>1. "open" \in SessionStates
  BY DEF SessionStates
<1> QED
  BY <1>1, SessionSet

LEMMA GoodKept ==
  ASSUME CollectedInv, [Next]_vars, NEW s, Good(s)
  PROVE  Good(s)'
<1>1. PaymentTypes
  BY DEF CollectedInv
<1>2. /\ s \in DOMAIN sessions' /\ sessions'[s] \in Charged
      /\ sessions'[s] # "failed" => sessions[s] # "failed"
  <2>1. ASSUME NEW u \in DOMAIN sessions, Complete(u) \/ Settle(u) \/ Expire(u)
        PROVE  /\ DOMAIN sessions' = DOMAIN sessions
               /\ \A v \in DOMAIN sessions : sessions'[v] # sessions[v] =>
                    v = u /\ sessions[v] \in {"open", "authorised"}
               /\ sessions[u] = "authorised" => sessions'[u] \in Charged
    <3>1. PICK x \in SessionStates :
            /\ sessions' = [sessions EXCEPT ![u] = x]
            /\ sessions[u] \in {"open", "authorised"}
            /\ sessions[u] = "authorised" => x \in {"collected", "failed"}
      BY <2>1 DEF Complete, Settle, Expire, SessionStates
    <3>2. /\ DOMAIN sessions' = DOMAIN sessions
          /\ \A v \in DOMAIN sessions : sessions'[v] = IF v = u THEN x ELSE sessions[v]
      BY <1>1, <3>1, SessionSet
    <3> QED
      BY <3>1, <3>2 DEF Charged
  <2>2. ASSUME NEW u \in DOMAIN sessions, sessions[u] = "asked",
               sessions' = [sessions EXCEPT ![u] = "open"]
        PROVE  s \in DOMAIN sessions' /\ sessions'[s] = sessions[s]
    BY <1>1, <2>2, OpenedSession DEF Good, Charged
  <2>3. CASE sessions' = Append(sessions, "asked")
    BY <1>1, <2>3, SessionAdded DEF Good
  <2> QED
    BY <1>1, <2>1, <2>2, <2>3, Sessions1 DEF Good, Charged
<1>3. ASSUME sessions[s] # "failed" PROVE Confirmed(s)'
  <2>1. PICK t \in DOMAIN txns : txns[t].reference = Reference(s) /\ txns[t].status = "confirmed"
    BY <1>3 DEF Good, Confirmed
  <2>2. Reference(s)' = Reference(s)
    BY NeverChanges, SameProvider
  <2>3. ASSUME NEW w \in Workers, NEW u \in DOMAIN txns, PaymentFailed(w),
               SetStatus(u, "failed"), u \in Found(Event(notice[w]).reference)
        PROVE  u # t
    BY <1>3, <2>1, <2>3, FailedSession DEF Found, Good, Charged
  <2>4. t \in DOMAIN txns' /\ txns'[t].reference = txns[t].reference
        /\ txns'[t].status = "confirmed"
    BY <1>1, <2>1, <2>3, Txns1, TxnAdded, StatusSet
  <2> QED
    BY <2>1, <2>2, <2>4 DEF Confirmed
<1> QED
  BY <1>2, <1>3 DEF Good

LEMMA TroubleKept ==
  ASSUME [Next]_vars PROVE trouble \subseteq trouble'
  BY DEF Next, Checkout, Ask, TroubleAtCheckout, Handle, OpenSession, SaveTransaction, PaymentConfirmed,
         MarkPaid, PaymentFailed, Unhandled, Answer, Interrupted, Harm, Receive, Complete, Settle,
         Expire, Elsewhere, StaleSave, vars, paymentVars

LEMMA PaidKept ==
  ASSUME [Next]_vars, status \in {"paid", "cancelled"}
  PROVE  status' \in {"paid", "cancelled"} \/ "overwritten" \in trouble'
<1>1. status' \in {status, "paid"} \/ status' \in Transitions[status] \/ "overwritten" \in trouble'
  BY DEF Next, Checkout, Ask, Handle, OpenSession, SaveTransaction, PaymentConfirmed, MarkPaid,
         PaymentFailed, Unhandled, Answer, Interrupted, Receive, Complete, Settle, Expire,
         Elsewhere, StaleSave, vars, paymentVars
<1>2. Transitions["paid"] = {"cancelled"} /\ Transitions["cancelled"] = {}
  BY DEF Transitions
<1> QED
  BY <1>1, <1>2

LEMMA AppliedKept ==
  ASSUME [Next]_vars, Applied
  PROVE  Applied'
<1>1. trouble \subseteq trouble'
  BY TroubleKept
<1>2. CASE status \in {"paid", "cancelled"}
  BY <1>2, PaidKept DEF Applied
<1>3. CASE trouble \intersect {"conflict", "overwritten"} # {}
  BY <1>1, <1>3 DEF Applied
<1> QED
  BY <1>2, <1>3 DEF Applied

LEMMA ToldStep ==
  ASSUME CollectedInv, [Next]_vars
  PROVE  Told'
<1>1. PaymentTypes /\ Told
  BY DEF CollectedInv
<1>2. CASE UNCHANGED <<sessions, sent>>
  BY <1>1, <1>2 DEF Told
<1>3. CASE sessions' = Append(sessions, "asked") /\ sent' = sent
  BY <1>1, <1>3, SessionAdded DEF Told
<1>5. ASSUME NEW u \in DOMAIN sessions, sessions[u] = "asked", sent' = sent,
             sessions' = [sessions EXCEPT ![u] = "open"]
      PROVE  Told'
  <2>1. /\ DOMAIN sessions' = DOMAIN sessions
        /\ \A v \in DOMAIN sessions : sessions[v] # "asked" => sessions'[v] = sessions[v]
    BY <1>1, <1>5, OpenedSession
  <2> QED
    BY <1>1, <1>5, <2>1 DEF Told, Charged
<1>4. ASSUME NEW s \in DOMAIN sessions, Complete(s) \/ Settle(s) \/ Expire(s)
      PROVE  Told'
  <2>1. PICK x \in SessionStates, tiding \in Tidings :
          /\ sessions' = [sessions EXCEPT ![s] = x]
          /\ sent' = sent \union {[session |-> s, tiding |-> tiding]}
          /\ sessions[s] \in {"open", "authorised"}
          /\ sessions[s] = "authorised" => x \in Charged
          /\ tiding = "completed" => x \in Charged
          /\ tiding \in {"collected", "failed", "expired"} => x = tiding
    BY <1>4 DEF Complete, Settle, Expire, SessionStates, Tell, Charged, Tidings
  <2>2. /\ DOMAIN sessions' = DOMAIN sessions
        /\ \A u \in DOMAIN sessions : sessions'[u] = IF u = s THEN x ELSE sessions[u]
    BY <1>1, <2>1, SessionSet
  <2>3. ASSUME NEW n \in sent
        PROVE  /\ n.session \in DOMAIN sessions'
               /\ n.tiding = "completed" => sessions'[n.session] \in Charged
               /\ n.tiding \in {"collected", "failed", "expired"} => sessions'[n.session] = n.tiding
    BY <1>1, <2>1, <2>2 DEF Told, Charged
  <2>4. ASSUME NEW n, n = [session |-> s, tiding |-> tiding]
        PROVE  /\ n.session \in DOMAIN sessions'
               /\ n.tiding = "completed" => sessions'[n.session] \in Charged
               /\ n.tiding \in {"collected", "failed", "expired"} => sessions'[n.session] = n.tiding
    <3>1. n.session = s /\ n.tiding = tiding
      BY <2>4
    <3> QED
      BY <2>1, <2>2, <3>1
  <2> QED
    BY <2>1, <2>3, <2>4 DEF Told
<1> QED
  BY <1>2, <1>3, <1>4, <1>5, Sessions1

LEMMA HadLinkStep ==
  ASSUME CollectedInv, [Next]_vars
  PROVE  HadLink'
<1>1. PaymentTypes /\ HadLink
  BY DEF CollectedInv
<1> SUFFICES ASSUME NEW s \in DOMAIN sessions', sessions'[s] \in Charged
             PROVE  Linked(s)'
  BY DEF HadLink
<1>2. CASE UNCHANGED <<sessions, sent>>
  BY <1>1, <1>2, LinkKept DEF HadLink
<1>3. CASE sessions' = Append(sessions, "asked")
  BY <1>1, <1>3, SessionAdded, LinkKept DEF HadLink, Charged
<1>5. ASSUME NEW u \in DOMAIN sessions, sessions[u] = "asked",
             sessions' = [sessions EXCEPT ![u] = "open"]
      PROVE  Linked(s)
  <2>1. s \in DOMAIN sessions /\ sessions[s] \in Charged
    BY <1>1, <1>5, OpenedSession DEF Charged
  <2> QED
    BY <1>1, <2>1 DEF HadLink
<1>4. ASSUME NEW u \in DOMAIN sessions, Complete(u) \/ Settle(u) \/ Expire(u)
      PROVE  Linked(s)
  <2>1. PICK x \in SessionStates :
          /\ sessions' = [sessions EXCEPT ![u] = x]
          /\ x \in Charged => Linked(u)
    BY <1>1, <1>4 DEF Complete, Settle, Expire, SessionStates, HadLink, Charged
  <2>2. /\ DOMAIN sessions' = DOMAIN sessions
        /\ \A v \in DOMAIN sessions : sessions'[v] = IF v = u THEN x ELSE sessions[v]
    BY <1>1, <2>1, SessionSet
  <2> QED
    BY <1>1, <2>1, <2>2 DEF HadLink
<1> QED
  BY <1>2, <1>3, <1>4, <1>5, Sessions1, LinkKept

LEMMA HoldsStep ==
  ASSUME CollectedInv, [Next]_vars
  PROVE  Holds'
<1>1. Holds /\ PaymentTypes
  BY DEF CollectedInv
<1>2. sent \subseteq sent'
  BY DEF Next, Checkout, Ask, Handle, OpenSession, SaveTransaction, PaymentConfirmed, MarkPaid,
         PaymentFailed, Unhandled, Answer, Interrupted, Receive, Complete, Settle, Expire, Tell,
         Elsewhere, StaleSave, vars, paymentVars, Log!LogEvent, Log!Processed, Log!Interrupted
<1>3. ASSUME UNCHANGED <<pc, notice>> PROVE Holds'
  BY <1>1, <1>2, <1>3 DEF Holds
<1>4. ASSUME NEW w \in Workers, NEW l \in Labels, pc' = [pc EXCEPT ![w] = l], notice' = notice,
             l \in {"pay", "processed"} => pc[w] \in {"process", "pay"}, l # "process"
      PROVE  Holds'
  BY <1>1, <1>2, <1>4 DEF Holds, PaymentTypes
<1>5. ASSUME NEW w \in Workers, Checkout(w) \/ OpenSession(w) \/ SaveTransaction(w)
      PROVE  Holds'
  BY <1>4, <1>5 DEF Checkout, Ask, OpenSession, SaveTransaction, Log!GoTo, Labels
<1>6. ASSUME NEW w \in Workers,
             PaymentConfirmed(w) \/ MarkPaid(w) \/ PaymentFailed(w) \/ Unhandled(w)
      PROVE  Holds'
  BY <1>4, <1>6 DEF PaymentConfirmed, MarkPaid, PaymentFailed, Unhandled, Log!GoTo, Labels
<1>7. ASSUME NEW w \in Workers, Answer(w) \/ Interrupted(w)
      PROVE  Holds'
  <2>1. /\ pc' = [pc EXCEPT ![w] = "idle"] /\ notice' = [notice EXCEPT ![w] = NoNotice]
    BY <1>7 DEF Answer, Log!Processed, Interrupted, Log!Interrupted, Log!Leave, Log!GoTo
  <2> QED
    BY <1>1, <1>2, <2>1 DEF Holds, PaymentTypes
<1>8. ASSUME NEW w \in Workers, NEW n \in Notices, Receive(w, n)
      PROVE  Holds'
  <2>1. /\ pc' = [pc EXCEPT ![w] = "process"] /\ notice' = [notice EXCEPT ![w] = n]
        /\ n \in sent
    BY <1>8 DEF Receive, Log!LogEvent, Log!GoTo
  <2> QED
    BY <1>1, <1>2, <2>1 DEF Holds, PaymentTypes
<1>9. ASSUME (\E s \in DOMAIN sessions : Complete(s) \/ Settle(s) \/ Expire(s))
             \/ Elsewhere \/ StaleSave \/ UNCHANGED vars
      PROVE  UNCHANGED <<pc, notice>>
  BY <1>9 DEF Complete, Settle, Expire, Elsewhere, StaleSave, vars
<1> QED
  BY <1>3, <1>5, <1>6, <1>7, <1>8, <1>9 DEF Next, Handle

\* What confirming and paying achieve.
LEMMA ConfirmedThen ==
  ASSUME CollectedInv, [Next]_vars, NEW w \in Workers, PaymentConfirmed(w),
         NEW n, notice[w] = n, Confirming(n)
  PROVE  Good(n.session)' /\ (pc'[w] = "processed" => Applied')
<1> DEFINE s == n.session
<1>1. PaymentTypes /\ Told /\ HadLink /\ Holds
  BY DEF CollectedInv
<1>2. n \in sent /\ n \in Notices /\ pc[w] = "process"
  BY <1>1 DEF Holds, PaymentConfirmed
<1>3. n.tiding \in {"completed", "collected"}
  BY <1>1, <1>2, EventFacts DEF Confirming, PaymentTypes
<1>4. s \in DOMAIN sessions /\ sessions[s] \in Charged
  BY <1>1, <1>2, <1>3 DEF Told, Charged
<1>5. Linked(s)
  BY <1>1, <1>4 DEF HadLink
<1>6. Found(Event(n).reference) # {}
  BY <1>5 DEF Found, Linked, Confirming
<1>7. PICK t \in DOMAIN txns :
        /\ txns[t].reference = Reference(s) /\ SetStatus(t, "confirmed")
        /\ pc' = [pc EXCEPT ![w] = IF status = "paid" THEN "processed" ELSE "pay"]
  BY <1>6 DEF PaymentConfirmed, Found, Confirming, Log!GoTo
<1>8. UNCHANGED <<provider, sessions, status>>
  BY DEF PaymentConfirmed
<1>9. t \in DOMAIN txns' /\ txns'[t].reference = Reference(s) /\ txns'[t].status = "confirmed"
  BY <1>1, <1>7, StatusSet
<1> HIDE DEF s
<1>10. \E u \in DOMAIN txns' : txns'[u].reference = Reference(s)' /\ txns'[u].status = "confirmed"
  BY <1>8, <1>9, SameProvider
<1>11. pc'[w] = "processed" => status' = "paid"
  BY <1>1, <1>7, <1>8 DEF PaymentTypes
<1> QED
  BY <1>4, <1>8, <1>10, <1>11 DEF Good, Confirmed, Applied, s

LEMMA KnowsStep ==
  ASSUME CollectedInv, [Next]_vars
  PROVE  Knows'
<1>1. /\ PaymentTypes /\ Knows /\ Holds
      /\ \A n : Confirming(n)' <=> Confirming(n)
      /\ \A s : Good(s) => Good(s)'
      /\ Applied => Applied'
  BY NeverChanges, SameProvider, GoodKept, AppliedKept DEF CollectedInv
<1> SUFFICES ASSUME NEW v \in Workers, NEW n \in Notices, notice'[v] = n, Confirming(n)
             PROVE  /\ pc'[v] = "pay" => Good(n.session)'
                    /\ pc'[v] = "processed" => Good(n.session)' /\ Applied'
  BY <1>1 DEF Knows
<1>2. CASE pc'[v] = pc[v] /\ notice'[v] = notice[v]
  BY <1>1, <1>2 DEF Knows
<1>3. CASE pc'[v] \notin {"pay", "processed"}
  BY <1>3
<1>4. ASSUME NEW w \in Workers, v # w,
             Checkout(w) \/ Handle(w) \/ Interrupted(w) \/ \E m \in Notices : Receive(w, m)
      PROVE  pc'[v] = pc[v] /\ notice'[v] = notice[v]
  BY <1>1, <1>4
  DEF Checkout, Ask, Handle, OpenSession, SaveTransaction, PaymentConfirmed, MarkPaid, PaymentFailed,
      Unhandled, Answer, Interrupted, Receive, Log!LogEvent, Log!Processed, Log!Interrupted,
      Log!Leave, Log!GoTo, PaymentTypes
<1>5. CASE PaymentConfirmed(v)
  <2>1. notice[v] = n
    BY <1>5 DEF PaymentConfirmed
  <2> QED
    BY <1>5, <2>1, ConfirmedThen
<1>6. CASE MarkPaid(v)
  <2>1. notice[v] = n /\ pc[v] = "pay" /\ pc' = [pc EXCEPT ![v] = "processed"]
        /\ (status' = "paid" \/ "conflict" \in trouble')
    BY <1>6 DEF MarkPaid, Log!GoTo
  <2>2. Good(n.session)
    BY <1>1, <2>1 DEF Knows
  <2> QED
    BY <1>1, <2>1, <2>2 DEF Applied
<1>7. ASSUME PaymentFailed(v) \/ Unhandled(v)
      PROVE  FALSE
  BY <1>7 DEF PaymentFailed, Unhandled, Confirming
<1>8. ASSUME Checkout(v) \/ OpenSession(v) \/ SaveTransaction(v) \/ Answer(v) \/ Interrupted(v)
             \/ \E m \in Notices : Receive(v, m)
      PROVE  pc'[v] \notin {"pay", "processed"}
  BY <1>1, <1>8
  DEF Checkout, Ask, OpenSession, SaveTransaction, Answer, Interrupted, Receive, Log!LogEvent,
      Log!Processed, Log!Interrupted, Log!Leave, Log!GoTo, PaymentTypes
<1>9. ASSUME (\E s \in DOMAIN sessions : Complete(s) \/ Settle(s) \/ Expire(s))
             \/ Elsewhere \/ StaleSave \/ UNCHANGED vars
      PROVE  UNCHANGED <<pc, notice>>
  BY <1>9 DEF Complete, Settle, Expire, Elsewhere, StaleSave, vars
<1> QED
  BY <1>2, <1>3, <1>4, <1>5, <1>6, <1>7, <1>8, <1>9 DEF Next, Handle

LEMMA RecordedStep ==
  ASSUME CollectedInv, [Next]_vars
  PROVE  Recorded'
<1>1. /\ PaymentTypes /\ Knows /\ Holds /\ Recorded /\ provider \in [Sessions -> AllProviders]
      /\ \A n : Confirming(n)' <=> Confirming(n)
      /\ \A n : Event(n)' = Event(n)
      /\ \A s : Good(s) => Good(s)'
      /\ Applied => Applied'
  BY NeverChanges, SameProvider, GoodKept, AppliedKept DEF CollectedInv, PaymentTypes
<1> SUFFICES ASSUME NEW n \in Notices, Confirming(n), log'[Event(n).id] = "processed"
             PROVE  Good(n.session) /\ Applied
  BY <1>1 DEF Recorded
<1> DEFINE i == Event(n).id
<1>2. i \in Ids
  BY <1>1, EventFacts
<1>3. CASE log[i] = "processed"
  BY <1>1, <1>3 DEF Recorded
<1>4. ASSUME log[i] # "processed"
      PROVE  \E w \in Workers : Answer(w) /\ Event(notice[w]).id = i
  <2>1. ASSUME NEW w \in Workers, Answer(w)
        PROVE  Event(notice[w]).id = i
    BY <1>1, <1>2, <1>4, <2>1 DEF Answer, Log!Processed, PaymentTypes
  <2>2. ASSUME NEW w \in Workers, NEW m \in Notices, Receive(w, m)
        PROVE  FALSE
    BY <1>1, <1>2, <1>4, <2>2 DEF Receive, Log!LogEvent, PaymentTypes
  <2>3. ASSUME UNCHANGED log PROVE FALSE
    BY <1>4, <2>3
  <2> HIDE DEF i
  <2> QED
    BY <2>1, <2>2, <2>3
    DEF Next, Checkout, Ask, Handle, OpenSession, SaveTransaction, PaymentConfirmed, MarkPaid,
        PaymentFailed, Unhandled, Interrupted, Log!Interrupted, Complete, Settle, Expire,
        Elsewhere, StaleSave, vars, paymentVars
<1>5. ASSUME NEW w \in Workers, Answer(w), Event(notice[w]).id = i
      PROVE  Good(n.session) /\ Applied
  <2>1. pc[w] = "processed"
    BY <1>5 DEF Answer, Log!Processed
  <2>2. notice[w] \in Notices
    BY <1>1, <2>1 DEF Holds
  <2>3. notice[w] = n
    BY <1>1, <1>5, <2>2, OwnIdentifier
  <2> QED
    BY <1>1, <2>1, <2>3 DEF Knows
<1> QED
  BY <1>3, <1>4, <1>5

\* A worker that checks out was checking out, about the same session, or starts.
LEMMA CheckingOutBefore ==
  ASSUME PaymentTypes, [Next]_vars, NEW v \in Workers,
         CheckingOut(v)', ~Checkout(v)
  PROVE  /\ CheckingOut(v) /\ mine'[v] = mine[v]
         /\ pc'[v] = "checkout" => pc[v] = "checkout"
<1>1. ASSUME NEW w \in Workers, w # v,
             Checkout(w) \/ Handle(w) \/ Interrupted(w) \/ \E n \in Notices : Receive(w, n)
      PROVE  pc'[v] = pc[v] /\ mine'[v] = mine[v]
  BY <1>1
  DEF Checkout, Ask, Handle, OpenSession, SaveTransaction, PaymentConfirmed, MarkPaid, PaymentFailed,
      Unhandled, Answer, Interrupted, Receive, Log!LogEvent, Log!Processed, Log!Interrupted,
      Log!Leave, Log!GoTo, Forget, paymentVars, PaymentTypes
<1>2. CASE OpenSession(v)
  BY <1>2 DEF OpenSession, Log!GoTo, CheckingOut, PaymentTypes
<1>3. ASSUME SaveTransaction(v) \/ PaymentConfirmed(v) \/ MarkPaid(v) \/ PaymentFailed(v)
             \/ Unhandled(v) \/ Answer(v) \/ Interrupted(v) \/ \E n \in Notices : Receive(v, n)
      PROVE  ~CheckingOut(v)'
  BY <1>3
  DEF SaveTransaction, PaymentConfirmed, MarkPaid, PaymentFailed, Unhandled, Answer, Interrupted,
      Receive, Log!LogEvent, Log!Processed, Log!Interrupted, Log!Leave, Log!GoTo, CheckingOut,
      PaymentTypes
<1>4. ASSUME (\E s \in DOMAIN sessions : Complete(s) \/ Settle(s) \/ Expire(s))
             \/ Elsewhere \/ StaleSave \/ UNCHANGED vars
      PROVE  UNCHANGED <<pc, mine>>
  BY <1>4 DEF Complete, Settle, Expire, Elsewhere, StaleSave, vars, paymentVars
<1> QED
  BY <1>1, <1>2, <1>3, <1>4 DEF Next, Handle, CheckingOut

LEMMA AskingStep ==
  ASSUME CollectedInv, [Next]_vars
  PROVE  Asking'
<1>1. PaymentTypes /\ Asking
  BY DEF CollectedInv
<1>2. ASSUME NEW w \in Workers, Checkout(w)
      PROVE  Asking'
  <2> PICK n : n = Len(sessions) + 1
    OBVIOUS
  <2>1. /\ sessions' = Append(sessions, "asked") /\ mine' = [mine EXCEPT ![w] = n]
        /\ pc' = [pc EXCEPT ![w] = "checkout"]
    BY <1>2 DEF Checkout, Ask, NextSession, Log!GoTo
  <2>2. /\ n \notin DOMAIN sessions /\ sessions'[n] = "asked"
        /\ \A u \in DOMAIN sessions : sessions'[u] = sessions[u]
    BY <1>1, <2>1, SessionAdded
  <2>3. \A v \in Workers : /\ pc'[v] = IF v = w THEN "checkout" ELSE pc[v]
                           /\ mine'[v] = IF v = w THEN n ELSE mine[v]
    BY <1>1, <2>1 DEF PaymentTypes
  <2>4. \A v \in Workers : CheckingOut(v) => mine[v] \in DOMAIN sessions
    BY <1>1 DEF PaymentTypes, CheckingOut
  <2> QED
    BY <1>1, <2>2, <2>3, <2>4 DEF Asking, CheckingOut
<1>3. ASSUME NEW w \in Workers, OpenSession(w)
      PROVE  Asking'
  <2>1. /\ sessions' = [sessions EXCEPT ![mine[w]] = "open"] /\ mine' = mine
        /\ pc[w] = "checkout" /\ pc' = [pc EXCEPT ![w] = "opened"]
    BY <1>3 DEF OpenSession, Log!GoTo
  <2>2. mine[w] \in DOMAIN sessions /\ sessions[mine[w]] = "asked"
    BY <1>1, <2>1 DEF PaymentTypes, Asking
  <2>3. \A v \in DOMAIN sessions : v # mine[w] => sessions'[v] = sessions[v]
    BY <1>1, <2>1, <2>2, OpenedSession
  <2>4. \A v \in Workers : pc'[v] = IF v = w THEN "opened" ELSE pc[v]
    BY <1>1, <2>1 DEF PaymentTypes
  <2>5. \A v \in Workers : CheckingOut(v) => mine[v] \in DOMAIN sessions
    BY <1>1 DEF PaymentTypes, CheckingOut
  <2> QED
    BY <1>1, <2>1, <2>3, <2>4, <2>5 DEF Asking, CheckingOut
<1>4. CASE ~\E w \in Workers : Checkout(w) \/ OpenSession(w)
  <2>1. ASSUME NEW v \in Workers, CheckingOut(v)'
        PROVE  CheckingOut(v) /\ mine'[v] = mine[v] /\ (pc'[v] = "checkout" => pc[v] = "checkout")
    BY <1>1, <1>4, <2>1, CheckingOutBefore
  <2>2. ASSUME NEW u \in DOMAIN sessions, sessions[u] = "asked"
        PROVE  sessions'[u] = "asked"
    <3>1. ASSUME NEW x \in DOMAIN sessions, Complete(x) \/ Settle(x) \/ Expire(x)
          PROVE  sessions'[u] = "asked"
      <4>1. u # x /\ \E how \in SessionStates : sessions' = [sessions EXCEPT ![x] = how]
        BY <2>2, <3>1 DEF Complete, Settle, Expire, SessionStates
      <4> QED
        BY <1>1, <2>2, <4>1, SessionSet
    <3>2. sessions' = sessions \/ \E x \in DOMAIN sessions : Complete(x) \/ Settle(x) \/ Expire(x)
      BY <1>4 DEF Next, Handle, SaveTransaction, PaymentConfirmed, MarkPaid, PaymentFailed,
             Unhandled, Answer, Interrupted, Receive, Elsewhere, StaleSave, vars, paymentVars
    <3> QED
      BY <2>2, <3>1, <3>2
  <2>3. \A v \in Workers : pc[v] = "checkout" => mine[v] \in DOMAIN sessions
    BY <1>1 DEF PaymentTypes
  <2> QED
    BY <1>1, <2>1, <2>2, <2>3 DEF Asking, CheckingOut
<1> QED
  BY <1>2, <1>3, <1>4

LEMMA CollectedInitially == Init => CollectedInv
<1> SUFFICES ASSUME Init PROVE CollectedInv
  OBVIOUS
<1>1. PaymentTypes
  BY TypesInitially
<1>2. sessions = <<>> /\ sent = {} /\ (\A w \in Workers : pc[w] = "idle")
      /\ log = [i \in Ids |-> "none"]
  BY DEF Init, Log!LogInit
<1>3. Asking /\ Told /\ HadLink /\ Holds /\ Knows
  BY <1>2 DEF Asking, CheckingOut, Told, HadLink, Holds, Knows
<1>4. Recorded
  <2>1. \A n \in Notices : Event(n).id \in Ids
    BY <1>1, EventFacts DEF PaymentTypes
  <2> QED
    BY <1>2, <2>1 DEF Recorded
<1> QED
  BY <1>1, <1>3, <1>4 DEF CollectedInv

LEMMA CollectedStep == CollectedInv /\ [Next]_vars => CollectedInv'
  BY TypesStep, AskingStep, ToldStep, HadLinkStep, HoldsStep, KnowsStep, RecordedStep DEF CollectedInv

\* An event of a collected payment that counts as processed has confirmed the
\* transaction and paid the invoice, unless a status that cannot be paid was met
\* or a stale copy was saved: no order of notifications, repetitions, races and
\* deaths of workers, and no mix of providers ends otherwise (_handle_payment_confirmed and _handle_payment_failed, services.py).
THEOREM CollectedStaysRecorded == Spec => []CollectedIsRecorded
<1>1. CollectedInv => CollectedIsRecorded
  <2> SUFFICES ASSUME CollectedInv, NEW s \in Sessions, NEW tiding \in {"completed", "collected"},
                      LET e == Event([session |-> s, tiding |-> tiding]) IN
                      /\ s \in DOMAIN sessions /\ sessions[s] = "collected"
                      /\ e.type = "confirmed" /\ e.reference = Reference(s) /\ e.id[1] = "event"
                      /\ log[e.id] = "processed"
               PROVE  Confirmed(s) /\ Applied
    BY DEF CollectedIsRecorded
  <2> DEFINE n == [session |-> s, tiding |-> tiding]
  <2>1. n \in Notices /\ n.session = s
    BY DEF Notices, Tidings
  <2>2. Confirming(n) /\ log[Event(n).id] = "processed"
    BY <2>1 DEF Confirming
  <2> HIDE DEF n
  <2>3. Good(s) /\ Applied
    BY <2>1, <2>2 DEF CollectedInv, Recorded
  <2> QED
    BY <2>3 DEF Good
<1> QED
  BY <1>1, CollectedInitially, CollectedStep, PTL DEF Spec

----------------------------------------------------------------------------
(* The customer is charged once.                                           *)

Opened(w, s) == pc[w] = "opened" /\ mine[w] = s

\* Every transaction is of a session, and a session that is being checked out
\* has none yet.
OwnSession ==
  /\ \A t \in DOMAIN txns : \E s \in DOMAIN sessions : txns[t].reference = Reference(s)
  /\ \A w \in Workers : CheckingOut(w) => ~Linked(mine[w])

\* A session by which the customer has been or may still be charged.
Chargeable(s) ==
  /\ s \in DOMAIN sessions
  /\ \/ sessions[s] \in {"authorised", "collected"}
     \/ sessions[s] = "open" /\ (Linked(s) \/ \E w \in Workers : Opened(w, s))

\* What keeps a checkout from opening another one with the same provider.
Covered(s) ==
  \/ \E w \in Workers : Opened(w, s)
  \/ \E t \in DOMAIN txns : txns[t].reference = Reference(s) /\ Pending(t)
  \/ \E w \in Workers : pc[w] = "pay"
  \/ status \in {"paid", "cancelled"}

\* Two sessions are with two providers, one of which was asked while the
\* transaction of the other was pending.
Apart(s, u) == provider[s] # provider[u] /\ "other_provider" \in trouble

OneSession ==
  /\ \A s, u : Chargeable(s) /\ Chargeable(u) => s = u \/ Apart(s, u)
  /\ \A v, w \in Workers : CheckingOut(v) /\ CheckingOut(w) => v = w
  /\ \A w \in Workers : pc[w] = "checkout" => \A s : Chargeable(s) => Apart(s, mine[w])
  /\ \A s : Chargeable(s) => Covered(s)

Mild == trouble \subseteq {"other_provider"}

ChargedInv == CollectedInv /\ OwnSession /\ (Mild => OneSession)

LEMMA OpenedStays ==
  ASSUME PaymentTypes, [Next]_vars, ~\E w \in Workers : OpenSession(w),
         NEW v \in Workers, pc'[v] = "opened"
  PROVE  pc[v] = "opened" /\ mine'[v] = mine[v]
<1>1. ASSUME NEW w \in Workers, PaymentConfirmed(w) \/ MarkPaid(w)
             \/ PaymentFailed(w) \/ Unhandled(w) \/ Answer(w) \/ \E n \in Notices : Receive(w, n)
      PROVE  pc[v] = "opened" /\ mine'[v] = mine[v]
  BY <1>1 DEF PaymentConfirmed, MarkPaid, PaymentFailed, Unhandled, Answer, Receive,
              Log!LogEvent, Log!Processed, Log!Leave, Log!GoTo, paymentVars, PaymentTypes
<1>2. ASSUME NEW w \in Workers, Checkout(w)
      PROVE  pc[v] = "opened" /\ mine'[v] = mine[v]
  <2>1. pc' = [pc EXCEPT ![w] = "checkout"] /\ mine' = [mine EXCEPT ![w] = NextSession]
    BY <1>2 DEF Checkout, Ask, Log!GoTo
  <2>2. v # w
    BY <2>1 DEF PaymentTypes
  <2> QED
    BY <2>1, <2>2 DEF PaymentTypes
<1>3. ASSUME NEW w \in Workers, SaveTransaction(w) \/ Interrupted(w)
      PROVE  pc[v] = "opened" /\ mine'[v] = mine[v]
  BY <1>3 DEF SaveTransaction, Interrupted, Forget, Log!Interrupted, Log!Leave, Log!GoTo,
              PaymentTypes
<1>4. ASSUME (\E s \in DOMAIN sessions : Complete(s) \/ Settle(s) \/ Expire(s))
             \/ Elsewhere \/ StaleSave \/ UNCHANGED vars
      PROVE  UNCHANGED <<pc, mine>>
  BY <1>4 DEF Complete, Settle, Expire, Elsewhere, StaleSave, vars, paymentVars
<1> QED
  BY <1>1, <1>2, <1>3, <1>4 DEF Next, Handle

LEMMA SessionsStay ==
  ASSUME PaymentTypes, Asking, [Next]_vars, ~\E w \in Workers : Checkout(w)
  PROVE  DOMAIN sessions' = DOMAIN sessions
<1>1. ASSUME NEW s \in DOMAIN sessions, Complete(s) \/ Settle(s) \/ Expire(s)
      PROVE  DOMAIN sessions' = DOMAIN sessions
  <2>1. PICK x \in SessionStates : sessions' = [sessions EXCEPT ![s] = x]
    BY <1>1 DEF Complete, Settle, Expire, SessionStates
  <2> QED
    BY <2>1, SessionSet
<1>2. ASSUME NEW w \in Workers, OpenSession(w)
      PROVE  DOMAIN sessions' = DOMAIN sessions
  BY <1>2 DEF OpenSession
<1> QED
  BY <1>1, <1>2
  DEF Next, Handle, SaveTransaction, PaymentConfirmed, MarkPaid, PaymentFailed,
      Unhandled, Answer, Interrupted, Receive, Elsewhere, StaleSave, vars, paymentVars

LEMMA OwnSessionStep ==
  ASSUME CollectedInv, OwnSession, [Next]_vars
  PROVE  OwnSession'
<1>1. PaymentTypes /\ Asking /\ provider' = provider /\ (\A s : Reference(s)' = Reference(s))
  BY NeverChanges, SameProvider DEF CollectedInv
<1>2. ASSUME NEW w \in Workers, Checkout(w)
      PROVE  OwnSession'
  <2> PICK s : s = Len(sessions) + 1
    OBVIOUS
  <2>1. /\ sessions' = Append(sessions, "asked") /\ txns' = txns
        /\ pc' = [pc EXCEPT ![w] = "checkout"] /\ mine' = [mine EXCEPT ![w] = s]
    BY <1>2 DEF Checkout, Ask, NextSession, Log!GoTo
  <2>2. DOMAIN sessions' = DOMAIN sessions \union {s} /\ s \notin DOMAIN sessions
    BY <1>1, <2>1, SessionAdded
  <2>3. \A v \in Workers : /\ pc'[v] = IF v = w THEN "checkout" ELSE pc[v]
                           /\ mine'[v] = IF v = w THEN s ELSE mine[v]
    BY <1>1, <2>1 DEF PaymentTypes
  <2>4. \A t \in DOMAIN txns : \E u \in DOMAIN sessions : txns[t].reference = Reference(u)
    BY DEF OwnSession
  <2>5. ~Linked(s)
    BY <2>2, <2>4, ReferenceFacts DEF Linked
  <2>6. \A u : Linked(u)' <=> Linked(u)
    BY <1>1, <2>1 DEF Linked
  <2>7. ASSUME NEW v \in Workers, CheckingOut(v)'
        PROVE  ~Linked(mine'[v])
    BY <2>3, <2>5, <2>7 DEF OwnSession, CheckingOut
  <2>8. \A t \in DOMAIN txns' : \E u \in DOMAIN sessions' : txns'[t].reference = Reference(u)'
    BY <1>1, <2>1, <2>2, <2>4
  <2>9. \A v \in Workers : CheckingOut(v)' => ~Linked(mine[v])'
    BY <1>1, <2>1, <2>7 DEF Linked
  <2> QED
    BY <2>8, <2>9 DEF OwnSession
<1>3. ASSUME NEW w \in Workers, SaveTransaction(w)
      PROVE  OwnSession'
  <2>1. /\ sessions' = sessions /\ pc[w] = "opened"
        /\ pc' = [pc EXCEPT ![w] = "idle"] /\ mine' = [mine EXCEPT ![w] = 0]
    BY <1>3 DEF SaveTransaction, Log!GoTo
  <2>2. /\ DOMAIN txns' = DOMAIN txns \union {Len(txns) + 1}
        /\ \A u \in DOMAIN txns : txns'[u] = txns[u]
        /\ txns'[Len(txns) + 1] = [reference |-> Reference(mine[w]), status |-> "created"]
    BY <1>1, <1>3, TxnAdded
  <2>3. \A v \in Workers : v # w => pc'[v] = pc[v] /\ mine'[v] = mine[v]
    BY <1>1, <2>1 DEF PaymentTypes
  <2>4. pc'[w] = "idle"
    BY <1>1, <2>1 DEF PaymentTypes
  <2>5. ASSUME NEW v \in Workers, CheckingOut(v)'
        PROVE  ~Linked(mine[v])'
    <3>1. v # w /\ mine[v] # mine[w] /\ mine'[v] = mine[v] /\ ~Linked(mine[v])
      BY <1>1, <2>1, <2>3, <2>4, <2>5 DEF OwnSession, Asking, CheckingOut
    <3>2. \A t \in DOMAIN txns' : txns'[t].reference # Reference(mine[v])
      BY <1>1, <2>2, <3>1, ReferenceFacts DEF Linked
    <3> QED
      BY <1>1, <3>1, <3>2 DEF Linked
  <2>6. mine[w] \in DOMAIN sessions
    BY <1>1, <2>1 DEF PaymentTypes
  <2>7. \A t \in DOMAIN txns' : \E u \in DOMAIN sessions' : txns'[t].reference = Reference(u)'
    BY <1>1, <2>1, <2>2, <2>6 DEF OwnSession
  <2> QED
    BY <2>5, <2>7 DEF OwnSession
<1>4. CASE ~\E w \in Workers : Checkout(w) \/ SaveTransaction(w)
  <2>1. \A v \in Workers : CheckingOut(v)' => CheckingOut(v) /\ mine'[v] = mine[v]
    BY <1>1, <1>4, CheckingOutBefore
  <2>2. DOMAIN sessions' = DOMAIN sessions
    BY <1>1, <1>4, SessionsStay
  <2>3. /\ DOMAIN txns' = DOMAIN txns
        /\ \A t \in DOMAIN txns : txns'[t].reference = txns[t].reference
    BY <1>1, <1>4, Txns1, StatusSet
  <2>4. \A s : Linked(s)' => Linked(s)
    BY <1>1, <2>3 DEF Linked
  <2>5. \A v \in Workers : CheckingOut(v)' => ~Linked(mine[v])'
    <3>1. ASSUME NEW v \in Workers, CheckingOut(v)', Linked(mine[v])' PROVE FALSE
      <4>1. CheckingOut(v) /\ mine'[v] = mine[v]
        BY <2>1, <3>1
      <4>2. PICK t \in DOMAIN txns' : txns'[t].reference = Reference(mine[v])'
        BY <3>1 DEF Linked
      <4>3. Reference(mine[v])' = Reference(mine[v])
        BY <1>1, <4>1
        DEF Reference, StripeReference, GoCardlessReference, FintectureReference
      <4> QED
        BY <2>3, <4>1, <4>2, <4>3 DEF OwnSession, Linked
    <3> QED
      BY <3>1
  <2>6. \A t \in DOMAIN txns' : \E u \in DOMAIN sessions' : txns'[t].reference = Reference(u)'
    BY <1>1, <2>2, <2>3 DEF OwnSession
  <2> QED
    BY <2>5, <2>6 DEF OwnSession
<1> QED
  BY <1>2, <1>3, <1>4

LEMMA StaysOpened ==
  ASSUME PaymentTypes, [Next]_vars, NEW w \in Workers, pc[w] = "opened",
         ~SaveTransaction(w), ~Interrupted(w)
  PROVE  pc'[w] = "opened" /\ mine'[w] = mine[w]
<1>1. ASSUME NEW v \in Workers, PaymentConfirmed(v) \/ MarkPaid(v)
             \/ PaymentFailed(v) \/ Unhandled(v) \/ Answer(v) \/ \E n \in Notices : Receive(v, n)
      PROVE  pc'[w] = "opened" /\ mine'[w] = mine[w]
  BY <1>1 DEF PaymentConfirmed, MarkPaid, PaymentFailed, Unhandled, Answer, Receive,
              Log!LogEvent, Log!Processed, Log!Leave, Log!GoTo, paymentVars, PaymentTypes
<1>2. ASSUME NEW v \in Workers, Checkout(v) \/ OpenSession(v)
      PROVE  pc'[w] = "opened" /\ mine'[w] = mine[w]
  <2>1. v # w
    BY <1>2 DEF Checkout, Ask, OpenSession
  <2> QED
    BY <1>2, <2>1 DEF Checkout, Ask, OpenSession, Log!GoTo, PaymentTypes
<1>3. ASSUME NEW v \in Workers, SaveTransaction(v) \/ Interrupted(v)
      PROVE  pc'[w] = "opened" /\ mine'[w] = mine[w]
  <2>1. v # w
    BY <1>3
  <2> QED
    BY <1>3, <2>1 DEF SaveTransaction, Interrupted, Forget, Log!Interrupted, Log!Leave, Log!GoTo,
                      PaymentTypes
<1>4. ASSUME (\E s \in DOMAIN sessions : Complete(s) \/ Settle(s) \/ Expire(s))
             \/ Elsewhere \/ StaleSave \/ UNCHANGED vars
      PROVE  UNCHANGED <<pc, mine>>
  BY <1>4 DEF Complete, Settle, Expire, Elsewhere, StaleSave, vars, paymentVars
<1> QED
  BY <1>1, <1>2, <1>3, <1>4 DEF Next, Handle

\* Only OpenSession makes a session by which the customer may be charged.
LEMMA ChargeableBefore ==
  ASSUME ChargedInv, [Next]_vars, NEW s, Chargeable(s)',
         ~\E w \in Workers : OpenSession(w)
  PROVE  Chargeable(s)
<1>1. /\ PaymentTypes /\ Asking
      /\ (\A u : Reference(u)' = Reference(u)) /\ provider' = provider
  BY NeverChanges, SameProvider DEF ChargedInv, CollectedInv
<1>2. s \in DOMAIN sessions
  <2>1. ASSUME NEW w \in Workers, Checkout(w) PROVE s \in DOMAIN sessions
    <3>1. sessions' = Append(sessions, "asked")
      BY <2>1 DEF Checkout, Ask
    <3> QED
      BY <1>1, <3>1, SessionAdded DEF Chargeable
  <2> QED
    BY <1>1, <2>1, SessionsStay DEF Chargeable
<1>3. CASE sessions[s] = "open"
  <2>1. CASE \E w \in Workers : Opened(w, s)
    BY <1>2, <1>3, <2>1 DEF Chargeable
  <2>2. CASE ~\E w \in Workers : Opened(w, s)
    <3>1. ~\E w \in Workers : Opened(w, s)'
      BY <1>1, <2>2, OpenedStays DEF Opened
    <3>2. ASSUME ~Linked(s) PROVE ~Linked(s)'
      <4>1. ASSUME NEW w \in Workers, SaveTransaction(w)
            PROVE  ~Linked(s)'
        <5>1. mine[w] # s
          BY <2>2, <4>1 DEF SaveTransaction, Opened
        <5>2. /\ DOMAIN txns' = DOMAIN txns \union {Len(txns) + 1}
              /\ \A u \in DOMAIN txns : txns'[u] = txns[u]
              /\ txns'[Len(txns) + 1] = [reference |-> Reference(mine[w]), status |-> "created"]
          BY <1>1, <4>1, TxnAdded
        <5> QED
          BY <1>1, <3>2, <5>1, <5>2, ReferenceFacts DEF Linked
      <4>2. ASSUME NEW t \in DOMAIN txns, NEW x \in {"confirmed", "failed"}, SetStatus(t, x)
            PROVE  ~Linked(s)'
        BY <1>1, <3>2, <4>2, StatusSet DEF Linked
      <4>3. CASE txns' = txns
        BY <1>1, <3>2, <4>3 DEF Linked
      <4> QED
        BY <4>1, <4>2, <4>3, Txns1 DEF ChargedInv
    <3>3. CASE Linked(s)
      BY <1>2, <1>3, <3>3 DEF Chargeable
    <3>4. CASE ~Linked(s)
      <4>1. sessions'[s] \in {"authorised", "collected"}
        BY <3>1, <3>2, <3>4 DEF Chargeable
      <4>2. s \in DOMAIN sessions' /\ HadLink'
        BY <4>1, HadLinkStep DEF ChargedInv, Chargeable
      <4> QED
        BY <3>2, <3>4, <4>1, <4>2 DEF HadLink, Charged
    <3> QED
      BY <3>3, <3>4
  <2> QED
    BY <2>1, <2>2
<1>4. CASE sessions[s] # "open"
  <2>1. ASSUME NEW u \in DOMAIN sessions, Complete(u) \/ Settle(u) \/ Expire(u)
        PROVE  sessions[s] \in {"authorised", "collected"}
    <3>1. PICK x \in SessionStates :
            /\ sessions' = [sessions EXCEPT ![u] = x]
            /\ sessions[u] \in {"open", "authorised"}
      BY <2>1 DEF Complete, Settle, Expire, SessionStates
    <3>2. \A v \in DOMAIN sessions : sessions'[v] = IF v = u THEN x ELSE sessions[v]
      BY <1>1, <3>1, SessionSet
    <3> QED
      BY <1>2, <1>4, <3>1, <3>2 DEF Chargeable
  <2>2. CASE sessions' = sessions
    BY <1>4, <2>2 DEF Chargeable
  <2>4. CASE sessions' = Append(sessions, "asked")
    BY <1>1, <1>2, <1>4, <2>4, SessionAdded DEF Chargeable
  <2>3. \/ sessions' = sessions \/ sessions' = Append(sessions, "asked")
        \/ \E u \in DOMAIN sessions : Complete(u) \/ Settle(u) \/ Expire(u)
    BY DEF Next, Checkout, Ask, Handle, SaveTransaction, PaymentConfirmed, MarkPaid, PaymentFailed,
           Unhandled, Answer, Interrupted, Receive, Elsewhere, StaleSave, vars, paymentVars
  <2> QED
    BY <1>2, <1>4, <2>1, <2>2, <2>3, <2>4 DEF Chargeable
<1> QED
  BY <1>3, <1>4

LEMMA StaysPaying ==
  ASSUME PaymentTypes, [Next]_vars, NEW w \in Workers, pc[w] = "pay",
         ~MarkPaid(w), ~Interrupted(w)
  PROVE  pc'[w] = "pay"
<1>1. ASSUME NEW v \in Workers, Checkout(v) \/ OpenSession(v) \/ SaveTransaction(v)
             \/ PaymentConfirmed(v) \/ PaymentFailed(v) \/ Unhandled(v) \/ Answer(v)
             \/ \E n \in Notices : Receive(v, n)
      PROVE  pc'[w] = "pay"
  BY <1>1 DEF Checkout, Ask, OpenSession, SaveTransaction, PaymentConfirmed, PaymentFailed, Unhandled,
              Answer, Receive, Log!LogEvent, Log!Processed, Log!Leave, Log!GoTo, PaymentTypes
<1>2. ASSUME NEW v \in Workers, MarkPaid(v) \/ Interrupted(v)
      PROVE  pc'[w] = "pay"
  <2>1. v # w
    BY <1>2
  <2> QED
    BY <1>2, <2>1 DEF MarkPaid, Interrupted, Log!Interrupted, Log!Leave, Log!GoTo, PaymentTypes
<1>3. ASSUME (\E s \in DOMAIN sessions : Complete(s) \/ Settle(s) \/ Expire(s))
             \/ Elsewhere \/ StaleSave \/ UNCHANGED vars
      PROVE  UNCHANGED pc
  BY <1>3 DEF Complete, Settle, Expire, Elsewhere, StaleSave, vars
<1> QED
  BY <1>1, <1>2, <1>3 DEF Next, Handle

\* A session by which the customer may be charged stays covered.
LEMMA CoveredStays ==
  ASSUME ChargedInv, [Next]_vars, Mild', NEW s,
         Chargeable(s), Chargeable(s)'
  PROVE  Covered(s)'
<1>1. /\ PaymentTypes /\ Asking /\ Holds /\ CollectedInv
      /\ (\A u : Reference(u)' = Reference(u)) /\ Covered(s)
  BY NeverChanges, SameProvider, TroubleKept
  DEF ChargedInv, CollectedInv, OneSession, Mild
<1>2. ASSUME NEW w \in Workers, Opened(w, s)
      PROVE  Covered(s)'
  <2>1. CASE SaveTransaction(w)
    <3>1. /\ Len(txns) + 1 \in DOMAIN txns'
          /\ txns'[Len(txns) + 1] = [reference |-> Reference(s), status |-> "created"]
      BY <1>1, <1>2, <2>1, TxnAdded DEF Opened
    <3> QED
      BY <1>1, <3>1 DEF Covered, Pending
  <2>2. CASE Interrupted(w)
    <3>1. /\ sessions' = sessions /\ txns' = txns /\ pc' = [pc EXCEPT ![w] = "idle"]
          /\ mine' = [mine EXCEPT ![w] = 0]
      BY <2>2 DEF Interrupted, Log!Interrupted, Log!Leave, Log!GoTo, Forget
    <3>2. ~Linked(s) /\ \A v \in Workers : Opened(v, s) => v = w
      BY <1>1, <1>2 DEF ChargedInv, OwnSession, Asking, CheckingOut, Opened
    <3>3. \A v \in Workers : ~(pc'[v] = "opened" /\ mine'[v] = s)
      BY <1>1, <3>1, <3>2 DEF Opened, PaymentTypes
    <3>4. ~Linked(s)'
      BY <1>1, <3>1, <3>2 DEF Linked
    <3>5. sessions[s] \in {"authorised", "collected"} => Linked(s)
      BY <1>1 DEF CollectedInv, HadLink, Charged, Chargeable
    <3> QED
      BY <3>1, <3>2, <3>3, <3>4, <3>5 DEF Chargeable, Opened
  <2>3. CASE ~SaveTransaction(w) /\ ~Interrupted(w)
    <3>1. pc'[w] = "opened" /\ mine'[w] = s
      BY <1>1, <1>2, <2>3, StaysOpened DEF Opened
    <3> QED
      BY <3>1 DEF Covered, Opened
  <2> QED
    BY <2>1, <2>2, <2>3
<1>3. ASSUME NEW t \in DOMAIN txns, txns[t].reference = Reference(s), Pending(t)
      PROVE  Covered(s)'
  <2>1. CASE t \in DOMAIN txns' /\ txns'[t] = txns[t]
    BY <1>1, <1>3, <2>1 DEF Covered, Pending
  <2>2. ASSUME NEW w \in Workers, PaymentConfirmed(w), NEW u \in DOMAIN txns,
               SetStatus(u, "confirmed")
        PROVE  (t \in DOMAIN txns' /\ txns'[t] = txns[t]) \/ Covered(s)'
    <3>1. CASE Found(Event(notice[w]).reference) = {}
      BY <1>3, <2>2, <3>1 DEF PaymentConfirmed
    <3>2. CASE Found(Event(notice[w]).reference) # {}
      <4>1. pc' = [pc EXCEPT ![w] = IF status = "paid" THEN "processed" ELSE "pay"]
            /\ status' = status
        BY <2>2, <3>2 DEF PaymentConfirmed, Log!GoTo
      <4>2. pc'[w] = "pay" \/ status' = "paid"
        BY <1>1, <4>1 DEF PaymentTypes
      <4> QED
        BY <4>2 DEF Covered
    <3> QED
      BY <3>1, <3>2
  <2>3. ASSUME NEW w \in Workers, NEW u \in DOMAIN txns, PaymentFailed(w), SetStatus(u, "failed"),
               u \in Found(Event(notice[w]).reference), UNCHANGED sessions
        PROVE  t \in DOMAIN txns' /\ txns'[t] = txns[t]
    <3>1. CASE u = t
      <4>1. sessions[s] \in {"failed", "expired"}
        BY <1>1, <1>3, <2>3, <3>1, FailedSession DEF Found
      <4> QED
        BY <4>1 DEF Chargeable
    <3>2. CASE u # t
      BY <1>1, <1>3, <2>3, <3>2, StatusSet
    <3> QED
      BY <3>1, <3>2
  <2>4. ASSUME NEW w \in Workers, SaveTransaction(w)
        PROVE  t \in DOMAIN txns' /\ txns'[t] = txns[t]
    BY <1>1, <1>3, <2>4, TxnAdded
  <2> QED
    BY <1>1, <1>3, <2>1, <2>2, <2>3, <2>4, Txns1
<1>4. ASSUME NEW w \in Workers, pc[w] = "pay"
      PROVE  Covered(s)'
  <2>1. CASE MarkPaid(w)
    BY <2>1 DEF MarkPaid, Covered, Mild
  <2>2. CASE Interrupted(w)
    <3>1. notice[w] # NoNotice
      BY <1>1, <1>4, PaymentAssumption DEF Holds
    <3> QED
      BY <2>2, <3>1 DEF Interrupted, Harm, Mild
  <2>3. CASE ~MarkPaid(w) /\ ~Interrupted(w)
    <3>1. pc'[w] = "pay"
      BY <1>1, <1>4, <2>3, StaysPaying
    <3> QED
      BY <3>1 DEF Covered
  <2> QED
    BY <2>1, <2>2, <2>3
<1>5. CASE status \in {"paid", "cancelled"}
  <2>1. status' \in {"paid", "cancelled"}
    BY <1>5, PaidKept DEF Mild
  <2> QED
    BY <2>1 DEF Covered
<1> QED
  BY <1>1, <1>2, <1>3, <1>4, <1>5 DEF Covered

LEMMA ApartStays ==
  ASSUME [Next]_vars, NEW s, NEW u, Apart(s, u)
  PROVE  Apart(s, u)' /\ Apart(u, s)'
  BY NeverChanges, TroubleKept DEF Apart

\* The session that is opened now is with another provider than any that may be charged.
LEMMA OpenedApart ==
  ASSUME ChargedInv, [Next]_vars, Mild', OneSession, NEW w \in Workers, OpenSession(w)
  PROVE  OneSession'
<1>1. /\ PaymentTypes /\ CollectedInv /\ Asking /\ (\A u : Reference(u)' = Reference(u))
  BY NeverChanges, SameProvider DEF ChargedInv, CollectedInv
<1> PICK n : n = mine[w]
  OBVIOUS
<1>2. /\ sessions' = [sessions EXCEPT ![n] = "open"] /\ txns' = txns /\ pc[w] = "checkout"
      /\ pc' = [pc EXCEPT ![w] = "opened"] /\ mine' = mine
  BY DEF OpenSession, Log!GoTo
<1>3. n \in DOMAIN sessions /\ sessions[n] = "asked"
  BY <1>1, <1>2 DEF PaymentTypes, Asking
<1>4. /\ DOMAIN sessions' = DOMAIN sessions
      /\ \A u \in DOMAIN sessions : u # n => sessions'[u] = sessions[u]
  BY <1>1, <1>2, <1>3, OpenedSession
<1>5. \A v \in Workers : pc'[v] = IF v = w THEN "opened" ELSE pc[v]
  BY <1>1, <1>2 DEF PaymentTypes
<1>6. \A u : Linked(u)' <=> Linked(u)
  BY <1>1, <1>2 DEF Linked
<1>7. ASSUME NEW u, Chargeable(u)', u # n
      PROVE  Chargeable(u) /\ Apart(u, n)' /\ Apart(n, u)' /\ Covered(u)'
  <2>1. u \in DOMAIN sessions /\ sessions'[u] = sessions[u]
    BY <1>4, <1>7 DEF Chargeable
  <2>2. \A v \in Workers : pc'[v] = "opened" /\ mine'[v] = u => Opened(v, u)
    BY <1>2, <1>5, <1>7 DEF Opened
  <2>3. Chargeable(u)
    BY <1>6, <1>7, <2>1, <2>2 DEF Chargeable, Opened
  <2>4. Apart(u, n)
    BY <1>2, <2>3 DEF OneSession
  <2> QED
    BY <1>7, <2>3, <2>4, ApartStays, CoveredStays
<1>8. Covered(n)'
  BY <1>2, <1>5 DEF Covered, Opened
<1>9. \A v, x \in Workers : CheckingOut(v)' /\ CheckingOut(x)' => v = x
  BY <1>2, <1>5 DEF OneSession, CheckingOut
<1>10. \A v \in Workers : pc'[v] # "checkout"
  BY <1>2, <1>5 DEF OneSession, CheckingOut
<1>11. \A s, u : Chargeable(s)' /\ Chargeable(u)' => s = u \/ Apart(s, u)'
  <2>1. ASSUME NEW s, NEW u, Chargeable(s)', Chargeable(u)', s # u PROVE Apart(s, u)'
    <3>1. CASE s # n /\ u # n
      <4>1. Chargeable(s) /\ Chargeable(u)
        BY <1>7, <2>1, <3>1
      <4> QED
        BY <2>1, <4>1, ApartStays DEF OneSession
    <3>2. CASE s = n \/ u = n
      BY <1>7, <2>1, <3>2
    <3> QED
      BY <3>1, <3>2
  <2> QED
    BY <2>1
<1>12. \A s : Chargeable(s)' => Covered(s)'
  BY <1>7, <1>8
<1> QED
  BY <1>9, <1>10, <1>11, <1>12 DEF OneSession

LEMMA CheckoutApart ==
  ASSUME ChargedInv, [Next]_vars, Mild', OneSession, NEW w \in Workers, Checkout(w),
         NEW s, Chargeable(s)
  PROVE  Apart(s, mine[w])' /\ \A v \in Workers : ~CheckingOut(v)
<1>1. PaymentTypes /\ CollectedInv
  BY DEF ChargedInv, CollectedInv
<1>2. /\ \A v \in Workers : pc[v] \notin {"checkout", "opened", "pay"}
      /\ status \notin {"paid", "cancelled"}
  BY DEF Checkout, Ask, TroubleAtCheckout, Mild
<1>3. PICK t \in DOMAIN txns : txns[t].reference = Reference(s) /\ Pending(t)
  BY <1>2 DEF OneSession, Covered, Opened
<1>4. Reference(s)[2] = s
  BY ReferenceFacts
<1>5. With(t) = provider[s]
  BY <1>3, <1>4 DEF With
<1>6. provider[s] # provider[NextSession] /\ "other_provider" \in trouble'
  BY <1>3, <1>5 DEF Checkout, Ask, TroubleAtCheckout
<1>7. mine'[w] = NextSession
  BY <1>1 DEF Checkout, Ask, PaymentTypes
<1>8. provider' = provider
  BY NeverChanges
<1> QED
  BY <1>2, <1>6, <1>7, <1>8 DEF Apart, CheckingOut

LEMMA OneSessionStep ==
  ASSUME ChargedInv, [Next]_vars, Mild'
  PROVE  OneSession'
<1>1. PaymentTypes /\ OneSession /\ CollectedInv
  BY TroubleKept DEF ChargedInv, CollectedInv, Mild
<1>2. CASE \E w \in Workers : OpenSession(w)
  BY <1>1, <1>2, OpenedApart
<1>3. CASE ~\E w \in Workers : OpenSession(w)
  <2>1. \A s : Chargeable(s)' => Chargeable(s) /\ Covered(s)'
    BY <1>3, ChargeableBefore, CoveredStays
  <2>2. \A s, u : Chargeable(s)' /\ Chargeable(u)' => s = u \/ Apart(s, u)'
    BY <1>1, <2>1, ApartStays DEF OneSession
  <2>3. ASSUME NEW w \in Workers, Checkout(w)
        PROVE  OneSession'
    <3>1. \A v \in Workers : pc[v] \notin {"checkout", "opened", "pay"}
      BY <2>3 DEF Checkout, Ask, TroubleAtCheckout, Mild
    <3>2. \A v \in Workers : CheckingOut(v)' => v = w
      <4>1. pc' = [pc EXCEPT ![w] = "checkout"]
        BY <2>3 DEF Checkout, Ask, Log!GoTo
      <4> QED
        BY <1>1, <3>1, <4>1 DEF CheckingOut, PaymentTypes
    <3>3. \A s : Chargeable(s)' => Apart(s, mine[w])'
      <4>1. ASSUME NEW s, Chargeable(s)' PROVE Apart(s, mine[w])'
        <5>1. Chargeable(s)
          BY <2>1, <4>1
        <5> QED
          BY <1>1, <2>3, <5>1, CheckoutApart
      <4> QED
        BY <4>1
    <3>4. \A v \in Workers : pc'[v] = "checkout" => \A s : Chargeable(s)' => Apart(s, mine[v])'
      BY <3>2, <3>3 DEF CheckingOut
    <3> QED
      BY <2>1, <2>2, <3>2, <3>4 DEF OneSession
  <2>4. CASE ~\E w \in Workers : Checkout(w)
    <3>1. \A v \in Workers : CheckingOut(v)' =>
            CheckingOut(v) /\ mine'[v] = mine[v] /\ (pc'[v] = "checkout" => pc[v] = "checkout")
      BY <1>1, <2>4, CheckingOutBefore
    <3>2. \A v \in Workers : pc'[v] = "checkout" => CheckingOut(v)'
      BY DEF CheckingOut
    <3>3. \A v \in Workers : pc'[v] = "checkout" => \A s : Chargeable(s)' => Apart(s, mine[v])
      BY <1>1, <2>1, <3>1, <3>2 DEF OneSession
    <3>4. \A v \in Workers : pc'[v] = "checkout" => \A s : Chargeable(s)' => Apart(s, mine[v])'
      <4>1. \A v \in Workers : \A s : Apart(s, mine[v]) /\ mine'[v] = mine[v] => Apart(s, mine[v])'
        BY NeverChanges, TroubleKept DEF Apart
      <4> QED
        BY <3>1, <3>2, <3>3, <4>1
    <3>5. \A v, x \in Workers : CheckingOut(v)' /\ CheckingOut(x)' => v = x
      BY <1>1, <3>1 DEF OneSession
    <3> QED
      BY <2>1, <2>2, <3>4, <3>5 DEF OneSession
  <2> QED
    BY <2>3, <2>4
<1> QED
  BY <1>2, <1>3

\* The customer is charged at most once through a provider, with any number of
\* checkouts and sessions, as long as trouble (an overlapping checkout, a status
\* that cannot be paid, an interrupted event, a stale save) does not occur, and
\* two providers charge only when one was asked while the transaction of the
\* other was pending (create_checkout).
THEOREM CustomerChargedOnce == Spec => []ChargedOnce
<1>1. Init => ChargedInv
  <2> SUFFICES ASSUME Init PROVE ChargedInv
    OBVIOUS
  <2>1. CollectedInv
    BY CollectedInitially
  <2>2. sessions = <<>> /\ txns = <<>> /\ \A w \in Workers : pc[w] = "idle"
    BY DEF Init, Log!LogInit
  <2> QED
    BY <2>1, <2>2 DEF ChargedInv, OwnSession, OneSession, Chargeable, CheckingOut
<1>2. ChargedInv /\ [Next]_vars => ChargedInv'
  BY CollectedStep, OwnSessionStep, OneSessionStep DEF ChargedInv
<1>3. ChargedInv => ChargedOnce
  BY DEF ChargedInv, ChargedOnce, Mild, OneSession, Chargeable, Apart
<1> QED
  BY <1>1, <1>2, <1>3, PTL DEF Spec

----------------------------------------------------------------------------
(* Types.                                                                  *)

\* Checkouts and transactions are about sessions that exist.
OfSessions ==
  /\ \A w \in Workers : mine[w] \in 0..Len(sessions)
  /\ \A t \in DOMAIN txns :
       txns[t].reference \in {"session", "billing_request"} \X DOMAIN sessions

Troubles == {"overlap", "other_provider", "conflict", "interrupted", "overwritten"}

OtherTypes ==
  /\ provider \in [Sessions -> Providers]
  /\ trouble \subseteq Troubles
  /\ sent \subseteq Notices

LEMMA BoundsInitially == Init => OfSessions /\ OtherTypes
<1> SUFFICES ASSUME Init PROVE OfSessions /\ OtherTypes
  OBVIOUS
<1>1. sessions = <<>> /\ txns = <<>> /\ Len(<<>>) = 0
  BY DEF Init
<1>2. OfSessions
  BY <1>1 DEF Init, OfSessions
<1> QED
  BY <1>2 DEF Init, OtherTypes, Log!LogInit

LEMMA SameDomain ==
  ASSUME NEW m \in Nat, NEW n \in Nat, 1..m = 1..n
  PROVE  m = n
<1>1. ~(m < n)
  <2>1. ASSUME m < n PROVE FALSE
    <3>1. n \in 1..n /\ n \notin 1..m
      BY <2>1
    <3> QED
      BY <3>1
  <2> QED
    BY <2>1
<1>2. ~(n < m)
  <2>1. ASSUME n < m PROVE FALSE
    <3>1. m \in 1..m /\ m \notin 1..n
      BY <2>1
    <3> QED
      BY <3>1
  <2> QED
    BY <2>1
<1> QED
  BY <1>1, <1>2

\* Sessions do not go away.
LEMMA LengthKept ==
  ASSUME CollectedInv, [Next]_vars
  PROVE  /\ Len(sessions) \in Nat /\ DOMAIN sessions = 1..Len(sessions)
         /\ Len(sessions') \in Nat /\ DOMAIN sessions' = 1..Len(sessions')
         /\ \/ Len(sessions') = Len(sessions)
            \/ Len(sessions') = Len(sessions) + 1 /\ \E w \in Workers : Checkout(w)
<1>1. PaymentTypes /\ PaymentTypes' /\ Asking
  BY TypesStep DEF CollectedInv
<1>2. /\ Len(sessions) \in Nat /\ DOMAIN sessions = 1..Len(sessions)
      /\ Len(sessions') \in Nat /\ DOMAIN sessions' = 1..Len(sessions')
  BY <1>1 DEF PaymentTypes
<1>3. CASE ~\E w \in Workers : Checkout(w)
  <2>1. DOMAIN sessions' = DOMAIN sessions
    BY <1>1, <1>3, SessionsStay
  <2> QED
    BY <1>2, <2>1, SameDomain
<1>4. ASSUME NEW w \in Workers, Checkout(w)
      PROVE  Len(sessions') = Len(sessions) + 1
  BY <1>1, <1>4, SessionAdded DEF Checkout, Ask
<1> QED
  BY <1>2, <1>3, <1>4

LEMMA OfSessionsStep ==
  ASSUME CollectedInv, OfSessions, [Next]_vars
  PROVE  OfSessions'
<1>1. PaymentTypes /\ PaymentTypes'
  BY TypesStep DEF CollectedInv
<1>2. \A w \in Workers : mine'[w] \in 0..Len(sessions')
  <2>1. \A w \in Workers : mine[w] \in 0..Len(sessions')
    BY LengthKept DEF OfSessions
  <2>2. \A w \in Workers : mine'[w] \in {mine[w], 0, Len(sessions')}
    <3>1. ASSUME NEW v \in Workers, Checkout(v)
          PROVE  mine' = [mine EXCEPT ![v] = Len(sessions')]
      <4>1. mine' = [mine EXCEPT ![v] = Len(sessions) + 1] /\ sessions' = Append(sessions, "asked")
        BY <3>1 DEF Checkout, Ask, NextSession
      <4> QED
        BY <1>1, <4>1, SessionAdded
    <3>2. \/ mine' = mine
          \/ \E v \in Workers : mine' = [mine EXCEPT ![v] = 0]
          \/ \E v \in Workers : Checkout(v)
      BY DEF Next, Handle, OpenSession, SaveTransaction, PaymentConfirmed, MarkPaid,
         PaymentFailed, Unhandled, Answer, Interrupted, Forget, Receive, Complete, Settle, Expire,
         Elsewhere, StaleSave, vars, paymentVars
    <3>3. mine \in [Workers -> Nat]
      BY <1>1 DEF PaymentTypes
    <3> QED
      BY <3>1, <3>2, <3>3
  <2>3. 0 \in 0..Len(sessions') /\ Len(sessions') \in 0..Len(sessions')
    BY LengthKept
  <2> QED
    BY <2>1, <2>2, <2>3
<1>3. DOMAIN sessions \subseteq DOMAIN sessions'
  BY LengthKept
<1>4. \A t \in DOMAIN txns :
        txns[t].reference \in {"session", "billing_request"} \X DOMAIN sessions'
  BY <1>3 DEF OfSessions
<1>5. CASE UNCHANGED txns
  BY <1>2, <1>4, <1>5 DEF OfSessions
<1>6. ASSUME NEW w \in Workers, SaveTransaction(w) PROVE OfSessions'
  <2>1. mine[w] \in DOMAIN sessions
    BY <1>1, <1>6 DEF SaveTransaction, PaymentTypes
  <2>2. Reference(mine[w]) \in {"session", "billing_request"} \X DOMAIN sessions
    <3>1. Reference(mine[w]) \in {<<"session", mine[w]>>, <<"billing_request", mine[w]>>}
      BY ReferenceFacts
    <3> QED
      BY <2>1, <3>1
  <2>3. /\ DOMAIN txns' = DOMAIN txns \union {Len(txns) + 1}
        /\ \A u \in DOMAIN txns : txns'[u] = txns[u]
        /\ txns'[Len(txns) + 1].reference = Reference(mine[w])
    <3>1. txns'[Len(txns) + 1] = [reference |-> Reference(mine[w]), status |-> "created"]
      BY <1>1, <1>6, TxnAdded
    <3>2. txns'[Len(txns) + 1].reference = Reference(mine[w])
      BY <3>1
    <3> QED
      BY <1>1, <1>6, <3>2, TxnAdded
  <2>4. \A t \in DOMAIN txns' :
          txns'[t].reference \in {"session", "billing_request"} \X DOMAIN sessions'
    BY <1>3, <1>4, <2>2, <2>3
  <2> QED
    BY <1>2, <2>4 DEF OfSessions
<1>7. ASSUME NEW t \in DOMAIN txns, NEW x \in {"confirmed", "failed"}, SetStatus(t, x)
      PROVE  OfSessions'
  <2>1. DOMAIN txns' = DOMAIN txns /\ \A u \in DOMAIN txns : txns'[u].reference = txns[u].reference
    BY <1>1, <1>7, StatusSet
  <2> QED
    BY <1>2, <1>4, <2>1 DEF OfSessions
<1> QED
  BY <1>5, <1>6, <1>7, Txns1

LEMMA OtherTypesStep ==
  ASSUME CollectedInv, OtherTypes, [Next]_vars
  PROVE  OtherTypes'
<1>1. provider' \in [Sessions -> Providers]
  BY NeverChanges DEF OtherTypes
<1>2. trouble' \subseteq trouble \union Troubles
  BY DEF Troubles, Next, Checkout, Ask, TroubleAtCheckout, Handle, OpenSession, SaveTransaction,
     PaymentConfirmed, MarkPaid, PaymentFailed, Unhandled, Answer, Interrupted, Harm, Receive,
     Complete, Settle, Expire, Elsewhere, StaleSave, vars, paymentVars
<1>3. sent' \subseteq Notices
  <2>1. ASSUME NEW s \in DOMAIN sessions, Complete(s) \/ Settle(s) \/ Expire(s)
        PROVE  sent' \subseteq Notices
    <3>1. s \in Sessions
      BY SessionDomain DEF CollectedInv
    <3>2. \E tiding \in Tidings : sent' = sent \union {[session |-> s, tiding |-> tiding]}
      BY <2>1 DEF Complete, Settle, Expire, Tell, Tidings
    <3> QED
      BY <3>1, <3>2 DEF Notices, OtherTypes
  <2> QED
    BY <2>1, Sessions1 DEF OtherTypes
<1> QED
  BY <1>1, <1>2, <1>3 DEF OtherTypes

\* A sequence of rows, each in a smaller set, is a sequence over that set.
LEMMA RowsOf ==
  ASSUME NEW S, NEW T, NEW q \in Seq(S), \A t \in DOMAIN q : q[t] \in T
  PROVE  q \in Seq(T)
<1>1. Len(q) \in Nat /\ DOMAIN q = 1..Len(q) /\ q = [t \in 1..Len(q) |-> q[t]]
  OBVIOUS
<1>2. \A t \in 1..Len(q) : q[t] \in T
  BY <1>1
<1> QED
  BY <1>1, <1>2, SMT

\* However many customers ask for a link at once, the provider opens no more
\* sessions than are allowed for, every checkout and every transaction is about
\* one of them (create_checkout), and no row, worker, notification or log takes
\* a form the code does not know.
THEOREM PaymentTypeCorrect == Spec => []TypeOK
<1>1. ASSUME CollectedInv, OfSessions, OtherTypes PROVE TypeOK
  <2>1. PaymentTypes
    BY <1>1 DEF CollectedInv
  <2>2. /\ Len(sessions) \in 0..MaxSessions /\ DOMAIN sessions \subseteq Sessions
        /\ Len(sessions) <= MaxSessions
    <3>1. Len(sessions) \in Nat /\ Len(sessions) <= MaxSessions /\ MaxSessions \in Nat
      BY <2>1, PaymentAssumption DEF PaymentTypes
    <3> QED
      BY <2>1, <3>1, SessionDomain
  <2>3. txns \in Seq([reference : {"session", "billing_request"} \X Sessions,
                      status : {"created", "confirmed", "failed"}])
    <3>1. txns \in Seq(TxnRow) /\ DOMAIN txns = 1..Len(txns)
      BY <2>1 DEF PaymentTypes
    <3>2. ASSUME NEW t \in DOMAIN txns
          PROVE  txns[t] \in [reference : {"session", "billing_request"} \X Sessions,
                              status : {"created", "confirmed", "failed"}]
      <4>1. txns[t] \in TxnRow
        BY <3>1, ElementOfSeq
      <4>2. txns[t].reference \in {"session", "billing_request"} \X Sessions
        BY <1>1, <2>2 DEF OfSessions
      <4> QED
        BY <4>1, <4>2 DEF TxnRow
    <3> QED
      BY <3>1, <3>2, RowsOf
  <2>4. mine \in [Workers -> 0..MaxSessions]
    <3>1. mine \in [Workers -> Nat] /\ MaxSessions \in Nat
      BY <2>1, PaymentAssumption DEF PaymentTypes
    <3>2. \A w \in Workers : mine[w] \in 0..MaxSessions
      BY <1>1, <2>2, <3>1 DEF OfSessions
    <3> QED
      BY <3>1, <3>2
  <2>5. Log!LogTypeOK({"checkout", "opened", "pay"})
    BY <1>1, <2>1 DEF PaymentTypes, OtherTypes, Log!LogTypeOK, Labels
  <2> QED
    BY <1>1, <2>1, <2>2, <2>3, <2>4, <2>5 DEF PaymentTypes, OtherTypes, TypeOK, SessionStates, Troubles
<1> QED
  BY <1>1, CollectedInitially, CollectedStep, BoundsInitially, OfSessionsStep,
     OtherTypesStep, PTL DEF Spec
=============================================================================
