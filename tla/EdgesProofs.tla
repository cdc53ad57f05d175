------------------------------ MODULE EdgesProofs ------------------------------
(***************************************************************************)
(* Theorems about the five parts that MCEdges puts side by side, for any   *)
(* number of workers, threads, messages, identifiers and rows.             *)
(***************************************************************************)
EXTENDS MCEdges, TLAPS

----------------------------------------------------------------------------
(* POST /invoices/ with an Idempotency-Key.                                *)

\* Every invoice is under way in one worker at most, answered under one row at
\* most, and never both.
Attribution ==
  /\ \A w \in Creators :
       step[w] = "store" =>
         /\ mine[w] \in 1..created
         /\ \A v \in Creators : step[v] = "store" /\ mine[v] = mine[w] => v = w
         /\ \A a \in answers : a.invoice # mine[w]
  /\ \A a \in answers : a.life \in 1..lives /\ a.invoice \in 1..created
  /\ key # NoKey => [life |-> key.life, invoice |-> key.invoice] \in answers

AnswersInv == IdempotencyTypeOK /\ Attribution /\ AnswersAgree

LEMMA NoKeyIsNoRow == NoKey \notin KeyRows
  BY IdempotencyAssumption

LEMMA AnswersInitially == IdempotencyInit => AnswersInv
  BY IdempotencyAssumption
  DEF IdempotencyInit, AnswersInv, IdempotencyTypeOK, Attribution, AnswersAgree

LEMMA AnswersStep ==
  ASSUME AnswersInv, [IdempotencyNext]_idempotencyVars
  PROVE  AnswersInv'
<1> USE IdempotencyAssumption, NoKeyIsNoRow DEF AnswersInv, IdempotencyTypeOK, Attribution, AnswersAgree
<1>1. ASSUME NEW w \in Creators, AnswerAgain(w) PROVE AnswersInv'
  <2>1. answers' = answers
    BY <1>1 DEF AnswerAgain
  <2> QED
    BY <1>1, <2>1 DEF AnswerAgain
<1>2. ASSUME NEW w \in Creators, FindKey(w) PROVE AnswersInv'
  BY <1>2 DEF FindKey, Proceed
<1>3. ASSUME NEW w \in Creators, DeleteKey(w) PROVE AnswersInv'
  BY <1>3 DEF DeleteKey, Proceed
<1>4. ASSUME NEW w \in Creators, RefusePayload(w) PROVE AnswersInv'
  BY <1>4 DEF RefusePayload, Proceed
<1>5. ASSUME NEW w \in Creators, CreateInvoice(w) PROVE AnswersInv'
  BY <1>5 DEF CreateInvoice, Proceed, Invoices
<1>6. ASSUME NEW w \in Creators, StoreKey(w) PROVE AnswersInv'
  BY <1>6 DEF StoreKey, Proceed, Invoices, KeyRows
<1>7. ASSUME NEW w \in Creators, FailToStore(w) PROVE AnswersInv'
  BY <1>7 DEF FailToStore, Proceed
<1>8. CASE ExpireKey
  BY <1>8 DEF ExpireKey, KeyRows
<1>9. CASE UNCHANGED idempotencyVars
  BY <1>9 DEF idempotencyVars
<1> QED
  BY <1>1, <1>2, <1>3, <1>4, <1>5, <1>6, <1>7, <1>8, <1>9 DEF IdempotencyNext

\* The answers given under one row of the key name one invoice, and each
\* invoice is named under one row, whatever requests overlap with each other and
\* with the end of the 24 hours (views.py, create).
THEOREM OneAnswerPerKey == IdempotencySpec => []AnswersAgree
<1>1. AnswersInv => AnswersAgree
  BY DEF AnswersInv
<1> QED
  BY <1>1, AnswersInitially, AnswersStep, PTL DEF IdempotencySpec

----------------------------------------------------------------------------
(* Customers and suppliers.                                                *)

\* What the unique constraint keeps.
ExternalUnique ==
  \A p, q \in Rows :
    parties[p].external # None /\ parties[p].external = parties[q].external => p = q

\* The identifier that led to a party is still the party's.
Leads ==
  \A n \in named :
    /\ n[2] \in Rows
    /\ n[1] \in ExternalIds => parties[n[2]].external = n[1]
    /\ n[1] \in Sirens => parties[n[2]].siren = n[1]

\* As long as nothing came up between a look-up and the creation that follows, what
\* a worker has looked for in vain is still missing.
StillMissing ==
  ~overlap => \A w \in Clerks : request[w] # None =>
    IF request[w].external # None THEN ByExternal(request[w].external) = {}
    ELSE BySiren(request[w].siren) = {}

\* Only a payload that describes the party, or Stripe's, is waiting to create one.
Waiting ==
  \A w \in Clerks : request[w] # None =>
    /\ request[w].pattern \in {"inline", "stripe"}
    /\ request[w].external # None \/ request[w].siren # None

PartiesInv ==
  PartiesTypeOK /\ ExternalUnique /\ Leads /\ StillMissing /\ Waiting /\ StableIdentity

LEMMA RequestFields ==
  ASSUME NEW r \in Requests
  PROVE  /\ r.pattern \in {"referenced", "inline", "stripe"}
         /\ r.external \in ExternalIds \union {None}
         /\ r.siren \in Sirens \union {None}
         /\ r # None
  BY PartiesAssumption DEF Requests

\* A new row takes a free place, and differs from none.
LEMMA Added ==
  ASSUME NEW e, NEW s, NEW data, Add(e, s, data)
  PROVE  \E p \in Known : /\ parties[p] = None
                          /\ parties' = [parties EXCEPT ![p] =
                                           [external |-> e, siren |-> s, data |-> data]]
<1>1. \E p : p \in Known \ Rows
  BY DEF Add, Rows
<1>2. (CHOOSE p \in Known \ Rows : TRUE) \in Known \ Rows
  BY <1>1
<1> QED
  BY <1>2 DEF Add, Rows

LEMMA PartiesInitially == PartiesInit => PartiesInv
  BY PartiesAssumption
  DEF PartiesInit, PartiesInv, PartiesTypeOK, ExternalUnique, Leads, StillMissing, Waiting,
      StableIdentity, Rows

\* The table and the pending requests after a row was added under free
\* identifiers: what is to be shown for every way to add one.
LEMMA AfterAdding ==
  ASSUME PartiesInv, NEW e \in ExternalIds \union {None}, NEW s \in Sirens \union {None},
         NEW data \in {"payload", "stripe", "edited"}, NEW p \in Known,
         parties[p] = None, FreeExternal(e),
         parties' = [parties EXCEPT ![p] = [external |-> e, siren |-> s, data |-> data]]
  PROVE  /\ parties' \in [Known -> Party \union {None}]
         /\ Rows' = Rows \union {p} /\ p \notin Rows
         /\ \A q \in Rows : parties'[q] = parties[q]
         /\ parties'[p] = [external |-> e, siren |-> s, data |-> data]
         /\ ExternalUnique'
<1> DEFINE row == [external |-> e, siren |-> s, data |-> data]
<1>1. row \in Party /\ row # None
  BY PartiesAssumption DEF Party
<1>2. parties \in [Known -> Party \union {None}] /\ p \notin Rows
  BY DEF PartiesInv, PartiesTypeOK, Rows
<1>3. parties'[p] = row /\ \A q \in Known : q # p => parties'[q] = parties[q]
  BY <1>2
<1>4. parties' \in [Known -> Party \union {None}]
  BY <1>1, <1>2
<1>5. Rows' = Rows \union {p}
  BY <1>1, <1>2, <1>3 DEF Rows
<1>6. row.external = e
  OBVIOUS
<1> HIDE DEF row
<1>7. \A q \in Rows : parties'[q] = parties[q]
  BY <1>2, <1>3 DEF Rows
<1>8. ExternalUnique'
  <2> SUFFICES ASSUME NEW a \in Rows', NEW b \in Rows',
                      parties'[a].external # None, parties'[a].external = parties'[b].external
               PROVE  a = b
    BY DEF ExternalUnique
  <2>1. e # None => \A q \in Rows : parties[q].external # e
    BY DEF FreeExternal, ByExternal
  <2>2. CASE a \in Rows /\ b \in Rows
    BY <1>7, <2>2 DEF PartiesInv, ExternalUnique
  <2>3. CASE a = p \/ b = p
    BY <1>2, <1>3, <1>5, <1>6, <1>7, <2>1, <2>3
  <2> QED
    BY <1>5, <2>2, <2>3
<1> QED
  BY <1>2, <1>3, <1>4, <1>5, <1>7, <1>8 DEF row

LEMMA ResolveStep ==
  ASSUME PartiesInv, NEW w \in Clerks, NEW r \in Requests, Resolve(w, r)
  PROVE  PartiesInv'
<1>1. PICK p \in Rows : Matches(r) = {p} /\ named' = named \union {<<Identifier(r), p>>}
  BY DEF Resolve
<1>2. UNCHANGED <<model, parties, request, overlap>> /\ Identifier(r) # None
  BY DEF Resolve, CanLook
<1> DEFINE i == Identifier(r)
<1>3. p \in Known
  BY DEF Rows
<1>4. /\ i \in ExternalIds \union Sirens
      /\ i \in ExternalIds => parties[p].external = i
      /\ i \in Sirens => BySiren(i) = {p} /\ parties[p].siren = i
  <2>1. CASE DecidesByExternal(r)
    <3>1. i = r.external /\ i \in ExternalIds
      BY <1>2, <2>1, RequestFields DEF Identifier
    <3>2. p \in ByExternal(i)
      BY <1>1, <2>1, <3>1 DEF Matches
    <3> QED
      BY <3>1, <3>2, PartiesAssumption DEF ByExternal
  <2>2. CASE ~DecidesByExternal(r)
    <3>1. i = r.siren /\ i \in Sirens
      BY <1>2, <2>2, RequestFields DEF Identifier
    <3>2. BySiren(i) = {p}
      BY <1>1, <2>2, <3>1 DEF Matches
    <3> QED
      BY <3>1, <3>2, PartiesAssumption DEF BySiren
  <2> QED
    BY <2>1, <2>2
<1> HIDE DEF i
<1>5. named' = named \union {<<i, p>>}
  BY <1>1 DEF i
<1>6. PartiesTypeOK' /\ ExternalUnique' /\ StillMissing' /\ Waiting'
  BY <1>2, <1>3, <1>4, <1>5
  DEF PartiesInv, PartiesTypeOK, ExternalUnique, StillMissing, Waiting, Rows, ByExternal, BySiren
<1>7. Leads'
  <2> SUFFICES ASSUME NEW n \in named'
               PROVE  /\ n[2] \in Rows
                      /\ n[1] \in ExternalIds => parties[n[2]].external = n[1]
                      /\ n[1] \in Sirens => parties[n[2]].siren = n[1]
    BY <1>2 DEF Leads, Rows
  <2> QED
    BY <1>1, <1>4, <1>5 DEF PartiesInv, Leads
<1>8. \A a \in named : a[1] = i => a[2] = p
  <2> SUFFICES ASSUME NEW a \in named, a[1] = i PROVE a[2] = p
    OBVIOUS
  <2>1. a[2] \in Rows
    BY DEF PartiesInv, Leads
  <2>2. CASE i \in ExternalIds
    BY <1>4, <2>1, <2>2, PartiesAssumption DEF PartiesInv, Leads, ExternalUnique
  <2>3. CASE i \in Sirens
    BY <1>4, <2>1, <2>3 DEF PartiesInv, Leads, BySiren
  <2> QED
    BY <1>4, <2>2, <2>3
<1>9. StableIdentity'
  <2> SUFFICES ASSUME NEW a \in named', NEW b \in named', a[1] = b[1],
                      a[1] \in ExternalIds \/ ~overlap
               PROVE  a[2] = b[2]
    BY <1>2 DEF StableIdentity
  <2>1. CASE a \in named /\ b \in named
    BY <2>1 DEF PartiesInv, StableIdentity
  <2>2. CASE a = <<i, p>> \/ b = <<i, p>>
    BY <1>5, <1>8, <2>2
  <2> QED
    BY <1>5, <2>1, <2>2
<1> QED
  BY <1>6, <1>7, <1>9 DEF PartiesInv

LEMMA LookInVainStep ==
  ASSUME PartiesInv, NEW w \in Clerks, NEW r \in Requests, LookInVain(w, r)
  PROVE  PartiesInv'
<1>1. /\ UNCHANGED <<model, parties, named, overlap>>
      /\ request' = [request EXCEPT ![w] = r]
      /\ r.pattern \in {"inline", "stripe"} /\ Matches(r) = {} /\ Identifier(r) # None
  BY RequestFields DEF LookInVain, CanLook
<1>2. r.external # None \/ r.siren # None
  BY <1>1 DEF Identifier, DecidesByExternal
<1>3. IF r.external # None THEN ByExternal(r.external) = {} ELSE BySiren(r.siren) = {}
  BY <1>1 DEF Matches, DecidesByExternal
<1>4. PartiesTypeOK' /\ ExternalUnique' /\ Leads' /\ StableIdentity'
  BY <1>1
  DEF PartiesInv, PartiesTypeOK, ExternalUnique, Leads, StableIdentity, Rows
<1>5. \A v \in Clerks : request'[v] = IF v = w THEN r ELSE request[v]
  BY <1>1 DEF PartiesInv, PartiesTypeOK
<1>6. Waiting'
  BY <1>1, <1>2, <1>5 DEF PartiesInv, Waiting
<1>7. StillMissing'
  <2>1. ASSUME ~overlap, NEW v \in Clerks, request'[v] # None
        PROVE  IF request'[v].external # None THEN ByExternal(request'[v].external) = {}
               ELSE BySiren(request'[v].siren) = {}
    <3>1. CASE v = w
      BY <1>3, <1>5, <3>1
    <3>2. CASE v # w
      BY <1>5, <2>1, <3>2 DEF PartiesInv, StillMissing
    <3> QED
      BY <3>1, <3>2
  <2> QED
    BY <1>1, <2>1 DEF StillMissing, ByExternal, BySiren, Rows
<1> QED
  BY <1>4, <1>6, <1>7 DEF PartiesInv

\* Where every other worker that had looked in vain counts as overlapping,
\* nothing is claimed of it any more.
LEMMA Quiet ==
  ASSUME NEW others, Overlapping(others),
         \A v \in Clerks : request'[v] # None => v \in others /\ request[v] # None
  PROVE  StillMissing' /\ (overlap => overlap')
  BY DEF Overlapping, StillMissing

LEMMA CreateStep ==
  ASSUME PartiesInv, NEW w \in Clerks, Create(w)
  PROVE  PartiesInv'
<1> DEFINE r == request[w]
           i == IF r.external # None THEN r.external ELSE r.siren
<1>1. /\ r \in Requests /\ r # None /\ FreeExternal(r.external)
      /\ Add(r.external, r.siren, "payload")
      /\ request' = [request EXCEPT ![w] = None]
      /\ Overlapping(Clerks \ {w}) /\ model' = model
      /\ named' = named \union {<<i, q>> : q \in {q \in Known : parties'[q] # parties[q]}}
  BY DEF Create, PartiesInv, PartiesTypeOK
<1>2. PICK p \in Known :
        /\ parties[p] = None
        /\ parties' = [parties EXCEPT ![p] =
                         [external |-> r.external, siren |-> r.siren, data |-> "payload"]]
  BY <1>1, Added
<1>3. r.external \in ExternalIds \union {None} /\ r.siren \in Sirens \union {None}
  BY <1>1, RequestFields
<1>4. i \in ExternalIds \union Sirens /\ (i \in ExternalIds => r.external = i)
      /\ (i \in Sirens => r.external = None /\ r.siren = i)
  BY <1>1, <1>3, PartiesAssumption DEF PartiesInv, Waiting
<1>5. ~overlap => IF r.external # None THEN ByExternal(r.external) = {}
                  ELSE BySiren(r.siren) = {}
  BY <1>1 DEF PartiesInv, StillMissing
<1>6. /\ parties' \in [Known -> Party \union {None}]
      /\ Rows' = Rows \union {p} /\ p \notin Rows
      /\ \A q \in Rows : parties'[q] = parties[q]
      /\ parties'[p] = [external |-> r.external, siren |-> r.siren, data |-> "payload"]
      /\ ExternalUnique'
  BY <1>1, <1>2, <1>3, AfterAdding
<1> HIDE DEF r, i
<1>7. /\ parties'[p].external = r.external /\ parties'[p].siren = r.siren
      /\ parties'[p] # None
  BY <1>6 DEF Rows
<1>8. {q \in Known : parties'[q] # parties[q]} = {p}
  <2>1. \A q \in Known : q # p => parties'[q] = parties[q]
    BY <1>2 DEF PartiesInv, PartiesTypeOK
  <2> QED
    BY <1>2, <1>7, <2>1
<1>9. named' = named \union {<<i, p>>}
  BY <1>1, <1>8
<1>10. StillMissing' /\ (overlap => overlap')
  <2>1. \A v \in Clerks : request'[v] # None => v \in Clerks \ {w} /\ request[v] # None
    BY <1>1 DEF PartiesInv, PartiesTypeOK
  <2> QED
    BY <1>1, <2>1, Quiet
<1>11. Waiting'
  BY <1>1 DEF PartiesInv, PartiesTypeOK, Waiting
<1>12. PartiesTypeOK'
  BY <1>1, <1>2, <1>4, <1>6, <1>9 DEF PartiesInv, PartiesTypeOK, Overlapping
<1>13. Leads'
  <2>1. \A n \in named : /\ n[2] \in Rows'
                         /\ n[1] \in ExternalIds => parties'[n[2]].external = n[1]
                         /\ n[1] \in Sirens => parties'[n[2]].siren = n[1]
    BY <1>6 DEF PartiesInv, Leads
  <2>2. /\ p \in Rows' /\ (i \in ExternalIds => parties'[p].external = i)
        /\ i \in Sirens => parties'[p].siren = i
    BY <1>4, <1>6, <1>7
  <2> QED
    BY <1>9, <2>1, <2>2 DEF Leads
<1>14. \A a \in named : a[1] = i /\ (i \in ExternalIds \/ ~overlap') => FALSE
  <2> SUFFICES ASSUME NEW a \in named, a[1] = i, i \in ExternalIds \/ ~overlap'
               PROVE  FALSE
    OBVIOUS
  <2>1. a[2] \in Rows /\ (i \in ExternalIds => parties[a[2]].external = i)
        /\ (i \in Sirens => parties[a[2]].siren = i)
    BY DEF PartiesInv, Leads
  <2>2. CASE i \in ExternalIds
    BY <1>1, <1>4, <2>1, <2>2, PartiesAssumption DEF FreeExternal, ByExternal
  <2>3. CASE i \in Sirens /\ ~overlap'
    BY <1>4, <1>5, <1>10, <2>1, <2>3 DEF BySiren
  <2> QED
    BY <1>4, <2>2, <2>3
<1>15. StableIdentity'
  <2> SUFFICES ASSUME NEW a \in named', NEW b \in named', a[1] = b[1],
                      a[1] \in ExternalIds \/ ~overlap'
               PROVE  a[2] = b[2]
    BY DEF StableIdentity
  <2>1. CASE a \in named /\ b \in named
    BY <1>10, <2>1 DEF PartiesInv, StableIdentity
  <2>2. CASE a = <<i, p>> \/ b = <<i, p>>
    BY <1>9, <1>14, <2>2
  <2> QED
    BY <1>9, <2>1, <2>2
<1> QED
  BY <1>6, <1>10, <1>11, <1>12, <1>13, <1>15 DEF PartiesInv

\* Stripe's data, whether they make a row or go over one.
LEMMA UpsertStep ==
  ASSUME PartiesInv, NEW e \in ExternalIds, Upsert(e), named' = named
  PROVE  /\ parties' \in [Known -> Party \union {None}]
         /\ ExternalUnique' /\ Leads'
         /\ (overlap => overlap') => StableIdentity'
<1>1. CASE ByExternal(e) = {} /\ Add(e, None, "stripe")
  <2>1. PICK p \in Known :
          /\ parties[p] = None
          /\ parties' = [parties EXCEPT ![p] = [external |-> e, siren |-> None, data |-> "stripe"]]
    BY <1>1, Added
  <2>2. FreeExternal(e)
    BY <1>1 DEF FreeExternal
  <2>3. /\ parties' \in [Known -> Party \union {None}]
        /\ Rows' = Rows \union {p}
        /\ \A q \in Rows : parties'[q] = parties[q]
        /\ ExternalUnique'
    BY <2>1, <2>2, AfterAdding
  <2> QED
    BY <2>3 DEF PartiesInv, Leads, StableIdentity
<1>2. ASSUME NEW p \in ByExternal(e), parties' = [parties EXCEPT ![p].data = "stripe"]
      PROVE  /\ parties' \in [Known -> Party \union {None}]
             /\ ExternalUnique' /\ Leads'
             /\ (overlap => overlap') => StableIdentity'
  <2>1. p \in Known /\ parties[p] \in Party /\ parties \in [Known -> Party \union {None}]
    BY DEF ByExternal, Rows, PartiesInv, PartiesTypeOK
  <2> DEFINE row == [parties[p] EXCEPT !.data = "stripe"]
  <2>2. row \in Party /\ row.external = parties[p].external /\ row.siren = parties[p].siren
    BY <2>1 DEF Party
  <2>3. parties' = [parties EXCEPT ![p] = row] /\ parties[p] # None /\ row # None
    BY <1>2, <2>1, <2>2, PartiesAssumption
  <2> HIDE DEF row
  <2>4. parties' \in [Known -> Party \union {None}] /\ Rows' = Rows
    BY <2>1, <2>2, <2>3 DEF Rows
  <2>5. \A q \in Rows : /\ parties'[q].external = parties[q].external
                        /\ parties'[q].siren = parties[q].siren
    BY <2>1, <2>2, <2>3 DEF Rows
  <2>6. ExternalUnique' /\ Leads'
    BY <2>4, <2>5 DEF PartiesInv, ExternalUnique, Leads
  <2> QED
    BY <2>4, <2>6 DEF PartiesInv, StableIdentity
<1> QED
  BY <1>1, <1>2 DEF Upsert

LEMMA SeedStep ==
  ASSUME PartiesInv, NEW w \in Clerks, Seed(w)
  PROVE  PartiesInv'
<1>1. /\ request[w] \in Requests /\ request[w].pattern = "stripe" /\ Upsert(request[w].external)
      /\ request' = [request EXCEPT ![w] = None]
      /\ Overlapping(Clerks \ {w}) /\ UNCHANGED <<model, named>>
  BY DEF Seed, PartiesInv, PartiesTypeOK
<1>2. request[w].external \in ExternalIds
  BY <1>1 DEF Requests
<1>3. \A v \in Clerks : request'[v] # None =>
        v \in Clerks \ {w} /\ request[v] # None /\ request'[v] = request[v]
  BY <1>1 DEF PartiesInv, PartiesTypeOK
<1>4. StillMissing' /\ (overlap => overlap')
  BY <1>1, <1>3, Quiet
<1>5. /\ parties' \in [Known -> Party \union {None}]
      /\ ExternalUnique' /\ Leads' /\ StableIdentity'
  BY <1>1, <1>2, <1>4, UpsertStep
<1>6. Waiting'
  BY <1>3 DEF PartiesInv, Waiting
<1>7. PartiesTypeOK'
  BY <1>1, <1>5 DEF PartiesInv, PartiesTypeOK, Overlapping
<1> QED
  BY <1>4, <1>5, <1>6, <1>7 DEF PartiesInv

LEMMA DropStep ==
  ASSUME PartiesInv, NEW w \in Clerks, Drop(w)
  PROVE  PartiesInv'
<1>1. /\ request' = [request EXCEPT ![w] = None]
      /\ UNCHANGED <<model, parties, named, overlap>>
  BY DEF Drop
<1>2. \A v \in Clerks : request'[v] # None => request[v] # None /\ request'[v] = request[v]
  BY <1>1 DEF PartiesInv, PartiesTypeOK
<1>3. StillMissing' /\ Waiting'
  BY <1>1, <1>2 DEF PartiesInv, StillMissing, Waiting, ByExternal, BySiren, Rows
<1>4. PartiesTypeOK' /\ ExternalUnique' /\ Leads' /\ StableIdentity'
  BY <1>1 DEF PartiesInv, PartiesTypeOK, ExternalUnique, Leads, StableIdentity, Rows
<1> QED
  BY <1>3, <1>4 DEF PartiesInv

LEMMA UserStep ==
  ASSUME PartiesInv,
         \/ \E e \in ExternalIds : ImportCustomer(e)
         \/ \E e \in ExternalIds \union {None}, s \in Sirens \union {None} :
              AddParty(e, s) \/ \E p \in Rows : EditParty(p, e, s)
         \/ \E p \in Rows : DeleteParty(p)
  PROVE  PartiesInv'
<1>1. ASSUME Overlapping(Clerks), UNCHANGED <<model, request>>,
             parties' \in [Known -> Party \union {None}],
             ExternalUnique', Leads', StableIdentity',
             named' \subseteq (ExternalIds \union Sirens) \X Known
      PROVE  PartiesInv'
  <2>1. StillMissing'
    BY <1>1, Quiet
  <2>2. PartiesTypeOK' /\ Waiting'
    BY <1>1 DEF PartiesInv, PartiesTypeOK, Waiting, Overlapping
  <2> QED
    BY <1>1, <2>1, <2>2 DEF PartiesInv
<1>2. named \subseteq (ExternalIds \union Sirens) \X Known
      /\ parties \in [Known -> Party \union {None}]
  BY DEF PartiesInv, PartiesTypeOK
<1>3. ASSUME NEW e \in ExternalIds, ImportCustomer(e) PROVE PartiesInv'
  <2>1. Upsert(e) /\ Overlapping(Clerks) /\ UNCHANGED <<model, request, named>>
    BY <1>3 DEF ImportCustomer
  <2>2. overlap => overlap'
    BY <2>1 DEF Overlapping
  <2> QED
    BY <1>1, <1>2, <2>1, <2>2, UpsertStep
<1>4. ASSUME NEW e \in ExternalIds \union {None}, NEW s \in Sirens \union {None}, AddParty(e, s)
      PROVE  PartiesInv'
  <2>1. /\ FreeExternal(e) /\ Add(e, s, "edited")
        /\ Overlapping(Clerks) /\ UNCHANGED <<model, request, named>>
    BY <1>4 DEF AddParty
  <2>2. PICK p \in Known :
          /\ parties[p] = None
          /\ parties' = [parties EXCEPT ![p] = [external |-> e, siren |-> s, data |-> "edited"]]
    BY <2>1, Added
  <2>3. /\ parties' \in [Known -> Party \union {None}]
        /\ Rows' = Rows \union {p}
        /\ \A q \in Rows : parties'[q] = parties[q]
        /\ ExternalUnique'
    BY <2>1, <2>2, AfterAdding
  <2>4. Leads'
    BY <2>1, <2>3 DEF PartiesInv, Leads
  <2>5. StableIdentity'
    BY <2>1 DEF PartiesInv, StableIdentity, Overlapping
  <2> QED
    BY <1>1, <1>2, <2>1, <2>3, <2>4, <2>5
<1>5. ASSUME NEW e \in ExternalIds \union {None}, NEW s \in Sirens \union {None},
             NEW p \in Rows, EditParty(p, e, s)
      PROVE  PartiesInv'
  <2> DEFINE row == [external |-> e, siren |-> s, data |-> "edited"]
  <2>1. /\ e = parties[p].external \/ FreeExternal(e)
        /\ parties' = [parties EXCEPT ![p] = row]
        /\ named' = {n \in named : n[2] # p \/ n[1] \in {e, s}}
        /\ Overlapping(Clerks) /\ UNCHANGED <<model, request>>
    BY <1>5 DEF EditParty
  <2>2. row \in Party /\ row # None /\ row.external = e /\ row.siren = s
    BY PartiesAssumption DEF Party
  <2> HIDE DEF row
  <2>3. p \in Known /\ parties[p] # None
    BY DEF Rows
  <2>4. /\ parties' \in [Known -> Party \union {None}] /\ parties'[p] = row
        /\ \A q \in Known : q # p => parties'[q] = parties[q]
    BY <1>2, <2>1, <2>2, <2>3
  <2>5. Rows' = Rows
    BY <2>2, <2>3, <2>4 DEF Rows
  <2>6. ExternalUnique'
    <3>1. \A q \in Rows : q # p /\ e # None => parties[q].external # e
      BY <2>1 DEF FreeExternal, ByExternal, PartiesInv, ExternalUnique
    <3>2. Rows \subseteq Known
      BY DEF Rows
    <3> QED
      BY <2>2, <2>4, <2>5, <3>1, <3>2 DEF PartiesInv, ExternalUnique
  <2>7. Leads'
    <3> SUFFICES ASSUME NEW n \in named'
                 PROVE  /\ n[2] \in Rows
                        /\ n[1] \in ExternalIds => parties'[n[2]].external = n[1]
                        /\ n[1] \in Sirens => parties'[n[2]].siren = n[1]
      BY <2>5 DEF Leads
    <3>1. n \in named /\ n[2] \in Rows /\ n[2] \in Known
      BY <2>1 DEF PartiesInv, Leads, Rows
    <3>2. CASE n[2] # p
      BY <2>4, <3>1, <3>2 DEF PartiesInv, Leads
    <3>3. CASE n[2] = p /\ n[1] \in {e, s}
      BY <2>2, <2>4, <3>1, <3>3, PartiesAssumption
    <3> QED
      BY <2>1, <3>1, <3>2, <3>3
  <2>8. StableIdentity'
    BY <2>1 DEF PartiesInv, StableIdentity, Overlapping
  <2>9. named' \subseteq (ExternalIds \union Sirens) \X Known
    BY <1>2, <2>1
  <2> QED
    BY <1>1, <2>1, <2>4, <2>6, <2>7, <2>8, <2>9
<1>6. ASSUME NEW p \in Rows, DeleteParty(p) PROVE PartiesInv'
  <2>1. /\ parties' = [parties EXCEPT ![p] = None]
        /\ named' = {n \in named : n[2] # p}
        /\ UNCHANGED <<model, request, overlap>>
    BY <1>6 DEF DeleteParty
  <2>2. p \in Known
    BY DEF Rows
  <2>3. Rows' = Rows \ {p} /\ \A q \in Known : q # p => parties'[q] = parties[q]
    BY <1>2, <2>1, <2>2 DEF Rows
  <2>4. Rows \subseteq Known
    BY DEF Rows
  <2>5. ExternalUnique' /\ Leads' /\ StableIdentity'
    BY <2>1, <2>3, <2>4 DEF PartiesInv, ExternalUnique, Leads, StableIdentity
  <2>6. StillMissing' /\ Waiting'
    BY <2>1, <2>3, <2>4 DEF PartiesInv, StillMissing, Waiting, ByExternal, BySiren
  <2>7. PartiesTypeOK'
    BY <1>2, <2>1 DEF PartiesInv, PartiesTypeOK
  <2> QED
    BY <2>5, <2>6, <2>7 DEF PartiesInv
<1> QED
  BY <1>3, <1>4, <1>5, <1>6

LEMMA PartiesStep == PartiesInv /\ [PartiesNext]_partyVars => PartiesInv'
<1> SUFFICES ASSUME PartiesInv, [PartiesNext]_partyVars PROVE PartiesInv'
  OBVIOUS
<1>1. CASE UNCHANGED partyVars
  BY <1>1
  DEF partyVars, PartiesInv, PartiesTypeOK, ExternalUnique, Leads, StillMissing, Waiting,
      StableIdentity, Rows, ByExternal, BySiren
<1>2. CASE PartiesNext
  BY <1>2, ResolveStep, LookInVainStep, CreateStep, DropStep, SeedStep, UserStep DEF PartiesNext
<1> QED
  BY <1>1, <1>2

\* An external identifier leads to one party however look-ups, creations,
\* imports and edits interleave; a SIREN does unless a party came up between a
\* look-up and the creation after it (resolution_service.py).
THEOREM IdentifiersAreStable == PartiesSpec => []StableIdentity
<1>1. PartiesInv => StableIdentity
  BY DEF PartiesInv
<1> QED
  BY <1>1, PartiesInitially, PartiesStep, PTL DEF PartiesSpec

\* The step of OnlySeeds.
Seeding ==
  \A p \in Rows :
    /\ parties[p].data # "stripe" /\ ~overlap'
    /\ \A e \in ExternalIds : ~ImportCustomer(e)
    => parties'[p] = None \/ parties'[p].data # "stripe"

\* A row that is added leaves the others as they were.
LEMMA AddedElsewhere ==
  ASSUME PartiesInv, NEW e, NEW s, NEW data, Add(e, s, data), NEW p \in Rows
  PROVE  parties'[p] = parties[p]
<1>1. PICK q \in Known :
        /\ parties[q] = None
        /\ parties' = [parties EXCEPT ![q] = [external |-> e, siren |-> s, data |-> data]]
  BY Added
<1> QED
  BY <1>1 DEF Rows, PartiesInv, PartiesTypeOK

LEMMA StepSeeds == PartiesInv /\ PartiesNext => Seeding
<1> SUFFICES ASSUME PartiesInv, PartiesNext, NEW p \in Rows,
                    parties[p].data # "stripe", ~overlap',
                    \A e \in ExternalIds : ~ImportCustomer(e)
             PROVE  parties'[p] = None \/ parties'[p].data # "stripe"
  BY DEF Seeding
<1>1. p \in Known /\ parties \in [Known -> Party \union {None}]
  BY DEF Rows, PartiesInv, PartiesTypeOK
<1>2. ASSUME NEW w \in Clerks, NEW r \in Requests, Resolve(w, r) \/ LookInVain(w, r)
      PROVE  parties'[p] = parties[p]
  BY <1>2 DEF Resolve, LookInVain
<1>3. ASSUME NEW w \in Clerks, Create(w) \/ Drop(w)
      PROVE  parties'[p] = parties[p]
  BY <1>3, AddedElsewhere DEF Create, Drop
<1>4. ASSUME NEW w \in Clerks, Seed(w)
      PROVE  parties'[p] = parties[p]
  <2> DEFINE e == request[w].external
  <2>1. /\ request[w] \in Requests /\ request[w] # None /\ request[w].pattern = "stripe"
        /\ Upsert(e) /\ Overlapping(Clerks \ {w})
    BY <1>4 DEF Seed, PartiesInv, PartiesTypeOK
  <2>2. e # None /\ ~overlap
    BY <2>1, PartiesAssumption DEF Requests, Overlapping
  <2>3. ByExternal(e) = {}
    BY <2>1, <2>2 DEF PartiesInv, StillMissing
  <2> QED
    BY <2>1, <2>3, AddedElsewhere DEF Upsert
<1>5. ASSUME NEW e, NEW s, AddParty(e, s)
      PROVE  parties'[p] = parties[p]
  BY <1>5, AddedElsewhere DEF AddParty
<1>6. ASSUME NEW e, NEW s, NEW q \in Rows, EditParty(q, e, s)
      PROVE  parties'[p].data # "stripe"
  BY <1>1, <1>6 DEF EditParty
<1>7. ASSUME NEW q \in Rows, DeleteParty(q)
      PROVE  parties'[p] = None \/ parties'[p] = parties[p]
  BY <1>1, <1>7 DEF DeleteParty
<1> QED
  BY <1>2, <1>3, <1>4, <1>5, <1>6, <1>7 DEF PartiesNext

\* The import of an invoice never writes Stripe's data over what a user or a
\* payload has entered, unless a party came up after the import had looked
\* (import_customer_from_invoice, sync.py).
THEOREM ImportsOnlySeed == PartiesSpec => OnlySeeds
<1>1. PartiesInv /\ [PartiesNext]_partyVars => [Seeding]_partyVars
  BY StepSeeds
<1>2. PartiesSpec => [][Seeding]_partyVars
  BY <1>1, PartiesInitially, PartiesStep, PTL DEF PartiesSpec
<1> QED
  BY <1>2 DEF OnlySeeds, Seeding

----------------------------------------------------------------------------
(* Outgoing webhooks.                                                      *)

\* A worker that has an answer holds the task it is the answer to, and only what
\* was emitted is ever posted.
InHand ==
  /\ \A w \in Posters : outcome[w] # "none" => posting[w] # NoPost
  /\ \A w \in Posters : posting[w] # NoPost => posting[w].message \in emitted
  /\ \A p \in due : p.message \in emitted

WebhookInv == WebhookTypeOK /\ InHand

LEMMA WebhookInitially == WebhookInit => WebhookInv
  BY WebhookAssumption DEF WebhookInit, WebhookInv, WebhookTypeOK, InHand

LEMMA WebhookStep ==
  ASSUME WebhookInv, [WebhookNext]_webhookVars
  PROVE  WebhookInv'
<1> USE WebhookAssumption DEF WebhookInv, WebhookTypeOK, InHand
<1>1. ASSUME NEW m \in Messages, Emit(m) PROVE WebhookInv'
  BY <1>1 DEF Emit, Posts
<1>2. ASSUME NEW w \in Posters, NEW p \in Posts, TakePost(w, p) PROVE WebhookInv'
  BY <1>2 DEF TakePost
<1>3. ASSUME NEW w \in Posters, Post(w) PROVE WebhookInv'
  BY <1>3 DEF Post
<1>4. ASSUME NEW w \in Posters, RecordDelivery(w) PROVE WebhookInv'
  <2>1. posting[w] \in Posts
    BY <1>4 DEF RecordDelivery
  <2>2. ~Last(posting[w]) => [posting[w] EXCEPT !.attempt = @ + 1] \in Posts
    BY <2>1 DEF Last, Posts
  <2>3. [posting[w] EXCEPT !.attempt = @ + 1].message = posting[w].message
    BY <2>1 DEF Posts
  <2>4. \/ due' = due
        \/ ~Last(posting[w]) /\ due' = due \union {[posting[w] EXCEPT !.attempt = @ + 1]}
    BY <1>4 DEF RecordDelivery
  <2>6. due' \subseteq Posts
    BY <2>2, <2>4
  <2>7. \A p \in due' : p.message \in emitted
    BY <1>4, <2>3, <2>4 DEF RecordDelivery
  <2>5. deliveries' \subseteq [post : Posts, success : BOOLEAN]
    <3>1. (outcome[w] = "success") \in BOOLEAN
      OBVIOUS
    <3>2. [post |-> posting[w], success |-> outcome[w] = "success"] \in [post : Posts, success : BOOLEAN]
      BY <2>1, <3>1, Zenon
    <3> QED
      BY <1>4, <3>2, Zenon DEF RecordDelivery
  <2> QED
    BY <1>4, <2>5, <2>6, <2>7 DEF RecordDelivery
<1>5. ASSUME NEW w \in Posters, PosterDies(w) PROVE WebhookInv'
  BY <1>5 DEF PosterDies
<1>6. CASE SetEndpoint
  BY <1>6 DEF SetEndpoint
<1>7. CASE UNCHANGED webhookVars
  BY <1>7 DEF webhookVars
<1> QED
  BY <1>1, <1>2, <1>3, <1>4, <1>5, <1>6, <1>7 DEF WebhookNext, Deliver

----------------------------------------------------------------------------
(* The access token.                                                       *)

LEMMA TokenInitially == TokenInit => TokenTypeOK
  BY TokenAssumption DEF TokenInit, TokenTypeOK, NoToken

LEMMA TokenStep ==
  ASSUME TokenTypeOK, [TokenNext]_tokenVars
  PROVE  TokenTypeOK'
<1> USE TokenAssumption DEF TokenTypeOK
<1>1. ASSUME NEW t \in Threads, Call(t) \/ GenerateInvoice(t) \/ TaskPending(t) PROVE TokenTypeOK'
  <2>1. PICK n \in 0..MaxPolls : Request(t, n)
    <3>1. left[t] > 0 => left[t] - 1 \in 0..MaxPolls
      OBVIOUS
    <3>2. 0 \in 0..MaxPolls /\ MaxPolls \in 0..MaxPolls
      OBVIOUS
    <3> QED
      BY <1>1, <3>1, <3>2 DEF Call, GenerateInvoice, TaskPending
  <2>2. retried' \in [Threads -> BOOLEAN]
    BY <2>1, Zenon DEF Request
  <2> QED
    BY <2>1, <2>2 DEF Request
<1>2. ASSUME NEW t \in Threads, AcquireToEnsure(t) \/ AcquireToRenew(t) PROVE TokenTypeOK'
  BY <1>2 DEF AcquireToEnsure, AcquireToRenew, MoveTo
<1>3. ASSUME NEW t \in Threads, Refresh(t) PROVE TokenTypeOK'
  BY <1>3 DEF Refresh, MoveTo
<1>4. ASSUME NEW t \in Threads, Obtain(t) PROVE TokenTypeOK'
  <2>1. [epoch |-> epoch, running |-> TRUE] \in [epoch : 0..(MaxRevocations + 1), running : BOOLEAN]
    OBVIOUS
  <2>2. cache' \in [epoch : 0..(MaxRevocations + 1), running : BOOLEAN]
    BY <1>4, <2>1, Zenon DEF Obtain
  <2>3. at' \in [Threads -> {"idle", "ensure", "refresh", "obtain", "headers", "send",
                            "renew", "renewing", "refused"}]
    BY <1>4 DEF Obtain, MoveTo, AfterPair, Return
  <2>4. left' \in [Threads -> 0..MaxPolls]
    BY <1>4 DEF Obtain, MoveTo, Return
  <2> QED
    BY <1>4, <2>2, <2>3, <2>4 DEF Obtain
<1>5. ASSUME NEW t \in Threads, BuildHeaders(t) PROVE TokenTypeOK'
  BY <1>5 DEF BuildHeaders, MoveTo
<1>6. ASSUME NEW t \in Threads, Answered(t) \/ GiveUp(t) PROVE TokenTypeOK'
  BY <1>6 DEF Answered, GiveUp, Return
<1>7. ASSUME NEW t \in Threads, Unauthorised(t) \/ UnauthorisedAgain(t) PROVE TokenTypeOK'
  BY <1>7 DEF Unauthorised, UnauthorisedAgain, MoveTo
<1>8. CASE ExpireToken
  <2>1. cache' \in [epoch : 0..(MaxRevocations + 1), running : BOOLEAN]
    BY <1>8, Zenon DEF ExpireToken
  <2> QED
    BY <1>8, <2>1 DEF ExpireToken
<1>10. CASE Revoke
  BY <1>10 DEF Revoke
<1>9. CASE UNCHANGED tokenVars
  BY <1>9 DEF tokenVars
<1> QED
  BY <1>1, <1>2, <1>3, <1>4, <1>5, <1>6, <1>7, <1>8, <1>9, <1>10 DEF TokenNext, RequestStep

----------------------------------------------------------------------------
(* The history on the page of an invoice.                                  *)

Directions == {"", "in", "out"}

PublishedEvents == [code : Labels, document : 0..MaxSent]

AuditLogs ==
  [action : {"flow_submitted", "cdar_paid_submitted", "cdar_event"}, code : Labels \union {"none"},
   direction : Directions, role : {"", "BY", "SE"}, document : 0..MaxSent, second : 0..MaxSeconds,
   event : Int]

TimelineTypes ==
  /\ published \in Seq(PublishedEvents)
  /\ habit \in [names : BOOLEAN, directs : BOOLEAN]
  /\ audit \in Seq(AuditLogs)
  /\ unlogged \subseteq 1..taken

\* The PA publishes what it took, a document at most once.
Publications ==
  /\ \A i \in DOMAIN published :
       published[i].document > 0 => published[i].code = "212" /\ published[i].document <= taken
  /\ \A i, j \in DOMAIN published :
       published[i].document > 0 /\ published[i].document = published[j].document => i = j

\* A log is that of the submission, of a document whose answer is logged, or of
\* an event, of which it says what the PA said.
Genuine(log) ==
  /\ log.action = "flow_submitted" => log.event = 0
  /\ log.action = "cdar_paid_submitted" =>
       -log.event \in (1..taken) \ unlogged /\ log.document = Name(-log.event)
  /\ log.action = "cdar_event" =>
       /\ log.event \in DOMAIN published
       /\ log.code = published[log.event].code
       /\ log.document = Name(published[log.event].document)
       /\ Outgoing(log) <=> published[log.event].document > 0

\* Nothing is logged twice, since a poll passes over what is logged already.
LoggedOnce ==
  /\ \A k \in DOMAIN audit : Genuine(audit[k])
  /\ \A k, l \in DOMAIN audit : audit[k].event = audit[l].event => k = l
  /\ reading # 0 => passed = LoggedEvents

TimelineInv == TimelineTypeOK /\ TimelineTypes /\ Publications /\ LoggedOnce

LEMMA OneLog ==
  ASSUME NEW T, NEW x \in T
  PROVE  <<x>> \in Seq(T) /\ DOMAIN <<x>> = {1} /\ <<x>>[1] = x
  OBVIOUS

LEMMA Lengths ==
  ASSUME NEW T, NEW s \in Seq(T)
  PROVE  Len(s) \in Nat /\ DOMAIN s = 1..Len(s)
  OBVIOUS

LEMMA Appended ==
  ASSUME NEW T, NEW s \in Seq(T), NEW x \in T
  PROVE  /\ Append(s, x) \in Seq(T)
         /\ Len(Append(s, x)) = Len(s) + 1
         /\ DOMAIN Append(s, x) = 1..(Len(s) + 1)
         /\ \A k \in 1..Len(s) : Append(s, x)[k] = s[k]
         /\ Append(s, x)[Len(s) + 1] = x
  OBVIOUS

LEMMA TimelineInitially == TimelineInit => TimelineInv
<1> SUFFICES ASSUME TimelineInit PROVE TimelineInv
  OBVIOUS
<1> DEFINE log == [action |-> "flow_submitted", code |-> "none", direction |-> "", role |-> "",
                   document |-> 0, second |-> 0, event |-> 0]
<1>1. MaxSent \in Nat /\ MaxSeconds \in Nat
  BY TimelineAssumption
<1>2. 0 \in 0..MaxSent /\ 0 \in 0..MaxSeconds /\ 0 \in -MaxSent..0
  BY <1>1
<1>3. "none" \in Labels \union {"none"} /\ 0 \in Int
  OBVIOUS
<1>4. log \in AuditLogs
  BY <1>2, <1>3, Zenon DEF AuditLogs, Directions
<1>5. audit = <<log>>
  BY DEF TimelineInit
<1>6. log.event = 0 /\ log.action = "flow_submitted"
  OBVIOUS
<1> HIDE DEF log
<1>7. audit \in Seq(AuditLogs) /\ DOMAIN audit = {1} /\ audit[1] = log
  BY <1>4, <1>5, OneLog, Zenon
<1>8. published = <<>> /\ published \in Seq(PublishedEvents)
  <2>1. published = <<>>
    BY Zenon DEF TimelineInit
  <2> QED
    BY <2>1
<1>9. Len(published) = 0 /\ DOMAIN published = {}
  BY <1>8
<1>11. /\ habit \in [names : BOOLEAN, directs : BOOLEAN]
       /\ unlogged = {} /\ passed = {}
       /\ taken = 0 /\ second = 0 /\ reading = 0
  BY Zenon DEF TimelineInit
<1>12. TimelineTypeOK
  BY <1>1, <1>2, <1>6, <1>7, <1>9, <1>11 DEF TimelineTypeOK
<1>13. TimelineTypes
  BY <1>7, <1>8, <1>11 DEF TimelineTypes
<1>14. Publications
  BY <1>9 DEF Publications
<1>15. LoggedOnce
  BY <1>6, <1>7, <1>11 DEF LoggedOnce, Genuine
<1> QED
  BY <1>12, <1>13, <1>14, <1>15 DEF TimelineInv

\* What the invariant says of the domains.
LEMMA TimelineDomains ==
  ASSUME TimelineInv
  PROVE  /\ Len(published) \in Nat /\ DOMAIN published = 1..Len(published)
         /\ Len(audit) \in Nat /\ DOMAIN audit = 1..Len(audit)
         /\ \A i \in DOMAIN published : published[i] \in PublishedEvents
         /\ \A k \in DOMAIN audit : audit[k] \in AuditLogs
         /\ taken \in Nat /\ taken <= MaxSent /\ MaxSent \in Nat /\ MaxSeconds \in Nat
<1>1. published \in Seq(PublishedEvents) /\ audit \in Seq(AuditLogs)
  BY DEF TimelineInv, TimelineTypes
<1>2. /\ Len(published) \in Nat /\ DOMAIN published = 1..Len(published)
      /\ Len(audit) \in Nat /\ DOMAIN audit = 1..Len(audit)
  BY <1>1, Lengths, Zenon
<1>3. \A i \in DOMAIN published : published[i] \in PublishedEvents
  BY <1>1, <1>2
<1>4. \A k \in DOMAIN audit : audit[k] \in AuditLogs
  BY <1>1, <1>2
<1>5. taken \in Nat /\ taken <= MaxSent /\ MaxSent \in Nat /\ MaxSeconds \in Nat
  BY TimelineAssumption DEF TimelineInv, TimelineTypeOK
<1> QED
  BY <1>2, <1>3, <1>4, <1>5

\* An event that the PA publishes takes nothing back.
LEMMA PublishKeeps ==
  ASSUME TimelineInv, NEW code \in Labels, NEW document \in 0..MaxSent, Publish(code, document),
         taken' \in 0..MaxSent, taken <= taken',
         document > 0 => code = "212" /\ taken < document /\ document <= taken',
         unlogged' \subseteq 1..taken',
         \A d \in unlogged' : d \in unlogged \/ taken < d,
         UNCHANGED <<habit, audit, second, reading, passed>>
  PROVE  TimelineInv'
<1> DEFINE e == [code |-> code, document |-> document]
<1>1. e \in PublishedEvents /\ e.code = code /\ e.document = document
  BY DEF PublishedEvents
<1>2. published' = Append(published, e)
  BY DEF Publish
<1> HIDE DEF e
<1>3. published \in Seq(PublishedEvents)
  BY DEF TimelineInv, TimelineTypes
<1> DEFINE n == Len(published)
<1>4. /\ published' \in Seq(PublishedEvents)
      /\ Len(published') = n + 1
      /\ DOMAIN published' = 1..(n + 1)
      /\ \A i \in 1..n : published'[i] = published[i]
      /\ published'[n + 1] = e
  BY <1>1, <1>2, <1>3, Appended
<1>5. n \in Nat /\ DOMAIN published = 1..n
  BY TimelineDomains
<1>6. \A i \in DOMAIN published' : i \in DOMAIN published \/ i = n + 1
  BY <1>4, <1>5
<1>7. \A i \in DOMAIN published : i \in DOMAIN published' /\ published'[i] = published[i]
  BY <1>4, <1>5
<1> HIDE DEF n
<1>8. TimelineTypeOK'
  <2>1. \A k \in DOMAIN audit : audit[k].event \in -MaxSent..(n + 1)
    BY <1>5, TimelineDomains DEF n, TimelineInv, TimelineTypeOK
  <2>2. reading \in 0..(n + 1) /\ passed \subseteq DOMAIN published'
    BY <1>5, <1>7 DEF n, TimelineInv, TimelineTypeOK
  <2>3. unlogged' \subseteq 1..MaxSent
    BY TimelineDomains
  <2> QED
    BY <1>4, <2>1, <2>2, <2>3 DEF TimelineInv, TimelineTypeOK
<1>9. TimelineTypes'
  BY <1>4 DEF TimelineInv, TimelineTypes
<1>10. Publications'
  <2>1. \A i \in DOMAIN published : published[i].document \in 0..taken
    BY TimelineDomains DEF TimelineInv, Publications, PublishedEvents
  <2>2. \A i \in DOMAIN published' :
          published'[i].document > 0 => published'[i].code = "212" /\ published'[i].document <= taken'
    <3>1. ASSUME NEW i \in DOMAIN published, published'[i].document > 0
          PROVE  published'[i].code = "212" /\ published'[i].document <= taken'
      BY <1>7, <2>1, <3>1, TimelineDomains DEF TimelineInv, Publications
    <3>2. published'[n + 1].document > 0 =>
            published'[n + 1].code = "212" /\ published'[n + 1].document <= taken'
      BY <1>1, <1>4
    <3> QED
      BY <1>6, <3>1, <3>2
  <2>3. ASSUME NEW i \in DOMAIN published', NEW j \in DOMAIN published',
               published'[i].document > 0, published'[i].document = published'[j].document
        PROVE  i = j
    <3>1. CASE i \in DOMAIN published /\ j \in DOMAIN published
      BY <1>7, <2>3, <3>1 DEF TimelineInv, Publications
    <3>2. CASE i \in DOMAIN published /\ j = n + 1
      BY <1>1, <1>4, <1>7, <2>1, <2>3, <3>2, TimelineDomains
    <3>3. CASE i = n + 1 /\ j \in DOMAIN published
      BY <1>1, <1>4, <1>7, <2>1, <2>3, <3>3, TimelineDomains
    <3> QED
      BY <1>6, <3>1, <3>2, <3>3
  <2> QED
    BY <2>2, <2>3 DEF Publications
<1>11. LoggedOnce'
  <2>1. ASSUME NEW k \in DOMAIN audit PROVE Genuine(audit[k])'
    <3>1. Genuine(audit[k])
      BY DEF TimelineInv, LoggedOnce
    <3>2. audit'[k] = audit[k]
      OBVIOUS
    <3>3. audit[k].action = "cdar_paid_submitted" =>
            -audit[k].event \in (1..taken') \ unlogged' /\ audit[k].document = Name(-audit[k].event)'
      <4>1. ASSUME audit[k].action = "cdar_paid_submitted"
            PROVE  -audit[k].event \in (1..taken') \ unlogged'
        <5>1. -audit[k].event \in (1..taken) \ unlogged
          BY <3>1, <4>1 DEF Genuine
        <5> QED
          BY <5>1, TimelineDomains
      <4>2. Name(-audit[k].event)' = Name(-audit[k].event)
        BY DEF Name
      <4> QED
        BY <3>1, <4>1, <4>2 DEF Genuine
    <3>4. audit[k].action = "cdar_event" =>
            /\ audit[k].event \in DOMAIN published'
            /\ audit[k].code = published'[audit[k].event].code
            /\ audit[k].document = Name(published[audit[k].event].document)'
            /\ Outgoing(audit[k]) <=> published'[audit[k].event].document > 0
      BY <1>7, <3>1 DEF Genuine, Name
    <3>5. audit[k].action = "cdar_event" =>
            published'[audit[k].event] = published[audit[k].event]
      BY <1>7, <3>1 DEF Genuine
    <3> QED
      BY <3>1, <3>2, <3>3, <3>4, <3>5 DEF Genuine, Name, Outgoing
  <2>2. LoggedEvents' = LoggedEvents
    BY DEF LoggedEvents
  <2> QED
    BY <2>1, <2>2 DEF TimelineInv, LoggedOnce
<1> QED
  BY <1>8, <1>9, <1>10, <1>11 DEF TimelineInv

\* A log that is added leaves the others, and tells of what none of them does.
LEMMA LoggedKeeps ==
  ASSUME TimelineInv, NEW action \in {"cdar_paid_submitted", "cdar_event"},
         NEW i \in -MaxSent..Len(published), NEW log \in AuditLogs,
         audit' = Append(audit, log), log.action = action, log.event = i, Genuine(log)',
         \A k \in DOMAIN audit : audit[k].event # i,
         unlogged' \subseteq unlogged,
         action = "cdar_paid_submitted" => -i \notin unlogged',
         reading # 0 => passed' = passed \union (IF action = "cdar_event" THEN {i} ELSE {}),
         passed' \subseteq DOMAIN published,
         UNCHANGED <<published, habit, taken, second, reading>>
  PROVE  TimelineInv'
<1> DEFINE n == Len(audit)
<1>3. audit \in Seq(AuditLogs) /\ n \in Nat /\ DOMAIN audit = 1..n
  BY TimelineDomains DEF TimelineInv, TimelineTypes
<1>5. /\ audit'[n + 1] = log
      /\ audit' \in Seq(AuditLogs)
      /\ DOMAIN audit' = 1..(n + 1)
      /\ \A k \in 1..n : audit'[k] = audit[k]
  BY <1>3, Appended
<1>6. \A k \in DOMAIN audit' : k \in DOMAIN audit \/ k = n + 1
  BY <1>3, <1>5
<1>7. \A k \in DOMAIN audit : k \in DOMAIN audit' /\ audit'[k] = audit[k] /\ k # n + 1
  BY <1>3, <1>5
<1>8. n + 1 \in DOMAIN audit'
  BY <1>3, <1>5
<1> HIDE DEF n
<1>9. TimelineTypeOK'
  <2>1. \A k \in DOMAIN audit' : audit'[k].event \in -MaxSent..Len(published)
    BY <1>5, <1>6, <1>7 DEF TimelineInv, TimelineTypeOK
  <2> QED
    BY <2>1 DEF TimelineInv, TimelineTypeOK
<1>10. TimelineTypes'
  BY <1>5 DEF TimelineInv, TimelineTypes
<1>11. Publications'
  BY DEF TimelineInv, Publications
<1>12. LoggedOnce'
  <2>1. ASSUME NEW k \in DOMAIN audit PROVE Genuine(audit[k])'
    <3>1. Genuine(audit[k]) /\ audit'[k] = audit[k]
      BY <1>7 DEF TimelineInv, LoggedOnce
    <3> QED
      BY <3>1 DEF Genuine, Name, Outgoing
  <2>2. \A k \in DOMAIN audit' : Genuine(audit[k])'
    <3>1. ASSUME NEW k \in DOMAIN audit', k = n + 1 PROVE Genuine(audit[k])'
      <4>1. audit'[k] = log
        BY <1>5, <3>1
      <4> QED
        BY <4>1 DEF Genuine, Name, Outgoing
    <3> QED
      BY <1>6, <2>1, <3>1
  <2>3. \A k, l \in DOMAIN audit' : audit'[k].event = audit'[l].event => k = l
    BY <1>5, <1>6, <1>7 DEF TimelineInv, LoggedOnce
  <2>4. LoggedEvents' = LoggedEvents \union (IF action = "cdar_event" THEN {i} ELSE {})
    <3>1. \A k \in DOMAIN audit :
            audit'[k].action = audit[k].action /\ audit'[k].event = audit[k].event
      BY <1>7
    <3>2. audit'[n + 1].action = action /\ audit'[n + 1].event = i
      BY <1>5
    <3>3. DOMAIN audit' = DOMAIN audit \union {n + 1}
      BY <1>6, <1>7, <1>8
    <3> QED
      BY <3>1, <3>2, <3>3 DEF LoggedEvents
  <2> QED
    BY <2>2, <2>3, <2>4 DEF TimelineInv, LoggedOnce
<1> QED
  BY <1>9, <1>10, <1>11, <1>12 DEF TimelineInv

LEMMA TimelineStep ==
  ASSUME TimelineInv, [TimelineNext]_timelineVars
  PROVE  TimelineInv'
<1> USE TimelineAssumption
<1>0. /\ Len(published) \in Nat /\ DOMAIN published = 1..Len(published)
      /\ \A k \in DOMAIN audit : Genuine(audit[k])
      /\ taken \in 0..MaxSent /\ MaxSent \in Nat /\ unlogged \subseteq 1..taken
      /\ second \in 0..MaxSeconds
  BY TimelineDomains DEF TimelineInv, TimelineTypeOK, TimelineTypes, LoggedOnce
<1>1. CASE Receive
  <2>1. PICK code \in ReceivedCodes : Publish(code, 0)
    BY <1>1 DEF Receive
  <2>2. code \in Labels /\ 0 \in 0..MaxSent
    BY <1>0
  <2>3. UNCHANGED <<habit, unlogged, taken, audit, second, reading, passed>>
    BY <1>1 DEF Receive
  <2> QED
    BY <1>0, <2>1, <2>2, <2>3, PublishKeeps
<1>2. CASE TakePaid
  <2>1. /\ taken' = taken + 1 /\ taken' \in 0..MaxSent
        /\ unlogged' = unlogged \union {taken'}
        /\ Publish("212", taken')
        /\ UNCHANGED <<habit, audit, second, reading, passed>>
    BY <1>0, <1>2 DEF TakePaid
  <2>2. /\ taken <= taken' /\ taken < taken' /\ taken' <= taken' /\ unlogged' \subseteq 1..taken'
        /\ \A d \in unlogged' : d \in unlogged \/ taken < d
    BY <1>0, <2>1
  <2>3. "212" \in Labels
    BY DEF Labels
  <2> QED
    BY <2>1, <2>2, <2>3, PublishKeeps
<1>3. CASE Tick
  <2>1. second' \in 0..MaxSeconds /\ UNCHANGED <<published, habit, unlogged, taken, audit, reading, passed>>
    BY <1>0, <1>3 DEF Tick
  <2>2. TimelineTypeOK' /\ TimelineTypes' /\ Publications'
    BY <2>1 DEF TimelineInv, TimelineTypeOK, TimelineTypes, Publications
  <2>3. LoggedOnce'
    BY <2>1 DEF TimelineInv, LoggedOnce, Genuine, Name, Outgoing, LoggedEvents
  <2> QED
    BY <2>2, <2>3 DEF TimelineInv
<1>4. ASSUME NEW d \in unlogged, LogPaid(d) PROVE TimelineInv'
  <2>1. d \in 1..taken /\ -d \in -MaxSent..Len(published) /\ -d < 0 /\ -(-d) = d
    BY <1>0
  <2>2. /\ unlogged' = unlogged \ {d}
        /\ UNCHANGED <<published, habit, taken, second, reading, passed>>
    BY <1>4 DEF LogPaid
  <2>3. PICK log : log = [action |-> "cdar_paid_submitted", code |-> "none", direction |-> "", role |-> "",
                          document |-> Name(d), second |-> second, event |-> -d]
    OBVIOUS
  <2>4. log \in AuditLogs /\ audit' = Append(audit, log)
    <3>1. Name(d) \in 0..MaxSent /\ second \in 0..MaxSeconds /\ -d \in Int
      BY <1>0, <2>1 DEF Name
    <3>2. log \in AuditLogs
      BY <2>3, <3>1, Zenon DEF AuditLogs, Directions
    <3> QED
      BY <1>4, <2>3, <3>2 DEF LogPaid, Logged
  <2>5. log.action = "cdar_paid_submitted" /\ log.event = -d /\ log.document = Name(d)
    BY <2>3
  <2>6. Genuine(log)'
    <3>1. -log.event \in (1..taken) \ unlogged'
      BY <2>1, <2>2, <2>5
    <3>2. Name(d)' = Name(d)
      BY <2>2 DEF Name
    <3> QED
      BY <2>1, <2>2, <2>5, <3>1, <3>2 DEF Genuine
  <2>7. \A k \in DOMAIN audit : audit[k].event # -d
    <3>1. ASSUME NEW k \in DOMAIN audit, audit[k].event = -d PROVE FALSE
      <4>1. Genuine(audit[k]) /\ audit[k] \in AuditLogs
        BY <1>0, TimelineDomains
      <4>2. audit[k].action \in {"flow_submitted", "cdar_paid_submitted", "cdar_event"}
        BY <4>1, Zenon DEF AuditLogs
      <4>3. CASE audit[k].action = "flow_submitted"
        BY <2>1, <3>1, <4>1, <4>3 DEF Genuine
      <4>4. CASE audit[k].action = "cdar_paid_submitted"
        BY <2>1, <3>1, <4>1, <4>4 DEF Genuine
      <4>5. CASE audit[k].action = "cdar_event"
        BY <1>0, <2>1, <3>1, <4>1, <4>5 DEF Genuine
      <4> QED
        BY <4>2, <4>3, <4>4, <4>5
    <3> QED
      BY <3>1
  <2>8. -(-d) \notin unlogged' /\ unlogged' \subseteq unlogged
        /\ passed' \subseteq DOMAIN published
        /\ (reading # 0 => passed' = passed \union {})
    BY <2>1, <2>2 DEF TimelineInv, TimelineTypeOK
  <2> QED
    BY <2>1, <2>2, <2>4, <2>5, <2>6, <2>7, <2>8, LoggedKeeps
<1>5. CASE StartPoll
  <2>1. LoggedEvents \subseteq DOMAIN published
    BY <1>0 DEF LoggedEvents, Genuine
  <2>2. /\ reading' = Len(published) /\ passed' = LoggedEvents
        /\ UNCHANGED <<published, habit, unlogged, taken, audit, second>>
    BY <1>5 DEF StartPoll
  <2>3. TimelineTypeOK' /\ TimelineTypes' /\ Publications'
    BY <1>0, <2>1, <2>2 DEF TimelineInv, TimelineTypeOK, TimelineTypes, Publications
  <2>4. LoggedOnce'
    BY <2>2 DEF TimelineInv, LoggedOnce, Genuine, Name, Outgoing, LoggedEvents
  <2> QED
    BY <2>3, <2>4 DEF TimelineInv
<1>6. CASE LogNextEvent
  <2>1. PICK i \in 1..reading \ passed :
          Logged("cdar_event", Told(published[i]), i) /\ passed' = passed \union {i}
    BY <1>6 DEF LogNextEvent
  <2>2. UNCHANGED <<published, habit, unlogged, taken, second, reading>>
    BY <1>6 DEF LogNextEvent
  <2>3. reading \in 0..Len(published) /\ passed \subseteq DOMAIN published
    BY DEF TimelineInv, TimelineTypeOK
  <2>4. i \in 1..Len(published) /\ i \in -MaxSent..Len(published) /\ i \notin passed /\ reading # 0
        /\ i > 0
    BY <1>0, <2>3
  <2> DEFINE e == published[i]
  <2>5. e \in PublishedEvents /\ Name(e.document) \in 0..MaxSent
    BY <1>0, <2>4, TimelineDomains DEF PublishedEvents, Name
  <2>6. /\ Told(e).code = e.code /\ Told(e).document = Name(e.document)
        /\ Told(e).role = (IF e.document > 0 THEN "SE" ELSE "BY")
        /\ Told(e).direction = IF ~habit.directs THEN "" ELSE IF e.document > 0 THEN "out" ELSE "in"
    BY DEF Told
  <2>7. PICK log : log = [action |-> "cdar_event", code |-> e.code, direction |-> Told(e).direction,
                          role |-> Told(e).role, document |-> Name(e.document), second |-> second,
                          event |-> i]
    OBVIOUS
  <2>8. log \in AuditLogs /\ audit' = Append(audit, log)
    <3>1. e.code \in Labels \union {"none"} /\ i \in Int
      BY <2>4, <2>5 DEF PublishedEvents
    <3>2. Told(e).direction \in Directions /\ Told(e).role \in {"", "BY", "SE"}
      BY <2>6 DEF Directions
    <3>3. log \in AuditLogs
      BY <1>0, <2>5, <2>7, <3>1, <3>2, Zenon DEF AuditLogs
    <3> QED
      BY <2>1, <2>6, <2>7, <3>3 DEF Logged
  <2>9. /\ log.action = "cdar_event" /\ log.event = i /\ log.code = e.code
        /\ log.document = Name(e.document)
        /\ Outgoing(log) <=> e.document > 0
    <3>1. log.direction = Told(e).direction /\ log.role = Told(e).role
      BY <2>7
    <3> QED
      BY <2>6, <2>7, <3>1 DEF Outgoing
  <2>10. Genuine(log)'
    <3>1. Name(e.document)' = Name(e.document)
      BY <2>2 DEF Name
    <3> QED
      BY <1>0, <2>2, <2>4, <2>9, <3>1 DEF Genuine, Outgoing
  <2>11. \A k \in DOMAIN audit : audit[k].event # i
    <3>1. ASSUME NEW k \in DOMAIN audit, audit[k].event = i PROVE FALSE
      <4>1. Genuine(audit[k]) /\ audit[k] \in AuditLogs
        BY <1>0, TimelineDomains
      <4>2. audit[k].action = "cdar_event"
        <5>1. audit[k].action \in {"flow_submitted", "cdar_paid_submitted", "cdar_event"}
          BY <4>1, Zenon DEF AuditLogs
        <5>2. audit[k].action # "flow_submitted"
          BY <2>4, <3>1, <4>1 DEF Genuine
        <5>3. audit[k].action # "cdar_paid_submitted"
          <6>1. -i \notin 1..taken
            BY <1>0, <2>4
          <6> QED
            BY <3>1, <4>1, <6>1 DEF Genuine
        <5> QED
          BY <5>1, <5>2, <5>3
      <4>3. i \in LoggedEvents
        BY <3>1, <4>2 DEF LoggedEvents
      <4> QED
        BY <2>4, <4>3 DEF TimelineInv, LoggedOnce
    <3> QED
      BY <3>1
  <2>12. passed' \subseteq DOMAIN published
    BY <1>0, <2>1, <2>3, <2>4
  <2> QED
    BY <2>1, <2>2, <2>4, <2>8, <2>9, <2>10, <2>11, <2>12, LoggedKeeps
<1>7. CASE StopPoll
  <2>1. reading' = 0 /\ passed' = {} /\ UNCHANGED <<published, habit, unlogged, taken, audit, second>>
    BY <1>7 DEF StopPoll
  <2>2. TimelineTypeOK' /\ TimelineTypes' /\ Publications'
    BY <1>0, <2>1 DEF TimelineInv, TimelineTypeOK, TimelineTypes, Publications
  <2>3. LoggedOnce'
    BY <2>1 DEF TimelineInv, LoggedOnce, Genuine, Name, Outgoing
  <2> QED
    BY <2>2, <2>3 DEF TimelineInv
<1>8. CASE UNCHANGED timelineVars
  <2>1. TimelineTypeOK' /\ TimelineTypes' /\ Publications'
    BY <1>8 DEF timelineVars, TimelineInv, TimelineTypeOK, TimelineTypes, Publications
  <2>2. LoggedOnce'
    BY <1>8 DEF timelineVars, TimelineInv, LoggedOnce, Genuine, Name, Outgoing, LoggedEvents
  <2> QED
    BY <2>1, <2>2 DEF TimelineInv
<1> QED
  BY <1>1, <1>2, <1>3, <1>4, <1>5, <1>6, <1>7, <1>8 DEF TimelineNext

\* No log is newer than itself.
LEMMA NotNewerThanItself ==
  ASSUME TimelineInv, NEW k \in DOMAIN audit
  PROVE  ~Newer(k, k)
<1>1. audit[k] \in AuditLogs /\ k \in Int
  BY TimelineDomains
<1>2. audit[k].second \in 0..MaxSeconds /\ audit[k].code \in Labels \union {"none"}
  BY <1>1 DEF AuditLogs
<1>3. audit[k].second \in Int
  BY <1>2, TimelineDomains
<1>4. Number[audit[k].code] \in Int
  BY <1>2 DEF Number, Labels
<1> DEFINE class(n) == IF audit[n].action = "cdar_event" THEN 0 ELSE 1
<1>5. class(k) \in Int
  OBVIOUS
<1> DEFINE place(n) == <<audit[n].second, class(n), Number[audit[n].code], n>>
<1>6. \A x \in 1..4 : place(k)[x] \in Int
  BY <1>1, <1>3, <1>4, <1>5
<1>7. Newer(k, k) <=> \E x \in 1..4 : place(k)[x] > place(k)[x] /\ \A y \in 1..(x - 1) : place(k)[y] = place(k)[y]
  BY DEF Newer
<1> HIDE DEF place, class
<1> QED
  BY <1>6, <1>7

\* What the page shows of a log is what its subject is, by the kind of the log.
LEMMA Subjects ==
  ASSUME TimelineInv, NEW k \in Page
  PROVE  /\ k \in DOMAIN audit /\ Genuine(audit[k]) /\ audit[k].event \in Int
         /\ audit[k].action \in {"flow_submitted", "cdar_paid_submitted", "cdar_event"}
         /\ audit[k].action = "flow_submitted" => Subject(k) = 0
         /\ audit[k].action = "cdar_paid_submitted" =>
              /\ Subject(k) = audit[k].event /\ Subject(k) < 0 /\ k \in Submitted
              /\ -audit[k].event \in 1..taken
         /\ audit[k].action = "cdar_event" =>
              LET document == published[audit[k].event].document IN
              /\ document \in 0..taken
              /\ Subject(k) = IF document > 0 THEN -document ELSE audit[k].event
              /\ audit[k].event > 0
<1>1. k \in DOMAIN audit /\ Genuine(audit[k]) /\ audit[k] \in AuditLogs
  BY TimelineDomains DEF Page, TimelineInv, LoggedOnce
<1>2. audit[k].action \in {"flow_submitted", "cdar_paid_submitted", "cdar_event"}
  BY <1>1, Zenon DEF AuditLogs
<1>3. audit[k].action = "flow_submitted" => Subject(k) = 0
  BY <1>1 DEF Genuine, Subject
<1>4. ASSUME audit[k].action = "cdar_paid_submitted"
      PROVE  /\ Subject(k) = audit[k].event /\ Subject(k) < 0 /\ k \in Submitted
             /\ -audit[k].event \in 1..taken
  <2>1. -audit[k].event \in 1..taken /\ audit[k].event \in Int
    BY <1>1, <1>4 DEF Genuine, AuditLogs
  <2>2. ~(audit[k].event > 0) /\ audit[k].event < 0
    BY <2>1, TimelineDomains
  <2> QED
    BY <1>4, <2>1, <2>2 DEF Subject, Submitted
<1>5. ASSUME audit[k].action = "cdar_event"
      PROVE  LET document == published[audit[k].event].document IN
             /\ document \in 0..taken
             /\ Subject(k) = IF document > 0 THEN -document ELSE audit[k].event
             /\ audit[k].event > 0
  <2>1. audit[k].event \in 1..Len(published) /\ audit[k].event \in DOMAIN published
    BY <1>1, <1>5, TimelineDomains DEF Genuine
  <2>2. published[audit[k].event].document \in 0..MaxSent
    BY <2>1, TimelineDomains DEF PublishedEvents
  <2>3. published[audit[k].event].document \in 0..taken
    BY <2>1, <2>2, TimelineDomains DEF TimelineInv, Publications
  <2> QED
    BY <2>1, <2>3, TimelineDomains DEF Subject
<1>6. audit[k].event \in Int
  BY <1>1, Zenon DEF AuditLogs
<1> QED
  BY <1>1, <1>2, <1>3, <1>4, <1>5, <1>6

\* Two events that tell of one thing are one event.
LEMMA OneEvent ==
  ASSUME TimelineInv, NEW k \in Page, NEW l \in Page,
         audit[k].action = "cdar_event", audit[l].action = "cdar_event", Subject(k) = Subject(l)
  PROVE  k = l
<1> DEFINE d == published[audit[k].event].document
<1> DEFINE e == published[audit[l].event].document
<1>1. /\ d \in 0..taken /\ Subject(k) = (IF d > 0 THEN -d ELSE audit[k].event)
      /\ audit[k].event > 0 /\ audit[k].event \in Int
      /\ audit[k].event \in DOMAIN published /\ k \in DOMAIN audit
  BY Subjects DEF Genuine
<1>2. /\ e \in 0..taken /\ Subject(l) = (IF e > 0 THEN -e ELSE audit[l].event)
      /\ audit[l].event > 0 /\ audit[l].event \in Int
      /\ audit[l].event \in DOMAIN published /\ l \in DOMAIN audit
  BY Subjects DEF Genuine
<1> HIDE DEF d, e
<1>3. (d = e /\ d > 0) \/ audit[k].event = audit[l].event
  <2>1. d \in Nat /\ e \in Nat
    BY <1>1, <1>2, TimelineDomains
  <2>2. (Subject(k) = -d /\ d > 0) \/ (Subject(k) = audit[k].event /\ ~(d > 0))
    BY <1>1
  <2>3. (Subject(l) = -e /\ e > 0) \/ (Subject(l) = audit[l].event /\ ~(e > 0))
    BY <1>2
  <2>4. CASE Subject(k) = -d /\ d > 0 /\ Subject(l) = -e /\ e > 0
    <3>1. \A m, n \in Nat : -m = -n => m = n
      OBVIOUS
    <3>2. -d = -e
      BY <2>4
    <3> QED
      BY <2>1, <2>4, <3>1, <3>2, Zenon
  <2>5. CASE Subject(k) = audit[k].event /\ Subject(l) = audit[l].event
    BY <2>5
  <2>6. ~(Subject(k) = -d /\ d > 0 /\ Subject(l) = audit[l].event)
    BY <1>2, <2>1
  <2>7. ~(Subject(l) = -e /\ e > 0 /\ Subject(k) = audit[k].event)
    BY <1>1, <2>1
  <2> QED
    BY <2>2, <2>3, <2>4, <2>5, <2>6, <2>7
<1>4. audit[k].event = audit[l].event
  BY <1>1, <1>2, <1>3 DEF d, e, TimelineInv, Publications
<1> QED
  BY <1>1, <1>2, <1>4 DEF TimelineInv, LoggedOnce

\* The echo of a document reflects the log of that document, and no other.
LEMMA ReflectsItsDocument ==
  ASSUME TimelineInv, habit.names \/ taken <= 1, NEW k \in Page, NEW s \in Reflects(k)
  PROVE  /\ s \in Page /\ audit[s].action = "cdar_paid_submitted"
         /\ audit[k].action = "cdar_event"
         /\ Subject(k) = Subject(s)
         /\ Reflects(k) = {s} /\ First(Reflects(k)) = s
<1>1. /\ audit[k].action = "cdar_event" /\ Outgoing(audit[k])
      /\ \A z \in Reflects(k) : z \in Submitted /\ audit[k].document \in {0, audit[z].document}
  BY DEF Reflects
<1> DEFINE d == published[audit[k].event].document
<1>2. /\ d \in 1..taken /\ audit[k].document = Name(d) /\ Subject(k) = -d
      /\ audit[k].event \in DOMAIN published
  <2>1. audit[k].document = Name(d) /\ d > 0 /\ audit[k].event \in DOMAIN published
    BY <1>1, Subjects DEF Genuine
  <2>2. d \in 0..taken /\ Subject(k) = IF d > 0 THEN -d ELSE audit[k].event
    BY <1>1, Subjects
  <2> QED
    BY <2>1, <2>2
<1> HIDE DEF d
<1>3. ASSUME NEW z \in Reflects(k)
      PROVE  /\ z \in Page /\ audit[z].action = "cdar_paid_submitted" /\ z \in DOMAIN audit
             /\ audit[z].event = -d /\ Subject(z) = -d
  <2>1. z \in Page /\ audit[z].action = "cdar_paid_submitted" /\ audit[k].document \in {0, audit[z].document}
    BY <1>1, <1>3 DEF Submitted
  <2>2. /\ z \in DOMAIN audit /\ -audit[z].event \in 1..taken /\ Subject(z) = audit[z].event
        /\ audit[z].document = Name(-audit[z].event)
        /\ audit[z] \in AuditLogs
    BY <2>1, Subjects, TimelineDomains DEF Genuine
  <2>3. audit[z].event \in Int
    BY <2>2 DEF AuditLogs
  <2>4. -audit[z].event = d
    <3>1. CASE habit.names
      <4>1. Name(d) = d /\ Name(-audit[z].event) = -audit[z].event
        BY <3>1 DEF Name
      <4> QED
        BY <1>2, <2>1, <2>2, <4>1
    <3>2. CASE taken <= 1
      BY <1>2, <2>2, <3>2, TimelineDomains
    <3> QED
      BY <3>1, <3>2
  <2> QED
    BY <2>1, <2>2, <2>3, <2>4
<1>4. \A z \in Reflects(k) : z = s
  BY <1>3 DEF TimelineInv, LoggedOnce
<1>5. Reflects(k) = {s}
  BY <1>4
<1>6. First({s}) = s
  BY DEF First
<1> QED
  BY <1>1, <1>2, <1>3, <1>5, <1>6

\* The echoes are the events whose document has its own log on the page.
LEMMA EchoesAreReflections ==
  ASSUME TimelineInv, habit.names \/ taken <= 1, NEW k \in Page
  PROVE  /\ k \in Echoes <=> Reflects(k) # {}
         /\ k \in Echoes => audit[k].action = "cdar_event"
         /\ \A s \in Page :
              (/\ audit[k].action = "cdar_event" /\ audit[s].action = "cdar_paid_submitted"
               /\ Subject(k) = Subject(s)) => k \in Echoes
<1>1. ASSUME Reflects(k) # {} PROVE k \in Echoes
  <2>1. ASSUME NEW l \in Page, Reflects(l) # {}, Newer(l, k)
        PROVE  First(Reflects(l)) # First(Reflects(k))
    <3> SUFFICES ASSUME First(Reflects(l)) = First(Reflects(k)) PROVE FALSE
      OBVIOUS
    <3>1. PICK s \in Reflects(k) : TRUE
      BY <1>1
    <3>2. PICK z \in Reflects(l) : TRUE
      BY <2>1
    <3>3. Subject(k) = Subject(s) /\ First(Reflects(k)) = s /\ audit[k].action = "cdar_event"
          /\ s \in Page /\ audit[s].action = "cdar_paid_submitted"
      BY <3>1, ReflectsItsDocument
    <3>4. Subject(l) = Subject(z) /\ First(Reflects(l)) = z /\ audit[l].action = "cdar_event"
      BY <2>1, <3>2, ReflectsItsDocument
    <3>5. l = k
      BY <2>1, <3>3, <3>4, OneEvent
    <3> QED
      BY <2>1, <3>5, NotNewerThanItself, Subjects
  <2> QED
    BY <1>1, <2>1 DEF Echoes
<1>2. k \in Echoes => Reflects(k) # {}
  BY DEF Echoes
<1>3. Reflects(k) # {} => audit[k].action = "cdar_event"
  BY DEF Reflects
<1>4. ASSUME NEW s \in Page, audit[k].action = "cdar_event", audit[s].action = "cdar_paid_submitted",
             Subject(k) = Subject(s)
      PROVE  s \in Reflects(k)
  <2> DEFINE d == published[audit[k].event].document
  <2>1. d \in 0..taken /\ Subject(k) = (IF d > 0 THEN -d ELSE audit[k].event) /\ audit[k].event > 0
    BY <1>4, Subjects
  <2>2. Subject(s) = audit[s].event /\ Subject(s) < 0 /\ s \in Submitted /\ -audit[s].event \in 1..taken
    BY <1>4, Subjects
  <2> HIDE DEF d
  <2>3. d > 0 /\ audit[s].event = -d
    <3>1. audit[k].event \in Int /\ audit[s].event \in Int
      BY <1>4, Subjects
    <3>2. d \in Nat
      BY <2>1, TimelineDomains
    <3>3. CASE ~(d > 0)
      BY <1>4, <2>1, <2>2, <3>1, <3>3
    <3>4. CASE d > 0
      BY <1>4, <2>1, <2>2, <3>1, <3>2, <3>4
    <3> QED
      BY <3>3, <3>4
  <2>4. -audit[s].event = d
    BY <2>1, <2>3, TimelineDomains
  <2>5. audit[s].document = Name(d)
    BY <1>4, <2>4, Subjects DEF Genuine
  <2> USE DEF d
  <2>6. audit[k].document = Name(d) /\ Outgoing(audit[k]) /\ audit[k].code = "212"
    BY <1>4, <2>3, Subjects DEF Genuine, TimelineInv, Publications
  <2> QED
    BY <1>4, <2>2, <2>5, <2>6 DEF Reflects
<1> QED
  BY <1>1, <1>2, <1>3, <1>4

LEMMA PageTellsOnce == TimelineInv => ToldOnce
<1> SUFFICES ASSUME TimelineInv PROVE ToldOnce
  OBVIOUS
<1>1. ASSUME habit.names \/ taken <= 1, NEW k \in Entries, NEW l \in Entries, Subject(k) = Subject(l)
      PROVE  audit[k].event = audit[l].event
  <2>1. k \in Page /\ k \notin Echoes /\ l \in Page /\ l \notin Echoes
    BY DEF Entries
  <2>2. /\ audit[k].action \in {"flow_submitted", "cdar_paid_submitted", "cdar_event"}
        /\ audit[l].action \in {"flow_submitted", "cdar_paid_submitted", "cdar_event"}
        /\ Genuine(audit[k]) /\ Genuine(audit[l])
    BY <2>1, Subjects
  <2>3. \A m \in {k, l} :
          /\ audit[m].action = "flow_submitted" => Subject(m) = 0 /\ audit[m].event = 0
          /\ audit[m].action = "cdar_paid_submitted" => Subject(m) = audit[m].event /\ Subject(m) < 0
    BY <2>1, Subjects DEF Genuine
  <2>4. \A m \in {k, l} : audit[m].action = "cdar_event" =>
          /\ published[audit[m].event].document \in 0..taken
          /\ Subject(m) = (IF published[audit[m].event].document > 0
                           THEN -published[audit[m].event].document ELSE audit[m].event)
          /\ audit[m].event > 0 /\ audit[m].event \in DOMAIN published
    BY <2>1, Subjects DEF Genuine
  <2>5. ~(audit[k].action = "cdar_event" /\ audit[l].action = "cdar_paid_submitted")
    BY <1>1, <2>1, EchoesAreReflections
  <2>6. ~(audit[l].action = "cdar_event" /\ audit[k].action = "cdar_paid_submitted")
    BY <1>1, <2>1, EchoesAreReflections
  <2>7. CASE audit[k].action = "cdar_event" /\ audit[l].action = "cdar_event"
    BY <1>1, <2>1, <2>7, OneEvent
  <2>8. ~(audit[k].action = "cdar_event" /\ audit[l].action = "flow_submitted")
    BY <1>1, <2>3, <2>4, TimelineDomains
  <2>9. ~(audit[l].action = "cdar_event" /\ audit[k].action = "flow_submitted")
    BY <1>1, <2>3, <2>4, TimelineDomains
  <2> QED
    BY <1>1, <2>2, <2>3, <2>5, <2>6, <2>7, <2>8, <2>9
<1>2. ASSUME habit.names \/ taken <= 1, NEW k \in Entries, NEW l \in Entries, Subject(k) = Subject(l)
      PROVE  k = l
  <2>1. k \in DOMAIN audit /\ l \in DOMAIN audit
    BY Subjects DEF Entries
  <2> QED
    BY <1>1, <1>2, <2>1 DEF TimelineInv, LoggedOnce
<1>3. ASSUME habit.names \/ taken <= 1, NEW k \in Page
      PROVE  \E l \in Entries : Subject(l) = Subject(k)
  <2>1. CASE k \notin Echoes
    BY <2>1 DEF Entries
  <2>2. CASE k \in Echoes
    <3>1. PICK s \in Reflects(k) : TRUE
      BY <1>3, <2>2, EchoesAreReflections
    <3>2. s \in Page /\ audit[s].action = "cdar_paid_submitted" /\ Subject(s) = Subject(k)
      BY <1>3, <3>1, ReflectsItsDocument
    <3>3. s \notin Echoes
      BY <1>3, <3>2, EchoesAreReflections
    <3> QED
      BY <3>2, <3>3 DEF Entries
  <2> QED
    BY <2>1, <2>2
<1>4. habit.names \/ taken <= 1 => {Subject(k) : k \in Entries} = {Subject(k) : k \in Page}
  BY <1>3 DEF Entries
<1>5. ASSUME NEW k \in Entries, audit[k].action = "cdar_event"
      PROVE  Steps[audit[k].code] # "pending"
  <2>1. k \in DOMAIN audit /\ audit[k].event \in DOMAIN published
        /\ audit[k].code = published[audit[k].event].code
    BY <1>5, Subjects DEF Entries, Genuine
  <2>2. audit[k].code \in Labels
    BY <2>1, TimelineDomains DEF PublishedEvents
  <2>3. audit[k].code \in ReachedSteps
    BY <1>5, <2>1, <2>2 DEF ReachedSteps, Labels
  <2> DEFINE c == audit[k].code
  <2> HIDE DEF c
  <2>4. c \in ReachedSteps
    BY <2>3 DEF c
  <2>5. Steps[c] \in {"error", "warn", "done"}
    BY <2>4 DEF Steps
  <2> QED
    BY <2>5 DEF c
<1> QED
  BY <1>2, <1>4, <1>5 DEF ToldOnce

----------------------------------------------------------------------------
(* The five parts side by side.                                            *)

EdgesInv == WebhookInv /\ AnswersInv /\ TokenTypeOK /\ PartiesInv /\ TimelineInv

LEMMA EdgesInductive ==
  /\ MCInit => EdgesInv
  /\ EdgesInv /\ [MCNext]_<<part, webhookVars, idempotencyVars, tokenVars, partyVars, timelineVars>>
       => EdgesInv'
<1>1. MCInit => EdgesInv
  BY WebhookInitially, AnswersInitially, TokenInitially, PartiesInitially, TimelineInitially
  DEF MCInit, EdgesInv
<1> SUFFICES ASSUME EdgesInv,
                    [MCNext]_<<part, webhookVars, idempotencyVars, tokenVars, partyVars, timelineVars>>
             PROVE  EdgesInv'
  BY <1>1
<1>2. /\ [WebhookNext]_webhookVars /\ [IdempotencyNext]_idempotencyVars /\ [TokenNext]_tokenVars
      /\ [PartiesNext]_partyVars /\ [TimelineNext]_timelineVars
  BY DEF MCNext
<1> QED
  BY <1>2, WebhookStep, AnswersStep, TokenStep, PartiesStep, TimelineStep DEF EdgesInv

\* No handler of the webhooks, of the idempotency key, of the access token, of
\* the parties or of the history ever leaves a row, a task, a token, a request or
\* a log in a form the code does not know, whichever worker dies and whatever
\* interleaves.
THEOREM EdgesTypeCorrect == MCSpec => []EdgesTypeOK
<1>1. EdgesInv => EdgesTypeOK
  BY DEF EdgesInv, WebhookInv, AnswersInv, PartiesInv, TimelineInv, EdgesTypeOK
<1> QED
  BY <1>1, EdgesInductive, PTL DEF MCSpec

\* The page of an invoice folds the echo of each 212 we sent into the entry of
\* that 212 and nothing else (build_timeline): no two entries tell of one thing,
\* every log that the page reads is told of, and the status of each event is a
\* step that the summary shows as reached.
THEOREM NothingToldTwice == MCSpec => []ToldOnce
<1>1. EdgesInv => ToldOnce
  BY PageTellsOnce DEF EdgesInv
<1> QED
  BY <1>1, EdgesInductive, PTL DEF MCSpec
=============================================================================
