-------------------------- MODULE IdempotentCreate --------------------------
(***************************************************************************)
(* POST /invoices/ with one Idempotency-Key (apps/billing/views.py): the   *)
(* answer is stored under the key and repeated for 24 hours.  The key is   *)
(* unique in the organisation.                                             *)
(***************************************************************************)
EXTENDS Naturals

CONSTANTS
  Creators,   \* gunicorn workers
  NoKey,      \* no row for the key
  MaxCreated, \* bound: how many invoices are created
  MaxLives    \* bound: how many rows the key has had

Invoices == 1..MaxCreated

\* A row has an identity, the invoice it was stored for, and a date.
KeyRows == [life : 1..MaxLives, invoice : Invoices, expired : BOOLEAN]

ASSUME IdempotencyAssumption ==
  /\ MaxCreated \in Nat /\ MaxLives \in Nat
  /\ NoKey \notin KeyRows

VARIABLES
  key,     \* the IdempotencyKey row
  lives,   \* how many rows there have been
  created, \* how many invoices were created
  step,    \* where each worker is
  found,   \* the row it has read
  mine,    \* the invoice it has created, or 0
  answers  \* history: the row and the invoice of each answer 201

idempotencyVars == <<key, lives, created, step, found, mine, answers>>

IdempotencyInit ==
  /\ key = NoKey
  /\ lives = 0 /\ created = 0
  /\ step = [w \in Creators |-> "idle"]
  /\ found = [w \in Creators |-> NoKey]
  /\ mine = [w \in Creators |-> 0]
  /\ answers = {}

Proceed(w, s) == step' = [step EXCEPT ![w] = s]

\* A row that has not expired gives its answer again.
AnswerAgain(w) ==
  /\ step[w] = "idle"
  /\ key # NoKey /\ ~key.expired
  /\ answers' = answers \union {[life |-> key.life, invoice |-> key.invoice]}
  /\ UNCHANGED <<key, lives, created, step, found, mine>>

FindKey(w) ==
  /\ step[w] = "idle"
  /\ key # NoKey => key.expired
  /\ found' = [found EXCEPT ![w] = key]
  /\ Proceed(w, IF key = NoKey THEN "create" ELSE "expired")
  /\ UNCHANGED <<key, lives, created, mine, answers>>

\* existing.delete(): the row that was read, if it is still there.
DeleteKey(w) ==
  /\ step[w] = "expired"
  /\ key' = IF key # NoKey /\ key.life = found[w].life THEN NoKey ELSE key
  /\ found' = [found EXCEPT ![w] = NoKey]
  /\ Proceed(w, "create")
  /\ UNCHANGED <<lives, created, mine, answers>>

\* The payload is refused: 400 or 422, nothing is stored.
RefusePayload(w) ==
  /\ step[w] = "create"
  /\ Proceed(w, "idle")
  /\ UNCHANGED <<key, lives, created, found, mine, answers>>

CreateInvoice(w) ==
  /\ step[w] = "create" /\ created < MaxCreated
  /\ created' = created + 1
  /\ mine' = [mine EXCEPT ![w] = created + 1]
  /\ Proceed(w, "store")
  /\ UNCHANGED <<key, lives, found, answers>>

\* Mutation: the key is not unique.
StoreOver(w) ==
  /\ step[w] = "store" /\ lives < MaxLives
  /\ lives' = lives + 1
  /\ key' = [life |-> IF key = NoKey THEN lives + 1 ELSE key.life,
             invoice |-> mine[w], expired |-> FALSE]
  /\ answers' = answers \union {[life |-> key'.life, invoice |-> mine[w]]}
  /\ mine' = [mine EXCEPT ![w] = 0]
  /\ Proceed(w, "idle")
  /\ UNCHANGED <<created, found>>

StoreKey(w) ==
  /\ step[w] = "store" /\ lives < MaxLives
  /\ key = NoKey
  /\ lives' = lives + 1
  /\ key' = [life |-> lives + 1, invoice |-> mine[w], expired |-> FALSE]
  /\ answers' = answers \union {[life |-> lives + 1, invoice |-> mine[w]]}
  /\ mine' = [mine EXCEPT ![w] = 0]
  /\ Proceed(w, "idle")
  /\ UNCHANGED <<created, found>>

\* The row is refused, or the worker dies: the invoice stays, and the client
\* gets no answer 201 for it.
FailToStore(w) ==
  /\ step[w] = "store"
  /\ mine' = [mine EXCEPT ![w] = 0]
  /\ Proceed(w, "idle")
  /\ UNCHANGED <<key, lives, created, found, answers>>

\* 24 hours have passed.
ExpireKey ==
  /\ key # NoKey /\ ~key.expired
  /\ key' = [key EXCEPT !.expired = TRUE]
  /\ UNCHANGED <<lives, created, step, found, mine, answers>>

IdempotencyNext ==
  \/ \E w \in Creators :
       \/ AnswerAgain(w) \/ FindKey(w) \/ DeleteKey(w)
       \/ RefusePayload(w) \/ CreateInvoice(w) \/ StoreKey(w) \/ FailToStore(w)
  \/ ExpireKey

IdempotencySpec == IdempotencyInit /\ [][IdempotencyNext]_idempotencyVars

IdempotencyTypeOK ==
  /\ key \in KeyRows \union {NoKey}
  /\ lives \in 0..MaxLives /\ created \in 0..MaxCreated
  /\ step \in [Creators -> {"idle", "expired", "create", "store"}]
  /\ found \in [Creators -> KeyRows \union {NoKey}]
  /\ mine \in [Creators -> 0..MaxCreated]
  /\ answers \subseteq [life : 1..MaxLives, invoice : Invoices]

\* All the answers 201 that are given during the 24 hours of a key name the same
\* invoice ("Duplicate requests within 24 hours return the same response",
\* docs/api-guide.md), and no invoice is named under two keys, however the
\* requests and the expiry interleave.
AnswersAgree ==
  \A a, b \in answers : a.life = b.life <=> a.invoice = b.invoice
=============================================================================
