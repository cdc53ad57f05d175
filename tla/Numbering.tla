----------------------------- MODULE Numbering ------------------------------
(***************************************************************************)
(* The invoice numbers of one supplier: the counters of its sequence, one  *)
(* per rendered prefix, and the transaction of validate_invoice that draws *)
(* from them (apps/billing/services/numbering_service.py).                 *)
(*                                                                         *)
(* A number is the pair of its prefix and its rank.  The counter's row is  *)
(* locked from assign_number's SELECT FOR UPDATE to the end of the         *)
(* transaction of validate_invoice, which saves the invoice: the increment *)
(* and the save are committed together or not at all.                      *)
(***************************************************************************)
EXTENDS Naturals

CONSTANTS
  Workers,   \* processes that validate
  Invoices,  \* invoices of the supplier
  Prefixes,  \* rendered prefixes, such as one per year
  Imported,  \* numbers that come with an invoice (Stripe, or an API client)
  Serialised,\* TRUE if an invoice is not validated twice at the same time
  MaxRank    \* bound: ranks drawn from one counter

\* The empty string, and a lock that is free.
NoNumber == <<"", 0>>
Nobody == "nobody"

ASSUME NumberingAssumption ==
  /\ Nobody \notin Workers
  /\ Invoices # {}
  /\ Prefixes # {}
  /\ Imported \subseteq Prefixes \X (1..MaxRank)
  /\ Serialised \in BOOLEAN
  /\ MaxRank \in Nat

VARIABLES
  counter,  \* NumberingCounter.last_number, 0 when there is no row
  holder,   \* who has the counter's row locked, if anyone
  number,   \* the numbers of the invoices as committed
  pc, job,  \* what each worker is at, and its invoice and prefix
  rank,     \* the rank assign_number returned to each worker
  refused   \* history: numbers unique_invoice_number_per_supplier refused

vars == <<counter, holder, number, pc, job, rank, refused>>

Numbers == Prefixes \X (Nat \ {0})

NoJob == <<CHOOSE i \in Invoices : TRUE, CHOOSE p \in Prefixes : TRUE>>

Init ==
  /\ counter = [p \in Prefixes |-> 0]
  /\ holder = [p \in Prefixes |-> Nobody]
  /\ number = [i \in Invoices |-> NoNumber]
  /\ pc = [w \in Workers |-> "idle"]
  /\ job = [w \in Workers |-> NoJob]
  /\ rank = [w \in Workers |-> 0]
  /\ refused = {}

\* No other invoice has the number x.
Free(x, i) == \A k \in Invoices \ {i} : number[k] # x

\* An invoice created with a number of its own.
Import(i) ==
  /\ number[i] = NoNumber
  /\ \A w \in Workers : pc[w] # "idle" => job[w][1] # i
  /\ \E x \in Imported : Free(x, i) /\ number' = [number EXCEPT ![i] = x]
  /\ UNCHANGED <<counter, holder, pc, job, rank, refused>>

\* validate_invoice on an object without number.  Its issue date, or today,
\* gives the prefix.
Validate(w, i, p) ==
  /\ pc[w] = "idle"
  /\ number[i] = NoNumber
  /\ Serialised => \A v \in Workers : pc[v] # "idle" => job[v][1] # i
  /\ counter[p] < MaxRank
  /\ pc' = [pc EXCEPT ![w] = "assign"]
  /\ job' = [job EXCEPT ![w] = <<i, p>>]
  /\ UNCHANGED <<counter, holder, number, rank, refused>>

\* Mutation: the counter is read without its lock.
AssignUnlocked(w) ==
  /\ pc[w] = "assign"
  /\ rank' = [rank EXCEPT ![w] = counter[job[w][2]] + 1]
  /\ pc' = [pc EXCEPT ![w] = "save"]
  /\ UNCHANGED <<counter, holder, number, job, refused>>

\* SELECT FOR UPDATE waits for the lock and then reads the committed counter.
\* The increment is not visible to anyone before the commit.
AssignNumber(w) ==
  LET p == job[w][2] IN
  /\ pc[w] = "assign"
  /\ holder[p] = Nobody
  /\ holder' = [holder EXCEPT ![p] = w]
  /\ rank' = [rank EXCEPT ![w] = counter[p] + 1]
  /\ pc' = [pc EXCEPT ![w] = "save"]
  /\ UNCHANGED <<counter, number, job, refused>>

Release(w) ==
  /\ holder' = [p \in Prefixes |-> IF holder[p] = w THEN Nobody ELSE holder[p]]
  /\ pc' = [pc EXCEPT ![w] = "idle"]
  /\ job' = [job EXCEPT ![w] = NoJob]
  /\ rank' = [rank EXCEPT ![w] = 0]

Drawn(w) == <<job[w][2], rank[w]>>

\* The invoice is saved with the number and the transaction commits.
Commit(w) ==
  /\ pc[w] = "save"
  /\ Free(Drawn(w), job[w][1])
  /\ number' = [number EXCEPT ![job[w][1]] = Drawn(w)]
  /\ counter' = [counter EXCEPT ![job[w][2]] = rank[w]]
  /\ Release(w)
  /\ UNCHANGED refused

\* The unique constraint refuses the save: IntegrityError, all is rolled back.
Refuse(w) ==
  /\ pc[w] = "save"
  /\ ~Free(Drawn(w), job[w][1])
  /\ refused' = refused \union {Drawn(w)}
  /\ Release(w)
  /\ UNCHANGED <<counter, number>>

\* Mutation: the increment is committed on its own.
RollbackKeepsCounter(w) ==
  /\ pc[w] # "idle"
  /\ counter' = IF pc[w] = "save" THEN [counter EXCEPT ![job[w][2]] = rank[w]]
                                  ELSE counter
  /\ Release(w)
  /\ UNCHANGED <<number, refused>>

\* The worker dies, or its request fails: the database rolls back.
Rollback(w) ==
  /\ pc[w] # "idle"
  /\ Release(w)
  /\ UNCHANGED <<counter, number, refused>>

Next ==
  \/ \E i \in Invoices : Import(i)
  \/ \E w \in Workers :
       \/ \E i \in Invoices, p \in Prefixes : Validate(w, i, p)
       \/ AssignNumber(w) \/ Commit(w) \/ Refuse(w) \/ Rollback(w)

Spec == Init /\ [][Next]_vars

----------------------------------------------------------------------------
(* Properties.                                                             *)

TypeOK ==
  /\ counter \in [Prefixes -> Nat]
  /\ holder \in [Prefixes -> Workers \union {Nobody}]
  /\ number \in [Invoices -> Numbers \union {NoNumber}]
  /\ pc \in [Workers -> {"idle", "assign", "save"}]
  /\ job \in [Workers -> Invoices \X Prefixes]
  /\ rank \in [Workers -> Nat]
  /\ refused \subseteq Numbers

\* Concurrent validations never draw the same number: it is the lock on the
\* counter that keeps them apart, and the unique constraint of the database only
\* ever refuses a number that an invoice may have brought from outside.
RefusedOnlyImports == refused \subseteq Imported

\* The ranks drawn under a prefix are 1, 2, 3, ... without a hole, whatever
\* fails or rolls back.
NoHole ==
  \A p \in Prefixes : \A n \in 1..counter[p] :
    \E i \in Invoices : number[i] = <<p, n>>
=============================================================================
