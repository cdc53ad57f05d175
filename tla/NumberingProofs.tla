-------------------------- MODULE NumberingProofs ---------------------------
(***************************************************************************)
(* Theorems about Numbering, for any set of workers, invoices and prefixes.*)
(***************************************************************************)
EXTENDS Numbering, TLAPS

\* Only the holder of a counter's lock is about to save a rank drawn from it,
\* so the counter still is what it read.
LockHeld ==
  \A w \in Workers : pc[w] = "save" =>
    holder[job[w][2]] = w /\ rank[w] = counter[job[w][2]] + 1

\* No invoice has a rank that its counter has still to reach, unless it brought
\* its number from outside.
BehindCounter ==
  \A i \in Invoices : number[i] # NoNumber =>
    number[i] \in Imported \/ number[i][2] <= counter[number[i][1]]

Inv == TypeOK /\ LockHeld /\ BehindCounter /\ RefusedOnlyImports

LEMMA NoJobType == NoJob \in Invoices \X Prefixes
  BY NumberingAssumption DEF NoJob

LEMMA NoNumberIsNone == NoNumber \notin Numbers
<1>1. NoNumber[2] = 0
  BY DEF NoNumber
<1>2. \A x \in Numbers : x[2] # 0
  BY DEF Numbers
<1> QED
  BY <1>1, <1>2

LEMMA ImportedAreNumbers == Imported \subseteq Numbers
  BY NumberingAssumption DEF Numbers

LEMMA InitInv == Init => Inv
<1> SUFFICES ASSUME Init PROVE Inv
  OBVIOUS
<1>1. TypeOK
  BY NoJobType DEF Init, TypeOK
<1>2. LockHeld /\ BehindCounter /\ RefusedOnlyImports
  BY DEF Init, LockHeld, BehindCounter, RefusedOnlyImports
<1> QED
  BY <1>1, <1>2 DEF Inv

\* A drawn number is one, and only an imported one may be taken already.
LEMMA DrawnIsFree ==
  ASSUME Inv, NEW w \in Workers, pc[w] = "save"
  PROVE  /\ Drawn(w) \in Numbers
         /\ Drawn(w) \in Imported \/ Free(Drawn(w), job[w][1])
<1>1. job[w][1] \in Invoices /\ job[w][2] \in Prefixes
  BY DEF Inv, TypeOK
<1>2. counter[job[w][2]] \in Nat /\ rank[w] = counter[job[w][2]] + 1
  BY <1>1 DEF Inv, TypeOK, LockHeld
<1>3. Drawn(w) \in Numbers
  BY <1>1, <1>2 DEF Drawn, Numbers
<1>4. ASSUME NEW k \in Invoices, number[k] = Drawn(w), Drawn(w) \notin Imported
      PROVE  FALSE
  <2>1. number[k] # NoNumber
    BY <1>3, <1>4, NoNumberIsNone
  <2>2. number[k][2] <= counter[number[k][1]]
    BY <1>4, <2>1 DEF Inv, BehindCounter
  <2> QED
    BY <1>2, <1>4, <2>2 DEF Drawn
<1> QED
  BY <1>3, <1>4 DEF Free

LEMMA ReleaseTypes ==
  ASSUME Inv, NEW w \in Workers, Release(w)
  PROVE  /\ holder' \in [Prefixes -> Workers \union {Nobody}]
         /\ pc' \in [Workers -> {"idle", "assign", "save"}]
         /\ job' \in [Workers -> Invoices \X Prefixes]
         /\ rank' \in [Workers -> Nat]
  BY NoJobType DEF Inv, TypeOK, Release

\* The worker that releases a lock leaves the counter alone or was its holder.
LEMMA ReleaseKeepsLocks ==
  ASSUME Inv, NEW w \in Workers, Release(w),
         \A p \in Prefixes : counter'[p] = counter[p] \/ holder[p] = w
  PROVE  LockHeld'
  BY DEF Inv, TypeOK, Release, LockHeld

LEMMA StepInv ==
  ASSUME Inv, [Next]_vars
  PROVE  Inv'
<1> USE DEF Inv, TypeOK, RefusedOnlyImports
<1>1. ASSUME NEW i \in Invoices, Import(i)
      PROVE  Inv'
  <2>1. PICK x \in Imported : number' = [number EXCEPT ![i] = x]
    BY <1>1 DEF Import
  <2>2. number' \in [Invoices -> Numbers \union {NoNumber}]
    BY <2>1, ImportedAreNumbers
  <2>3. BehindCounter'
    BY <1>1, <2>1 DEF Import, BehindCounter
  <2>4. LockHeld'
    BY <1>1 DEF Import, LockHeld
  <2> QED
    BY <1>1, <2>2, <2>3, <2>4 DEF Import
<1>2. ASSUME NEW w \in Workers, NEW i \in Invoices, NEW p \in Prefixes,
             Validate(w, i, p)
      PROVE  Inv'
  BY <1>2 DEF Validate, LockHeld, BehindCounter
<1>3. ASSUME NEW w \in Workers, AssignNumber(w)
      PROVE  Inv'
  <2>1. job[w][2] \in Prefixes
    OBVIOUS
  <2>2. LockHeld'
    BY <1>3, <2>1, NumberingAssumption DEF AssignNumber, LockHeld
  <2> QED
    BY <1>3, <2>1, <2>2 DEF AssignNumber, BehindCounter
<1>4. ASSUME NEW w \in Workers, Commit(w)
      PROVE  Inv'
  <2>1. job[w][1] \in Invoices /\ job[w][2] \in Prefixes /\ pc[w] = "save"
        /\ rank[w] = counter[job[w][2]] + 1
    BY <1>4 DEF Commit, LockHeld
  <2>2. Drawn(w) \in Numbers
    BY <2>1, DrawnIsFree
  <2>3. number' \in [Invoices -> Numbers \union {NoNumber}]
        /\ counter' \in [Prefixes -> Nat]
    BY <1>4, <2>1, <2>2 DEF Commit
  <2>4. BehindCounter'
    <3> SUFFICES ASSUME NEW k \in Invoices, number'[k] # NoNumber
                 PROVE  number'[k] \in Imported
                        \/ number'[k][2] <= counter'[number'[k][1]]
      BY DEF BehindCounter
    <3>1. CASE k = job[w][1]
      BY <1>4, <2>1, <3>1 DEF Commit, Drawn
    <3>2. CASE k # job[w][1]
      <4>1. number'[k] = number[k] /\ number[k] \in Numbers
        BY <1>4, <3>2 DEF Commit
      <4>2. number[k][1] \in Prefixes /\ number[k][2] \in Nat
        BY <4>1 DEF Numbers
      <4>3. counter[number[k][1]] <= counter'[number[k][1]]
        BY <1>4, <2>1, <4>2 DEF Commit
      <4>4. number[k] \in Imported \/ number[k][2] <= counter[number[k][1]]
        BY <4>1 DEF BehindCounter
      <4> QED
        BY <2>3, <4>1, <4>2, <4>3, <4>4
    <3> QED
      BY <3>1, <3>2
  <2>5. LockHeld'
    <3>1. \A p \in Prefixes : counter'[p] = counter[p] \/ holder[p] = w
      BY <1>4, <2>1 DEF Commit, LockHeld
    <3> QED
      BY <1>4, <3>1, ReleaseKeepsLocks DEF Commit
  <2> QED
    BY <1>4, <2>3, <2>4, <2>5, ReleaseTypes DEF Commit
<1>5. ASSUME NEW w \in Workers, Refuse(w)
      PROVE  Inv'
  <2>1. Release(w) /\ counter' = counter /\ number' = number
        /\ refused' = refused \union {Drawn(w)}
    BY <1>5 DEF Refuse
  <2>2. Drawn(w) \in Numbers \intersect Imported
    BY <1>5, DrawnIsFree DEF Refuse
  <2>3. LockHeld'
    BY <2>1, ReleaseKeepsLocks
  <2>4. BehindCounter'
    BY <2>1 DEF BehindCounter
  <2> QED
    BY <2>1, <2>2, <2>3, <2>4, ReleaseTypes
<1>6. ASSUME NEW w \in Workers, Rollback(w)
      PROVE  Inv'
  <2>1. Release(w) /\ counter' = counter /\ number' = number /\ refused' = refused
    BY <1>6 DEF Rollback
  <2>2. LockHeld'
    BY <2>1, ReleaseKeepsLocks
  <2>3. BehindCounter'
    BY <2>1 DEF BehindCounter
  <2> QED
    BY <2>1, <2>2, <2>3, ReleaseTypes
<1>7. CASE UNCHANGED vars
  BY <1>7 DEF vars, LockHeld, BehindCounter
<1> QED
  BY <1>1, <1>2, <1>3, <1>4, <1>5, <1>6, <1>7 DEF Next

\* Only a number that came from outside is ever refused by the unique
\* constraint: two validations never draw the same number, however many workers
\* draw at once and whatever they roll back.
THEOREM NumbersAreUnique == Spec => []RefusedOnlyImports
<1>1. Inv => RefusedOnlyImports
  BY DEF Inv
<1> QED
  BY <1>1, InitInv, StepInv, PTL DEF Spec

----------------------------------------------------------------------------
(* No hole in the ranks.                                                   *)

\* A worker that validates an invoice is the only one, and finds it without
\* number until it commits.
OneValidation ==
  /\ \A v, w \in Workers :
       pc[v] # "idle" /\ pc[w] # "idle" /\ job[v][1] = job[w][1] => v = w
  /\ \A w \in Workers : pc[w] # "idle" => number[job[w][1]] = NoNumber

HoleInv == OneValidation /\ NoHole

LEMMA StepHoleInv ==
  ASSUME Serialised, Inv, HoleInv, [Next]_vars
  PROVE  HoleInv'
<1> USE DEF Inv, TypeOK, HoleInv
<1>1. ASSUME NEW i \in Invoices, Import(i)
      PROVE  HoleInv'
  <2>1. OneValidation'
    BY <1>1 DEF Import, OneValidation
  <2>2. ASSUME NEW p \in Prefixes, NEW n \in 1..counter[p]
        PROVE  \E k \in Invoices : number'[k] = <<p, n>>
    <3>1. PICK k \in Invoices : number[k] = <<p, n>>
      BY <2>2 DEF NoHole
    <3>2. <<p, n>> \in Numbers
      BY <2>2 DEF Numbers
    <3>3. k # i
      BY <1>1, <3>1, <3>2, NoNumberIsNone DEF Import
    <3> QED
      BY <1>1, <3>1, <3>3 DEF Import
  <2> QED
    BY <1>1, <2>1, <2>2 DEF Import, NoHole
<1>2. ASSUME NEW w \in Workers, NEW i \in Invoices, NEW p \in Prefixes,
             Validate(w, i, p)
      PROVE  HoleInv'
  <2>1. OneValidation'
    BY <1>2 DEF Validate, OneValidation
  <2> QED
    BY <1>2, <2>1 DEF Validate, NoHole
<1>3. ASSUME NEW w \in Workers, AssignNumber(w)
      PROVE  HoleInv'
  <2>1. OneValidation'
    BY <1>3 DEF AssignNumber, OneValidation
  <2> QED
    BY <1>3, <2>1 DEF AssignNumber, NoHole
<1>4. ASSUME NEW w \in Workers, Commit(w)
      PROVE  HoleInv'
  <2>1. job[w][1] \in Invoices /\ job[w][2] \in Prefixes /\ pc[w] = "save"
        /\ rank[w] = counter[job[w][2]] + 1
    BY <1>4 DEF Commit, LockHeld
  <2>2. number[job[w][1]] = NoNumber
    BY <2>1 DEF OneValidation
  <2>3. OneValidation'
    <3>1. \A v \in Workers : pc'[v] # "idle" =>
            v # w /\ pc[v] # "idle" /\ job'[v] = job[v]
      BY <1>4 DEF Commit, Release
    <3>2. \A v \in Workers : pc'[v] # "idle" => job[v][1] # job[w][1]
      BY <2>1, <3>1 DEF OneValidation
    <3> QED
      BY <1>4, <3>1, <3>2 DEF Commit, OneValidation
  <2>4. NoHole'
    <3> SUFFICES ASSUME NEW p \in Prefixes, NEW n \in 1..counter'[p]
                 PROVE  \E i \in Invoices : number'[i] = <<p, n>>
      BY DEF NoHole
    <3>1. CASE p = job[w][2] /\ n = counter[p] + 1
      BY <1>4, <2>1, <3>1 DEF Commit, Drawn
    <3>2. CASE ~(p = job[w][2] /\ n = counter[p] + 1)
      <4>1. n \in 1..counter[p]
        BY <1>4, <2>1, <3>2 DEF Commit
      <4>2. PICK i \in Invoices : number[i] = <<p, n>>
        BY <4>1 DEF NoHole
      <4>3. i # job[w][1]
        <5>1. <<p, n>> \in Numbers
          BY <4>1 DEF Numbers
        <5> QED
          BY <2>2, <4>2, <5>1, NoNumberIsNone
      <4> QED
        BY <1>4, <4>2, <4>3 DEF Commit
    <3> QED
      BY <3>1, <3>2
  <2> QED
    BY <2>3, <2>4
<1>5. ASSUME NEW w \in Workers, Refuse(w) \/ Rollback(w)
      PROVE  HoleInv'
  <2>1. Release(w) /\ UNCHANGED <<counter, number>>
    BY <1>5 DEF Refuse, Rollback
  <2>2. \A v \in Workers : pc'[v] # "idle" => pc[v] # "idle" /\ job'[v] = job[v]
    BY <2>1 DEF Release
  <2>3. OneValidation'
    BY <2>1, <2>2 DEF OneValidation
  <2> QED
    BY <2>1, <2>3 DEF NoHole
<1>6. CASE UNCHANGED vars
  BY <1>6 DEF vars, OneValidation, NoHole
<1> QED
  BY <1>1, <1>2, <1>3, <1>4, <1>5, <1>6 DEF Next

LEMMA InitHoleInv == Init => HoleInv
  BY DEF Init, HoleInv, OneValidation, NoHole

\* When no invoice is validated twice at once, the ranks in use under a prefix
\* are all those up to its counter: no number is lost to a failure.
THEOREM NumbersHaveNoHole ==
  ASSUME Serialised
  PROVE  Spec => []NoHole
<1>1. Init => Inv /\ HoleInv
  BY InitInv, InitHoleInv
<1>2. Inv /\ HoleInv /\ [Next]_vars => (Inv /\ HoleInv)'
  BY StepInv, StepHoleInv
<1>3. HoleInv => NoHole
  BY DEF HoleInv
<1> QED
  BY <1>1, <1>2, <1>3, PTL DEF Spec
=============================================================================
