---------------------------- MODULE DraftingProofs --------------------------
(***************************************************************************)
(* Theorems about Drafting, for any payloads, customers, suppliers and     *)
(* invoices of Stripe.  The first part is about sums: an induction over a  *)
(* finite set is done by its least counterexample.                         *)
(***************************************************************************)
EXTENDS Drafting, FiniteSetTheorems, TLAPS

\* A set of naturals that is not empty has a least element.
LEMMA LeastNatural ==
  ASSUME NEW T \in SUBSET Nat, T # {}
  PROVE  \E n \in T : \A m \in T : n <= m
<1> DEFINE K == {0..n : n \in T}
<1>1. K \subseteq FiniteSubsetsOf(Nat) /\ K # {}
  <2>1. ASSUME NEW n \in T PROVE IsFiniteSet(0..n) /\ 0..n \in SUBSET Nat
    <3>1. n \in Int /\ 0 \in Int
      OBVIOUS
    <3> QED
      BY <3>1, FS_Interval
  <2> QED
    BY <2>1 DEF FiniteSubsetsOf
<1>2. \E I \in K : \A J \in K : ~ (<<J, I>> \in StrictSubsetOrdering(Nat))
  <2> HIDE DEF K
  <2> QED
    BY <1>1, FS_StrictSubsetOrderingWellFounded, WFMin
<1>3. PICK n \in T : \A m \in T : ~ (<<0..m, 0..n>> \in StrictSubsetOrdering(Nat))
  BY <1>2
<1>4. ASSUME NEW m \in T, m < n PROVE FALSE
  <2>1. n \in 0..n /\ n \notin 0..m /\ 0..m \subseteq 0..n
    BY <1>4
  <2>2. 0..n \in SUBSET Nat /\ 0..m \in SUBSET Nat
    OBVIOUS
  <2>3. <<0..m, 0..n>> \in StrictSubsetOrdering(Nat)
    BY <2>1, <2>2 DEF StrictSubsetOrdering
  <2> QED
    BY <1>3, <1>4, <2>3 DEF StrictSubsetOrdering
<1> QED
  BY <1>4

One(s) == CHOOSE x \in s : TRUE

\* What the fold of a sum computes for s, g for the smaller sets.
Added(f, g, s) == IF s = {} THEN 0 ELSE f[One(s)] + g[s \ {One(s)}]

\* The sums over the subsets of S.
SumTable(f, S) == CHOOSE g : g = [s \in SUBSET S |-> Added(f, g, s)]

LEMMA SumIs ==
  ASSUME NEW f, NEW S
  PROVE  SumFunctionOnSet(f, S) = SumTable(f, S)[S]
  BY DEF SumFunctionOnSet, FoldFunctionOnSet, MapThenFoldSet, SumTable, Added, One

LEMMA OneRemoved ==
  ASSUME NEW S, IsFiniteSet(S), S # {}
  PROVE  /\ One(S) \in S
         /\ IsFiniteSet(S \ {One(S)})
         /\ Cardinality(S) \in Nat \ {0}
         /\ Cardinality(S \ {One(S)}) = Cardinality(S) - 1
<1>1. One(S) \in S
  BY DEF One
<1>2. Cardinality(S) \in Nat /\ Cardinality(S) # 0
  BY FS_EmptySet, FS_CardinalityType
<1>3. IsFiniteSet(S \ {One(S)}) /\ Cardinality(S \ {One(S)}) = Cardinality(S) - 1
  BY <1>1, FS_RemoveElement
<1> QED
  BY <1>1, <1>2, <1>3

Small(S, n) == {s \in SUBSET S : Cardinality(s) <= n}

SumsUpTo(f, S, n, g) == g = [s \in Small(S, n) |-> Added(f, g, s)]

LEMMA SumsBegin ==
  ASSUME NEW f, NEW S, IsFiniteSet(S)
  PROVE  \E g : SumsUpTo(f, S, 0, g)
<1>1. \A s \in Small(S, 0) : s = {}
  BY FS_Subset, FS_CardinalityType, FS_EmptySet DEF Small
<1> DEFINE g == [s \in Small(S, 0) |-> 0]
<1>2. g = [s \in Small(S, 0) |-> Added(f, g, s)]
  BY <1>1 DEF Added
<1> QED
  BY <1>2 DEF SumsUpTo

LEMMA SumsGoOn ==
  ASSUME NEW f, NEW S, IsFiniteSet(S), NEW n \in Nat, NEW h, SumsUpTo(f, S, n, h)
  PROVE  \E g : SumsUpTo(f, S, n + 1, g)
<1> DEFINE g == [s \in Small(S, n + 1) |-> Added(f, h, s)]
<1>1. \A s \in SUBSET S : IsFiniteSet(s) /\ Cardinality(s) \in Nat
  BY FS_Subset, FS_CardinalityType
<1>2. ASSUME NEW s \in Small(S, n + 1), s # {}
      PROVE  s \ {One(s)} \in Small(S, n)
  <2>1. IsFiniteSet(s) /\ s \in SUBSET S /\ Cardinality(s) <= n + 1 /\ Cardinality(s) \in Nat
    BY <1>1 DEF Small
  <2>2. Cardinality(s \ {One(s)}) = Cardinality(s) - 1
    BY <1>2, <2>1, OneRemoved
  <2> QED
    BY <2>1, <2>2 DEF Small
<1>3. ASSUME NEW s \in Small(S, n) PROVE g[s] = h[s]
  <2>1. s \in Small(S, n + 1)
    BY <1>1 DEF Small
  <2> QED
    BY <2>1 DEF SumsUpTo
<1>4. ASSUME NEW s \in Small(S, n + 1) PROVE Added(f, h, s) = Added(f, g, s)
  <2> HIDE DEF g
  <2> QED
    BY <1>2, <1>3 DEF Added
<1>5. g = [s \in Small(S, n + 1) |-> Added(f, g, s)]
  BY <1>4
<1> QED
  BY <1>5 DEF SumsUpTo

LEMMA SumsExist ==
  ASSUME NEW f, NEW S, IsFiniteSet(S), NEW n \in Nat
  PROVE  \E g : SumsUpTo(f, S, n, g)
<1> DEFINE Bad == {k \in Nat : ~ \E g : SumsUpTo(f, S, k, g)}
<1>1. SUFFICES ASSUME Bad # {} PROVE FALSE
  OBVIOUS
<1>2. Bad \subseteq Nat
  OBVIOUS
<1>3. PICK k \in Bad : \A m \in Bad : k <= m
  <2> HIDE DEF Bad
  <2> QED
    BY <1>1, <1>2, LeastNatural
<1>4. k # 0
  BY SumsBegin
<1>5. k - 1 \in Nat /\ k - 1 \notin Bad
  <2> HIDE DEF Bad
  <2> QED
    BY <1>2, <1>3, <1>4
<1>6. PICK h : SumsUpTo(f, S, k - 1, h)
  BY <1>5
<1>7. \E g : SumsUpTo(f, S, (k - 1) + 1, g)
  BY <1>5, <1>6, SumsGoOn
<1>8. (k - 1) + 1 = k
  BY <1>2, <1>3
<1> QED
  BY <1>7, <1>8

LEMMA SumTableIs ==
  ASSUME NEW f, NEW S, IsFiniteSet(S)
  PROVE  \A s \in SUBSET S : SumTable(f, S)[s] = Added(f, SumTable(f, S), s)
<1>1. Cardinality(S) \in Nat
  BY FS_CardinalityType
<1>2. Small(S, Cardinality(S)) = SUBSET S
  BY FS_Subset DEF Small
<1>3. PICK g : SumsUpTo(f, S, Cardinality(S), g)
  BY <1>1, SumsExist
<1>4. g = [s \in SUBSET S |-> Added(f, g, s)]
  BY <1>2, <1>3 DEF SumsUpTo
<1> DEFINE t == SumTable(f, S)
<1>5. t = [s \in SUBSET S |-> Added(f, t, s)]
  BY <1>4 DEF SumTable
<1> HIDE DEF t
<1>6. \A s \in SUBSET S : t[s] = Added(f, t, s)
  BY <1>5
<1> QED
  BY <1>6 DEF t


\* What holds of a finite set when it holds of the set without any one of its
\* elements holds of every finite set.
LEMMA OneByOne ==
  ASSUME NEW S, IsFiniteSet(S), NEW P,
         \A s \in SUBSET S : (\A x \in s : s \ {x} \in P) => s \in P
  PROVE  SUBSET S \subseteq P
<1> DEFINE Bad == {Cardinality(s) : s \in (SUBSET S) \ P}
<1>1. \A s \in SUBSET S : IsFiniteSet(s) /\ Cardinality(s) \in Nat
  BY FS_Subset, FS_CardinalityType
<1>2. SUFFICES ASSUME Bad # {} PROVE FALSE
  OBVIOUS
<1>3. Bad \subseteq Nat
  BY <1>1
<1>4. PICK n \in Bad : \A m \in Bad : n <= m
  <2> HIDE DEF Bad
  <2> QED
    BY <1>2, <1>3, LeastNatural
<1>5. PICK s \in (SUBSET S) \ P : n = Cardinality(s)
  OBVIOUS
<1>6. PICK x \in s : s \ {x} \notin P
  BY <1>5
<1>7. Cardinality(s \ {x}) = Cardinality(s) - 1
  BY <1>1, <1>5, <1>6, FS_RemoveElement
<1>8. Cardinality(s \ {x}) \in Bad
  BY <1>5, <1>6
<1> QED
  <2> HIDE DEF Bad
  <2> QED
    BY <1>1, <1>3, <1>4, <1>5, <1>7, <1>8

\* A sum stays in a set that additions do not leave.
LEMMA TableTypes ==
  ASSUME NEW f, NEW S, IsFiniteSet(S), NEW N, 0 \in N, \A a, b \in N : a + b \in N,
         \A x \in S : f[x] \in N
  PROVE  \A s \in SUBSET S : SumTable(f, S)[s] \in N
<1> DEFINE g == SumTable(f, S)
           P == {s \in SUBSET S : g[s] \in N}
<1>1. \A s \in SUBSET S : g[s] = Added(f, g, s)
  BY SumTableIs
<1> HIDE DEF g
<1>2. ASSUME NEW s \in SUBSET S, \A x \in s : s \ {x} \in P PROVE s \in P
  <2>1. CASE s = {}
    BY <1>1, <2>1 DEF Added
  <2>2. CASE s # {}
    <3>1. One(s) \in s
      BY <2>2 DEF One
    <3>2. g[s] = f[One(s)] + g[s \ {One(s)}]
      BY <1>1, <2>2 DEF Added
    <3>3. f[One(s)] \in N /\ g[s \ {One(s)}] \in N
      BY <1>2, <3>1
    <3> QED
      BY <3>2, <3>3
  <2> QED
    BY <2>1, <2>2
<1>3. SUBSET S \subseteq P
  <2> HIDE DEF P
  <2> QED
    BY <1>2, OneByOne
<1> QED
  BY <1>3 DEF g

LEMMA SumTypes ==
  ASSUME NEW f, NEW S, IsFiniteSet(S)
  PROVE  /\ (\A x \in S : f[x] \in Int) => SumFunctionOnSet(f, S) \in Int
         /\ (\A x \in S : f[x] \in Nat) => SumFunctionOnSet(f, S) \in Nat
<1>1. /\ 0 \in Int /\ \A a, b \in Int : a + b \in Int
      /\ 0 \in Nat /\ \A a, b \in Nat : a + b \in Nat
  OBVIOUS
<1>2. SumFunctionOnSet(f, S) = SumTable(f, S)[S] /\ S \in SUBSET S
  BY SumIs
<1>3. ASSUME \A x \in S : f[x] \in Int PROVE SumTable(f, S)[S] \in Int
  BY <1>1, <1>3, TableTypes
<1>4. ASSUME \A x \in S : f[x] \in Nat PROVE SumTable(f, S)[S] \in Nat
  BY <1>1, <1>4, TableTypes
<1> QED
  BY <1>2, <1>3, <1>4

LEMMA Commuted == \A a, b, c \in Int : a + (b + c) = b + (a + c)
  OBVIOUS

AnyOrder(f, S) ==
  \A s \in SUBSET S : \A x \in s : SumTable(f, S)[s] = f[x] + SumTable(f, S)[s \ {x}]

\* The element that is taken away first does not matter.
LEMMA AnyOne ==
  ASSUME NEW f, NEW S, IsFiniteSet(S), \A x \in S : f[x] \in Int
  PROVE  AnyOrder(f, S)
<1> DEFINE g == SumTable(f, S)
           P == {s \in SUBSET S : \A x \in s : g[s] = f[x] + g[s \ {x}]}
<1>1. \A s \in SUBSET S : g[s] = Added(f, g, s)
  BY SumTableIs
<1>2. \A s \in SUBSET S : g[s] \in Int
  <2>1. 0 \in Int /\ \A a, b \in Int : a + b \in Int
    OBVIOUS
  <2> QED
    BY <2>1, TableTypes
<1> HIDE DEF g
<1>3. ASSUME NEW s \in SUBSET S, \A x \in s : s \ {x} \in P, s # {} PROVE s \in P
  <2> DEFINE c == One(s)
  <2>1. c \in s
    BY <1>3 DEF One
  <2>2. g[s] = f[c] + g[s \ {c}]
    BY <1>1, <1>3 DEF Added
  <2> HIDE DEF c
  <2>3. ASSUME NEW x \in s, x # c PROVE g[s] = f[x] + g[s \ {x}]
    <3>1. g[s \ {c}] = f[x] + g[(s \ {c}) \ {x}]
      BY <1>3, <2>1, <2>3
    <3>2. g[s \ {x}] = f[c] + g[(s \ {x}) \ {c}]
      BY <1>3, <2>1, <2>3
    <3>3. (s \ {c}) \ {x} = (s \ {x}) \ {c}
      OBVIOUS
    <3>4. f[c] \in Int /\ f[x] \in Int /\ g[(s \ {x}) \ {c}] \in Int
      BY <1>2, <2>1
    <3>5. g[s] = f[c] + (f[x] + g[(s \ {x}) \ {c}])
      BY <2>2, <3>1, <3>3
    <3>6. g[s] = f[x] + (f[c] + g[(s \ {x}) \ {c}])
      BY <3>4, <3>5, Commuted
    <3> QED
      BY <3>2, <3>6
  <2> QED
    BY <2>1, <2>2, <2>3
<1>4. \A s \in SUBSET S : (\A x \in s : s \ {x} \in P) => s \in P
  <2>1. {} \in P
    OBVIOUS
  <2> HIDE DEF P
  <2> QED
    BY <1>3, <2>1
<1>5. SUBSET S \subseteq P
  <2> HIDE DEF P
  <2> QED
    BY <1>4, OneByOne
<1> QED
  BY <1>5 DEF g, AnyOrder

\* Elements that count for nothing can be left out, and the table that the sum is
\* taken from does not matter.
LEMMA SumOfSome ==
  ASSUME NEW f, NEW S, IsFiniteSet(S), \A x \in S : f[x] \in Int,
         NEW h, NEW T \in SUBSET S, \A x \in T : h[x] = f[x],
         \A x \in S \ T : f[x] = 0
  PROVE  SumFunctionOnSet(f, S) = SumFunctionOnSet(h, T)
<1> DEFINE g == SumTable(f, S)
           k == SumTable(h, T)
           P == {s \in SUBSET S : g[s] = k[s \cap T]}
<1>1. IsFiniteSet(T)
  BY FS_Subset
<1>2. \A s \in SUBSET S : g[s] \in Int /\ g[s] = Added(f, g, s)
  <2>1. 0 \in Int /\ \A a, b \in Int : a + b \in Int
    OBVIOUS
  <2> QED
    BY <2>1, TableTypes, SumTableIs
<1>3. \A s \in SUBSET T : k[s] = Added(h, k, s)
  BY <1>1, SumTableIs
<1>4. \A s \in SUBSET S : \A x \in s : g[s] = f[x] + g[s \ {x}]
  <2>1. AnyOrder(f, S)
    BY AnyOne
  <2> QED
    BY <2>1 DEF AnyOrder
<1>5. \A s \in SUBSET T : \A x \in s : k[s] = h[x] + k[s \ {x}]
  <2>1. \A x \in T : h[x] \in Int
    OBVIOUS
  <2>2. AnyOrder(h, T)
    BY <1>1, <2>1, AnyOne
  <2> QED
    BY <2>2 DEF AnyOrder
<1> HIDE DEF g, k
<1>6. ASSUME NEW s \in SUBSET S, \A x \in s : s \ {x} \in P PROVE s \in P
  <2>1. CASE s = {}
    BY <1>2, <1>3, <2>1 DEF Added
  <2>2. ASSUME NEW x \in s PROVE g[s] = k[s \cap T]
    <3>1. g[s] = f[x] + g[s \ {x}] /\ g[s \ {x}] = k[(s \ {x}) \cap T]
      BY <1>4, <1>6
    <3>2. CASE x \in T
      <4>1. (s \ {x}) \cap T = (s \cap T) \ {x}
        OBVIOUS
      <4> QED
        BY <1>5, <3>1, <3>2, <4>1
    <3>3. CASE x \notin T
      <4>1. (s \ {x}) \cap T = s \cap T
        BY <3>3
      <4>2. f[x] = 0 /\ g[s \ {x}] \in Int
        BY <1>2, <3>3
      <4>3. g[s] = g[s \ {x}]
        BY <3>1, <4>2
      <4> QED
        BY <3>1, <4>1, <4>3
    <3> QED
      BY <3>2, <3>3
  <2> QED
    BY <2>1, <2>2
<1>7. S \in P
  <2> HIDE DEF P
  <2> QED
    BY <1>6, OneByOne
<1>8. S \cap T = T
  OBVIOUS
<1> QED
  BY <1>1, <1>7, <1>8, SumIs DEF g, k

----------------------------------------------------------------------------
(* Lines.                                                                  *)

Exemptions == Reasons \union {Absent}

LEMMA RoundedIsInt ==
  /\ \A n \in Int : Rounded(n, 10) \in Int /\ Rounded(n, 10000) \in Int
  /\ Rounded(0, 10000) = 0
  BY DEF Rounded

LEMMA FilledIn ==
  ASSUME NEW line \in StatedLine
  PROVE  Filled(line) \in FilledLine
<1> DEFINE rate == Or(line.rate, StandardRate)
           category == Or(line.category, IF rate.value > 0 THEN "S" ELSE "E")
           net == Or(line.net, Rounded(Or(line.quantity, 1) * Or(line.price, 0), 10))
<1>1. rate \in Rate
  <2>1. StandardRate \in Rate
    BY DEF StandardRate, Rate
  <2> QED
    BY <2>1 DEF Or, StatedLine
<1>2. category \in Categories
  BY DEF Or, StatedLine, Categories
<1>3. Or(line.quantity, 1) \in Int /\ Or(line.price, 0) \in Int
  BY DEF Or, StatedLine
<1>4. Or(line.quantity, 1) * Or(line.price, 0) \in Int
  BY <1>3
<1>5. net \in Int
  BY <1>4, RoundedIsInt DEF Or, StatedLine
<1>6. Filled(line) = [line EXCEPT !.rate = rate, !.category = category, !.net = net]
  BY DEF Filled, StatedLine
<1> HIDE DEF rate, category, net
<1> QED
  BY <1>1, <1>2, <1>5, <1>6 DEF StatedLine, FilledLine

LEMMA LineFilled ==
  ASSUME NEW line \in StatedLine, NEW e \in Exemptions
  PROVE  EnrichLine(line, e) \in FilledLine
<1>1. Filled(line) \in FilledLine
  BY FilledIn
<1> QED
  BY <1>1 DEF EnrichLine, Exempted, FilledLine, Categories, Exemptions

LEMMA FilledAlready ==
  ASSUME NEW line \in FilledLine
  PROVE  Filled(line) = line
<1> DEFINE rate == Or(line.rate, StandardRate)
           category == Or(line.category, IF rate.value > 0 THEN "S" ELSE "E")
           net == Or(line.net, Rounded(Or(line.quantity, 1) * Or(line.price, 0), 10))
<1>1. line.net # Absent /\ line.rate # Absent /\ line.category # Absent
  BY PayloadAssumption DEF FilledLine
<1>2. rate = line.rate /\ category = line.category /\ net = line.net
  BY <1>1 DEF Or
<1>3. Filled(line) = [line EXCEPT !.rate = rate, !.category = category, !.net = net]
  BY DEF Filled, FilledLine
<1> HIDE DEF rate, category, net
<1>4. [line EXCEPT !.rate = line.rate, !.category = line.category, !.net = line.net] = line
  <2> DEFINE same == [line EXCEPT !.rate = line.rate, !.category = line.category, !.net = line.net]
  <2>1. same \in FilledLine /\ same.net = line.net /\ same.rate = line.rate
        /\ same.category = line.category /\ same.quantity = line.quantity
        /\ same.price = line.price /\ same.reason = line.reason
    BY DEF FilledLine
  <2> HIDE DEF same
  <2>2. same = line
    BY <2>1 DEF FilledLine
  <2> QED
    BY <2>2 DEF same
<1> QED
  BY <1>2, <1>3, <1>4

\* A line that is filled in only changes by an exemption, which is stamped once and
\* leaves the net amount alone.
LEMMA StampedOnce ==
  ASSUME NEW line \in StatedLine, NEW e \in Exemptions, NEW x \in Exemptions
  PROVE  /\ EnrichLine(EnrichLine(line, e), e) = EnrichLine(line, e)
         /\ EnrichLine(line, e).net = EnrichLine(line, x).net
<1>1. Filled(line) \in FilledLine
  BY FilledIn
<1>2. Exempted(Filled(line), e) \in FilledLine
  BY LineFilled DEF EnrichLine
<1>3. EnrichLine(EnrichLine(line, e), e) = Exempted(Exempted(Filled(line), e), e)
  BY <1>2, FilledAlready DEF EnrichLine
<1>4. ASSUME NEW l \in FilledLine
      PROVE  /\ Exempted(Exempted(l, e), e) = Exempted(l, e)
             /\ Exempted(l, e).net = Exempted(l, x).net
  BY PayloadAssumption DEF Exempted, FilledLine, Exemptions
<1> QED
  BY <1>1, <1>3, <1>4 DEF EnrichLine

----------------------------------------------------------------------------
(* Lists of lines, their totals and their breakdown.                       *)

LEMMA SeqFacts ==
  ASSUME NEW T, NEW lines \in Seq(T)
  PROVE  /\ Len(lines) \in Nat /\ DOMAIN lines = 1..Len(lines)
         /\ IsFiniteSet(DOMAIN lines) /\ DOMAIN lines \subseteq Nat
         /\ \A i \in DOMAIN lines : lines[i] \in T
<1>1. Len(lines) \in Nat /\ DOMAIN lines = 1..Len(lines)
  OBVIOUS
<1>2. IsFiniteSet(1..Len(lines))
  BY <1>1, FS_Interval
<1> QED
  BY <1>1, <1>2

LEMMA LinesFilled ==
  ASSUME NEW lines \in Seq(StatedLine), NEW e \in Exemptions
  PROVE  /\ EnrichLines(lines, e) \in Seq(FilledLine)
         /\ DOMAIN EnrichLines(lines, e) = DOMAIN lines
         /\ \A i \in DOMAIN lines : EnrichLines(lines, e)[i] = EnrichLine(lines[i], e)
<1>1. \A i \in DOMAIN lines : lines[i] \in StatedLine /\ EnrichLine(lines[i], e) \in FilledLine
  BY LineFilled
<1>2. Len(lines) \in Nat /\ DOMAIN lines = 1..Len(lines)
  OBVIOUS
<1> QED
  BY <1>1, <1>2 DEF EnrichLines

LEMMA FilledIsStated ==
  /\ FilledLine \subseteq StatedLine
  /\ Seq(FilledLine) \subseteq Seq(StatedLine)
<1>1. FilledLine \subseteq StatedLine
  BY DEF FilledLine, StatedLine
<1>2. ASSUME NEW lines \in Seq(FilledLine) PROVE lines \in Seq(StatedLine)
  BY <1>1
<1> QED
  BY <1>1, <1>2

LEMMA LinesStampedOnce ==
  ASSUME NEW lines \in Seq(StatedLine), NEW e \in Exemptions
  PROVE  EnrichLines(EnrichLines(lines, e), e) = EnrichLines(lines, e)
<1>1. \A i \in DOMAIN lines : EnrichLine(EnrichLine(lines[i], e), e) = EnrichLine(lines[i], e)
  BY StampedOnce
<1>2. DOMAIN EnrichLines(lines, e) = DOMAIN lines
  BY DEF EnrichLines
<1> QED
  BY <1>1, <1>2 DEF EnrichLines

LEMMA NetIsInt ==
  ASSUME NEW lines \in Seq(FilledLine), NEW I \in SUBSET DOMAIN lines
  PROVE  Net(lines, I) \in Int
<1> DEFINE f == [i \in I |-> lines[i].net]
<1>1. \A i \in I : f[i] \in Int
  <2>1. \A i \in I : lines[i] \in FilledLine
    BY SeqFacts
  <2> QED
    BY <2>1 DEF FilledLine
<1>2. IsFiniteSet(I)
  BY SeqFacts, FS_Subset
<1>3. Net(lines, I) = SumFunctionOnSet(f, I)
  BY DEF Net, SumFunction
<1> HIDE DEF f
<1> QED
  BY <1>1, <1>2, <1>3, SumTypes

\* The net amount is the same whatever exemption is stamped.
LEMMA NetKept ==
  ASSUME NEW lines \in Seq(StatedLine), NEW e \in Exemptions, NEW x \in Exemptions
  PROVE  Net(EnrichLines(lines, e), DOMAIN EnrichLines(lines, e))
           = Net(EnrichLines(lines, x), DOMAIN EnrichLines(lines, x))
<1>1. \A i \in DOMAIN lines : EnrichLine(lines[i], e).net = EnrichLine(lines[i], x).net
  BY StampedOnce
<1> DEFINE a == EnrichLines(lines, e)
           b == EnrichLines(lines, x)
<1>2. DOMAIN a = DOMAIN lines /\ DOMAIN b = DOMAIN lines /\ \A i \in DOMAIN lines : a[i].net = b[i].net
  BY <1>1 DEF EnrichLines
<1> HIDE DEF a, b
<1>3. [i \in DOMAIN a |-> a[i].net] = [i \in DOMAIN b |-> b[i].net]
  BY <1>2
<1> QED
  BY <1>3 DEF Net, a, b

LEMMA LeastIsMember ==
  ASSUME NEW T \in SUBSET Nat, T # {}
  PROVE  Min(T) \in T
  BY LeastNatural DEF Min

LEMMA VatLineTyped ==
  ASSUME NEW lines \in Seq(FilledLine), NEW rate \in Rate, NEW category \in Categories
  PROVE  VatLine(lines, rate, category) \in BreakdownLine
<1> DEFINE I == {i \in DOMAIN lines : lines[i].rate = rate /\ lines[i].category = category}
           reasoned == {i \in I : lines[i].reason # Absent}
           base == Net(lines, I)
           reason == IF reasoned = {} THEN Absent ELSE lines[Min(reasoned)].reason
<1>1. base \in Int
  BY NetIsInt
<1>2. reason \in Exemptions
  <2>1. reasoned \subseteq DOMAIN lines /\ reasoned \subseteq Nat
    BY SeqFacts
  <2>2. reasoned # {} => Min(reasoned) \in DOMAIN lines
    <3> HIDE DEF reasoned
    <3> QED
      BY <2>1, LeastIsMember
  <2>3. \A i \in DOMAIN lines : lines[i] \in FilledLine
    BY SeqFacts
  <2> HIDE DEF reasoned
  <2> QED
    BY <2>2, <2>3 DEF Exemptions, FilledLine
<1>3. rate.value \in Nat /\ base * rate.value \in Int
  BY <1>1 DEF Rate
<1>4. VatLine(lines, rate, category) =
        [rate |-> rate, category |-> category, base |-> base, vat |-> Rounded(base * rate.value, 10000),
         reason |-> reason]
  BY DEF VatLine
<1>5. Rounded(base * rate.value, 10000) \in Int
  <2> DEFINE tax == base * rate.value
  <2>1. tax \in Int
    BY <1>3
  <2> HIDE DEF tax
  <2>2. Rounded(tax, 10000) \in Int
    BY <2>1, RoundedIsInt
  <2> QED
    BY <2>2 DEF tax
<1> DEFINE vat == Rounded(base * rate.value, 10000)
<1> HIDE DEF base, reason, vat
<1>6. vat \in Int
  BY <1>5 DEF vat
<1>7. [rate |-> rate, category |-> category, base |-> base, vat |-> vat, reason |-> reason]
        \in BreakdownLine
  BY <1>1, <1>2, <1>6 DEF BreakdownLine, Exemptions
<1> QED
  BY <1>4, <1>7 DEF vat

LEMMA BreakdownTyped ==
  ASSUME NEW lines \in Seq(FilledLine)
  PROVE  VatLines(lines) \subseteq BreakdownLine /\ IsFiniteSet(VatLines(lines))
<1>1. \A i \in DOMAIN lines : VatLine(lines, lines[i].rate, lines[i].category) \in BreakdownLine
  <2>1. \A i \in DOMAIN lines : lines[i] \in FilledLine
    BY SeqFacts
  <2>2. \A i \in DOMAIN lines : lines[i].rate \in Rate /\ lines[i].category \in Categories
    BY <2>1 DEF FilledLine
  <2> QED
    BY <2>2, VatLineTyped
<1> DEFINE f == [i \in DOMAIN lines |-> VatLine(lines, lines[i].rate, lines[i].category)]
<1>2. IsFiniteSet(DOMAIN lines)
  BY SeqFacts
<1>3. VatLines(lines) = {f[i] : i \in DOMAIN lines}
  BY DEF VatLines
<1>4. f \in Surjection(DOMAIN lines, VatLines(lines))
  BY <1>3 DEF Surjection
<1>5. IsFiniteSet(VatLines(lines))
  <2> HIDE DEF f
  <2> QED
    BY <1>2, <1>4, FS_Surjection
<1> QED
  BY <1>1, <1>5 DEF VatLines

VatOf(lines) == SumFunction([v \in VatLines(lines) |-> v.vat])

LEMMA TotalsTyped ==
  ASSUME NEW lines \in Seq(FilledLine)
  PROVE  /\ TotalsOf(lines) \in TotalsRecord /\ TotalsOf(lines).due # Absent
         /\ TotalsOf(lines).due = TotalsOf(lines).gross - TotalsOf(lines).prepayment
         /\ TotalsOf(lines).net = Net(lines, DOMAIN lines)
         /\ TotalsOf(lines).gross = TotalsOf(lines).net + TotalsOf(lines).vat
<1> DEFINE net == Net(lines, DOMAIN lines)
           vat == VatOf(lines)
           f == [v \in VatLines(lines) |-> v.vat]
<1>1. net \in Int
  BY NetIsInt
<1>2. vat \in Int
  <2>1. \A v \in VatLines(lines) : f[v] \in Int
    BY BreakdownTyped DEF BreakdownLine
  <2>2. VatOf(lines) = SumFunctionOnSet(f, VatLines(lines))
    BY DEF VatOf, SumFunction
  <2> HIDE DEF f
  <2> QED
    BY <2>1, <2>2, BreakdownTyped, SumTypes
<1>3. TotalsOf(lines) = Totals(net, vat)
  BY DEF TotalsOf, VatOf
<1> HIDE DEF net, vat
<1>4. /\ TotalsOf(lines) \in TotalsRecord /\ TotalsOf(lines).due \in Int
      /\ TotalsOf(lines).due = TotalsOf(lines).gross - TotalsOf(lines).prepayment
      /\ TotalsOf(lines).gross = TotalsOf(lines).net + TotalsOf(lines).vat
  BY <1>1, <1>2, <1>3 DEF Totals, TotalsRecord
<1>5. TotalsOf(lines).net = net
  BY <1>3 DEF Totals
<1> QED
  BY <1>4, <1>5, PayloadAssumption DEF net

\* A stamp does nothing to a line that has VAT.
LEMMA Restamped ==
  ASSUME NEW lines \in Seq(FilledLine), NEW e \in Exemptions
  PROVE  /\ EnrichLines(lines, e) \in Seq(FilledLine)
         /\ DOMAIN EnrichLines(lines, e) = DOMAIN lines
         /\ \A i \in DOMAIN lines :
              /\ EnrichLines(lines, e)[i].net = lines[i].net
              /\ EnrichLines(lines, e)[i].rate = lines[i].rate
              /\ lines[i].rate.value # 0 => EnrichLines(lines, e)[i] = lines[i]
<1>1. EnrichLines(lines, e) \in Seq(FilledLine) /\ DOMAIN EnrichLines(lines, e) = DOMAIN lines
  BY FilledIsStated, LinesFilled
<1>2. ASSUME NEW i \in DOMAIN lines
      PROVE  /\ EnrichLines(lines, e)[i].net = lines[i].net
             /\ EnrichLines(lines, e)[i].rate = lines[i].rate
             /\ lines[i].rate.value # 0 => EnrichLines(lines, e)[i] = lines[i]
  <2>1. lines[i] \in FilledLine
    BY SeqFacts
  <2>2. EnrichLines(lines, e)[i] = Exempted(lines[i], e)
    BY <2>1, FilledAlready DEF EnrichLines, EnrichLine
  <2> QED
    BY <2>1, <2>2 DEF Exempted, FilledLine
<1> QED
  BY <1>1, <1>2

LEMMA SameVatLine ==
  ASSUME NEW lines \in Seq(FilledLine), NEW e \in Exemptions, NEW rate \in Rate, rate.value # 0,
         NEW category \in Categories
  PROVE  VatLine(EnrichLines(lines, e), rate, category) = VatLine(lines, rate, category)
<1> DEFINE new == EnrichLines(lines, e)
           I == {i \in DOMAIN lines : lines[i].rate = rate /\ lines[i].category = category}
           J == {i \in DOMAIN new : new[i].rate = rate /\ new[i].category = category}
           reasoned == {i \in I : lines[i].reason # Absent}
           again == {i \in J : new[i].reason # Absent}
<1>1. DOMAIN new = DOMAIN lines
      /\ \A i \in DOMAIN lines : /\ new[i].rate = lines[i].rate
                                 /\ lines[i].rate.value # 0 => new[i] = lines[i]
  BY Restamped
<1> HIDE DEF new
<1>2. I = J
  BY <1>1
<1>3. \A i \in I : new[i] = lines[i]
  BY <1>1
<1>4. [i \in I |-> lines[i].net] = [i \in J |-> new[i].net]
  BY <1>2, <1>3
<1>5. Net(lines, I) = Net(new, J)
  BY <1>4 DEF Net
<1>6. reasoned = again
  BY <1>2, <1>3
<1>7. reasoned # {} => lines[Min(reasoned)].reason = new[Min(again)].reason
  <2>1. reasoned \subseteq Nat /\ reasoned \subseteq I
    BY SeqFacts
  <2>2. reasoned # {} => Min(reasoned) \in I
    <3> HIDE DEF reasoned
    <3> QED
      BY <2>1, LeastIsMember
  <2> QED
    BY <1>3, <1>6, <2>2
<1>8. VatLine(lines, rate, category) =
        [rate |-> rate, category |-> category, base |-> Net(lines, I),
         vat |-> Rounded(Net(lines, I) * rate.value, 10000),
         reason |-> IF reasoned = {} THEN Absent ELSE lines[Min(reasoned)].reason]
  BY DEF VatLine
<1>9. VatLine(new, rate, category) =
        [rate |-> rate, category |-> category, base |-> Net(new, J),
         vat |-> Rounded(Net(new, J) * rate.value, 10000),
         reason |-> IF again = {} THEN Absent ELSE new[Min(again)].reason]
  BY DEF VatLine
<1> HIDE DEF I, J, reasoned, again
<1>10. VatLine(new, rate, category) = VatLine(lines, rate, category)
  BY <1>5, <1>6, <1>7, <1>8, <1>9
<1> QED
  BY <1>10 DEF new

Taxed(lines) == {v \in VatLines(lines) : v.rate.value # 0}

LEMMA SameTaxed ==
  ASSUME NEW lines \in Seq(FilledLine), NEW e \in Exemptions
  PROVE  Taxed(EnrichLines(lines, e)) = Taxed(lines)
<1> DEFINE new == EnrichLines(lines, e)
<1>1. /\ DOMAIN new = DOMAIN lines
      /\ \A i \in DOMAIN lines : /\ new[i].rate = lines[i].rate
                                 /\ lines[i].rate.value # 0 => new[i] = lines[i]
  BY Restamped
<1>2. \A i \in DOMAIN lines : lines[i].rate \in Rate /\ lines[i].category \in Categories
  <2>1. \A i \in DOMAIN lines : lines[i] \in FilledLine
    BY SeqFacts
  <2> QED
    BY <2>1 DEF FilledLine
<1>3. \A l, r, c : VatLine(l, r, c).rate = r
  BY DEF VatLine
<1>4. ASSUME NEW i \in DOMAIN lines, lines[i].rate.value # 0
      PROVE  VatLine(new, new[i].rate, new[i].category)
               = VatLine(lines, lines[i].rate, lines[i].category)
  BY <1>1, <1>2, <1>4, SameVatLine
<1> HIDE DEF new
<1>5. Taxed(lines) = {v \in VatLines(lines) : \E i \in DOMAIN lines :
                        lines[i].rate.value # 0 /\ v = VatLine(lines, lines[i].rate, lines[i].category)}
  BY <1>3 DEF Taxed, VatLines
<1>6. Taxed(new) = {v \in VatLines(new) : \E i \in DOMAIN new :
                        new[i].rate.value # 0 /\ v = VatLine(new, new[i].rate, new[i].category)}
  BY <1>3 DEF Taxed, VatLines
<1>7. Taxed(new) = Taxed(lines)
  BY <1>1, <1>4, <1>5, <1>6 DEF VatLines
<1> QED
  BY <1>7 DEF new

LEMMA VatOfTaxed ==
  ASSUME NEW lines \in Seq(FilledLine)
  PROVE  VatOf(lines) = SumFunction([v \in Taxed(lines) |-> v.vat])
<1> DEFINE f == [v \in VatLines(lines) |-> v.vat]
           h == [v \in Taxed(lines) |-> v.vat]
<1>1. VatLines(lines) \subseteq BreakdownLine /\ IsFiniteSet(VatLines(lines))
  BY BreakdownTyped
<1>2. \A v \in VatLines(lines) : f[v] \in Int
  BY <1>1 DEF BreakdownLine
<1>3. Taxed(lines) \in SUBSET VatLines(lines) /\ \A v \in Taxed(lines) : h[v] = f[v]
  BY DEF Taxed
<1>4. ASSUME NEW v \in VatLines(lines) \ Taxed(lines) PROVE f[v] = 0
  <2>1. v \in VatLines(lines) /\ v.rate.value = 0
    BY DEF Taxed
  <2>2. PICK i \in DOMAIN lines : v = VatLine(lines, lines[i].rate, lines[i].category)
    BY <2>1 DEF VatLines
  <2> DEFINE I == {j \in DOMAIN lines : /\ lines[j].rate = lines[i].rate
                                        /\ lines[j].category = lines[i].category}
  <2>3. lines[i].rate.value = 0 /\ v.vat = Rounded(Net(lines, I) * lines[i].rate.value, 10000)
    BY <2>1, <2>2 DEF VatLine
  <2>4. Net(lines, I) \in Int
    BY NetIsInt
  <2>5. Net(lines, I) * lines[i].rate.value = 0
    <3> HIDE DEF I
    <3> QED
      BY <2>3, <2>4
  <2>6. v.vat = Rounded(0, 10000)
    <3> HIDE DEF I
    <3> QED
      BY <2>3, <2>5
  <2>7. f[v] = v.vat
    BY <2>1
  <2> QED
    BY <2>6, <2>7, RoundedIsInt
<1>5. VatOf(lines) = SumFunctionOnSet(f, VatLines(lines))
  BY DEF VatOf, SumFunction
<1>6. SumFunction([v \in Taxed(lines) |-> v.vat]) = SumFunctionOnSet(h, Taxed(lines))
  BY DEF SumFunction
<1> HIDE DEF f, h
<1> QED
  BY <1>1, <1>2, <1>3, <1>4, <1>5, <1>6, SumOfSome

\* A stamp leaves the totals alone: it only moves lines at 0% to another line of the
\* breakdown.
LEMMA TotalsKept ==
  ASSUME NEW lines \in Seq(FilledLine), NEW e \in Exemptions
  PROVE  /\ TotalsOf(EnrichLines(lines, e)) = TotalsOf(lines)
         /\ Net(EnrichLines(lines, e), DOMAIN EnrichLines(lines, e)) = Net(lines, DOMAIN lines)
<1> DEFINE new == EnrichLines(lines, e)
<1>1. new \in Seq(FilledLine) /\ DOMAIN new = DOMAIN lines
      /\ \A i \in DOMAIN lines : new[i].net = lines[i].net
  BY Restamped
<1>2. Taxed(new) = Taxed(lines)
  BY SameTaxed
<1> HIDE DEF new
<1>3. [i \in DOMAIN new |-> new[i].net] = [i \in DOMAIN lines |-> lines[i].net]
  BY <1>1
<1>4. Net(new, DOMAIN new) = Net(lines, DOMAIN lines)
  BY <1>3 DEF Net
<1>5. VatOf(new) = VatOf(lines)
  BY <1>1, <1>2, VatOfTaxed
<1>6. TotalsOf(new) = TotalsOf(lines)
  BY <1>4, <1>5 DEF TotalsOf, VatOf
<1> QED
  BY <1>4, <1>6 DEF new

----------------------------------------------------------------------------
(* The data of a document.                                                 *)

NoteChoices == {Absent} \union SUBSET (Notes \union BarNotes)

\* What is given to Enrich: a payload, or the data of a document.
StatedData ==
  [lines : Seq(StatedLine), totals : TotalsRecord \union {Absent},
   vatLines : {Absent} \union SUBSET BreakdownLine, references : {Absent} \union StatedReference,
   notes : NoteChoices]

LEMMA DataIsStated ==
  /\ Data \subseteq StatedData
  /\ \A data \in Data : /\ data.lines \in Seq(FilledLine) /\ data.totals \in TotalsRecord
                        /\ data.vatLines \in SUBSET BreakdownLine /\ data.references \in Reference
                        /\ data.notes \in NoteChoices
<1>1. Reference \subseteq StatedReference
  BY DEF Reference, StatedReference
<1>2. \A data \in Data : /\ data.lines \in Seq(FilledLine) /\ data.totals \in TotalsRecord
                         /\ data.vatLines \in SUBSET BreakdownLine /\ data.references \in Reference
                         /\ data.notes \in NoteChoices
  BY DEF Data, TotalsRecord, BreakdownLine, Exemptions, NoteChoices
<1>3. ASSUME NEW data \in Data PROVE data \in StatedData
  <2>1. data = [lines |-> data.lines, totals |-> data.totals, vatLines |-> data.vatLines,
                references |-> data.references, notes |-> data.notes]
    BY DEF Data
  <2>2. data.lines \in Seq(StatedLine)
    BY <1>2, FilledIsStated
  <2> QED
    BY <1>1, <1>2, <2>1, <2>2 DEF StatedData
<1> QED
  BY <1>2, <1>3

Enriched(data, s, r) ==
  LET lines == EnrichLines(data.lines, s.exemption) IN
  /\ r \in Data
  /\ r.lines = lines
  /\ r.totals = Or(data.totals, TotalsOf(lines))
  /\ r.vatLines = Or(data.vatLines, VatLines(lines))
  /\ data.references # Absent => r.references.preceding = data.references.preceding
  /\ r.notes = IF data.notes = Absent /\ s.notes # {} THEN s.notes ELSE data.notes

DataOf(l, t, v, r, n) ==
  [lines |-> l, totals |-> t, vatLines |-> v, references |-> r, notes |-> n]

LEMMA EnrichSteps ==
  ASSUME NEW l, NEW t, NEW v, NEW r, NEW n
  PROVE  /\ EnrichTotals(DataOf(l, t, v, r, n))
              = DataOf(l, Or(t, TotalsOf(l)), Or(v, VatLines(l)), r, n)
         /\ EnrichReferences(DataOf(l, t, v, r, n)) = DataOf(l, t, v, FilledReferences(r), n)
         /\ \A m : EnrichNotes(DataOf(l, t, v, r, n), m)
                    = DataOf(l, t, v, r, IF n = Absent /\ m # {} THEN m ELSE n)
<1> DEFINE d == DataOf(l, t, v, r, n)
<1>1. d.lines = l /\ d.totals = t /\ d.vatLines = v /\ d.references = r /\ d.notes = n
  BY DEF DataOf
<1>2. ASSUME NEW x, NEW y
      PROVE  [d EXCEPT !.totals = x, !.vatLines = y] = DataOf(l, x, y, r, n)
  <2> DEFINE e == [d EXCEPT !.totals = x, !.vatLines = y]
  <2>1. DOMAIN e = {"lines", "totals", "vatLines", "references", "notes"}
        /\ e = [f \in DOMAIN e |-> e[f]]
    BY DEF DataOf
  <2>2. e.lines = l /\ e.totals = x /\ e.vatLines = y /\ e.references = r /\ e.notes = n
    BY DEF DataOf
  <2> HIDE DEF e
  <2>3. e = DataOf(l, x, y, r, n)
    BY <2>1, <2>2 DEF DataOf
  <2> QED
    BY <2>3 DEF e
<1>3. \A x : [d EXCEPT !.references = x] = DataOf(l, t, v, x, n)
  BY DEF DataOf
<1>4. \A x : [d EXCEPT !.notes = x] = DataOf(l, t, v, r, x)
  BY DEF DataOf
<1>5. \A x : EnrichTotals(x) = [x EXCEPT !.totals = Or(x.totals, TotalsOf(x.lines)),
                                       !.vatLines = Or(x.vatLines, VatLines(x.lines))]
  BY DEF EnrichTotals
<1>6. \A x : EnrichReferences(x) = [x EXCEPT !.references = FilledReferences(x.references)]
  BY DEF EnrichReferences
<1>7. \A m : EnrichNotes(d, m) = [d EXCEPT !.notes = IF d.notes = Absent /\ m # {} THEN m ELSE d.notes]
  BY DEF EnrichNotes
<1> HIDE DEF d
<1>8. EnrichTotals(d) = DataOf(l, Or(t, TotalsOf(l)), Or(v, VatLines(l)), r, n)
  BY <1>1, <1>2, <1>5
<1>9. EnrichReferences(d) = DataOf(l, t, v, FilledReferences(r), n)
  BY <1>1, <1>3, <1>6
<1>10. \A m : EnrichNotes(d, m) = DataOf(l, t, v, r, IF n = Absent /\ m # {} THEN m ELSE n)
  BY <1>1, <1>4, <1>7
<1> QED
  BY <1>8, <1>9, <1>10 DEF d

LEMMA SupplierFacts ==
  ASSUME NEW s \in Suppliers
  PROVE  s.exemption \in Exemptions /\ s.notes \in SUBSET Notes
  BY DraftingAssumption DEF Exemptions

LEMMA EnrichFills ==
  ASSUME NEW data \in StatedData, NEW s \in Suppliers
  PROVE  Enriched(data, s, Enrich(data, s))
<1> DEFINE lines == EnrichLines(data.lines, s.exemption)
           totals == Or(data.totals, TotalsOf(lines))
           vatLines == Or(data.vatLines, VatLines(lines))
           references == FilledReferences(data.references)
           notes == IF data.notes = Absent /\ s.notes # {} THEN s.notes ELSE data.notes
           r == DataOf(lines, totals, vatLines, references, notes)
<1>1. data.lines \in Seq(StatedLine) /\ s.exemption \in Exemptions
  BY SupplierFacts DEF StatedData
<1>2. lines \in Seq(FilledLine)
  BY <1>1, LinesFilled
<1>3. totals \in TotalsRecord
  BY <1>2, TotalsTyped DEF StatedData, Or
<1>4. vatLines \in SUBSET BreakdownLine
  BY <1>2, BreakdownTyped DEF StatedData, Or
<1>5. references \in Reference /\ (data.references # Absent => references.preceding = data.references.preceding)
  BY DEF StatedData, StatedReference, Reference, FilledReferences, DefaultReferences, Or
<1>6. notes \in NoteChoices
  BY SupplierFacts DEF StatedData, NoteChoices
<1>7. Enrich(data, s) = r
  <2>1. [data EXCEPT !.lines = lines]
          = DataOf(lines, data.totals, data.vatLines, data.references, data.notes)
    BY DEF StatedData, DataOf
  <2>2. Enrich(data, s)
          = EnrichNotes(EnrichReferences(EnrichTotals([data EXCEPT !.lines = lines])), s.notes)
    BY DEF Enrich, StatedData
  <2> HIDE DEF lines
  <2> DEFINE t == data.totals
             v == data.vatLines
             f == data.references
             n == data.notes
  <2>3. totals = Or(t, TotalsOf(lines)) /\ vatLines = Or(v, VatLines(lines))
        /\ references = FilledReferences(f) /\ notes = IF n = Absent /\ s.notes # {} THEN s.notes ELSE n
    OBVIOUS
  <2>4. [data EXCEPT !.lines = lines] = DataOf(lines, t, v, f, n)
    BY <2>1
  <2> HIDE DEF totals, vatLines, references, notes, t, v, f, n
  <2>5. EnrichTotals(DataOf(lines, t, v, f, n)) = DataOf(lines, totals, vatLines, f, n)
    <3>1. EnrichTotals(DataOf(lines, t, v, f, n))
            = DataOf(lines, Or(t, TotalsOf(lines)), Or(v, VatLines(lines)), f, n)
      BY EnrichSteps
    <3> QED
      BY <2>3, <3>1
  <2>6. EnrichReferences(DataOf(lines, totals, vatLines, f, n))
          = DataOf(lines, totals, vatLines, references, n)
    <3>1. EnrichReferences(DataOf(lines, totals, vatLines, f, n))
            = DataOf(lines, totals, vatLines, FilledReferences(f), n)
      BY EnrichSteps
    <3> QED
      BY <2>3, <3>1
  <2>7. EnrichNotes(DataOf(lines, totals, vatLines, references, n), s.notes)
          = DataOf(lines, totals, vatLines, references, notes)
    BY <2>3, EnrichSteps
  <2> QED
    BY <2>2, <2>4, <2>5, <2>6, <2>7
<1> HIDE DEF lines, totals, vatLines, references, notes
<1>8. r \in Data
  BY <1>2, <1>3, <1>4, <1>5, <1>6
  DEF Data, DataOf, TotalsRecord, BreakdownLine, Exemptions, NoteChoices
<1>9. /\ r.lines = lines /\ r.totals = totals /\ r.vatLines = vatLines
      /\ r.references = references /\ r.notes = notes
  BY DEF DataOf
<1> HIDE DEF r
<1>10. Enriched(data, s, r)
  BY <1>5, <1>8, <1>9 DEF Enriched, lines, totals, vatLines, notes
<1> QED
  BY <1>7, <1>10


----------------------------------------------------------------------------
(* What comes from Stripe.                                                 *)

LEMMA MappedIsStated ==
  ASSUME NEW net \in Int, NEW rate \in Rate, NEW quantity \in Nat
  PROVE  /\ MappedLine(net, rate, quantity) \in StatedLine
         /\ MappedLine(net, rate, quantity).net = net
  BY DEF MappedLine, StatedLine, Category, Categories

\* The net amount of lines that state theirs is the sum of what they state.
LEMMA StatedNet ==
  ASSUME NEW lines \in Seq(StatedLine), NEW e \in Exemptions,
         \A i \in DOMAIN lines : lines[i].net \in Int
  PROVE  Net(EnrichLines(lines, e), DOMAIN EnrichLines(lines, e))
           = SumFunction([i \in DOMAIN lines |-> lines[i].net])
<1> DEFINE new == EnrichLines(lines, e)
<1>1. DOMAIN new = DOMAIN lines
  BY LinesFilled
<1>2. ASSUME NEW i \in DOMAIN lines PROVE new[i].net = lines[i].net
  <2>1. lines[i] \in StatedLine /\ lines[i].net # Absent
    BY SeqFacts, PayloadAssumption
  <2>2. ASSUME NEW l \in StatedLine, l.net # Absent PROVE Filled(l).net = l.net
    BY <2>2 DEF Filled, StatedLine, Or
  <2>3. ASSUME NEW l \in FilledLine PROVE Exempted(l, e).net = l.net
    BY DEF Exempted, FilledLine
  <2>4. EnrichLine(lines[i], e).net = lines[i].net
    BY <2>1, <2>2, <2>3, FilledIn DEF EnrichLine
  <2> QED
    BY <2>4, LinesFilled
<1> HIDE DEF new
<1>3. [i \in DOMAIN new |-> new[i].net] = [i \in DOMAIN lines |-> lines[i].net]
  BY <1>1, <1>2
<1>4. Net(new, DOMAIN new) = SumFunction([i \in DOMAIN lines |-> lines[i].net])
  BY <1>3 DEF Net
<1> QED
  BY <1>4 DEF new

LEMMA TwoDecimalsIsRate == \A n \in Nat : TwoDecimals(n) \in Rate
  BY DEF TwoDecimals, Rate

LEMMA ItemsMapped ==
  ASSUME NEW items \in Seq(StripeItem)
  PROVE  /\ MapItems(items) \in Seq(StatedLine)
         /\ DOMAIN MapItems(items) = DOMAIN items
         /\ \A i \in DOMAIN items : MapItems(items)[i].net = items[i].amount
<1>1. ASSUME NEW item \in StripeItem PROVE ItemRate(item) \in Rate
  <2>1. \A n \in Nat : TwoDecimals(n) \in Rate
    BY TwoDecimalsIsRate
  <2>2. item.rates # <<>> => Head(item.rates) \in Rate \union {Absent}
    BY DEF StripeItem, Rates
  <2>3. item.product # Absent => item.product \in Nat
    BY DEF StripeItem
  <2> QED
    BY <2>1, <2>2, <2>3 DEF ItemRate, Or
<1>2. \A i \in DOMAIN items : items[i] \in StripeItem
  BY SeqFacts
<1>3. ASSUME NEW i \in DOMAIN items
      PROVE  MapItems(items)[i] \in StatedLine /\ MapItems(items)[i].net = items[i].amount
  <2>1. items[i].amount \in Int /\ items[i].quantity \in Nat /\ ItemRate(items[i]) \in Rate
    BY <1>1, <1>2 DEF StripeItem
  <2> QED
    BY <2>1, MappedIsStated DEF MapItems
<1>4. Len(items) \in Nat /\ DOMAIN items = 1..Len(items) /\ DOMAIN MapItems(items) = DOMAIN items
      /\ MapItems(items) = [i \in DOMAIN items |-> MapItems(items)[i]]
  BY DEF MapItems
<1> HIDE DEF MapItems
<1>5. MapItems(items) \in Seq(StatedLine)
  BY <1>3, <1>4
<1> QED
  BY <1>3, <1>4, <1>5

LEMMA HalfEvenIsNat ==
  ASSUME NEW n \in Nat, NEW d \in Nat \ {0}
  PROVE  HalfEven(n, d) \in Nat
<1>1. n \div d \in Nat
  OBVIOUS
<1> QED
  BY <1>1 DEF HalfEven

LEMMA TaxesOfItem ==
  ASSUME NEW item \in CreditedItem
  PROVE  /\ IsFiniteSet(DOMAIN item.taxes)
         /\ \A t \in DOMAIN item.taxes :
              item.taxes[t].amount \in Nat /\ item.taxes[t].taxable \in Nat
<1> DEFINE T == [amount : Nat, taxable : Nat, inclusive : BOOLEAN]
<1>1. item.taxes \in Seq(T)
  BY DEF CreditedItem
<1>2. IsFiniteSet(DOMAIN item.taxes) /\ \A t \in DOMAIN item.taxes : item.taxes[t] \in T
  BY <1>1, SeqFacts
<1> QED
  BY <1>2

LEMMA CreditedRateIsNat ==
  ASSUME NEW item \in CreditedItem
  PROVE  CreditedRate(item) \in Nat
<1> DEFINE known == {i \in DOMAIN item.rates : item.rates[i] # Absent}
           f == [t \in DOMAIN item.taxes |-> item.taxes[t].amount]
           g == [t \in DOMAIN item.taxes |-> item.taxes[t].taxable]
           tax == SumTaxes(item.taxes, DOMAIN item.taxes)
           taxable == SumFunction(g)
<1>1. known # {} => item.rates[Min(known)].value \in Nat
  <2>1. item.rates \in Seq(Rate \union {Absent})
    BY DEF CreditedItem, Rates
  <2>2. known \subseteq DOMAIN item.rates /\ known \subseteq Nat
    BY <2>1, SeqFacts
  <2>3. ASSUME known # {} PROVE Min(known) \in known
    <3> HIDE DEF known
    <3> QED
      BY <2>2, <2>3, LeastIsMember
  <2>4. \A i \in known : item.rates[i] \in Rate
    BY <2>1, SeqFacts
  <2> HIDE DEF known
  <2> QED
    BY <2>3, <2>4 DEF Rate
<1>2. tax \in Nat /\ taxable \in Nat
  <2>1. \A t \in DOMAIN item.taxes : item.taxes[t].amount \in Nat /\ item.taxes[t].taxable \in Nat
    BY TaxesOfItem
  <2>2. IsFiniteSet(DOMAIN item.taxes)
    BY TaxesOfItem
  <2>3. DOMAIN f = DOMAIN item.taxes /\ DOMAIN g = DOMAIN item.taxes
        /\ (\A t \in DOMAIN item.taxes : f[t] \in Nat) /\ (\A t \in DOMAIN item.taxes : g[t] \in Nat)
    BY <2>1
  <2>4. tax = SumFunctionOnSet(f, DOMAIN item.taxes) /\ taxable = SumFunctionOnSet(g, DOMAIN item.taxes)
    BY DEF SumTaxes, SumFunction
  <2> HIDE DEF f, g
  <2> QED
    BY <2>2, <2>3, <2>4, SumTypes
<1>3. CreditedRate(item) =
        CASE known # {}                                      -> item.rates[Min(known)].value
          [] known = {} /\ (tax = 0 \/ taxable = 0)           -> 0
          [] known = {} /\ tax # 0 /\ taxable # 0             -> HalfEven(tax * 10000, taxable)
  BY DEF CreditedRate
<1> HIDE DEF known, tax, taxable
<1>4. tax * 10000 \in Nat
  BY <1>2
<1>5. taxable # 0 => HalfEven(tax * 10000, taxable) \in Nat
  BY <1>2, <1>4, HalfEvenIsNat
<1> QED
  BY <1>1, <1>2, <1>3, <1>5

LEMMA CreditedNetIsInt ==
  ASSUME NEW item \in CreditedItem
  PROVE  CreditedNet(item) \in Int
<1> DEFINE T == Inclusive(item.taxes)
           f == [t \in T |-> item.taxes[t].amount]
<1>1. T \subseteq DOMAIN item.taxes /\ \A t \in DOMAIN item.taxes : item.taxes[t].amount \in Int
  BY TaxesOfItem DEF Inclusive
<1>2. IsFiniteSet(T)
  BY <1>1, TaxesOfItem, FS_Subset
<1>3. \A t \in T : f[t] \in Int
  BY <1>1
<1>4. SumTaxes(item.taxes, T) = SumFunctionOnSet(f, T)
  BY DEF SumTaxes, SumFunction
<1> HIDE DEF f, T
<1>5. SumTaxes(item.taxes, T) \in Int
  BY <1>2, <1>3, <1>4, SumTypes
<1> QED
  BY <1>5 DEF CreditedNet, CreditedItem, T


LEMMA CreditedLines ==
  ASSUME NEW items \in Seq(CreditedItem), NEW originals \in Seq(FilledLine)
  PROVE  /\ MapCreditedItems(items, originals) \in Seq(StatedLine)
         /\ DOMAIN MapCreditedItems(items, originals) = DOMAIN items
         /\ \A i \in DOMAIN items :
              MapCreditedItems(items, originals)[i].net = CreditedNet(items[i])
<1>1. ASSUME NEW line \in StatedLine
      PROVE  /\ LikeOriginal(line, originals) \in StatedLine
             /\ LikeOriginal(line, originals).net = line.net
  <2> DEFINE same == {i \in DOMAIN originals : originals[i].rate.value = line.rate.value}
             original == originals[Min(same)]
             category == Or(original.category, line.category)
             reason == Or(original.reason, line.reason)
  <2>1. CASE same = {}
    BY <2>1 DEF LikeOriginal
  <2>2. CASE same # {}
    <3>1. same \subseteq DOMAIN originals /\ same \subseteq Nat
      BY SeqFacts
    <3>2. Min(same) \in same
      <4> HIDE DEF same
      <4> QED
        BY <2>2, <3>1, LeastIsMember
    <3>3. original \in FilledLine
      BY <3>1, <3>2, SeqFacts
    <3>4. LikeOriginal(line, originals) = [line EXCEPT !.category = category, !.reason = reason]
      BY <2>2 DEF LikeOriginal, StatedLine
    <3> HIDE DEF original
    <3>5. category \in Categories \union {Absent} /\ reason \in Reasons \union {Absent}
      BY <3>3 DEF Or, FilledLine, StatedLine
    <3> HIDE DEF category, reason
    <3> QED
      BY <3>4, <3>5 DEF StatedLine
  <2> QED
    BY <2>1, <2>2
<1>2. ASSUME NEW i \in DOMAIN items
      PROVE  /\ MapCreditedItems(items, originals)[i] \in StatedLine
             /\ MapCreditedItems(items, originals)[i].net = CreditedNet(items[i])
  <2>1. items[i] \in CreditedItem
    BY SeqFacts
  <2>2. CreditedNet(items[i]) \in Int /\ TwoDecimals(CreditedRate(items[i])) \in Rate
        /\ items[i].quantity \in Nat
    BY <2>1, CreditedNetIsInt, CreditedRateIsNat, TwoDecimalsIsRate DEF CreditedItem
  <2> DEFINE line == MappedLine(CreditedNet(items[i]), TwoDecimals(CreditedRate(items[i])),
                                items[i].quantity)
  <2>3. line \in StatedLine /\ line.net = CreditedNet(items[i])
    BY <2>2, MappedIsStated
  <2>4. MapCreditedItems(items, originals)[i] = LikeOriginal(line, originals)
    BY DEF MapCreditedItems
  <2> HIDE DEF line
  <2> QED
    BY <1>1, <2>3, <2>4
<1>3. Len(items) \in Nat /\ DOMAIN items = 1..Len(items)
      /\ DOMAIN MapCreditedItems(items, originals) = DOMAIN items
      /\ MapCreditedItems(items, originals)
           = [i \in DOMAIN items |-> MapCreditedItems(items, originals)[i]]
  BY DEF MapCreditedItems
<1> HIDE DEF MapCreditedItems
<1>4. MapCreditedItems(items, originals) \in Seq(StatedLine)
  BY <1>2, <1>3
<1> QED
  BY <1>2, <1>3, <1>4

\* The totals of some lines, and an amount due that agrees with them.
Agree(lines, t) ==
  /\ t.due # Absent /\ t.due = t.gross - t.prepayment
  /\ t.net = Net(lines, DOMAIN lines)
  /\ t.gross = t.net + t.vat

\* What a payload brings is among what was given, and whatever exemption is stamped,
\* totals that no client of the API has stated are those of the lines.
Balanced(given, data) ==
  /\ data.totals # Absent =>
       /\ Balances(data.totals)
       /\ \/ "stated" \in given
          \/ /\ "totals" \in given
             /\ \A e \in Exemptions : Agree(EnrichLines(data.lines, e), data.totals)
  /\ data.vatLines # Absent => "vatLines" \in given

LEMMA AbsentExemption == Absent \in Exemptions
  BY DEF Exemptions

LEMMA StatedAre ==
  ASSUME NEW l \in Seq(StatedLine), NEW t \in TotalsRecord \union {Absent},
         NEW v \in {Absent} \union SUBSET BreakdownLine, NEW r \in {Absent} \union StatedReference,
         NEW n \in NoteChoices
  PROVE  DataOf(l, t, v, r, n) \in StatedData
  BY DEF DataOf, StatedData

LEMMA StripeTotalsTyped ==
  ASSUME NEW net \in Int, NEW vat \in Int, NEW gross \in Int
  PROVE  /\ StripeTotals(net, vat, gross) \in TotalsRecord
         /\ StripeTotals(net, vat, gross).due # Absent
         /\ StripeTotals(net, vat, gross).net = net
         /\ StripeTotals(net, vat, gross).vat = vat
         /\ StripeTotals(net, vat, gross).gross = gross
         /\ StripeTotals(net, vat, gross).due = gross - StripeTotals(net, vat, gross).prepayment
  BY PayloadAssumption DEF StripeTotals, TotalsRecord

LEMMA StripeStated ==
  ASSUME NEW invoice \in StripeInvoices
  PROVE  /\ StripeData(invoice) \in StatedData
         /\ StripeData(invoice).notes = Absent
         /\ Balanced({"totals"}, StripeData(invoice))
         /\ Balanced(Given(StripeData(invoice)), StripeData(invoice))
         /\ "vatLines" \notin Given(StripeData(invoice))
<1>1. /\ invoice.items \in Seq(StripeItem) /\ invoice.subtotal \in Int /\ invoice.tax \in Int
      /\ invoice.total \in Int /\ invoice.total = invoice.subtotal + invoice.tax
      /\ invoice.subtotal = SumFunction([k \in DOMAIN invoice.items |-> invoice.items[k].amount])
  <2>1. invoice \in StripeInvoice
        /\ invoice.subtotal = SumFunction([k \in DOMAIN invoice.items |-> invoice.items[k].amount])
        /\ invoice.total = invoice.subtotal + invoice.tax
    BY Zenon, DraftingAssumption
  <2> QED
    BY <2>1 DEF StripeInvoice
<1> DEFINE lines == MapItems(invoice.items)
           totals == InvoiceTotals(invoice)
           references == References(InvoiceType, Absent)
<1>2. lines \in Seq(StatedLine) /\ DOMAIN lines = DOMAIN invoice.items
      /\ \A i \in DOMAIN lines : lines[i].net = invoice.items[i].amount
  BY <1>1, ItemsMapped
<1>3. totals \in TotalsRecord /\ totals.net = invoice.subtotal /\ totals.gross = totals.net + totals.vat
      /\ totals.due # Absent /\ totals.due = totals.gross - totals.prepayment
  BY <1>1, StripeTotalsTyped DEF InvoiceTotals
<1>4. references \in StatedReference
  BY DEF References, StatedReference
<1>5. ASSUME NEW e \in Exemptions PROVE Agree(EnrichLines(lines, e), totals)
  <2>1. \A i \in DOMAIN invoice.items : invoice.items[i].amount \in Int
    <3>1. \A i \in DOMAIN invoice.items : invoice.items[i] \in StripeItem
      BY <1>1, SeqFacts
    <3> QED
      BY <3>1 DEF StripeItem
  <2> HIDE DEF lines, totals
  <2>2. Net(EnrichLines(lines, e), DOMAIN EnrichLines(lines, e))
          = SumFunction([i \in DOMAIN lines |-> lines[i].net])
    BY <1>2, <2>1, StatedNet
  <2>3. [i \in DOMAIN lines |-> lines[i].net]
          = [k \in DOMAIN invoice.items |-> invoice.items[k].amount]
    BY <1>2
  <2> QED
    BY <1>1, <1>3, <2>2, <2>3 DEF Agree
<1>6. StripeData(invoice) = DataOf(lines, totals, Absent, references, Absent)
  BY DEF StripeData, Stated, DataOf
<1> HIDE DEF lines, totals, references
<1>7. Absent \in NoteChoices
  BY DEF NoteChoices
<1>8. DataOf(lines, totals, Absent, references, Absent) \in StatedData
  BY <1>2, <1>3, <1>4, <1>7, StatedAre
<1> QED
  BY <1>3, <1>5, <1>6, <1>8 DEF Balanced, Balances, DataOf, Given

LEMMA CreditNoteStated ==
  ASSUME NEW note \in StripeCreditNotes, NEW original,
         original.data.lines \in Seq(FilledLine)
  PROVE  LET data == CreditNoteData(note, original) IN
         /\ data \in StatedData
         /\ data.notes = Absent
         /\ Balanced(Given(data), data)
         /\ "vatLines" \notin Given(data)
         /\ data.references # Absent
         /\ data.references.preceding = IF original.numbered THEN TRUE ELSE Absent
<1>1. /\ note.items \in Seq(CreditedItem) /\ note.total \in Int /\ note.tax \in Int
      /\ note.total - note.tax = SumFunction([k \in DOMAIN note.items |-> CreditedNet(note.items[k])])
  BY DraftingAssumption DEF StripeCreditNote
<1> DEFINE data == CreditNoteData(note, original)
           lines == MapCreditedItems(note.items, original.data.lines)
           totals == CreditNoteTotals(note)
           preceding == IF original.numbered THEN TRUE ELSE Absent
           references == References(CreditNoteType, preceding)
<1>2. lines \in Seq(StatedLine) /\ DOMAIN lines = DOMAIN note.items
      /\ \A i \in DOMAIN lines : lines[i].net = CreditedNet(note.items[i])
  BY <1>1, CreditedLines
<1>3. totals \in TotalsRecord /\ totals.net = note.total - note.tax
      /\ totals.gross = totals.net + totals.vat
      /\ totals.due # Absent /\ totals.due = totals.gross - totals.prepayment
  <2>1. note.total - note.tax \in Int /\ note.total = (note.total - note.tax) + note.tax
    BY <1>1
  <2> QED
    BY <1>1, <2>1, StripeTotalsTyped DEF CreditNoteTotals
<1>4. references \in StatedReference /\ references.preceding = preceding /\ references # Absent
  <2>1. references \in StatedReference /\ references.preceding = preceding
    BY DEF References, StatedReference
  <2> QED
    BY <2>1, DraftingAssumption
<1>5. ASSUME NEW e \in Exemptions PROVE Agree(EnrichLines(lines, e), totals)
  <2>1. \A i \in DOMAIN note.items : CreditedNet(note.items[i]) \in Int
    <3>1. \A i \in DOMAIN note.items : note.items[i] \in CreditedItem
      BY <1>1, SeqFacts
    <3> QED
      BY <3>1, CreditedNetIsInt
  <2> HIDE DEF lines, totals
  <2>2. Net(EnrichLines(lines, e), DOMAIN EnrichLines(lines, e))
          = SumFunction([i \in DOMAIN lines |-> lines[i].net])
    BY <1>2, <2>1, StatedNet
  <2>3. [i \in DOMAIN lines |-> lines[i].net]
          = [k \in DOMAIN note.items |-> CreditedNet(note.items[k])]
    BY <1>2
  <2> QED
    BY <1>1, <1>3, <2>2, <2>3 DEF Agree
<1>6. data = DataOf(lines, totals, Absent, references, Absent)
  <2>1. data = [Stated(lines, totals, Absent, Absent) EXCEPT !.references = references]
    BY DEF CreditNoteData
  <2> HIDE DEF data, lines, totals, references
  <2> QED
    BY <2>1 DEF Stated, DataOf
<1> HIDE DEF data, lines, totals, references
<1>7. Absent \in NoteChoices
  BY DEF NoteChoices
<1>8. DataOf(lines, totals, Absent, references, Absent) \in StatedData
  BY <1>2, <1>3, <1>4, <1>7, StatedAre
<1>9. /\ data \in StatedData /\ data.notes = Absent /\ Balanced(Given(data), data) /\ "vatLines" \notin Given(data)
      /\ data.references # Absent /\ data.references.preceding = preceding
  BY <1>3, <1>4, <1>5, <1>6, <1>8 DEF Balanced, Balances, DataOf, Given
<1> QED
  BY <1>9 DEF data


LEMMA FormStated ==
  ASSUME NEW lines \in LineLists
  PROVE  LET totals == FormTotals(lines) IN
         /\ totals \in TotalsRecord /\ Balances(totals)
         /\ VatLines(EnrichLines(lines, Absent)) \in SUBSET BreakdownLine
         /\ \A e \in Exemptions : Agree(EnrichLines(lines, e), totals)
<1>1. lines \in Seq(StatedLine)
  BY DraftingAssumption
<1> DEFINE filled == EnrichLines(lines, Absent)
           totals == FormTotals(lines)
<1>2. filled \in Seq(FilledLine)
  BY <1>1, AbsentExemption, LinesFilled
<1>3. totals = TotalsOf(filled)
  BY DEF FormTotals
<1>4. /\ totals \in TotalsRecord /\ totals.due # Absent
      /\ totals.due = totals.gross - totals.prepayment
      /\ totals.net = Net(filled, DOMAIN filled)
      /\ totals.gross = totals.net + totals.vat
  BY <1>2, <1>3, TotalsTyped
<1>5. VatLines(filled) \in SUBSET BreakdownLine
  BY <1>2, BreakdownTyped
<1>6. ASSUME NEW e \in Exemptions PROVE Agree(EnrichLines(lines, e), totals)
  <2>1. Net(EnrichLines(lines, e), DOMAIN EnrichLines(lines, e)) = Net(filled, DOMAIN filled)
    BY <1>1, AbsentExemption, NetKept
  <2> HIDE DEF filled, totals
  <2> QED
    BY <1>4, <2>1 DEF Agree
<1>7. Balances(totals)
  BY <1>4 DEF Balances
<1> HIDE DEF totals
<1>8. /\ totals \in TotalsRecord /\ Balances(totals)
      /\ \A e \in Exemptions : Agree(EnrichLines(lines, e), totals)
  BY <1>4, <1>6, <1>7
<1> QED
  BY <1>5, <1>8 DEF totals

LEMMA PayloadStated ==
  ASSUME NEW data \in PayloadData
  PROVE  /\ data \in StatedData
         /\ data.notes \in NoteSets
         /\ Balanced(Given(data), data)
<1>1. PICK lines \in LineLists, notes \in NoteSets, t \in TotalsRecord \union {Absent},
           v \in {Absent} \union SUBSET BreakdownLine :
        /\ data = DataOf(lines, t, v, Absent, notes)
        /\ \/ t \in StatedTotals \union {Absent}
           \/ t = FormTotals(lines)
  <2>1. CASE \E lines \in LineLists, notes \in NoteSets :
               data = Stated(lines, FormTotals(lines), VatLines(EnrichLines(lines, Absent)), notes)
    <3>1. PICK lines \in LineLists, notes \in NoteSets :
            data = Stated(lines, FormTotals(lines), VatLines(EnrichLines(lines, Absent)), notes)
      BY <2>1
    <3> DEFINE t == FormTotals(lines)
               v == VatLines(EnrichLines(lines, Absent))
    <3>2. t \in TotalsRecord /\ v \in SUBSET BreakdownLine
      BY FormStated
    <3>3. data = DataOf(lines, t, v, Absent, notes)
      BY <3>1 DEF Stated, DataOf
    <3> QED
      BY <3>2, <3>3
  <2>2. CASE \E lines \in LineLists, notes \in NoteSets, t \in StatedTotals \union {Absent},
                v \in Breakdowns \union {Absent} : data = Stated(lines, t, v, notes)
    <3>1. PICK lines \in LineLists, notes \in NoteSets, t \in StatedTotals \union {Absent},
               v \in Breakdowns \union {Absent} : data = Stated(lines, t, v, notes)
      BY <2>2
    <3>2. t \in TotalsRecord \union {Absent} /\ v \in {Absent} \union SUBSET BreakdownLine
      BY DraftingAssumption
    <3>3. data = DataOf(lines, t, v, Absent, notes)
      BY <3>1 DEF Stated, DataOf
    <3> QED
      BY <3>2, <3>3
  <2> QED
    BY <2>1, <2>2 DEF PayloadData
<1>2. lines \in Seq(StatedLine) /\ notes \in NoteChoices
  BY DraftingAssumption DEF NoteChoices
<1>3. data \in StatedData
  BY <1>1, <1>2, StatedAre
<1>4. data.lines = lines /\ data.totals = t /\ data.vatLines = v /\ data.notes = notes
  BY <1>1 DEF DataOf
<1>5. ASSUME t # Absent
      PROVE  /\ Balances(t)
             /\ \/ "stated" \in Given(data)
                \/ /\ "totals" \in Given(data)
                   /\ \A e \in Exemptions : Agree(EnrichLines(lines, e), t)
  <2>1. CASE t \in StatedTotals
    <3>1. Balances(t)
      BY <2>1, DraftingAssumption
    <3>2. "stated" \in Given(data)
      BY <1>4, <2>1 DEF Given
    <3> QED
      BY <3>1, <3>2
  <2>2. CASE t = FormTotals(lines)
    <3>1. "totals" \in Given(data)
      BY <1>4, <1>5 DEF Given
    <3> QED
      BY <2>2, <3>1, FormStated
  <2> QED
    BY <1>1, <1>5, <2>1, <2>2
<1>6. v # Absent => "vatLines" \in Given(data)
  BY <1>4 DEF Given
<1> QED
  BY <1>3, <1>4, <1>5, <1>6 DEF Balanced

----------------------------------------------------------------------------
(* The totals and the breakdown of a document.                             *)

Follows(given, data, stale) ==
  /\ Balances(data.totals)
  /\ "stated" \notin given =>
       /\ data.totals.due # Absent
       /\ IF "totals" \in given
          THEN /\ data.totals.net = Net(data.lines, DOMAIN data.lines)
               /\ data.totals.gross = data.totals.net + data.totals.vat
          ELSE data.totals = [TotalsOf(data.lines) EXCEPT !.prepayment = data.totals.prepayment,
                                                          !.due = data.totals.due]
  /\ \/ "vatLines" \in given \/ stale
     \/ data.vatLines = VatLines(data.lines)

\* The exemption is stamped already.
Stamped(data, s) == EnrichLines(data.lines, s.exemption) = data.lines

LEMMA SameTotals ==
  ASSUME NEW t \in TotalsRecord
  PROVE  t = [t EXCEPT !.prepayment = t.prepayment, !.due = t.due]
<1> DEFINE u == [t EXCEPT !.prepayment = t.prepayment, !.due = t.due]
<1>1. /\ u \in TotalsRecord /\ u.net = t.net /\ u.vat = t.vat /\ u.gross = t.gross
      /\ u.prepayment = t.prepayment /\ u.due = t.due
  BY DEF TotalsRecord
<1> HIDE DEF u
<1>2. u = t
  BY <1>1 DEF TotalsRecord
<1> QED
  BY <1>2 DEF u

LEMMA ComputedFollow ==
  ASSUME NEW data \in Data, NEW given, NEW stale, data.totals = TotalsOf(data.lines),
         "vatLines" \in given \/ stale \/ data.vatLines = VatLines(data.lines)
  PROVE  Follows(given, data, stale)
<1>1. data.lines \in Seq(FilledLine)
  BY DataIsStated
<1>2. /\ data.totals \in TotalsRecord /\ data.totals.due # Absent
      /\ data.totals.due = data.totals.gross - data.totals.prepayment
      /\ data.totals.net = Net(data.lines, DOMAIN data.lines)
      /\ data.totals.gross = data.totals.net + data.totals.vat
  BY <1>1, TotalsTyped
<1>3. data.totals = [TotalsOf(data.lines) EXCEPT !.prepayment = data.totals.prepayment,
                                                 !.due = data.totals.due]
  BY <1>2, SameTotals
<1> QED
  BY <1>2, <1>3 DEF Follows, Balances

LEMMA PayloadFollows ==
  ASSUME NEW data \in StatedData, NEW s \in Suppliers, NEW given, Balanced(given, data)
  PROVE  Follows(given, Enrich(data, s), FALSE) /\ Stamped(Enrich(data, s), s)
<1> DEFINE r == Enrich(data, s)
<1>1. Enriched(data, s, r)
  BY EnrichFills
<1>2. s.exemption \in Exemptions /\ data.lines \in Seq(StatedLine)
  BY SupplierFacts DEF StatedData
<1> HIDE DEF r
<1>3. Stamped(r, s)
  BY <1>1, <1>2, LinesStampedOnce DEF Stamped, Enriched
<1>4. r.lines = EnrichLines(data.lines, s.exemption)
      /\ r.totals = Or(data.totals, TotalsOf(r.lines)) /\ r.vatLines = Or(data.vatLines, VatLines(r.lines))
      /\ r \in Data
  BY <1>1 DEF Enriched
<1>5. "vatLines" \in given \/ r.vatLines = VatLines(r.lines)
  BY <1>4 DEF Balanced, Or
<1>6. CASE data.totals = Absent
  <2>1. r.totals = TotalsOf(r.lines)
    BY <1>4, <1>6 DEF Or
  <2>2. Follows(given, r, FALSE)
    BY <1>4, <1>5, <2>1, ComputedFollow
  <2> QED
    BY <1>3, <2>2 DEF r
<1>7. CASE data.totals # Absent
  <2>1. r.totals = data.totals /\ Balances(r.totals)
    BY <1>4, <1>7 DEF Or, Balanced
  <2>2. \/ "stated" \in given
        \/ "totals" \in given /\ Agree(r.lines, r.totals)
    BY <1>2, <1>4, <1>7, <2>1 DEF Balanced
  <2>3. Follows(given, r, FALSE)
    BY <1>5, <2>1, <2>2 DEF Follows, Agree
  <2> QED
    BY <1>3, <2>3 DEF r
<1> QED
  BY <1>6, <1>7

\* An edit that brings no lines: totals and a breakdown that it brings are among what
\* is given now.
Brings(old, given, data, now) ==
  /\ data.lines = old.lines
  /\ \/ /\ data.totals = old.totals
        /\ \A f \in {"totals", "stated"} : f \in now <=> f \in given
     \/ Balances(data.totals) /\ "stated" \in now
  /\ \/ data.vatLines = old.vatLines /\ ("vatLines" \in given => "vatLines" \in now)
     \/ "vatLines" \in now

LEMMA EditFollows ==
  ASSUME NEW old \in Data, NEW data \in StatedData, NEW s \in Suppliers,
         NEW given, NEW now, NEW stale \in BOOLEAN,
         Brings(old, given, data, now),
         Follows(given, old, stale), stale \/ Stamped(old, s)
  PROVE  Follows(now, Enrich(data, s), stale) /\ Stamped(Enrich(data, s), s)
<1> DEFINE r == Enrich(data, s)
<1>1. Enriched(data, s, r)
  BY EnrichFills
<1>2. data.lines = old.lines /\ s.exemption \in Exemptions
      /\ data.lines \in Seq(StatedLine) /\ data.lines \in Seq(FilledLine)
  BY SupplierFacts, DataIsStated DEF StatedData, Brings
<1> HIDE DEF r
<1>3. Stamped(r, s)
  BY <1>1, <1>2, LinesStampedOnce DEF Stamped, Enriched
<1>4. r.lines = EnrichLines(old.lines, s.exemption)
      /\ r.totals = Or(data.totals, TotalsOf(r.lines)) /\ r.vatLines = Or(data.vatLines, VatLines(r.lines))
      /\ r \in Data
  BY <1>1, <1>2 DEF Enriched
<1>5. TotalsOf(r.lines) = TotalsOf(old.lines)
      /\ Net(r.lines, DOMAIN r.lines) = Net(old.lines, DOMAIN old.lines)
  BY <1>2, <1>4, TotalsKept
<1>6. "vatLines" \in now \/ stale \/ r.vatLines = VatLines(r.lines)
  <2>1. ASSUME "vatLines" \notin now, ~stale PROVE r.vatLines = VatLines(r.lines)
    <3>1. r.lines = old.lines
      BY <1>4, <2>1 DEF Stamped
    <3>2. data.vatLines = old.vatLines /\ old.vatLines = VatLines(old.lines)
      BY <2>1 DEF Follows, Brings
    <3> QED
      BY <1>4, <3>1, <3>2 DEF Or
  <2> QED
    BY <2>1
<1>7. CASE data.totals = Absent
  <2>1. r.totals = TotalsOf(r.lines)
    BY <1>4, <1>7 DEF Or
  <2>2. Follows(now, r, stale)
    BY <1>4, <1>6, <2>1, ComputedFollow
  <2> QED
    BY <1>3, <2>2 DEF r
<1>8. CASE data.totals # Absent
  <2>1. r.totals = data.totals
    BY <1>4, <1>8 DEF Or
  <2>2. CASE data.totals = old.totals /\ \A f \in {"totals", "stated"} : f \in now <=> f \in given
    BY <1>3, <1>5, <1>6, <2>1, <2>2 DEF Follows, r
  <2>3. CASE Balances(data.totals) /\ "stated" \in now
    BY <1>3, <1>6, <2>1, <2>3 DEF Follows, r
  <2> QED
    BY <2>2, <2>3 DEF Brings
<1> QED
  BY <1>7, <1>8

Paid(t, payment) == [t EXCEPT !.prepayment = payment, !.due = t.gross - payment]

LEMMA PaidTotals ==
  ASSUME NEW t \in TotalsRecord, NEW payment \in Nat
  PROVE  /\ Paid(t, payment) \in TotalsRecord
         /\ Paid(t, payment).net = t.net /\ Paid(t, payment).vat = t.vat
         /\ Paid(t, payment).gross = t.gross /\ Paid(t, payment).prepayment = payment
         /\ Paid(t, payment).due = t.gross - payment /\ Paid(t, payment).due # Absent
<1> DEFINE due == t.gross - payment
           u == [t EXCEPT !.prepayment = payment, !.due = due]
<1>1. due \in Int
  BY DEF TotalsRecord
<1>2. Paid(t, payment) = u
  BY DEF Paid
<1> HIDE DEF due
<1>3. /\ u \in TotalsRecord /\ u.net = t.net /\ u.vat = t.vat
      /\ u.gross = t.gross /\ u.prepayment = payment /\ u.due = due
  BY <1>1 DEF TotalsRecord
<1> QED
  BY <1>1, <1>2, <1>3, PayloadAssumption DEF due

\* The data that validate_invoice leaves: a payment is deducted, a note is added.
Validated(x, data, flow, given, stale) ==
  /\ x \in Data
  /\ x.lines = data.lines /\ x.vatLines = data.vatLines /\ x.references = data.references
  /\ x.totals.gross = data.totals.gross
  /\ Follows(given, x, stale)
  /\ \/ \E n \in Or(data.notes, {}) : n.code = "BAR" /\ x.notes = data.notes
     \/ /\ \A n \in Or(data.notes, {}) : n.code # "BAR"
        /\ x.notes = Or(data.notes, {}) \union {Bar(BarValue[flow])}

LEMMA ValidatedData ==
  ASSUME NEW data \in Data, NEW payment \in Nat, NEW flow \in Flows, NEW given, NEW stale \in BOOLEAN,
         Follows(given, data, stale)
  PROVE  Validated(WithBar(WithPrepayment(data, payment), BarValue[flow]), data, flow, given, stale)
<1> DEFINE paid == WithPrepayment(data, payment)
           r == WithBar(paid, BarValue[flow])
           u == Paid(data.totals, payment)
<1>1. data.totals \in TotalsRecord
  BY DataIsStated
<1>2. /\ u \in TotalsRecord /\ u.net = data.totals.net /\ u.vat = data.totals.vat
      /\ u.gross = data.totals.gross /\ u.due # Absent /\ u.due = u.gross - u.prepayment
  BY <1>1, PaidTotals
<1>3. ASSUME NEW t, data.totals = [t EXCEPT !.prepayment = data.totals.prepayment,
                                            !.due = data.totals.due], t \in TotalsRecord
      PROVE  u = [t EXCEPT !.prepayment = u.prepayment, !.due = u.due]
  <2>1. u.prepayment = payment /\ u.due = data.totals.gross - payment
    BY <1>1, PaidTotals
  <2>2. t.net = data.totals.net /\ t.vat = data.totals.vat /\ t.gross = data.totals.gross
    BY <1>3 DEF TotalsRecord
  <2> DEFINE w == [t EXCEPT !.prepayment = u.prepayment, !.due = u.due]
  <2>3. /\ w \in TotalsRecord /\ w.net = t.net /\ w.vat = t.vat /\ w.gross = t.gross
        /\ w.prepayment = u.prepayment /\ w.due = u.due
    <3>1. u.prepayment \in Nat /\ u.due \in Int \union {Absent}
      BY <1>2 DEF TotalsRecord
    <3> HIDE DEF u
    <3> QED
      BY <1>3, <3>1 DEF TotalsRecord
  <2> HIDE DEF u, w
  <2>4. u = w
    BY <1>2, <2>2, <2>3 DEF TotalsRecord
  <2> QED
    BY <2>4 DEF w
<1>4. /\ paid \in Data /\ paid.lines = data.lines /\ paid.vatLines = data.vatLines
      /\ paid.references = data.references /\ paid.notes = data.notes
      /\ paid.totals = data.totals \/ paid.totals = u
  <2>1. CASE payment = 0
    BY <2>1 DEF WithPrepayment
  <2>2. CASE payment # 0
    <3>1. paid = [data EXCEPT !.totals = u]
      <4>1. paid = [data EXCEPT !.totals.prepayment = payment, !.totals.due = data.totals.gross - payment]
        BY <2>2 DEF WithPrepayment
      <4> QED
        BY <4>1 DEF Data, Paid
    <3> HIDE DEF u, paid
    <3> QED
      BY <1>2, <3>1 DEF Data, TotalsRecord
  <2> QED
    BY <2>1, <2>2
<1>5. paid.lines \in Seq(FilledLine) /\ TotalsOf(paid.lines) \in TotalsRecord
  <2>1. paid.lines \in Seq(FilledLine)
    BY <1>4, DataIsStated
  <2> QED
    BY <2>1, TotalsTyped
<1>6. Follows(given, paid, stale)
  <2>1. CASE paid.totals = data.totals
    BY <1>4, <2>1 DEF Follows
  <2>2. CASE paid.totals = u
    <3> HIDE DEF u, paid
    <3>1. Balances(paid.totals) /\ paid.totals.due # Absent
      BY <1>2, <2>2 DEF Balances
    <3>2. "vatLines" \in given \/ stale \/ paid.vatLines = VatLines(paid.lines)
      BY <1>4 DEF Follows
    <3>3. ASSUME "stated" \notin given, "totals" \in given
          PROVE  /\ paid.totals.net = Net(paid.lines, DOMAIN paid.lines)
                 /\ paid.totals.gross = paid.totals.net + paid.totals.vat
      BY <1>2, <1>4, <2>2, <3>3 DEF Follows
    <3>4. ASSUME "stated" \notin given, "totals" \notin given
          PROVE  paid.totals = [TotalsOf(paid.lines) EXCEPT !.prepayment = paid.totals.prepayment,
                                                            !.due = paid.totals.due]
      <4>1. data.totals = [TotalsOf(data.lines) EXCEPT !.prepayment = data.totals.prepayment,
                                                       !.due = data.totals.due]
        BY <3>4 DEF Follows
      <4> QED
        BY <1>3, <1>4, <1>5, <2>2, <4>1
    <3> QED
      BY <3>1, <3>2, <3>3, <3>4 DEF Follows
  <2> QED
    BY <1>4, <2>1, <2>2
<1>7. /\ r \in Data /\ r.lines = paid.lines /\ r.vatLines = paid.vatLines
      /\ r.references = paid.references /\ r.totals = paid.totals
      /\ \/ \E n \in Or(paid.notes, {}) : n.code = "BAR" /\ r.notes = paid.notes
         \/ /\ \A n \in Or(paid.notes, {}) : n.code # "BAR"
            /\ r.notes = Or(paid.notes, {}) \union {Bar(BarValue[flow])}
  <2>1. Bar(BarValue[flow]) \in BarNotes
    BY DEF BarNotes
  <2> DEFINE bar == Bar(BarValue[flow])
             notes == Or(paid.notes, {})
  <2>2. notes \in SUBSET (Notes \union BarNotes)
    BY <1>4, DataIsStated DEF Or, NoteChoices
  <2>3. r = IF \E n \in notes : n.code = "BAR" THEN paid ELSE [paid EXCEPT !.notes = notes \union {bar}]
    BY DEF WithBar
  <2> HIDE DEF bar, notes, r, paid
  <2>4. CASE \E n \in notes : n.code = "BAR"
    <3>1. r = paid
      BY <2>3, <2>4
    <3> QED
      BY <1>4, <2>4, <3>1 DEF notes
  <2>5. CASE \A n \in notes : n.code # "BAR"
    <3>1. r = [paid EXCEPT !.notes = notes \union {bar}]
      BY <2>3, <2>5
    <3>2. notes \union {bar} \in SUBSET (Notes \union BarNotes)
      BY <2>1, <2>2 DEF bar
    <3>3. r \in Data /\ r.lines = paid.lines /\ r.vatLines = paid.vatLines
          /\ r.references = paid.references /\ r.totals = paid.totals
          /\ r.notes = notes \union {bar}
      BY <1>4, <3>1, <3>2 DEF Data
    <3> QED
      BY <2>5, <3>3 DEF notes, bar
  <2> QED
    BY <2>4, <2>5
<1>8. Follows(given, r, stale)
  <2> HIDE DEF r, paid
  <2> QED
    BY <1>6, <1>7 DEF Follows
<1>9. r.totals.gross = data.totals.gross
  <2> HIDE DEF r, paid, u
  <2> QED
    BY <1>2, <1>4, <1>7
<1> HIDE DEF paid, r
<1> QED
  BY <1>4, <1>7, <1>8, <1>9 DEF Validated, r, paid

----------------------------------------------------------------------------
(* Customers, flows and notes.                                             *)

LEMMA CustomersAre ==
  /\ Customers \subseteq [type : CustomerTypes \union {""}, who : Identities]
  /\ Records \subseteq Customers
<1>1. \A i \in Identities : SuggestCustomerType(i) \in CustomerTypes
  BY DEF SuggestCustomerType, Identities, Places, Seat, CustomerTypes
<1>2. ASSUME NEW c \in Recipients
      PROVE  Saved(c) \in [type : CustomerTypes \union {""}, who : Identities]
  <2>1. c \in [type : CustomerTypes \union {""}, who : Identities]
    BY DraftingAssumption
  <2>2. SuggestCustomerType(c.who) \in CustomerTypes
    BY <1>1, <2>1
  <2> QED
    BY <2>1, <2>2 DEF Saved
<1>3. Recipients \subseteq [type : CustomerTypes \union {""}, who : Identities]
  BY DraftingAssumption
<1>4. Records \subseteq [type : CustomerTypes \union {""}, who : Identities]
  BY <1>2 DEF Records
<1> QED
  BY <1>3, <1>4 DEF Customers

FlowOf(c) == DetectFlow(c.type, c.who)

LEMMA FlowsAre ==
  ASSUME NEW c \in Customers
  PROVE  FlowOf(c) \in Flows /\ FlowOf(c) # ""
<1>1. c.type \in CustomerTypes \union {""} /\ c.who \in Identities
  BY CustomersAre
<1>2. ASSUME NEW i \in Identities PROVE DetectFromRecipient(i) \in Flows
  <2>1. i.siren \in BOOLEAN /\ i.vat \in Places /\ i.country \in Places
    BY DEF Identities
  <2>2. Seat(i) = IF i.vat # "" THEN i.vat ELSE i.country
    BY DEF Seat
  <2>3. CASE i.siren \/ i.vat = "FR"
    BY <2>3 DEF DetectFromRecipient, Flows
  <2>4. CASE ~ i.siren /\ i.vat # "FR"
    <3>1. \/ Seat(i) = "EU" \/ Seat(i) = "other"
          \/ i.vat = "" /\ i.country \in {"", "FR"}
      BY <2>1, <2>2, <2>4 DEF Places
    <3> QED
      BY <2>2, <2>4, <3>1 DEF DetectFromRecipient, Flows
  <2> QED
    BY <2>3, <2>4
<1>3. c.type # "" => FlowOfType[c.type] \in Flows
  <2>1. /\ FlowOfType["assujetti_fr"] = "b2b_domestic" /\ FlowOfType["intra_ue"] = "b2b_intra_eu"
        /\ FlowOfType["extra_ue"] = "b2b_extra_eu" /\ FlowOfType["particulier"] = "b2c"
        /\ FlowOfType["public"] = "b2g"
    BY DEF FlowOfType
  <2> QED
    BY <1>1, <2>1 DEF CustomerTypes, Flows
<1>4. FlowOf(c) \in Flows
  BY <1>1, <1>2, <1>3 DEF FlowOf, DetectFlow
<1> QED
  BY <1>4 DEF Flows

Bars(notes) == {n \in Or(notes, {}) : n.code = "BAR"}

LEMMA BarsAre ==
  /\ \A flow : Bar(flow).code = "BAR"
  /\ \A notes \in {Absent} \union SUBSET Notes : Bars(notes) = {}
<1>1. \A flow : Bar(flow).code = "BAR"
  BY DEF Bar
<1>2. ASSUME NEW notes \in {Absent} \union SUBSET Notes PROVE Bars(notes) = {}
  BY DraftingAssumption DEF Bars, Or
<1> QED
  BY <1>1, <1>2

\* What is filled in brings no such note.
LEMMA BarsKept ==
  ASSUME NEW data \in StatedData, NEW s \in Suppliers
  PROVE  Bars(Enrich(data, s).notes) \subseteq Bars(data.notes)
<1> DEFINE r == Enrich(data, s)
<1>1. r.notes = IF data.notes = Absent /\ s.notes # {} THEN s.notes ELSE data.notes
  BY EnrichFills DEF Enriched
<1>2. Bars(s.notes) = {}
  BY SupplierFacts, BarsAre
<1> HIDE DEF r
<1>3. Bars(r.notes) \subseteq Bars(data.notes)
  BY <1>1, <1>2
<1> QED
  BY <1>3 DEF r

----------------------------------------------------------------------------
(* Rows.                                                                   *)

\* What holds of every document: its part of TotalsFollowLines, of FlowTold and of
\* CreditedInFull, each with what it rests on.
SoundTotals(r, stale, s) ==
  /\ Follows(r.given, r.data, stale)
  /\ stale \/ Stamped(r.data, s)

SoundFlow(r, turn) ==
  /\ r.status # "draft" => r.flow # "" /\ Bars(r.data.notes) # {}
  /\ ~turn /\ r.flow # "" => r.flow = FlowOf(r.customer)
  /\ \A n \in Bars(r.data.notes) :
       /\ r.preceding = Nothing => r.flow # "" /\ n = Bar(BarValue[r.flow])
       /\ ~turn => n = Bar(BarValue[FlowOf(r.customer)])

Named(r) == r.named => r.preceding # Nothing /\ r.data.references.preceding = TRUE

Sound(r, turn, stale, s) == SoundTotals(r, stale, s) /\ SoundFlow(r, turn) /\ Named(r)

\* A new document.
LEMMA SoundDraft ==
  ASSUME NEW q, NEW turn, NEW stale, NEW s,
         q.status = "draft", q.flow = "", Bars(q.data.notes) = {},
         Follows(q.given, q.data, FALSE), Stamped(q.data, s), Named(q)
  PROVE  Sound(q, turn, stale, s)
<1>1. SoundTotals(q, stale, s)
  BY DEF Follows, SoundTotals
<1>2. SoundFlow(q, turn)
  BY DEF SoundFlow
<1> QED
  BY <1>1, <1>2 DEF Sound

\* An edit of a draft.
LEMMA SoundEdit ==
  ASSUME NEW r, NEW q, NEW turn, NEW stale, NEW s, Sound(r, turn, stale, s),
         q.status = "draft", q.flow = r.flow, q.customer = r.customer,
         q.preceding = r.preceding,
         Bars(q.data.notes) \subseteq Bars(r.data.notes),
         SoundTotals(q, stale, s), Named(q)
  PROVE  Sound(q, turn, stale, s)
<1>1. SoundFlow(q, turn)
  BY DEF SoundFlow, Sound
<1> QED
  BY <1>1 DEF Sound

DraftOf(q, data, c) ==
  /\ q \in Document
  /\ q.status = "draft" /\ q.flow = "" /\ q.customer = c /\ q.preceding = Nothing
  /\ q.named = FALSE /\ q.given = Given(data) /\ q.data = Enrich(data, supplier)

LEMMA DraftRow ==
  ASSUME NEW data \in StatedData, NEW c \in Customers, NEW numbered \in BOOLEAN,
         NEW external \in BOOLEAN, supplier \in Suppliers
  PROVE  DraftOf(Draft(data, c, numbered, external), data, c)
<1> DEFINE q == Draft(data, c, numbered, external)
           filled == Enrich(data, supplier)
           given == Given(data)
<1>1. filled \in Data /\ given \in SUBSET {"totals", "vatLines", "stated"}
  BY EnrichFills DEF Enriched, Given
<1>2. q = [status |-> "draft", numbered |-> numbered, preceding |-> Nothing, customer |-> c,
           flow |-> "", payment |-> 0, external |-> external, named |-> FALSE,
           given |-> given, data |-> filled]
  BY DEF Draft
<1> HIDE DEF q, filled, given
<1>3. /\ q \in Document
      /\ q.status = "draft" /\ q.flow = "" /\ q.customer = c /\ q.preceding = Nothing
      /\ q.given = given /\ q.data = filled
  BY <1>1, <1>2 DEF Document
<1>4. q.named = FALSE
  BY <1>2
<1> QED
  BY <1>3, <1>4 DEF DraftOf, q, filled, given

SameBut(q, r, x, given, named) ==
  /\ q \in Document
  /\ q.status = r.status /\ q.flow = r.flow /\ q.customer = r.customer
  /\ q.preceding = r.preceding /\ q.named = named
  /\ q.given = given /\ q.data = x

LEMMA EditedRow ==
  ASSUME NEW r \in Document, NEW x \in Data, NEW given \in SUBSET {"totals", "vatLines", "stated"},
         NEW named \in BOOLEAN
  PROVE  /\ SameBut([Edited(r, x) EXCEPT !.given = given], r, x, given, r.named)
         /\ SameBut([Edited(r, x) EXCEPT !.named = named], r, x, r.given, named)
         /\ SameBut(Edited(r, x), r, x, r.given, r.named)
<1>1. ASSUME NEW g \in SUBSET {"totals", "vatLines", "stated"}, NEW q,
             q = [r EXCEPT !.data = x, !.given = g] \/ (g = r.given /\ q = [r EXCEPT !.data = x])
      PROVE  SameBut(q, r, x, g, r.named)
  <2>1. /\ q \in Document
        /\ q.status = r.status /\ q.flow = r.flow /\ q.customer = r.customer
        /\ q.preceding = r.preceding /\ q.given = g /\ q.data = x
    BY <1>1 DEF Document
  <2>2. q.named = r.named
    BY Zenon, <1>1 DEF Document
  <2> QED
    BY <2>1, <2>2 DEF SameBut
<1>2. r.given \in SUBSET {"totals", "vatLines", "stated"}
  BY DEF Document
<1>3. [Edited(r, x) EXCEPT !.given = given] = [r EXCEPT !.data = x, !.given = given]
  BY DEF Edited, Document
<1>4. SameBut([Edited(r, x) EXCEPT !.named = named], r, x, r.given, named)
  <2> DEFINE q == [r EXCEPT !.data = x, !.named = named]
  <2>1. [Edited(r, x) EXCEPT !.named = named] = q
    BY DEF Edited, Document
  <2>2. /\ q \in Document
        /\ q.status = r.status /\ q.flow = r.flow /\ q.customer = r.customer
        /\ q.preceding = r.preceding /\ q.given = r.given /\ q.data = x
    BY DEF Document
  <2>3. q.named = named
    BY Zenon DEF Document
  <2> HIDE DEF q
  <2> QED
    BY <2>1, <2>2, <2>3 DEF SameBut
<1> QED
  BY <1>1, <1>2, <1>3, <1>4 DEF Edited

----------------------------------------------------------------------------
(* The invariant.                                                          *)

\* A BAR note comes from a flow that was detected.
BarsTold ==
  \A d \in Documents : Exists(d) /\ Bars(doc[d].data.notes) # {} =>
    \E o \in Documents : Exists(o) /\ doc[o].flow # ""

Credits(n, o) ==
  /\ Exists(n) /\ doc[n].preceding = o
  /\ \/ n \in late
     \/ /\ doc[n].status \notin {"draft", "processing"}
        /\ doc[n].data.totals.gross = doc[o].data.totals.gross

Cancelled == \A o \in Documents : doc[o].status = "cancelled" => \E n \in Documents : Credits(n, o)

AllSound == \A d \in Documents : Exists(d) => Sound(doc[d], turned, restamped, supplier)

Inv == DraftingTypeOK /\ AllSound /\ BarsTold /\ Cancelled

LEMMA RowsAre ==
  ASSUME DraftingTypeOK, NEW d \in Documents
  PROVE  /\ Exists(d) => doc[d] \in Document
         /\ ~Exists(d) => doc[d].status = "none"
         /\ doc[d].status \in {"none", "draft", "processing", "validated", "transmitted", "cancelled"}
<1>1. doc[d] \in Document \/ doc[d] = NoDocument
  BY DEF DraftingTypeOK
<1>2. CASE doc[d] \in Document
  BY <1>2 DEF Exists, Document
<1>3. CASE doc[d] = NoDocument
  BY <1>3 DEF Exists, NoDocument
<1> QED
  BY <1>1, <1>2, <1>3

\* One document is written, nothing else changes but the bound on the edits.
LEMMA PutKeeps ==
  ASSUME Inv, NEW d \in Documents, NEW r \in Document, Put(d, r),
         supplier' = supplier, edits' \in 0..MaxEdits, restamped' = restamped,
         turned' = turned, late' = late,
         Sound(r, turned, restamped, supplier),
         r.status # "cancelled",
         Bars(r.data.notes) # {} =>
           r.flow # "" \/ \E o \in Documents : Exists(o) /\ Bars(doc[o].data.notes) # {},
         Exists(d) =>
           /\ r.preceding = doc[d].preceding
           /\ doc[d].flow # "" => r.flow # ""
           /\ \/ doc[d].status \in {"draft", "processing"}
              \/ r.status \notin {"draft", "processing"} /\ r.data = doc[d].data
  PROVE  Inv'
<1>1. DraftingTypeOK /\ AllSound /\ BarsTold /\ Cancelled
  BY DEF Inv
<1>2. r.status # "none"
  BY DEF Document
<1>3. /\ doc'[d] = r
      /\ \A o \in Documents : o # d => doc'[o] = doc[o]
      /\ DOMAIN doc = Documents
  BY <1>1 DEF Put, DraftingTypeOK
<1>4. DraftingTypeOK'
  BY <1>1, <1>3 DEF DraftingTypeOK, Put
<1>5. AllSound'
  <2>1. ASSUME NEW o \in Documents, Exists(o)'
        PROVE  Sound(doc'[o], turned, restamped, supplier)
    BY <1>1, <1>3, <2>1 DEF AllSound, Exists
  <2> QED
    BY <2>1 DEF AllSound
<1>6. BarsTold'
  <2>1. ASSUME NEW o \in Documents, Exists(o)', Bars(doc'[o].data.notes) # {}
        PROVE  \E u \in Documents : Exists(u)' /\ doc'[u].flow # ""
    <3>1. CASE o = d
      <4>1. CASE r.flow # ""
        BY <1>2, <1>3, <4>1 DEF Exists
      <4>2. CASE \E u \in Documents : Exists(u) /\ Bars(doc[u].data.notes) # {}
        <5>1. PICK v \in Documents : Exists(v) /\ doc[v].flow # ""
          BY <1>1, <4>2 DEF BarsTold
        <5> QED
          BY <1>2, <1>3, <5>1 DEF Exists
      <4> QED
        BY <1>3, <2>1, <3>1, <4>1, <4>2
    <3>2. CASE o # d
      <4>1. Exists(o) /\ Bars(doc[o].data.notes) # {}
        BY <1>3, <2>1, <3>2 DEF Exists
      <4>2. PICK v \in Documents : Exists(v) /\ doc[v].flow # ""
        BY <1>1, <4>1 DEF BarsTold
      <4> QED
        BY <1>2, <1>3, <4>2 DEF Exists
    <3> QED
      BY <3>1, <3>2
  <2> QED
    BY <2>1 DEF BarsTold
<1>7. Cancelled'
  <2>1. ASSUME NEW o \in Documents, doc'[o].status = "cancelled"
        PROVE  \E n \in Documents : Credits(n, o)'
    <3>1. o # d /\ doc'[o] = doc[o]
      BY <1>3, <2>1
    <3>2. PICK n \in Documents : Credits(n, o)
      BY <1>1, <2>1, <3>1 DEF Cancelled
    <3>3. CASE n # d
      BY <1>3, <3>1, <3>2, <3>3 DEF Credits, Exists
    <3>4. CASE n = d
      <4>1. Exists(n)' /\ doc'[n].preceding = o
        BY <1>2, <1>3, <3>2, <3>4 DEF Credits, Exists
      <4>2. CASE n \in late
        BY <4>1, <4>2 DEF Credits
      <4>3. CASE n \notin late
        <5>1. doc[n].status \notin {"draft", "processing"}
              /\ doc[n].data.totals.gross = doc[o].data.totals.gross
          BY <3>2, <4>3 DEF Credits
        <5>2. r.status \notin {"draft", "processing"} /\ r.data = doc[n].data
          BY <3>2, <3>4, <5>1 DEF Credits
        <5> QED
          BY <1>3, <3>1, <3>4, <4>1, <5>1, <5>2 DEF Credits
      <4> QED
        BY <4>2, <4>3
    <3> QED
      BY <3>3, <3>4
  <2> QED
    BY <2>1 DEF Cancelled
<1> QED
  BY <1>4, <1>5, <1>6, <1>7 DEF Inv


----------------------------------------------------------------------------
(* Documents that are new, and edits of drafts.                            *)

LEMMA NewKeeps ==
  ASSUME Inv, NEW d \in Documents, ~Exists(d), NEW r \in Document, Put(d, r),
         UNCHANGED <<supplier, edits, turned, restamped, late>>,
         r.status # "cancelled", Sound(r, turned, restamped, supplier),
         Bars(r.data.notes) # {} =>
           \E o \in Documents : Exists(o) /\ Bars(doc[o].data.notes) # {}
  PROVE  Inv'
<1>1. edits \in 0..MaxEdits
  BY DEF Inv, DraftingTypeOK
<1> QED
  BY <1>1, PutKeeps

LEMMA CreateKeeps ==
  ASSUME Inv, NEW d \in Documents, NEW data \in PayloadData, NEW c \in Customers,
         Create(d, data, c)
  PROVE  Inv'
<1> DEFINE r == Draft(data, c, FALSE, FALSE)
<1>1. supplier \in Suppliers
  BY DEF Inv, DraftingTypeOK
<1>2. data \in StatedData /\ data.notes \in NoteSets /\ Balanced(Given(data), data)
  BY PayloadStated
<1>3. /\ r \in Document
      /\ r.status = "draft" /\ r.flow = "" /\ r.customer = c /\ r.preceding = Nothing
      /\ r.named = FALSE /\ r.given = Given(data) /\ r.data = Enrich(data, supplier)
  <2>1. DraftOf(r, data, c)
    BY <1>1, <1>2, DraftRow
  <2> QED
    BY <2>1 DEF DraftOf
<1>4. ~Exists(d) /\ Put(d, r) /\ UNCHANGED <<supplier, edits, turned, restamped, late>>
  BY DEF Create, First
<1> HIDE DEF r
<1>5. Bars(r.data.notes) = {}
  <2>1. data.notes \in {Absent} \union SUBSET Notes
    BY <1>2, DraftingAssumption
  <2>2. Bars(data.notes) = {}
    BY <2>1, BarsAre
  <2> QED
    BY <1>1, <1>2, <1>3, <2>2, BarsKept
<1>6. Follows(r.given, r.data, FALSE) /\ Stamped(r.data, supplier)
  BY <1>1, <1>2, <1>3, PayloadFollows
<1>7. Named(r)
  BY <1>3 DEF Named
<1>8. Sound(r, turned, restamped, supplier)
  BY <1>3, <1>5, <1>6, <1>7, SoundDraft
<1> QED
  BY <1>3, <1>4, <1>5, <1>8, NewKeeps

LEMMA ImportInvoiceKeeps ==
  ASSUME Inv, NEW d \in Documents, NEW invoice \in StripeInvoices, NEW c \in Customers,
         ImportInvoice(d, invoice, c)
  PROVE  Inv'
<1>1. supplier \in Suppliers
  BY DEF Inv, DraftingTypeOK
<1> DEFINE data == StripeData(invoice)
<1>2. data \in StatedData /\ data.notes = Absent /\ Balanced(Given(data), data)
  BY StripeStated
<1>3. PICK numbered \in BOOLEAN : Put(d, Draft(data, c, numbered, TRUE))
  BY DEF ImportInvoice
<1> DEFINE r == Draft(data, c, numbered, TRUE)
<1> HIDE DEF data
<1>4. /\ r \in Document
      /\ r.status = "draft" /\ r.flow = "" /\ r.customer = c /\ r.preceding = Nothing
      /\ r.named = FALSE /\ r.given = Given(data) /\ r.data = Enrich(data, supplier)
  <2>1. TRUE \in BOOLEAN
    OBVIOUS
  <2>2. DraftOf(r, data, c)
    BY <1>1, <1>2, <2>1, DraftRow, Zenon
  <2> QED
    BY <2>2 DEF DraftOf
<1>5. ~Exists(d) /\ Put(d, r) /\ UNCHANGED <<supplier, edits, turned, restamped, late>>
  BY <1>3 DEF ImportInvoice, First
<1> HIDE DEF r
<1>6. Bars(r.data.notes) = {}
  <2>1. Bars(data.notes) = {}
    BY <1>2, BarsAre
  <2> QED
    BY <1>1, <1>2, <1>4, <2>1, BarsKept
<1>7. Follows(r.given, r.data, FALSE) /\ Stamped(r.data, supplier)
  BY <1>1, <1>2, <1>4, PayloadFollows
<1>8. Named(r)
  BY <1>4 DEF Named
<1>9. Sound(r, turned, restamped, supplier)
  BY <1>4, <1>6, <1>7, <1>8, SoundDraft
<1> QED
  BY <1>4, <1>5, <1>6, <1>9, NewKeeps

LEMMA ImportCreditNoteKeeps ==
  ASSUME Inv, NEW d \in Documents, NEW n \in Documents, NEW note \in StripeCreditNotes,
         ImportCreditNote(d, n, note)
  PROVE  Inv'
<1>1. supplier \in Suppliers /\ doc[d] \in Document /\ ~Exists(n)
  BY RowsAre DEF Inv, DraftingTypeOK, ImportCreditNote
<1> DEFINE data == CreditNoteData(note, doc[d])
           q == Draft(data, doc[d].customer, TRUE, TRUE)
           r == [q EXCEPT !.preceding = d, !.named = doc[d].numbered]
<1>2. /\ doc[d].customer \in Customers /\ doc[d].data.lines \in Seq(FilledLine)
      /\ doc[d].numbered \in BOOLEAN
  BY <1>1, DataIsStated DEF Document
<1>3. /\ data \in StatedData /\ data.notes = Absent /\ Balanced(Given(data), data)
      /\ data.references # Absent
      /\ data.references.preceding = IF doc[d].numbered THEN TRUE ELSE Absent
  BY <1>2, CreditNoteStated
<1>4. Put(n, r) /\ UNCHANGED <<supplier, edits, turned, restamped, late>>
  BY DEF ImportCreditNote
<1> HIDE DEF data
<1>5. /\ q \in Document
      /\ q.status = "draft" /\ q.flow = "" /\ q.customer = doc[d].customer
      /\ q.given = Given(data) /\ q.data = Enrich(data, supplier)
  <2>1. TRUE \in BOOLEAN
    OBVIOUS
  <2>2. DraftOf(q, data, doc[d].customer)
    BY <1>1, <1>2, <1>3, <2>1, DraftRow, Zenon
  <2> QED
    BY <2>2 DEF DraftOf
<1> HIDE DEF q
<1>6. /\ r \in Document /\ r.preceding = d
      /\ r.status = "draft" /\ r.flow = "" /\ r.customer = doc[d].customer
      /\ r.given = Given(data) /\ r.data = Enrich(data, supplier)
  BY <1>2, <1>5 DEF Document
<1>7. r.named = doc[d].numbered
  BY <1>5 DEF Document
<1> HIDE DEF r
<1>8. Bars(r.data.notes) = {}
  <2>1. Bars(data.notes) = {}
    BY <1>3, BarsAre
  <2> QED
    BY <1>1, <1>3, <1>6, <2>1, BarsKept
<1>9. Follows(r.given, r.data, FALSE) /\ Stamped(r.data, supplier)
  BY <1>1, <1>3, <1>6, PayloadFollows
<1>10. Named(r)
  <2>1. r.data.references.preceding = data.references.preceding
    <3>1. Enriched(data, supplier, r.data)
      BY <1>1, <1>3, <1>6, EnrichFills
    <3> QED
      BY <1>3, <3>1 DEF Enriched
  <2>2. r.preceding # Nothing
    BY <1>6, DraftingAssumption
  <2>3. ASSUME r.named PROVE data.references.preceding = TRUE
    BY <1>3, <1>7, <2>3
  <2> QED
    BY <2>1, <2>2, <2>3 DEF Named
<1>11. Sound(r, turned, restamped, supplier)
  BY <1>6, <1>8, <1>9, <1>10, SoundDraft
<1> QED
  BY <1>1, <1>4, <1>6, <1>8, <1>11, NewKeeps


LEMMA DraftEditKeeps ==
  ASSUME Inv, NEW d \in Documents, doc[d].status = "draft", Counted,
         NEW x \in Data, NEW given, NEW named \in BOOLEAN, NEW q,
         SameBut(q, doc[d], x, given, named), Put(d, q),
         UNCHANGED <<supplier, turned, restamped, late>>,
         Bars(x.notes) \subseteq Bars(doc[d].data.notes),
         Follows(given, x, restamped), restamped \/ Stamped(x, supplier),
         named => /\ doc[d].named
                  /\ x.references.preceding \in {doc[d].data.references.preceding, TRUE}
  PROVE  Inv'
<1>1. Exists(d) /\ doc[d] \in Document /\ Sound(doc[d], turned, restamped, supplier)
  <2>1. DraftingTypeOK /\ AllSound
    BY DEF Inv
  <2>2. Exists(d)
    BY DEF Exists
  <2> QED
    BY <2>1, <2>2, RowsAre DEF AllSound
<1>2. edits' \in 0..MaxEdits
  <2>1. edits \in 0..MaxEdits /\ MaxEdits \in Nat
    BY DraftingAssumption DEF Inv, DraftingTypeOK
  <2> QED
    BY <2>1 DEF Counted
<1>3. /\ q \in Document /\ q.status = "draft" /\ q.flow = doc[d].flow
      /\ q.customer = doc[d].customer /\ q.preceding = doc[d].preceding
      /\ q.given = given /\ q.data = x
  BY DEF SameBut
<1>4. q.named = named
  BY DEF SameBut
<1>5. SoundTotals(q, restamped, supplier)
  BY <1>3 DEF SoundTotals
<1>6. Named(q)
  <2>1. Named(doc[d])
    BY <1>1 DEF Sound
  <2> QED
    BY <1>3, <1>4, <2>1 DEF Named
<1>7. Sound(q, turned, restamped, supplier)
  BY <1>1, <1>3, <1>5, <1>6, SoundEdit
<1>8. Bars(q.data.notes) # {} => \E o \in Documents : Exists(o) /\ Bars(doc[o].data.notes) # {}
  BY <1>1, <1>3
<1>9. q.status # "cancelled" /\ (doc[d].flow # "" => q.flow # "")
  BY <1>3
<1> QED
  BY <1>1, <1>2, <1>3, <1>7, <1>8, <1>9, PutKeeps

LEMMA ReferencesAre ==
  /\ Absent \notin StatedReference
  /\ Reference \subseteq StatedReference
  /\ \A data \in Data : data.references \in Reference /\ data.references # Absent
<1>1. Absent \notin StatedReference
  BY DraftingAssumption
<1>2. Reference \subseteq StatedReference
  BY DEF Reference, StatedReference
<1> QED
  BY <1>1, <1>2, DataIsStated

LEMMA UpdateLinesKeeps ==
  ASSUME Inv, NEW d \in Documents, NEW lines \in LineLists, UpdateLines(d, lines)
  PROVE  Inv'
<1> DEFINE r == doc[d]
           data == WithLines(r.data, lines)
           x == Enrich(data, supplier)
           q == [Edited(r, x) EXCEPT !.given = {}]
<1>1. r.status = "draft" /\ r \in Document /\ supplier \in Suppliers /\ r.data \in Data
  BY RowsAre DEF UpdateLines, Exists, Inv, DraftingTypeOK, Document
<1>2. /\ data \in StatedData /\ data.totals = Absent /\ data.vatLines = Absent
      /\ data.references = r.data.references /\ data.notes = r.data.notes
  <2>1. r.data \in StatedData /\ lines \in Seq(StatedLine)
    BY <1>1, DataIsStated, DraftingAssumption
  <2> HIDE DEF r
  <2> QED
    BY <2>1 DEF StatedData, WithLines
<1>3. r.data.references # Absent
  BY <1>1, ReferencesAre
<1>4. Counted /\ Put(d, q) /\ UNCHANGED <<supplier, turned, restamped, late>>
  BY DEF UpdateLines
<1> HIDE DEF data, r
<1>5. Enriched(data, supplier, x)
  BY <1>1, <1>2, EnrichFills
<1>6. x \in Data /\ x.references.preceding = r.data.references.preceding
  BY <1>2, <1>3, <1>5 DEF Enriched
<1>7. Bars(x.notes) \subseteq Bars(r.data.notes)
  BY <1>1, <1>2, BarsKept
<1>8. Balanced({}, data)
  BY <1>2 DEF Balanced
<1>9. Follows({}, x, FALSE) /\ Stamped(x, supplier)
  BY <1>1, <1>2, <1>8, PayloadFollows
<1> HIDE DEF x
<1>10. Follows({}, x, restamped)
  BY <1>9 DEF Follows
<1>11. SameBut(q, r, x, {}, r.named) /\ r.named \in BOOLEAN
  BY <1>1, <1>6, EditedRow DEF Document
<1> HIDE DEF q
<1> QED
  BY <1>1, <1>4, <1>6, <1>7, <1>9, <1>10, <1>11, DraftEditKeeps DEF r

\* An edit that brings no lines.
LEMMA OtherEditKeeps ==
  ASSUME Inv, NEW d \in Documents, doc[d].status = "draft", Counted,
         UNCHANGED <<supplier, turned, restamped, late>>,
         NEW data \in StatedData, NEW given, NEW named \in BOOLEAN, NEW q,
         SameBut(q, doc[d], Enrich(data, supplier), given, named), Put(d, q),
         Brings(doc[d].data, doc[d].given, data, given),
         Bars(data.notes) \subseteq Bars(doc[d].data.notes),
         named => /\ doc[d].named /\ data.references # Absent
                  /\ data.references.preceding \in {doc[d].data.references.preceding, TRUE}
  PROVE  Inv'
<1> DEFINE r == doc[d]
           x == Enrich(data, supplier)
<1>1. /\ r \in Document /\ supplier \in Suppliers /\ r.data \in Data /\ restamped \in BOOLEAN
      /\ Exists(d)
  BY RowsAre DEF Exists, Inv, DraftingTypeOK, Document
<1>2. Follows(r.given, r.data, restamped) /\ (restamped \/ Stamped(r.data, supplier))
  BY <1>1 DEF Inv, AllSound, Sound, SoundTotals
<1>3. Enriched(data, supplier, x)
  BY <1>1, EnrichFills
<1>4. /\ x \in Data
      /\ named => /\ r.named
                  /\ x.references.preceding \in {r.data.references.preceding, TRUE}
  BY <1>3 DEF Enriched
<1>5. Bars(x.notes) \subseteq Bars(r.data.notes)
  BY <1>1, BarsKept
<1>6. Follows(given, x, restamped) /\ Stamped(x, supplier)
  <2>1. Brings(r.data, r.given, data, given)
    OBVIOUS
  <2> HIDE DEF x, r
  <2> QED
    BY <1>1, <1>2, <2>1, EditFollows DEF x
<1>7. SameBut(q, r, x, given, named) /\ r.status = "draft"
  OBVIOUS
<1> HIDE DEF x, r
<1> QED
  BY <1>1, <1>4, <1>5, <1>6, <1>7, DraftEditKeeps DEF r

\* The row that an edit leaves.
LEMMA EditLeaves ==
  ASSUME Inv, NEW d \in Documents, doc[d].status = "draft", NEW data \in StatedData,
         NEW given \in SUBSET {"totals", "vatLines", "stated"}, NEW named \in BOOLEAN
  PROVE  LET r == doc[d]
             x == Enrich(data, supplier) IN
         /\ SameBut([Edited(r, x) EXCEPT !.given = given], r, x, given, r.named)
         /\ SameBut([Edited(r, x) EXCEPT !.named = named], r, x, r.given, named)
         /\ SameBut(Edited(r, x), r, x, r.given, r.named)
         /\ r.named \in BOOLEAN /\ r.given \in SUBSET {"totals", "vatLines", "stated"}
<1>1. doc[d] \in Document /\ supplier \in Suppliers
  BY RowsAre DEF Exists, Inv, DraftingTypeOK
<1>2. Enrich(data, supplier) \in Data
  BY <1>1, EnrichFills DEF Enriched
<1>3. doc[d].named \in BOOLEAN /\ doc[d].given \in SUBSET {"totals", "vatLines", "stated"}
  BY <1>1 DEF Document
<1> QED
  BY <1>1, <1>2, <1>3, EditedRow

\* The data of a draft with one of its parts replaced.
LEMMA Replaced ==
  ASSUME NEW old \in Data
  PROVE  /\ \A t \in TotalsRecord : LET data == [old EXCEPT !.totals = t] IN
              /\ data \in StatedData /\ data.lines = old.lines /\ data.totals = t
              /\ data.vatLines = old.vatLines /\ data.references = old.references
              /\ data.notes = old.notes
         /\ \A v \in SUBSET BreakdownLine : LET data == [old EXCEPT !.vatLines = v] IN
              /\ data \in StatedData /\ data.lines = old.lines /\ data.totals = old.totals
              /\ data.references = old.references /\ data.notes = old.notes
         /\ \A f \in StatedReference : LET data == [old EXCEPT !.references = f] IN
              /\ data \in StatedData /\ data.lines = old.lines /\ data.totals = old.totals
              /\ data.vatLines = old.vatLines /\ data.references = f
              /\ data.notes = old.notes
<1>1. old \in StatedData
  BY DataIsStated
<1>2. ASSUME NEW t \in TotalsRecord
      PROVE  LET data == [old EXCEPT !.totals = t] IN
              /\ data \in StatedData /\ data.lines = old.lines /\ data.totals = t
              /\ data.vatLines = old.vatLines /\ data.references = old.references
              /\ data.notes = old.notes
  BY <1>1 DEF StatedData
<1>3. ASSUME NEW v \in SUBSET BreakdownLine
      PROVE  LET data == [old EXCEPT !.vatLines = v] IN
              /\ data \in StatedData /\ data.lines = old.lines /\ data.totals = old.totals
              /\ data.references = old.references /\ data.notes = old.notes
  BY <1>1 DEF StatedData
<1>4. ASSUME NEW f \in StatedReference
      PROVE  LET data == [old EXCEPT !.references = f] IN
              /\ data \in StatedData /\ data.lines = old.lines /\ data.totals = old.totals
              /\ data.vatLines = old.vatLines /\ data.references = f
              /\ data.notes = old.notes
  BY <1>1 DEF StatedData
<1> QED
  BY <1>2, <1>3, <1>4

LEMMA UpdateTotalsKeeps ==
  ASSUME Inv, NEW d \in Documents, NEW t \in StatedTotals, UpdateTotals(d, t)
  PROVE  Inv'
<1> DEFINE r == doc[d]
           data == [r.data EXCEPT !.totals = t]
           x == Enrich(data, supplier)
           given == (r.given \ {"totals"}) \union {"stated"}
           q == [Edited(r, x) EXCEPT !.given = given]
<1>1. r.status = "draft" /\ r \in Document /\ r.data \in Data
  BY RowsAre DEF UpdateTotals, Exists, Inv, Document
<1>2. t \in TotalsRecord /\ Balances(t)
  BY DraftingAssumption
<1>3. /\ data \in StatedData /\ data.lines = r.data.lines /\ data.totals = t
      /\ data.vatLines = r.data.vatLines /\ data.references = r.data.references
      /\ data.notes = r.data.notes
  <2> HIDE DEF r
  <2> QED
    BY <1>1, <1>2, Replaced
<1>4. r.data.references # Absent
  BY <1>1, ReferencesAre
<1> HIDE DEF data
<1>5. given \in SUBSET {"totals", "vatLines", "stated"} /\ TRUE \in BOOLEAN
  <2>1. r.given \in SUBSET {"totals", "vatLines", "stated"}
    BY <1>1 DEF Document
  <2> QED
    BY <2>1
<1>6. SameBut(q, r, x, given, r.named) /\ r.named \in BOOLEAN
  <2> HIDE DEF given
  <2> QED
    BY <1>1, <1>3, <1>5, EditLeaves
<1>7. Counted /\ UNCHANGED <<supplier, turned, restamped, late>> /\ Put(d, q)
  <2>1. Counted /\ UNCHANGED <<supplier, turned, restamped, late>>
    BY DEF UpdateTotals
  <2>2. Edited(r, x).given = r.given
    BY DEF Edited, Document
  <2> HIDE DEF x
  <2>3. q = [Edited(r, x) EXCEPT !.given = (@ \ {"totals"}) \union {"stated"}]
    BY <1>1 DEF Edited, Document
  <2>4. Put(d, q)
    BY <2>3 DEF UpdateTotals, x, data
  <2> QED
    BY <2>1, <2>4
<1>8. Brings(r.data, r.given, data, given)
  BY <1>2, <1>3 DEF Brings
<1> HIDE DEF given, q
<1> QED
  BY <1>1, <1>3, <1>4, <1>6, <1>7, <1>8, OtherEditKeeps

LEMMA UpdateVatLinesKeeps ==
  ASSUME Inv, NEW d \in Documents, NEW v \in Breakdowns, UpdateVatLines(d, v)
  PROVE  Inv'
<1> DEFINE r == doc[d]
           data == [r.data EXCEPT !.vatLines = v]
           x == Enrich(data, supplier)
           given == r.given \union {"vatLines"}
           q == [Edited(r, x) EXCEPT !.given = given]
<1>1. r.status = "draft" /\ r \in Document /\ r.data \in Data
  BY RowsAre DEF UpdateVatLines, Exists, Inv, Document
<1>2. v \in SUBSET BreakdownLine
  BY DraftingAssumption
<1>3. /\ data \in StatedData /\ data.lines = r.data.lines /\ data.totals = r.data.totals
      /\ data.references = r.data.references /\ data.notes = r.data.notes
  <2> HIDE DEF r
  <2> QED
    BY <1>1, <1>2, Replaced
<1>4. r.data.references # Absent
  BY <1>1, ReferencesAre
<1> HIDE DEF data
<1>5. given \in SUBSET {"totals", "vatLines", "stated"} /\ TRUE \in BOOLEAN
  <2>1. r.given \in SUBSET {"totals", "vatLines", "stated"}
    BY <1>1 DEF Document
  <2> QED
    BY <2>1
<1>6. SameBut(q, r, x, given, r.named) /\ r.named \in BOOLEAN
  <2> HIDE DEF given
  <2> QED
    BY <1>1, <1>3, <1>5, EditLeaves
<1>7. Counted /\ UNCHANGED <<supplier, turned, restamped, late>> /\ Put(d, q)
  <2>1. Counted /\ UNCHANGED <<supplier, turned, restamped, late>>
    BY DEF UpdateVatLines
  <2> HIDE DEF x
  <2>2. q = [Edited(r, x) EXCEPT !.given = @ \union {"vatLines"}]
    BY <1>1 DEF Edited, Document
  <2>3. Put(d, q)
    BY <2>2 DEF UpdateVatLines, x, data
  <2> QED
    BY <2>1, <2>3
<1>8. Brings(r.data, r.given, data, given)
  BY <1>3 DEF Brings
<1> HIDE DEF given, q
<1> QED
  BY <1>1, <1>3, <1>4, <1>6, <1>7, <1>8, OtherEditKeeps

LEMMA UpdateReferencesKeeps ==
  ASSUME Inv, NEW d \in Documents, NEW f \in StatedReference,
         UpdateReferences(d, f.type, f.preceding)
  PROVE  Inv'
<1> DEFINE r == doc[d]
           references == WithReferences(r, f.type, f.preceding)
           data == [r.data EXCEPT !.references = references]
           x == Enrich(data, supplier)
           named == r.named /\ f.preceding # FALSE
           q == [Edited(r, x) EXCEPT !.named = named]
<1>1. r.status = "draft" /\ r \in Document /\ r.data \in Data
  BY RowsAre DEF UpdateReferences, Exists, Inv, Document
<1>2. r.data.references.preceding \in BOOLEAN \union {Absent}
  BY <1>1, DataIsStated DEF Reference
<1>3. references \in StatedReference /\ references # Absent
  <2>1. references \in StatedReference
    BY <1>2 DEF WithReferences, StatedReference
  <2> QED
    BY <2>1, ReferencesAre
<1>4. r.named => r.preceding # Nothing
  <2>1. Named(r)
    BY <1>1 DEF Inv, AllSound, Sound, Exists
  <2> QED
    BY <2>1 DEF Named
<1>5. named => r.named /\ references.preceding \in {r.data.references.preceding, TRUE}
  <2>1. references.preceding = IF f.preceding = Absent /\ r.preceding # Nothing
                               THEN r.data.references.preceding ELSE f.preceding
    BY DEF WithReferences
  <2>2. f.preceding \in {TRUE, FALSE, Absent}
    BY DEF StatedReference
  <2> HIDE DEF r, references
  <2> QED
    BY <1>4, <2>1, <2>2
<1>6. named \in BOOLEAN
  <2>1. r.named \in BOOLEAN
    BY <1>1 DEF Document
  <2> HIDE DEF r
  <2>2. CASE r.named /\ f.preceding # FALSE
    BY <2>2
  <2>3. CASE ~ (r.named /\ f.preceding # FALSE)
    BY <2>3
  <2> QED
    BY <2>2, <2>3
<1>7. /\ data \in StatedData /\ data.lines = r.data.lines /\ data.totals = r.data.totals
      /\ data.vatLines = r.data.vatLines /\ data.references = references
      /\ data.notes = r.data.notes
  <2> HIDE DEF r, references
  <2> QED
    BY <1>1, <1>3, Replaced
<1>8. Counted /\ UNCHANGED <<supplier, turned, restamped, late>> /\ Put(d, q)
  <2>1. Counted /\ UNCHANGED <<supplier, turned, restamped, late>>
    BY DEF UpdateReferences
  <2> HIDE DEF x
  <2>2. q = [Edited(r, x) EXCEPT !.named = @ /\ f.preceding # FALSE]
    BY <1>1 DEF Edited, Document
  <2>3. Put(d, q)
    BY <2>2 DEF UpdateReferences, x, data, references
  <2> QED
    BY <2>1, <2>3
<1> HIDE DEF data, references, named
<1>9. SameBut(q, r, x, r.given, named)
  <2>1. {} \in SUBSET {"totals", "vatLines", "stated"}
    OBVIOUS
  <2> QED
    BY <1>1, <1>6, <1>7, <2>1, EditLeaves
<1>10. Brings(r.data, r.given, data, r.given)
  BY <1>7 DEF Brings
<1> HIDE DEF q
<1> QED
  BY <1>1, <1>3, <1>5, <1>6, <1>7, <1>8, <1>9, <1>10, OtherEditKeeps

LEMMA UpdateNotesKeeps ==
  ASSUME Inv, NEW d \in Documents, NEW notes \in NoteSets, UpdateNotes(d, notes)
  PROVE  Inv'
<1> DEFINE r == doc[d]
           data == [r.data EXCEPT !.notes = notes]
<1>1. r.status = "draft" /\ r \in Document /\ r.data \in Data
  BY RowsAre DEF UpdateNotes, Exists, Inv, Document
<1>2. notes \in NoteChoices /\ Bars(notes) = {}
  <2>1. notes \in {Absent} \union SUBSET Notes
    BY DraftingAssumption
  <2> QED
    BY <2>1, BarsAre DEF NoteChoices
<1>3. /\ Counted /\ UNCHANGED <<supplier, turned, restamped, late>>
      /\ Put(d, Edited(r, Enrich(data, supplier)))
  BY DEF UpdateNotes
<1>4. /\ data \in StatedData /\ data.lines = r.data.lines /\ data.totals = r.data.totals
      /\ data.vatLines = r.data.vatLines /\ data.references = r.data.references
      /\ data.notes = notes
  <2>1. r.data \in StatedData
    BY <1>1, DataIsStated
  <2> HIDE DEF r
  <2> QED
    BY <1>2, <2>1 DEF StatedData
<1>5. r.data.references # Absent
  BY <1>1, ReferencesAre
<1> HIDE DEF data
<1>6. SameBut(Edited(r, Enrich(data, supplier)), r, Enrich(data, supplier), r.given, r.named)
      /\ r.named \in BOOLEAN
  <2>1. {} \in SUBSET {"totals", "vatLines", "stated"} /\ TRUE \in BOOLEAN
    OBVIOUS
  <2> QED
    BY <1>1, <1>4, <2>1, EditLeaves
<1>7. Brings(r.data, r.given, data, r.given)
  BY <1>4 DEF Brings
<1> QED
  BY <1>1, <1>2, <1>3, <1>4, <1>5, <1>6, <1>7, OtherEditKeeps

LEMMA ResyncKeeps ==
  ASSUME Inv, NEW d \in Documents, NEW invoice \in StripeInvoices, Resync(d, invoice)
  PROVE  Inv'
<1> DEFINE r == doc[d]
           data == StripeData(invoice)
           x == Enrich(data, supplier)
           q == [Edited(r, x) EXCEPT !.given = {"totals"}]
<1>1. r.status = "draft" /\ r \in Document /\ supplier \in Suppliers /\ r.preceding = Nothing
  BY RowsAre DEF Resync, Exists, Inv, DraftingTypeOK
<1>2. data \in StatedData /\ data.notes = Absent /\ Balanced({"totals"}, data)
  BY StripeStated
<1>3. Counted /\ Put(d, q) /\ UNCHANGED <<supplier, turned, restamped, late>>
  BY DEF Resync
<1> HIDE DEF data, r
<1>4. Enriched(data, supplier, x)
  BY <1>1, <1>2, EnrichFills
<1>5. x \in Data
  BY <1>4 DEF Enriched
<1>6. Bars(x.notes) \subseteq Bars(r.data.notes)
  <2>1. Bars(data.notes) = {}
    BY <1>2, BarsAre
  <2> QED
    BY <1>1, <1>2, <2>1, BarsKept
<1>7. Follows({"totals"}, x, FALSE) /\ Stamped(x, supplier)
  BY <1>1, <1>2, PayloadFollows
<1> HIDE DEF x
<1>8. Follows({"totals"}, x, restamped)
  BY <1>7 DEF Follows
<1>9. ~ r.named
  <2>1. Named(r)
    BY <1>1 DEF Inv, AllSound, Sound, Exists, r
  <2> QED
    BY <1>1, <2>1 DEF Named
<1>10. SameBut(q, r, x, {"totals"}, r.named) /\ r.named \in BOOLEAN
  BY <1>1, <1>5, EditedRow DEF Document
<1> HIDE DEF q
<1> QED
  BY <1>1, <1>3, <1>5, <1>6, <1>7, <1>8, <1>9, <1>10, DraftEditKeeps DEF r


----------------------------------------------------------------------------
(* Edits of the records.                                                   *)

OtherCustomer(q, r, c) ==
  /\ q \in Document
  /\ q.status = r.status /\ q.flow = r.flow /\ q.customer = c /\ q.preceding = r.preceding
  /\ q.named = r.named /\ q.given = r.given /\ q.data = r.data

LEMMA OtherCustomerRow ==
  ASSUME NEW r \in Document, NEW c \in Customers
  PROVE  OtherCustomer([r EXCEPT !.customer = c], r, c)
<1> DEFINE q == [r EXCEPT !.customer = c]
<1>1. /\ q \in Document
      /\ q.status = r.status /\ q.flow = r.flow /\ q.customer = c /\ q.preceding = r.preceding
      /\ q.given = r.given /\ q.data = r.data
  BY DEF Document
<1>2. q.named = r.named
  BY Zenon DEF Document
<1> QED
  BY <1>1, <1>2 DEF OtherCustomer

\* Until a flow was detected nothing depends on the customer, and then it is noted
\* that one has changed.
LEMMA CustomerKeeps ==
  ASSUME Inv, NEW c \in Customers, doc' = [o \in Documents |-> doc'[o]],
         \A o \in Documents : doc'[o] = doc[o] \/ (Exists(o) /\ doc'[o] = [doc[o] EXCEPT !.customer = c]),
         Turn, edits' \in 0..MaxEdits, UNCHANGED <<supplier, restamped, late>>
  PROVE  Inv'
<1>1. DraftingTypeOK /\ AllSound /\ BarsTold /\ Cancelled
  BY DEF Inv
<1>2. ASSUME NEW o \in Documents, Exists(o)
      PROVE  doc'[o] = doc[o] \/ OtherCustomer(doc'[o], doc[o], c)
  BY <1>1, <1>2, RowsAre, OtherCustomerRow
<1>3. ASSUME NEW o \in Documents
      PROVE  /\ Exists(o)' <=> Exists(o)
             /\ ~Exists(o) => doc'[o] = doc[o]
             /\ doc'[o].status = doc[o].status /\ doc'[o].flow = doc[o].flow
             /\ doc'[o].preceding = doc[o].preceding /\ doc'[o].data = doc[o].data
  BY <1>2 DEF Exists, OtherCustomer
<1>4. DraftingTypeOK'
  <2>1. \A o \in Documents : doc'[o] \in Document \union {NoDocument}
    BY <1>1, <1>2, <1>3 DEF DraftingTypeOK, OtherCustomer
  <2>2. turned' \in BOOLEAN
    BY Zenon, <1>1 DEF Turn, DraftingTypeOK
  <2> QED
    BY <1>1, <2>1, <2>2 DEF DraftingTypeOK
<1>5. ASSUME NEW o \in Documents, Exists(o)' PROVE Sound(doc'[o], turned', restamped, supplier)
  <2> DEFINE q == doc'[o]
             r == doc[o]
  <2>1. Exists(o) /\ Sound(r, turned, restamped, supplier) /\ (q = r \/ OtherCustomer(q, r, c))
    BY <1>1, <1>2, <1>3, <1>5 DEF AllSound
  <2>2. q.status = r.status /\ q.flow = r.flow /\ q.preceding = r.preceding /\ q.data = r.data
    BY <1>3
  <2>3. q.given = r.given
    BY <2>1 DEF OtherCustomer
  <2>4. q.named = r.named
    BY <2>1 DEF OtherCustomer
  <2>5. turned' \/ (~turned /\ r.flow = "" /\ Bars(r.data.notes) = {})
    <3>1. ASSUME ~ turned'
          PROVE  ~turned /\ \A u \in Documents : ~ (Exists(u) /\ doc[u].flow # "")
      BY <3>1 DEF Turn
    <3>2. ASSUME ~ turned' PROVE r.flow = "" /\ Bars(r.data.notes) = {}
      BY <1>1, <2>1, <3>1, <3>2 DEF BarsTold
    <3> QED
      BY <3>1, <3>2
  <2> HIDE DEF q, r
  <2>6. SoundTotals(q, restamped, supplier)
    BY <2>1, <2>2, <2>3 DEF SoundTotals, Sound
  <2>7. Named(q)
    BY <2>1, <2>2, <2>4 DEF Named, Sound
  <2>8. SoundFlow(q, turned')
    <3>1. CASE turned'
      BY <2>1, <2>2, <3>1 DEF SoundFlow, Sound
    <3>2. CASE ~ turned'
      <4>1. r.flow = "" /\ Bars(r.data.notes) = {}
        BY <2>5, <3>2
      <4> QED
        BY <2>1, <2>2, <4>1 DEF SoundFlow, Sound
    <3> QED
      BY <3>1, <3>2
  <2>9. Sound(q, turned', restamped, supplier)
    BY <2>6, <2>7, <2>8 DEF Sound
  <2> QED
    BY <2>9 DEF q
<1>6. AllSound'
  BY <1>5 DEF AllSound
<1>7. BarsTold'
  <2>1. ASSUME NEW o \in Documents, Exists(o)', Bars(doc'[o].data.notes) # {}
        PROVE  \E u \in Documents : Exists(u)' /\ doc'[u].flow # ""
    <3>1. PICK u \in Documents : Exists(u) /\ doc[u].flow # ""
      BY <1>1, <1>3, <2>1 DEF BarsTold
    <3> QED
      BY <1>3, <3>1
  <2> QED
    BY <2>1 DEF BarsTold
<1>8. Cancelled'
  <2>1. ASSUME NEW o \in Documents, doc'[o].status = "cancelled"
        PROVE  \E n \in Documents : Credits(n, o)'
    <3>1. PICK n \in Documents : Credits(n, o)
      BY <1>1, <1>3, <2>1 DEF Cancelled
    <3>2. Credits(n, o)'
      BY <1>3, <3>1 DEF Credits
    <3> QED
      BY <3>2
  <2> QED
    BY <2>1 DEF Cancelled
<1> QED
  BY <1>4, <1>6, <1>7, <1>8 DEF Inv

LEMMA CountedIs ==
  ASSUME Inv, Counted
  PROVE  edits' \in 0..MaxEdits
<1>1. edits \in 0..MaxEdits /\ MaxEdits \in Nat
  BY DraftingAssumption DEF Inv, DraftingTypeOK
<1> QED
  BY <1>1 DEF Counted

LEMMA UpdateCustomerKeeps ==
  ASSUME Inv, NEW d \in Documents, NEW c \in Customers, UpdateCustomer(d, c)
  PROVE  Inv'
<1>1. /\ doc[d] \in Document /\ Exists(d) /\ DOMAIN doc = Documents
      /\ Put(d, [Edited(doc[d], doc[d].data) EXCEPT !.customer = c])
      /\ Turn /\ Counted /\ UNCHANGED <<supplier, restamped, late>>
  BY RowsAre DEF UpdateCustomer, Inv, DraftingTypeOK, Exists
<1>2. [Edited(doc[d], doc[d].data) EXCEPT !.customer = c] = [doc[d] EXCEPT !.customer = c]
  <2> DEFINE r == doc[d]
             same == Edited(r, r.data)
  <2>1. same = r
    <3> HIDE DEF r
    <3>1. r \in Document
      BY <1>1 DEF r
    <3>2. [r EXCEPT !.data = r.data] = r
      BY <3>1 DEF Document
    <3> QED
      BY <3>2 DEF Edited
  <2> HIDE DEF same, r
  <2> QED
    BY <2>1 DEF same, r
<1>3. Put(d, [doc[d] EXCEPT !.customer = c])
  BY <1>1, <1>2
<1>4. /\ doc' = [o \in Documents |-> doc'[o]]
      /\ \A o \in Documents : doc'[o] = doc[o] \/ (Exists(o) /\ doc'[o] = [doc[o] EXCEPT !.customer = c])
  <2> DEFINE x == [doc[d] EXCEPT !.customer = c]
  <2>1. doc' = [doc EXCEPT ![d] = x]
    BY <1>3 DEF Put
  <2> HIDE DEF x
  <2>2. doc' = [o \in Documents |-> doc'[o]]
        /\ \A o \in Documents : doc'[o] = doc[o] \/ (o = d /\ doc'[o] = x)
    BY <1>1, <2>1
  <2>3. \A o \in Documents : doc'[o] = doc[o] \/ (Exists(o) /\ doc'[o] = [doc[o] EXCEPT !.customer = c])
    BY <1>1, <2>2 DEF x
  <2> QED
    BY <2>2, <2>3
<1>5. edits' \in 0..MaxEdits
  BY <1>1, CountedIs
<1> QED
  BY <1>1, <1>4, <1>5, CustomerKeeps

LEMMA EditCustomerKeeps ==
  ASSUME Inv, NEW c \in Records, EditCustomer(c)
  PROVE  Inv'
<1>1. Turn /\ Counted /\ UNCHANGED <<supplier, restamped, late>> /\ c \in Customers
  BY CustomersAre DEF EditCustomer
<1>2. /\ doc' = [o \in Documents |-> doc'[o]]
      /\ \A o \in Documents : doc'[o] = doc[o] \/ (Exists(o) /\ doc'[o] = [doc[o] EXCEPT !.customer = c])
  <2> DEFINE D(o) == [doc[o] EXCEPT !.customer = c]
             moved == {o \in Documents : Exists(o) /\ doc[o].customer.type # ""}
  <2>1. doc' = [o \in Documents |-> IF o \in moved THEN D(o) ELSE doc[o]]
    BY DEF EditCustomer
  <2>2. \A o \in moved : Exists(o)
    OBVIOUS
  <2> HIDE DEF moved, D
  <2>3. /\ doc' = [o \in Documents |-> doc'[o]]
        /\ \A o \in Documents : doc'[o] = doc[o] \/ (Exists(o) /\ doc'[o] = D(o))
    BY <2>1, <2>2
  <2> QED
    BY <2>3 DEF D
<1>3. edits' \in 0..MaxEdits
  BY <1>1, CountedIs
<1> QED
  BY <1>1, <1>2, <1>3, CustomerKeeps

LEMMA EditSupplierKeeps ==
  ASSUME Inv, NEW s \in Suppliers, EditSupplier(s)
  PROVE  Inv'
<1>1. DraftingTypeOK /\ AllSound /\ BarsTold /\ Cancelled
  BY DEF Inv
<1>2. /\ doc' = doc /\ turned' = turned /\ late' = late /\ supplier' = s
      /\ restamped' = (restamped \/ s.exemption # supplier.exemption)
  BY DEF EditSupplier
<1>3. DraftingTypeOK'
  <2>1. edits' \in 0..MaxEdits
    BY CountedIs DEF EditSupplier
  <2>2. restamped' \in BOOLEAN
    BY Zenon, <1>1, <1>2 DEF DraftingTypeOK
  <2> QED
    BY <1>1, <1>2, <2>1, <2>2 DEF DraftingTypeOK
<1>4. ASSUME NEW o \in Documents, Exists(o) PROVE Sound(doc[o], turned, restamped', s)
  <2>1. Sound(doc[o], turned, restamped, supplier)
    BY <1>1, <1>4 DEF AllSound
  <2>2. restamped' \/ (~restamped /\ s.exemption = supplier.exemption)
    BY <1>2
  <2>3. SoundTotals(doc[o], restamped', s)
    BY <2>1, <2>2 DEF SoundTotals, Sound, Follows, Stamped
  <2> QED
    BY <2>1, <2>3 DEF Sound
<1>5. AllSound'
  BY <1>2, <1>4 DEF AllSound, Exists
<1>6. BarsTold' /\ Cancelled'
  BY <1>1, <1>2 DEF BarsTold, Cancelled, Credits, Exists
<1> QED
  BY <1>3, <1>5, <1>6 DEF Inv


----------------------------------------------------------------------------
(* Issuance.                                                               *)

InStatus(q, r, status) ==
  /\ q \in Document
  /\ q.status = status /\ q.flow = r.flow /\ q.customer = r.customer
  /\ q.preceding = r.preceding /\ q.named = r.named /\ q.given = r.given /\ q.data = r.data

LEMMA StatusRow ==
  ASSUME NEW r \in Document,
         NEW status \in {"draft", "processing", "validated", "transmitted", "cancelled"}
  PROVE  InStatus([r EXCEPT !.status = status], r, status)
<1> DEFINE q == [r EXCEPT !.status = status]
<1>1. /\ q \in Document
      /\ q.status = status /\ q.flow = r.flow /\ q.customer = r.customer
      /\ q.preceding = r.preceding /\ q.given = r.given /\ q.data = r.data
  BY DEF Document
<1>2. q.named = r.named
  BY Zenon DEF Document
<1> QED
  BY <1>1, <1>2 DEF InStatus

\* What was sound stays so in any status, if it is no longer the first one.
LEMMA SoundStatus ==
  ASSUME NEW r, NEW q, NEW status, NEW turn, NEW stale, NEW s,
         InStatus(q, r, status), Sound(r, turn, stale, s), r.status # "draft" \/ status = "draft"
  PROVE  Sound(q, turn, stale, s)
<1>1. SoundTotals(q, stale, s)
  BY DEF Sound, SoundTotals, InStatus
<1>2. SoundFlow(q, turn)
  BY DEF Sound, SoundFlow, InStatus
<1>3. Named(q)
  BY DEF Sound, Named, InStatus
<1> QED
  BY <1>1, <1>2, <1>3 DEF Sound

LEMMA StatusKeeps ==
  ASSUME Inv, NEW d \in Documents, Exists(d), NEW status \in {"draft", "validated", "transmitted"},
         Put(d, [doc[d] EXCEPT !.status = status]),
         UNCHANGED <<supplier, edits, turned, restamped, late>>,
         \/ doc[d].status = "processing" /\ status = "draft"
         \/ doc[d].status = "validated" /\ status = "transmitted"
  PROVE  Inv'
<1> DEFINE q == [doc[d] EXCEPT !.status = status]
<1>1. /\ doc[d] \in Document /\ edits \in 0..MaxEdits
      /\ Sound(doc[d], turned, restamped, supplier)
  BY RowsAre DEF Inv, DraftingTypeOK, AllSound
<1>2. InStatus(q, doc[d], status)
  BY <1>1, StatusRow
<1> HIDE DEF q
<1>3. Sound(q, turned, restamped, supplier)
  BY <1>1, <1>2, SoundStatus
<1>4. /\ q \in Document /\ q.status # "cancelled" /\ q.preceding = doc[d].preceding
      /\ q.flow = doc[d].flow /\ q.data = doc[d].data /\ q.status = status
  BY <1>2 DEF InStatus
<1>5. Put(d, q)
  BY DEF q
<1> QED
  BY <1>1, <1>3, <1>4, <1>5, PutKeeps

LEMMA RecordPaymentKeeps ==
  ASSUME Inv, NEW d \in Documents, RecordPayment(d)
  PROVE  Inv'
<1>1. /\ Exists(d) /\ doc[d] \in Document /\ edits \in 0..MaxEdits
      /\ Sound(doc[d], turned, restamped, supplier)
      /\ doc[d].status \in {"draft", "processing"}
      /\ UNCHANGED <<supplier, edits, turned, restamped, late>>
  <2>1. DraftingTypeOK /\ AllSound
    BY DEF Inv
  <2>2. Exists(d) /\ doc[d].status \in {"draft", "processing"}
        /\ UNCHANGED <<supplier, edits, turned, restamped, late>>
    BY DEF RecordPayment, Exists
  <2> QED
    BY <2>1, <2>2, RowsAre DEF AllSound, DraftingTypeOK
<1>2. PICK i \in StripeInvoices : Put(d, [doc[d] EXCEPT !.payment = i.total])
  BY DEF RecordPayment
<1> DEFINE q == [doc[d] EXCEPT !.payment = i.total]
<1>3. i.total \in Nat
  BY DraftingAssumption DEF StripeInvoice
<1>4. InStatus(q, doc[d], doc[d].status)
  <2>1. /\ q \in Document
        /\ q.status = doc[d].status /\ q.flow = doc[d].flow /\ q.customer = doc[d].customer
        /\ q.preceding = doc[d].preceding /\ q.given = doc[d].given /\ q.data = doc[d].data
    BY <1>1, <1>3 DEF Document
  <2>2. q.named = doc[d].named
    BY Zenon, <1>1 DEF Document
  <2> QED
    BY <2>1, <2>2 DEF InStatus
<1> HIDE DEF q
<1>5. Sound(q, turned, restamped, supplier)
  BY <1>1, <1>4, SoundStatus
<1>6. /\ q \in Document /\ q.status # "cancelled" /\ q.preceding = doc[d].preceding
      /\ q.flow = doc[d].flow /\ q.data = doc[d].data
  BY <1>1, <1>4 DEF InStatus
<1>7. Put(d, q)
  BY <1>2 DEF q
<1> QED
  BY <1>1, <1>5, <1>6, <1>7, PutKeeps

LEMMA BarsValidated ==
  ASSUME NEW data \in Data, NEW x, NEW flow \in Flows, NEW given, NEW stale,
         Validated(x, data, flow, given, stale)
  PROVE  \/ Bars(data.notes) # {} /\ Bars(x.notes) = Bars(data.notes)
         \/ Bars(data.notes) = {} /\ Bars(x.notes) = {Bar(BarValue[flow])}
<1> DEFINE bar == Bar(BarValue[flow])
           notes == Or(data.notes, {})
<1>1. \/ (\E n \in notes : n.code = "BAR") /\ x.notes = data.notes
      \/ (\A n \in notes : n.code # "BAR") /\ x.notes = notes \union {bar}
  BY DEF Validated
<1>2. bar \in BarNotes /\ bar.code = "BAR"
  BY BarsAre DEF BarNotes
<1>3. notes \in SUBSET (Notes \union BarNotes)
  BY DataIsStated DEF Or, NoteChoices
<1>4. notes \union {bar} # Absent
  BY <1>2, <1>3, DraftingAssumption
<1>5. Bars(data.notes) = {n \in notes : n.code = "BAR"}
  BY DEF Bars
<1> HIDE DEF bar, notes
<1>6. CASE (\E n \in notes : n.code = "BAR") /\ x.notes = data.notes
  BY <1>5, <1>6
<1>7. CASE (\A n \in notes : n.code # "BAR") /\ x.notes = notes \union {bar}
  <2>1. Bars(data.notes) = {}
    BY <1>5, <1>7
  <2>2. Or(x.notes, {}) = notes \union {bar}
    BY <1>4, <1>7 DEF Or
  <2>3. Bars(x.notes) = {bar}
    BY <1>2, <1>7, <2>2 DEF Bars
  <2> QED
    BY <2>1, <2>3 DEF bar
<1> QED
  BY <1>1, <1>6, <1>7


LEMMA ValidateKeeps ==
  ASSUME Inv, NEW d \in Documents, Validate(d)
  PROVE  Inv'
<1> DEFINE r == doc[d]
           flow == IF r.flow # "" THEN r.flow ELSE FlowOf(r.customer)
           x == WithBar(WithPrepayment(r.data, r.payment), BarValue[flow])
           q == [r EXCEPT !.status = "processing", !.numbered = TRUE, !.flow = flow, !.data = x]
<1>1. /\ r \in Document /\ Exists(d) /\ r.status = "draft" /\ edits \in 0..MaxEdits
      /\ Sound(r, turned, restamped, supplier) /\ restamped \in BOOLEAN
  <2>1. DraftingTypeOK /\ AllSound
    BY DEF Inv
  <2>2. Exists(d) /\ r.status = "draft"
    BY DEF Validate, Exists
  <2> QED
    BY <2>1, <2>2, RowsAre DEF AllSound, DraftingTypeOK
<1>2. /\ r.customer \in Customers /\ r.data \in Data /\ r.payment \in Nat
      /\ r.flow \in Flows \union {""}
  BY <1>1 DEF Document
<1>3. flow \in Flows /\ flow # "" /\ (r.flow # "" => flow = r.flow)
  BY <1>2, FlowsAre
<1>4. Put(d, q) /\ UNCHANGED <<supplier, edits, turned, restamped, late>>
  <2>1. q = [r EXCEPT !.status = "processing", !.numbered = TRUE, !.flow = flow,
                      !.data = WithBar(WithPrepayment(@, r.payment), BarValue[flow])]
    BY <1>1 DEF Document
  <2> QED
    BY <2>1 DEF Validate, FlowOf
<1>5. Follows(r.given, r.data, restamped) /\ (restamped \/ Stamped(r.data, supplier))
  BY <1>1 DEF Sound, SoundTotals
<1> HIDE DEF flow, r
<1>6. Validated(x, r.data, flow, r.given, restamped)
  BY <1>1, <1>2, <1>3, <1>5, ValidatedData
<1> HIDE DEF x
<1>7. x \in Data
  BY <1>6 DEF Validated
<1>8. /\ q \in Document
      /\ q.status = "processing" /\ q.flow = flow /\ q.customer = r.customer
      /\ q.preceding = r.preceding /\ q.given = r.given /\ q.data = x
  BY <1>1, <1>3, <1>7 DEF Document
<1>9. q.named = r.named
  BY Zenon, <1>1 DEF Document
<1> HIDE DEF q
<1>10. SoundTotals(q, restamped, supplier)
  BY <1>5, <1>6, <1>8 DEF SoundTotals, Stamped, Validated
<1>11. \/ Bars(r.data.notes) # {} /\ Bars(x.notes) = Bars(r.data.notes)
       \/ Bars(r.data.notes) = {} /\ Bars(x.notes) = {Bar(BarValue[flow])}
  BY <1>2, <1>3, <1>6, BarsValidated
<1>12. SoundFlow(q, turned)
  <2>1. SoundFlow(r, turned)
    BY <1>1 DEF Sound
  <2>2. ~turned => flow = FlowOf(r.customer)
    BY <2>1 DEF flow, SoundFlow
  <2>3. ASSUME NEW n \in Bars(x.notes)
        PROVE  /\ r.preceding = Nothing => n = Bar(BarValue[flow])
               /\ ~turned => n = Bar(BarValue[FlowOf(r.customer)])
    <3>1. CASE n \in Bars(r.data.notes)
      BY <1>3, <2>1, <3>1 DEF SoundFlow
    <3>2. CASE n = Bar(BarValue[flow])
      BY <2>2, <3>2
    <3> QED
      BY <1>11, <2>3, <3>1, <3>2
  <2>4. Bars(x.notes) # {}
    BY <1>11
  <2> QED
    BY <1>3, <1>8, <2>2, <2>3, <2>4 DEF SoundFlow
<1>13. Named(q)
  <2>1. Named(r)
    BY <1>1 DEF Sound
  <2>2. x.references = r.data.references
    BY <1>6 DEF Validated
  <2> QED
    BY <1>8, <1>9, <2>1, <2>2 DEF Named
<1>14. Sound(q, turned, restamped, supplier)
  BY <1>10, <1>12, <1>13 DEF Sound
<1>15. q.status # "cancelled" /\ q.flow # ""
  BY <1>3, <1>8
<1> QED
  BY <1>1, <1>4, <1>8, <1>14, <1>15, PutKeeps DEF r

\* The document that was processed gets a status, and the one that it cancels too.
LEMMA GenerationKeeps ==
  ASSUME Inv, NEW d \in Documents, doc[d].status = "processing",
         NEW status \in {"draft", "validated"},
         doc' = [WithCancelled(d) EXCEPT ![d].status = status],
         UNCHANGED <<supplier, edits, turned, restamped>>,
         late' \in SUBSET Documents, late \subseteq late', status = "validated" \/ d \in late'
  PROVE  Inv'
<1> DEFINE p == doc[d].preceding
<1>1. DraftingTypeOK /\ AllSound /\ BarsTold /\ Cancelled
  BY DEF Inv
<1>2. Exists(d) /\ doc[d] \in Document /\ p \in Documents \union {Nothing}
  BY <1>1, RowsAre DEF Exists, Document
<1>3. Cancels(d) => /\ p \in Documents /\ p # d /\ doc[p].status = "validated"
                    /\ doc[d].data.totals.gross = doc[p].data.totals.gross
                    /\ Exists(p) /\ doc[p] \in Document
  <2>1. ASSUME Cancels(d)
        PROVE  /\ p \in Documents /\ p # d /\ doc[p].status = "validated"
               /\ doc[d].data.totals.gross = doc[p].data.totals.gross
    BY <1>2, <2>1 DEF Cancels, CancelsInFull
  <2>2. ASSUME Cancels(d) PROVE Exists(p)
    BY <2>1, <2>2 DEF Exists
  <2> QED
    BY <1>1, <2>1, <2>2, RowsAre
<1>4. DOMAIN doc = Documents
  BY <1>1 DEF DraftingTypeOK
<1>5. /\ doc'[d] = [doc[d] EXCEPT !.status = status]
      /\ Cancels(d) => doc'[p] = [doc[p] EXCEPT !.status = "cancelled"]
      /\ \A o \in Documents : o # d /\ (Cancels(d) => o # p) => doc'[o] = doc[o]
      /\ doc' = [o \in Documents |-> doc'[o]]
  <2>1. CASE Cancels(d)
    <3>1. WithCancelled(d) = [doc EXCEPT ![p].status = "cancelled"]
      BY <2>1 DEF WithCancelled
    <3>2. p \in Documents /\ p # d
      BY <1>3, <2>1
    <3> HIDE DEF p
    <3> DEFINE w == [doc EXCEPT ![p].status = "cancelled"]
    <3>3. /\ DOMAIN w = Documents /\ w[d] = doc[d]
          /\ w[p] = [doc[p] EXCEPT !.status = "cancelled"]
          /\ \A o \in Documents : o # p => w[o] = doc[o]
      BY <1>4, <3>2
    <3>4. doc' = [w EXCEPT ![d].status = status]
      BY <3>1
    <3> HIDE DEF w
    <3>5. /\ doc'[d] = [w[d] EXCEPT !.status = status]
          /\ \A o \in Documents : o # d => doc'[o] = w[o]
          /\ doc' = [o \in Documents |-> doc'[o]]
      BY <3>3, <3>4
    <3> QED
      BY <2>1, <3>2, <3>3, <3>5
  <2>2. CASE ~Cancels(d)
    <3>1. WithCancelled(d) = doc
      BY <2>2 DEF WithCancelled
    <3> QED
      BY <1>4, <2>2, <3>1
  <2> QED
    BY <2>1, <2>2
<1>6. InStatus(doc'[d], doc[d], status)
  <2>1. InStatus([doc[d] EXCEPT !.status = status], doc[d], status)
    BY <1>2, StatusRow
  <2> QED
    BY <1>5, <2>1
<1>7. Cancels(d) => InStatus(doc'[p], doc[p], "cancelled")
  <2>1. ASSUME Cancels(d) PROVE InStatus([doc[p] EXCEPT !.status = "cancelled"], doc[p], "cancelled")
    BY <1>3, <2>1, StatusRow
  <2> QED
    BY <1>5, <2>1
<1> HIDE DEF p
<1>8. ASSUME NEW o \in Documents
      PROVE  \/ doc'[o] = doc[o] /\ o # d /\ (Cancels(d) => o # p)
             \/ o = d /\ InStatus(doc'[o], doc[o], status)
             \/ o = p /\ Cancels(d) /\ InStatus(doc'[o], doc[o], "cancelled")
  BY <1>5, <1>6, <1>7
<1>9. ASSUME NEW o \in Documents
      PROVE  /\ Exists(o)' <=> Exists(o)
             /\ doc'[o].flow = doc[o].flow /\ doc'[o].preceding = doc[o].preceding
             /\ doc'[o].data = doc[o].data
  <2>1. CASE doc'[o] = doc[o]
    BY <2>1 DEF Exists
  <2>2. CASE o = d /\ InStatus(doc'[o], doc[o], status)
    BY <1>2, <2>2 DEF Exists, InStatus
  <2>3. CASE o = p /\ Cancels(d) /\ InStatus(doc'[o], doc[o], "cancelled")
    BY <1>3, <2>3 DEF Exists, InStatus
  <2> QED
    BY <1>8, <2>1, <2>2, <2>3
<1>10. DraftingTypeOK'
  <2>1. \A o \in Documents : doc'[o] \in Document \union {NoDocument}
    BY <1>1, <1>8 DEF DraftingTypeOK, InStatus
  <2> QED
    BY <1>1, <1>5, <2>1 DEF DraftingTypeOK
<1>11. AllSound'
  <2>1. ASSUME NEW o \in Documents, Exists(o)' PROVE Sound(doc'[o], turned, restamped, supplier)
    <3>1. Sound(doc[o], turned, restamped, supplier)
      BY <1>1, <1>9, <2>1 DEF AllSound
    <3>2. CASE o = d /\ InStatus(doc'[o], doc[o], status)
      BY <3>1, <3>2, SoundStatus
    <3>3. CASE o = p /\ Cancels(d) /\ InStatus(doc'[o], doc[o], "cancelled")
      BY <1>3, <3>1, <3>3, SoundStatus
    <3> QED
      BY <1>8, <3>1, <3>2, <3>3
  <2> QED
    BY <2>1 DEF AllSound
<1>12. BarsTold'
  <2>1. ASSUME NEW o \in Documents, Exists(o)', Bars(doc'[o].data.notes) # {}
        PROVE  \E u \in Documents : Exists(u)' /\ doc'[u].flow # ""
    <3>1. PICK u \in Documents : Exists(u) /\ doc[u].flow # ""
      BY <1>1, <1>9, <2>1 DEF BarsTold
    <3> QED
      BY <1>9, <3>1
  <2> QED
    BY <2>1 DEF BarsTold
<1>13. Cancelled'
  <2>1. ASSUME NEW o \in Documents, doc'[o].status = "cancelled"
        PROVE  \E n \in Documents : Credits(n, o)'
    <3>1. CASE o = p /\ Cancels(d)
      <4>1. Exists(d)' /\ doc'[d].preceding = o /\ doc'[d].data.totals.gross = doc'[o].data.totals.gross
        BY <1>2, <1>3, <1>9, <3>1 DEF p
      <4>2. d \in late' \/ doc'[d].status \notin {"draft", "processing"}
        BY <1>6 DEF InStatus
      <4> QED
        BY <4>1, <4>2 DEF Credits
    <3>2. CASE ~ (o = p /\ Cancels(d))
      <4>1. doc[o].status = "cancelled"
        BY <1>8, <2>1, <3>2 DEF InStatus
      <4>2. PICK n \in Documents : Credits(n, o)
        BY <1>1, <4>1 DEF Cancelled
      <4>3. Exists(n)' /\ doc'[n].preceding = o
            /\ doc'[n].data = doc[n].data /\ doc'[o].data = doc[o].data
        BY <1>9, <4>2 DEF Credits
      <4>4. CASE n \in late
        BY <4>3, <4>4 DEF Credits
      <4>5. CASE n \notin late
        <5>1. doc[n].status \notin {"draft", "processing"}
              /\ doc[n].data.totals.gross = doc[o].data.totals.gross
          BY <4>2, <4>5 DEF Credits
        <5>2. doc'[n].status \notin {"draft", "processing"}
          BY <1>8, <5>1 DEF InStatus
        <5> QED
          BY <4>3, <5>1, <5>2 DEF Credits
      <4> QED
        BY <4>4, <4>5
    <3> QED
      BY <3>1, <3>2
  <2> QED
    BY <2>1 DEF Cancelled
<1> QED
  BY <1>10, <1>11, <1>12, <1>13 DEF Inv


LEMMA CancelInvoiceKeeps ==
  ASSUME Inv, NEW d \in Documents, NEW n \in Documents, CancelInvoice(d, n)
  PROVE  Inv'
<1> DEFINE r == doc[d]
           references == References(CreditNoteType, TRUE)
           x == [r.data EXCEPT !.references = references]
           q == [status |-> "draft", numbered |-> FALSE, preceding |-> d, customer |-> r.customer,
                 flow |-> "", payment |-> 0, external |-> FALSE, named |-> TRUE,
                 given |-> r.given, data |-> x]
<1>1. /\ r \in Document /\ Exists(d) /\ ~Exists(n)
      /\ Sound(r, turned, restamped, supplier)
  <2>1. DraftingTypeOK /\ AllSound
    BY DEF Inv
  <2>2. Exists(d) /\ ~Exists(n)
    BY DEF CancelInvoice, Exists
  <2> QED
    BY <2>1, <2>2, RowsAre DEF AllSound
<1>2. Put(n, q) /\ UNCHANGED <<supplier, edits, turned, restamped, late>>
  BY DEF CancelInvoice
<1>3. r.data \in Data /\ r.customer \in Customers /\ r.given \in SUBSET {"totals", "vatLines", "stated"}
  BY <1>1 DEF Document
<1>4. references \in Reference
  BY DEF References, Reference
<1>5. references.preceding = TRUE
  BY DEF References
<1> HIDE DEF r, references
<1>6. /\ x \in Data /\ x.lines = r.data.lines /\ x.totals = r.data.totals
      /\ x.vatLines = r.data.vatLines /\ x.notes = r.data.notes /\ x.references = references
  BY <1>3, <1>4 DEF Data
<1> HIDE DEF x
<1>7. /\ q \in Document
      /\ q.status = "draft" /\ q.flow = "" /\ q.customer = r.customer
      /\ q.preceding = d /\ q.given = r.given /\ q.data = x
  BY <1>3, <1>6 DEF Document
<1> HIDE DEF q
<1>8. SoundTotals(q, restamped, supplier)
  BY <1>1, <1>6, <1>7 DEF Sound, SoundTotals, Follows, Stamped
<1>9. d # Nothing
  BY DraftingAssumption
<1>10. SoundFlow(q, turned)
  BY <1>1, <1>6, <1>7, <1>9 DEF Sound, SoundFlow
<1>11. Named(q)
  BY <1>5, <1>6, <1>7, <1>9 DEF Named
<1>12. Sound(q, turned, restamped, supplier)
  BY <1>8, <1>10, <1>11 DEF Sound
<1>13. Bars(q.data.notes) # {} => \E o \in Documents : Exists(o) /\ Bars(doc[o].data.notes) # {}
  BY <1>1, <1>6, <1>7 DEF r
<1>14. q.status # "cancelled"
  BY <1>7
<1> QED
  BY <1>1, <1>2, <1>7, <1>12, <1>13, <1>14, NewKeeps

LEMMA InvInit == Init => Inv
<1> SUFFICES ASSUME Init PROVE Inv
  OBVIOUS
<1>1. \A d \in Documents : doc[d] = NoDocument
  BY DEF Init
<1>2. \A d \in Documents : ~Exists(d) /\ doc[d].status # "cancelled"
  BY <1>1 DEF Exists, NoDocument
<1>3. DraftingTypeOK
  <2>1. MaxEdits \in Nat
    BY DraftingAssumption
  <2>2. doc \in [Documents -> Document \union {NoDocument}] /\ supplier \in Suppliers
    BY DEF Init
  <2>3. edits \in 0..MaxEdits /\ late \subseteq Documents
    BY <2>1 DEF Init
  <2>4. turned \in BOOLEAN /\ restamped \in BOOLEAN
    BY Zenon DEF Init
  <2> QED
    BY <2>2, <2>3, <2>4 DEF DraftingTypeOK
<1> QED
  BY <1>2, <1>3 DEF Inv, AllSound, BarsTold, Cancelled

LEMMA InvStep == Inv /\ [Next]_vars => Inv'
<1> SUFFICES ASSUME Inv, [Next]_vars PROVE Inv'
  OBVIOUS
<1>1. ASSUME NEW d \in Documents, NEW data \in PayloadData, NEW c \in Customers, Create(d, data, c)
      PROVE  Inv'
  BY <1>1, CreateKeeps
<1>2. ASSUME NEW d \in Documents, NEW i \in StripeInvoices, Resync(d, i)
      PROVE  Inv'
  BY <1>2, ResyncKeeps
<1>3. ASSUME NEW d \in Documents, NEW i \in StripeInvoices, NEW c \in Customers, ImportInvoice(d, i, c)
      PROVE  Inv'
  BY <1>3, ImportInvoiceKeeps
<1>4. ASSUME NEW d \in Documents, NEW n \in Documents, NEW note \in StripeCreditNotes,
             ImportCreditNote(d, n, note)
      PROVE  Inv'
  BY <1>4, ImportCreditNoteKeeps
<1>5. ASSUME NEW d \in Documents, NEW lines \in LineLists, UpdateLines(d, lines)
      PROVE  Inv'
  BY <1>5, UpdateLinesKeeps
<1>6. ASSUME NEW d \in Documents, NEW r \in StatedReference,
             UpdateReferences(d, r.type, r.preceding)
      PROVE  Inv'
  BY <1>6, UpdateReferencesKeeps
<1>7. ASSUME NEW d \in Documents, NEW notes \in NoteSets, UpdateNotes(d, notes)
      PROVE  Inv'
  BY <1>7, UpdateNotesKeeps
<1>8. ASSUME NEW d \in Documents, NEW c \in Customers, UpdateCustomer(d, c)
      PROVE  Inv'
  BY <1>8, UpdateCustomerKeeps
<1>9. ASSUME NEW d \in Documents, RecordPayment(d)
      PROVE  Inv'
  BY <1>9, RecordPaymentKeeps
<1>10. ASSUME NEW d \in Documents, Validate(d)
       PROVE  Inv'
  BY <1>10, ValidateKeeps
<1>11. ASSUME NEW d \in Documents, Transmit(d)
       PROVE  Inv'
  BY <1>11, StatusKeeps DEF Transmit, Exists
<1>12. ASSUME NEW d \in Documents, Generate(d)
       PROVE  Inv'
  <2>1. late' = late /\ late \in SUBSET Documents
    BY <1>12 DEF Generate, Inv, DraftingTypeOK
  <2> QED
    BY <1>12, <2>1, GenerationKeeps DEF Generate
<1>13. ASSUME NEW d \in Documents, GenerateFails(d)
       PROVE  Inv'
  BY <1>13, StatusKeeps DEF GenerateFails, Exists
<1>14. ASSUME NEW d \in Documents, GenerateFailsLate(d)
       PROVE  Inv'
  <2>1. late \in SUBSET Documents
    BY DEF Inv, DraftingTypeOK
  <2> QED
    BY <1>14, <2>1, GenerationKeeps DEF GenerateFailsLate
<1>15. ASSUME NEW d \in Documents, NEW n \in Documents, CancelInvoice(d, n)
       PROVE  Inv'
  BY <1>15, CancelInvoiceKeeps
<1>16. ASSUME NEW c \in Records, EditCustomer(c)
       PROVE  Inv'
  BY <1>16, EditCustomerKeeps
<1>17. ASSUME NEW s \in Suppliers, EditSupplier(s)
       PROVE  Inv'
  BY <1>17, EditSupplierKeeps
<1>18. ASSUME NEW d \in Documents, NEW t \in StatedTotals, UpdateTotals(d, t)
       PROVE  Inv'
  BY <1>18, UpdateTotalsKeeps
<1>19. ASSUME NEW d \in Documents, NEW v \in Breakdowns, UpdateVatLines(d, v)
       PROVE  Inv'
  BY <1>19, UpdateVatLinesKeeps
<1>20. CASE UNCHANGED vars
  BY <1>20 DEF vars, Inv, DraftingTypeOK, AllSound, BarsTold, Cancelled, Credits, Exists
<1> QED
  BY <1>1, <1>2, <1>3, <1>4, <1>5, <1>6, <1>7, <1>8, <1>9, <1>10, <1>11, <1>12, <1>13,
     <1>14, <1>15, <1>16, <1>17, <1>18, <1>19, <1>20 DEF Next

LEMMA InvHolds == Spec => []Inv
  BY InvInit, InvStep, PTL DEF Spec

\* DraftingTypeOK: an invoice, edited, rebuilt, validated or copied, stays one.
THEOREM DraftingTypeCorrect == Spec => []DraftingTypeOK
<1>1. Inv => DraftingTypeOK
  BY DEF Inv
<1> QED
  BY <1>1, InvHolds, PTL

\* TotalsFollowLines: whatever the lines, the rates as they are written and the amounts,
\* through every edit, failed generation and copy the totals and the breakdown that
\* no client of the API has stated are those of the lines, and an amount due is
\* what the payment leaves.
THEOREM TotalsAreOfTheLines == Spec => []TotalsFollowLines
<1>1. Inv => TotalsFollowLines
  BY DEF Inv, AllSound, Sound, SoundTotals, Follows, TotalsFollowLines
<1> QED
  BY <1>1, InvHolds, PTL

\* FlowTold: the note of an issued invoice tells the flow of its row, and that is
\* its customer's as long as none has changed after a flow was detected.
THEOREM FlowIsTold == Spec => []FlowTold
<1>1. ASSUME Inv, NEW d \in Documents, Exists(d), doc[d].status # "draft"
      PROVE  LET r == doc[d] IN
             /\ ~turned => r.flow = DetectFlow(r.customer.type, r.customer.who)
             /\ ~turned \/ r.preceding = Nothing => Bar(BarValue[r.flow]) \in r.data.notes
  <2> DEFINE r == doc[d]
  <2>1. SoundFlow(r, turned)
    BY <1>1 DEF Inv, AllSound, Sound
  <2>2. PICK n \in Bars(r.data.notes) : TRUE
    BY <1>1, <2>1 DEF SoundFlow
  <2>3. ~turned => r.flow = FlowOf(r.customer)
    BY <1>1, <2>1 DEF SoundFlow
  <2>4. n \in r.data.notes
    BY <2>2 DEF Bars, Or
  <2>5. ~turned \/ r.preceding = Nothing => n = Bar(BarValue[r.flow])
    BY <2>1, <2>2, <2>3 DEF SoundFlow
  <2> QED
    BY <2>3, <2>4, <2>5 DEF FlowOf
<1>2. Inv => FlowTold
  BY <1>1 DEF FlowTold
<1> QED
  BY <1>2, InvHolds, PTL

\* CreditedInFull: a credit note keeps naming its invoice through edits that do not say
\* otherwise, and what is cancelled was credited for its whole total.
THEOREM CancelledIsCredited == Spec => []CreditedInFull
<1>1. ASSUME Inv, NEW n \in Documents, Exists(n), doc[n].named
      PROVE  doc[n].data.references.preceding = TRUE
  BY <1>1 DEF Inv, AllSound, Sound, Named
<1>2. Inv => \A o \in Documents : doc[o].status = "cancelled" =>
                \E n \in Documents : Credits(n, o)
  BY DEF Inv, Cancelled
<1>3. Inv => CreditedInFull
  BY <1>1, <1>2 DEF CreditedInFull, Credits
<1> QED
  BY <1>3, InvHolds, PTL
=============================================================================
