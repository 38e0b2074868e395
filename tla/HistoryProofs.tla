---------------------------- MODULE HistoryProofs ----------------------------
(***************************************************************************)
(* What a History page says of its runs, for any runs and records.         *)
(*                                                                         *)
(* Each annotation of UnitHistory.tla reads the runs up to its own only, and*)
(* a run whose records were all read is the same run in every later report,*)
(* so what is written beside a run stays as it is. The passes that annotate*)
(* a run, each with a walk of its own over the runs before it, agree. What *)
(* is counted in one table of a page is what another one lists.            *)
(*                                                                         *)
(* The last two rest on what all runs of one report share: ReportInv and   *)
(* AsAsked make them runs of one scope, each told of by what was read of it*)
(* (Keyed, Evidence, Configured).                                          *)
(***************************************************************************)
EXTENDS ReportsProofs

\* Latest and Earliest are the ends of a set of places, and 0 if it is empty.
LEMMA EndsAreMembers ==
  ASSUME NEW n \in Nat, NEW S \in SUBSET (1..n)
  PROVE  /\ S = {} => H!Latest(S) = 0 /\ H!Earliest(S) = 0
         /\ S # {} => /\ H!Latest(S) \in S /\ \A x \in S : x <= H!Latest(S)
                      /\ H!Earliest(S) \in S /\ \A x \in S : x >= H!Earliest(S)
<1>1. S = {} => H!Latest(S) = 0 /\ H!Earliest(S) = 0
  BY DEF H!Latest, H!Earliest
<1>2. ASSUME S # {} PROVE H!Latest(S) \in S /\ \A x \in S : x <= H!Latest(S)
  <2>1. \E x \in S : \A y \in S : x >= y
    BY <1>2, HasGreatest
  <2>2. H!Latest(S) = CHOOSE x \in S : \A y \in S : x >= y
    BY <1>2 DEF H!Latest, H!Max
  <2>3. H!Latest(S) \in S /\ \A y \in S : H!Latest(S) >= y
    BY <2>1, <2>2
  <2>4. QED BY <2>3
<1>3. ASSUME S # {} PROVE H!Earliest(S) \in S /\ \A x \in S : x >= H!Earliest(S)
  <2>1. \E x \in S : \A y \in S : x <= y
    <3>1. S \in SUBSET Nat
      OBVIOUS
    <3>2. QED BY <1>3, <3>1, HasLeast
  <2>2. H!Earliest(S) = CHOOSE x \in S : \A y \in S : x <= y
    BY <1>3 DEF H!Earliest, H!Min
  <2>3. H!Earliest(S) \in S /\ \A y \in S : H!Earliest(S) <= y
    BY <2>1, <2>2
  <2>4. QED BY <2>3
<1>4. QED BY <1>1, <1>2, <1>3

\* They stay within the places there are.
LEMMA EndsInside ==
  ASSUME NEW n \in Nat, NEW S \in SUBSET (1..n)
  PROVE  H!Latest(S) \in 0..n /\ H!Earliest(S) \in 0..n
<1>1. CASE S = {}
  BY <1>1, EndsAreMembers
<1>2. CASE S # {}
  <2>1. H!Latest(S) \in S /\ H!Earliest(S) \in S
    BY <1>2, EndsAreMembers
  <2>2. \A x \in S : x \in 0..n
    OBVIOUS
  <2>3. QED BY <2>1, <2>2
<1>3. QED BY <1>1, <1>2

\* Alike up to the place p.
Alike(h, f, p) == \A q \in 1..p : h[q] = f[q]

\* The run before on the branch.
LEMMA BeforeLocal ==
  ASSUME NEW h, NEW f, NEW p \in Nat \ {0}, Alike(h, f, p)
  PROVE  H!Before(h, p) = H!Before(f, p) /\ H!Before(h, p) \in 0..p - 1
<1> DEFINE S == {j \in 1..p - 1 : h[j].branch_key = h[p].branch_key}
<1>1. S = {j \in 1..p - 1 : f[j].branch_key = f[p].branch_key}
  BY DEF Alike
<1>2. H!Before(h, p) = H!Latest(S) /\ H!Before(f, p) = H!Latest(S)
  BY <1>1 DEF H!Before
<1>3. S \in SUBSET (1..p - 1) /\ p - 1 \in Nat
  OBVIOUS
<1>4. H!Latest(S) \in 0..p - 1
  <2> HIDE DEF S
  <2> QED BY <1>3, EndsInside
<1>5. QED BY <1>2, <1>4

\* How a run compares with it, and by how much the rate moved.
LEMMA TrendLocal ==
  ASSUME NEW h, NEW f, NEW p \in Nat \ {0}, Alike(h, f, p)
  PROVE  H!Transition(h, p) = H!Transition(f, p) /\ H!TrendDelta(h, p) = H!TrendDelta(f, p)
<1> DEFINE b == H!Before(h, p)
<1>1. b = H!Before(f, p) /\ b \in 0..p - 1
  BY BeforeLocal
<1>2. h[p] = f[p] /\ (b # 0 => h[b] = f[b])
  BY <1>1 DEF Alike
<1>3. H!Transition(h, p) = H!Transition(f, p)
  BY <1>1, <1>2 DEF H!Transition
<1>4. H!Transition(h, p) = "comparable" => b # 0
  BY DEF H!Transition
<1>5. H!TrendDelta(h, p) = H!TrendDelta(f, p)
  BY <1>1, <1>2, <1>3, <1>4 DEF H!TrendDelta, H!RateDelta
<1>6. QED BY <1>3, <1>5

\* The run before on the branch in another context.
LEMMA ContextLocal ==
  ASSUME NEW h, NEW f, NEW p \in Nat \ {0}, Alike(h, f, p)
  PROVE  H!ContextBefore(h, p) = H!ContextBefore(f, p)
<1> DEFINE S == {k \in 1..p - 1 : h[p].branch # None /\ h[k].branch = h[p].branch}
<1>1. S = {k \in 1..p - 1 : f[p].branch # None /\ f[k].branch = f[p].branch}
  BY DEF Alike
<1>2. S \in SUBSET (1..p - 1) /\ p - 1 \in Nat
  OBVIOUS
<1> DEFINE b == H!Latest(S)
<1>3. b \in 0..p - 1
  <2> HIDE DEF S
  <2> QED BY <1>2, EndsInside
<1>4. h[p] = f[p] /\ (b # 0 => h[b] = f[b])
  BY <1>3 DEF Alike
<1>5. H!ContextBefore(h, p) = (IF b # 0 /\ h[p].measured /\ h[b].measured /\ h[p].context # h[b].context THEN b ELSE 0)
  BY DEF H!ContextBefore
<1>6. H!ContextBefore(f, p) = (IF b # 0 /\ f[p].measured /\ f[b].measured /\ f[p].context # f[b].context THEN b ELSE 0)
  BY <1>1 DEF H!ContextBefore
<1>7. QED
  <2> HIDE DEF b
  <2> QED BY <1>4, <1>5, <1>6

\* The verified references: the latest run of each branch among those that
\* agree in context, configuration and tests.
LEMMA ReferencesLocal ==
  ASSUME NEW h, NEW f, NEW p \in Nat \ {0}, Alike(h, f, p)
  PROVE  H!References(h, p) = H!References(f, p)
<1> DEFINE A(g) == {j \in 1..p - 1 : H!Referable(g[j]) /\ H!Signature(g[j]) = H!Signature(g[p])}
<1> DEFINE B(g, j) == {k \in A(g) : g[k].branch = g[j].branch}
<1>1. h[p] = f[p] /\ \A q \in 1..p - 1 : h[q] = f[q]
  BY DEF Alike
<1>2. A(h) = A(f)
  BY <1>1
<1>3. \A j \in A(h) : B(h, j) = B(f, j)
  BY <1>1, <1>2
<1>4. {H!Latest(B(h, j)) : j \in A(h)} = {H!Latest(B(f, j)) : j \in A(f)}
  <2> HIDE DEF A, B
  <2> QED BY <1>2, <1>3
<1>5. /\ H!References(h, p) = IF H!Referable(h[p]) THEN {H!Latest(B(h, j)) : j \in A(h)} ELSE {}
      /\ H!References(f, p) = IF H!Referable(f[p]) THEN {H!Latest(B(f, j)) : j \in A(f)} ELSE {}
  BY DEF H!References
<1>6. QED
  <2> HIDE DEF A, B
  <2> QED BY <1>1, <1>4, <1>5

\* The observed references, with what speaks against comparing with them.
LEMMA ObservedLocal ==
  ASSUME NEW h, NEW f, NEW p \in Nat \ {0}, Alike(h, f, p)
  PROVE  H!Observed(h, p) = H!Observed(f, p)
<1> DEFINE A(g) == {j \in 1..p - 1 : /\ g[j].measured /\ g[j].branch # None
                                     /\ g[j].context = g[p].context}
<1> DEFINE B(g, j) == {k \in A(g) : g[k].branch = g[j].branch}
<1> DEFINE L(g) == {H!Latest(B(g, j)) : j \in A(g)}
<1> DEFINE O(g) == {[run |-> j, warnings |-> H!ObservedWarnings(g[p], g[j])] : j \in L(g) \ H!References(g, p)}
<1>1. h[p] = f[p] /\ \A q \in 1..p - 1 : h[q] = f[q]
  BY DEF Alike
<1>2. A(h) = A(f)
  BY <1>1
<1>3. \A j \in A(h) : B(h, j) = B(f, j)
  BY <1>1, <1>2
<1>4. L(h) = L(f)
  <2> HIDE DEF A, B
  <2> QED BY <1>2, <1>3
<1>5. L(h) \subseteq 1..p - 1
  <2>1. SUFFICES ASSUME NEW j \in A(h) PROVE H!Latest(B(h, j)) \in 1..p - 1
    OBVIOUS
  <2>2. B(h, j) \in SUBSET (1..p - 1) /\ B(h, j) # {} /\ p - 1 \in Nat
    OBVIOUS
  <2>3. H!Latest(B(h, j)) \in B(h, j)
    <3> HIDE DEF B
    <3> QED BY <2>2, EndsAreMembers
  <2>4. QED BY <2>2, <2>3
<1>6. O(h) = O(f)
  <2> HIDE DEF L
  <2> QED BY <1>1, <1>4, <1>5, ReferencesLocal
<1>7. /\ H!Observed(h, p) = IF h[p].measured /\ h[p].branch # None THEN O(h) ELSE {}
      /\ H!Observed(f, p) = IF f[p].measured /\ f[p].branch # None THEN O(f) ELSE {}
  BY DEF H!Observed, H!Verified
<1>8. QED
  <2> HIDE DEF O
  <2> QED BY <1>1, <1>6, <1>7

\* The line of progress: the step before, the one on the branch, and the
\* reference frozen where the branch begins.
LEMMA ProgressionLocal ==
  ASSUME NEW h, NEW f, NEW p \in Nat \ {0}, Alike(h, f, p)
  PROVE  H!Progression(h, p) = H!Progression(f, p)
<1> DEFINE In(g, j) == /\ g[j].measured /\ g[j].context = g[p].context
                       /\ H!Settings(g[j]) = H!Settings(g[p])
<1> DEFINE On(g, j) == IF g[p].branch = None THEN j = p ELSE g[j].branch = g[p].branch
<1> DEFINE Ahead(g, k) == H!Latest({j \in 1..k - 1 : In(g, j)})
<1> DEFINE starts(g) == {j \in 1..p : In(g, j) /\ On(g, j)}
<1> DEFINE start(g) == H!Earliest(starts(g))
<1> DEFINE anchor(g) == Ahead(g, start(g))
<1> DEFINE same(g) == H!Latest({j \in 1..p - 1 : In(g, j) /\ On(g, j)})
<1>1. \A q \in 1..p : h[q] = f[q]
  BY DEF Alike
<1>2. \A q \in 1..p : In(h, q) = In(f, q) /\ On(h, q) = On(f, q)
  BY <1>1
<1>3. \A k \in 0..p : {j \in 1..k - 1 : In(h, j)} = {j \in 1..k - 1 : In(f, j)}
  <2> HIDE DEF In
  <2> QED BY <1>2
<1>4. \A k \in 0..p : Ahead(h, k) = Ahead(f, k)
  <2> HIDE DEF In
  <2> QED BY <1>3
<1>5. starts(h) = starts(f) /\ starts(h) \in SUBSET (1..p) /\ same(h) = same(f)
  <2>1. {j \in 1..p - 1 : In(h, j) /\ On(h, j)} = {j \in 1..p - 1 : In(f, j) /\ On(f, j)}
    <3> HIDE DEF In, On
    <3> QED BY <1>2
  <2>2. starts(h) = starts(f)
    <3> HIDE DEF In, On
    <3> QED BY <1>2
  <2>3. QED BY <2>1, <2>2
<1>6. start(h) = start(f) /\ start(h) \in 0..p
  <2> HIDE DEF starts
  <2> QED BY <1>5, EndsInside
<1>7. anchor(h) = anchor(f) /\ anchor(h) \in 0..p
  <2>1. anchor(h) = anchor(f)
    <3> HIDE DEF start, Ahead
    <3> QED BY <1>4, <1>6
  <2>2. {j \in 1..start(h) - 1 : In(h, j)} \in SUBSET (1..p)
    <3> HIDE DEF start, In
    <3> QED BY <1>6
  <2>3. anchor(h) \in 0..p
    <3> HIDE DEF start, In
    <3> QED BY <2>2, EndsInside
  <2>4. QED BY <2>1, <2>3
<1>8. Ahead(h, p) = Ahead(f, p)
  <2> HIDE DEF Ahead
  <2> QED BY <1>4
<1> DEFINE R(g) == [execution |-> Ahead(g, p), same |-> same(g),
                    other |-> IF anchor(g) # 0 /\ None \notin {g[p].branch, g[anchor(g)].branch} THEN anchor(g) ELSE 0,
                    start |-> start(g)]
<1>9. R(h) = R(f)
  <2>1. anchor(h) # 0 => h[anchor(h)] = f[anchor(f)]
    <3> HIDE DEF anchor
    <3> QED BY <1>1, <1>7
  <2>2. h[p] = f[p]
    BY <1>1
  <2> HIDE DEF anchor, Ahead, same, start
  <2> QED BY <1>5, <1>6, <1>7, <1>8, <2>1, <2>2
<1>10. H!Progression(h, p) = R(h) /\ H!Progression(f, p) = R(f)
  BY DEF H!Progression
<1>11. QED
  <2> HIDE DEF R
  <2> QED BY <1>9, <1>10

\* What is written beside a run depends on the runs up to it only.
LEMMA AnnotationsLocal ==
  ASSUME NEW h, NEW f, NEW p \in Nat \ {0}, Alike(h, f, p)
  PROVE  H!Annotations(h, p) = H!Annotations(f, p)
<1>1. h[p] = f[p]
  BY DEF Alike
<1>2. QED
  BY <1>1, BeforeLocal, TrendLocal, ContextLocal, ReferencesLocal, ObservedLocal, ProgressionLocal
  DEF H!Annotations, H!Verified

\* The k-th of a finite set of numbers is one of them.
LEMMA InOrderMember ==
  ASSUME NEW n \in Nat, NEW S \in SUBSET (1..n), NEW k \in 1..Cardinality(S)
  PROVE  InOrder(S)[k] \in S
<1> DEFINE Below(i) == {j \in S : j < i}
<1> DEFINE T == {i \in S : Cardinality(Below(i)) >= k - 1}
<1>1. IsFiniteSet(S) /\ Cardinality(S) \in Nat /\ S # {} /\ k \in Nat
  <2>1. IsFiniteSet(1..n)
    BY FS_Interval
  <2>2. IsFiniteSet(S) /\ Cardinality(S) \in Nat
    BY <2>1, FS_Subset, FS_CardinalityType
  <2>3. S = {} => Cardinality(S) = 0
    BY FS_EmptySet
  <2>4. QED BY <2>2, <2>3
<1>2. \A i \in S : IsFiniteSet(Below(i)) /\ Cardinality(Below(i)) \in Nat
  <2>1. \A i \in S : Below(i) \in SUBSET S
    OBVIOUS
  <2>2. QED
    <3> HIDE DEF Below
    <3> QED BY <1>1, <2>1, FS_Subset, FS_CardinalityType
<1>3. \A i, m \in S : (m \in Below(i) /\ \A j \in Below(i) : j <= m)
                      => Cardinality(Below(i)) = Cardinality(Below(m)) + 1
  <2>1. SUFFICES ASSUME NEW i \in S, NEW m \in S, m \in Below(i), \A j \in Below(i) : j <= m
                 PROVE  Cardinality(Below(i)) = Cardinality(Below(m)) + 1
    OBVIOUS
  <2>2. Below(i) = Below(m) \cup {m} /\ m \notin Below(m)
    <3>1. S \subseteq Int /\ m < i
      BY <2>1
    <3>2. \A j \in S : j < i => j <= m
      BY <2>1
    <3>3. \A j \in S : j < i <=> (j < m \/ j = m)
      <4> HIDE DEF Below
      <4> QED BY <3>1, <3>2
    <3>4. ~ (m < m)
      BY <3>1
    <3>5. QED BY <3>3, <3>4
  <2>3. QED
    <3> HIDE DEF Below
    <3> QED BY <1>2, <2>2, FS_AddElement
<1>4. T # {}
  <2>1. PICK m \in S : \A j \in S : m >= j
    BY <1>1, HasGreatest
  <2>2. Below(m) = S \ {m}
    <3>1. \A j \in S : j \in Int /\ m \in Int /\ m >= j
      BY <2>1
    <3>2. \A j \in S : j < m <=> j # m
      <4> HIDE DEF Below
      <4> QED BY <3>1
    <3>3. QED BY <3>2
  <2>3. Cardinality(Below(m)) = Cardinality(S) - 1
    <3> HIDE DEF Below
    <3> QED BY <1>1, <2>2, FS_RemoveElement
  <2>4. Cardinality(Below(m)) >= k - 1
    <3> HIDE DEF Below
    <3> QED BY <1>1, <2>3
  <2>5. QED BY <2>4
<1>5. PICK i \in T : \A j \in T : i <= j
  <2>1. T \in SUBSET Nat
    <3>1. S \subseteq Nat
      OBVIOUS
    <3>2. T \subseteq S
      <4> HIDE DEF Below
      <4> QED OBVIOUS
    <3> HIDE DEF T
    <3> QED BY <3>1, <3>2
  <2>2. QED
    <3> HIDE DEF T
    <3> QED BY <1>4, <2>1, HasLeast
<1>6. Cardinality(Below(i)) = k - 1
  <2>1. SUFFICES ASSUME Cardinality(Below(i)) # k - 1 PROVE FALSE
    OBVIOUS
  <2>2. i \in S /\ Cardinality(Below(i)) >= k /\ Cardinality(Below(i)) \in Nat
    <3>1. i \in S /\ Cardinality(Below(i)) >= k - 1
      BY <1>5
    <3>2. QED
      <4> HIDE DEF Below, T
      <4> QED BY <1>1, <1>2, <2>1, <3>1
  <2>3. Below(i) # {}
    <3>1. Below(i) = {} => Cardinality(Below(i)) = 0
      <4> HIDE DEF Below
      <4> QED BY FS_EmptySet
    <3>2. QED
      <4> HIDE DEF Below
      <4> QED BY <2>2, <3>1, <1>1
  <2>4. Below(i) \in SUBSET (1..n)
    OBVIOUS
  <2>5. PICK m \in Below(i) : \A j \in Below(i) : m >= j
    <3> HIDE DEF Below
    <3> QED BY <2>3, <2>4, HasGreatest
  <2>6. m \in S /\ m < i
    BY <2>5
  <2>7. Cardinality(Below(i)) = Cardinality(Below(m)) + 1
    BY <1>3, <2>2, <2>5, <2>6
  <2>8. m \in T
    <3>1. Cardinality(Below(m)) \in Nat
      <4> HIDE DEF Below
      <4> QED BY <1>2, <2>6
    <3>2. Cardinality(Below(m)) >= k - 1
      <4> HIDE DEF Below, T
      <4> QED BY <1>1, <2>2, <2>7, <3>1
    <3>3. QED BY <2>6, <3>2
  <2>9. QED BY <1>5, <2>2, <2>6, <2>8
<1>7. InOrder(S)[k] = CHOOSE x \in S : Cardinality({j \in S : j < x}) = k - 1
  BY DEF InOrder
<1>8. QED BY <1>5, <1>6, <1>7

\* Reports.SettledHistoryStays: in a report whose runs up to p are those of the
\* scope, each with all its records, nothing beside the run at p differs from what
\* the page would say if it knew all that is recorded now.
THEOREM SettledStays == Spec => []SettledHistoryStays
<1>1. ASSUME ReportInv PROVE SettledHistoryStays
  <2> DEFINE S == {i \in All : H!InScope(docs[i], req)}
  <2> DEFINE places == InOrder(S)
  <2> DEFINE full == [p \in DOMAIN places |->
                         H!Prepared(docs[places[p]], DOMAIN docs[places[p]].cases, req)]
  <2> DEFINE h == History
  <2>1. SUFFICES ASSUME NEW p \in DOMAIN h, p \in DOMAIN full,
                        \A q \in 1..p : /\ InOrder(found)[q] = places[q]
                                        /\ h[q].complete /\ Honest(h[q].run)
                 PROVE  H!Annotations(h, p) = H!Annotations(full, p)
    BY DEF SettledHistoryStays, ToldHistories
  <2>2. found \in SUBSET (1..Len(docs)) /\ Len(docs) \in Nat /\ S \in SUBSET (1..Len(docs))
    BY <1>1, Numbered DEF ReportInv, TypeOK
  <2>3. Cardinality(found) \in Nat /\ Cardinality(S) \in Nat
    <3>1. IsFiniteSet(1..Len(docs))
      BY <2>2, FS_Interval
    <3>2. QED
      <4> HIDE DEF S
      <4> QED BY <2>2, <3>1, FS_Subset, FS_CardinalityType
  <2>4. p \in 1..Cardinality(found) /\ p \in 1..Cardinality(S) /\ p \in Nat \ {0}
    <3>1. DOMAIN h = 1..Cardinality(found) /\ DOMAIN full = 1..Cardinality(S)
      BY DEF History, InOrder
    <3>2. QED
      <4> HIDE DEF h, full, S
      <4> QED BY <2>1, <2>3, <3>1
  <2>5. ASSUME NEW q \in 1..p PROVE h[q] = full[q]
    <3>1. q \in 1..Cardinality(found) /\ q \in 1..Cardinality(S)
      <4> HIDE DEF S
      <4> QED BY <2>3, <2>4
    <3> DEFINE i == InOrder(found)[q]
    <3>2. i \in found /\ i = places[q]
      <4>1. i \in found
        BY <2>2, <3>1, InOrderMember
      <4>2. QED BY <2>1, <4>1
    <3>3. h[q] = Run(i) /\ full[q] = H!Prepared(docs[i], DOMAIN docs[i].cases, req)
      <4>1. h[q] = Run(i)
        BY <3>1 DEF History
      <4>2. full[q] = H!Prepared(docs[places[q]], DOMAIN docs[places[q]].cases, req)
        BY <3>1 DEF InOrder
      <4>3. QED
        <5> HIDE DEF full, h, places, i
        <5> QED BY <3>2, <4>1, <4>2
    <3>4. Run(i).run = docs[i]
      BY DEF Run, H!Prepared
    <3>5. Run(i).complete /\ Honest(docs[i])
      <4> HIDE DEF h, i, full, places
      <4> QED BY <2>1, <3>3, <3>4
    <3>6. {c[2] : c \in {d \in got : d[1] = i}} = DOMAIN docs[i].cases
      <4> HIDE DEF i
      <4> QED BY <1>1, <3>2, <3>5, CompleteRun
    <3>7. Run(i) = H!Prepared(docs[i], DOMAIN docs[i].cases, req)
      <4> HIDE DEF i
      <4> QED BY <3>6 DEF Run
    <3>8. QED
      <4> HIDE DEF h, full, i
      <4> QED BY <3>3, <3>7
  <2>6. QED
    <3> HIDE DEF h, full
    <3> QED BY <2>4, <2>5, AnnotationsLocal DEF Alike
<1>2. QED BY <1>1, ReportInvariant, PTL

-----------------------------------------------------------------------------
(* What all runs of one report share *)

\* The key of a branch is its name and its context: one scope, one context,
\* unless the scope takes all of them, and then the key holds the context.
Keyed(h) ==
  \A q, r \in DOMAIN h :
      h[q].branch_key = h[r].branch_key <=>
          h[q].branch = h[r].branch /\ h[q].context = h[r].context

PassedIn(r) == {n \in H!Cases(r) : r.verdicts[n] = "passed"}

\* What a run that passes for measured has been found to be.
Evidence(h) ==
  \A q \in DOMAIN h :
      /\ h[q].complete =>
            /\ h[q].cohort = <<h[q].context, h[q].config, {h[q].tests[n] : n \in H!Cases(h[q])}>>
            /\ h[q].run.status = "completed"
      /\ DOMAIN h[q].tests = H!Cases(h[q])
      /\ h[q].measured =>
            /\ h[q].complete
            /\ h[q].run.verdict \notin H!Operational
            /\ \A n \in H!Cases(h[q]) : h[q].verdicts[n] \in {"passed", "failed"}
            /\ Cardinality(H!Cases(h[q])) > 0
            /\ h[q].rate = (Cardinality(PassedIn(h[q])) * 100) \div Cardinality(H!Cases(h[q]))
      /\ IsFiniteSet(H!Cases(h[q]))

\* One run is configured if a run like it is.
Configured(h) ==
  \A q, r \in DOMAIN h :
      h[q].context = h[r].context /\ h[q].config = h[r].config =>
          h[q].configured = h[r].configured

\* The k-th run of a history is that of a document it was asked for.
LEMMA HistoryRun ==
  ASSUME ReportInv, AsAsked, req.kind = "history", NEW p \in DOMAIN History
  PROVE  \E i \in found : History[p] = Run(i) /\ H!InScope(docs[i], req)
<1>1. found \in SUBSET (1..Len(docs)) /\ Len(docs) \in Nat
  BY Numbered DEF ReportInv, TypeOK
<1>2. p \in 1..Cardinality(found)
  BY DEF History
<1>3. InOrder(found)[p] \in found
  BY <1>1, <1>2, InOrderMember
<1>4. History[p] = Run(InOrder(found)[p])
  BY <1>2 DEF History
<1>5. QED BY <1>3, <1>4 DEF AsAsked

\* A report has finitely many runs.
LEMMA HistoryPlaces ==
  ASSUME ReportInv
  PROVE  Cardinality(found) \in Nat /\ DOMAIN History = 1..Cardinality(found)
<1>1. found \in SUBSET (1..Len(docs)) /\ Len(docs) \in Nat
  BY Numbered DEF ReportInv, TypeOK
<1>2. IsFiniteSet(1..Len(docs))
  BY <1>1, FS_Interval
<1>3. Cardinality(found) \in Nat
  BY <1>1, <1>2, FS_Subset, FS_CardinalityType
<1>4. QED BY <1>3 DEF History

\* What is made of a document for which the records ks were read.
MadeOf(h, doc, ks, scope) ==
  /\ h.run = doc /\ h.branch = doc.branch /\ h.config = doc.config
  /\ h.context = [stage |-> doc.stage, target |-> doc.target, environment |-> doc.environment]
  /\ h.branch_key = IF H!SplitContext(scope) THEN <<h.branch, h.context>> ELSE <<h.branch>>
  /\ h.configured = (/\ H!ConfigComplete(h.config)
                     /\ H!ScopeComplete(scope)
                     /\ H!SplitContext(scope) => H!ContextKnown(h.context))
  /\ h.complete => h.cohort = <<h.context, h.config, {h.tests[n] : n \in H!Cases(h)}>>
  /\ h.complete => doc.status = "completed"
  /\ DOMAIN h.tests = H!Cases(h)
  /\ h.measured => /\ h.complete
                   /\ doc.verdict \notin H!Operational
                   /\ \A n \in H!Cases(h) : h.verdicts[n] \in {"passed", "failed"}
                   /\ Cardinality(H!Cases(h)) > 0
                   /\ h.rate = (Cardinality(PassedIn(h)) * 100) \div Cardinality(H!Cases(h))
  /\ IsFiniteSet(ks) => IsFiniteSet(H!Cases(h))

\* What _prepare_history_run makes of a document is that.
LEMMA PreparedFacts ==
  \A doc, ks, scope : MadeOf(H!Prepared(doc, ks, scope), doc, ks, scope)
<1>0. SUFFICES ASSUME NEW doc, NEW ks, NEW scope, NEW h, h = H!Prepared(doc, ks, scope)
               PROVE  MadeOf(h, doc, ks, scope)
  OBVIOUS
<1> DEFINE OfCase(n) == {doc.cases[k] : k \in {l \in ks : doc.cases[l].name = n}}
           names     == {doc.cases[k].name : k \in ks} \ {None}
           verdicts  == [n \in names |-> H!CaseVerdict({c.verdict : c \in OfCase(n)})]
           tests     == [n \in names |-> {c.definition : c \in OfCase(n)}]
           complete  == H!CasesComplete(doc, ks)
<1>1. /\ h.run = doc /\ h.branch = doc.branch /\ h.config = doc.config
      /\ h.context = [stage |-> doc.stage, target |-> doc.target, environment |-> doc.environment]
  BY <1>0 DEF H!Prepared
<1>2. h.verdicts = verdicts /\ h.tests = tests /\ H!Cases(h) = names /\ h.complete = complete
  BY <1>0 DEF H!Prepared, H!Cases
<1>3. h.branch_key = IF H!SplitContext(scope) THEN <<h.branch, h.context>> ELSE <<h.branch>>
  BY <1>0 DEF H!Prepared
<1>4. h.configured = (/\ H!ConfigComplete(h.config)
                      /\ H!ScopeComplete(scope)
                      /\ H!SplitContext(scope) => H!ContextKnown(h.context))
  BY <1>0 DEF H!Prepared
<1>5. h.cohort = IF complete THEN <<h.context, h.config, {tests[n] : n \in names}>> ELSE None
  BY <1>0 DEF H!Prepared
<1>6. h.measured = (/\ complete
                    /\ doc.verdict \notin H!Operational
                    /\ Cardinality(names) = doc.total
                    /\ \A n \in names : verdicts[n] \in {"passed", "failed"}
                    /\ doc.passed = Cardinality({n \in names : verdicts[n] = "passed"}))
  <2>1. \A S : H!Cardinality(S) = Cardinality(S)
    BY DEF H!Cardinality, Cardinality
  <2>2. h.measured = (/\ complete
                      /\ doc.verdict \notin H!Operational
                      /\ H!Cardinality(names) = doc.total
                      /\ \A n \in names : verdicts[n] \in {"passed", "failed"}
                      /\ doc.passed = H!Cardinality({n \in names : verdicts[n] = "passed"}))
    BY <1>0 DEF H!Prepared
  <2>3. QED
    <3> HIDE DEF names, verdicts, complete
    <3> QED BY <2>1, <2>2
<1>7. complete => doc.status = "completed" /\ H!Counted(doc) /\ doc.total > 0
  BY DEF H!CasesComplete
<1>8. DOMAIN tests = names
  OBVIOUS
<1>9. PassedIn(h) = {n \in names : verdicts[n] = "passed"}
  <2> HIDE DEF names, verdicts, tests, complete
  <2> QED BY <1>2 DEF PassedIn
<1>10. h.rate = IF H!Counted(doc) /\ doc.total > 0 THEN (doc.passed * 100) \div doc.total ELSE None
  BY <1>0 DEF H!Prepared
<1>11. ASSUME IsFiniteSet(ks) PROVE IsFiniteSet(names)
  <2> DEFINE all == {doc.cases[k].name : k \in ks}
  <2> DEFINE f == [k \in ks |-> doc.cases[k].name]
  <2>1. f \in Surjection(ks, all)
    BY DEF Surjection
  <2>2. IsFiniteSet(all)
    <3> HIDE DEF f, all
    <3> QED BY <1>11, <2>1, FS_Surjection
  <2>3. names \in SUBSET all
    OBVIOUS
  <2>4. QED
    <3> HIDE DEF names, all
    <3> QED BY <2>2, <2>3, FS_Subset
<1>12. ASSUME h.measured
       PROVE  /\ h.complete /\ doc.verdict \notin H!Operational
              /\ \A n \in H!Cases(h) : h.verdicts[n] \in {"passed", "failed"}
              /\ Cardinality(H!Cases(h)) > 0
              /\ h.rate = (Cardinality(PassedIn(h)) * 100) \div Cardinality(H!Cases(h))
  <2> HIDE DEF names, verdicts, tests, complete
  <2>1. /\ complete /\ doc.verdict \notin H!Operational
        /\ Cardinality(names) = doc.total
        /\ \A n \in names : verdicts[n] \in {"passed", "failed"}
        /\ doc.passed = Cardinality(PassedIn(h))
    BY <1>6, <1>9, <1>12
  <2>2. h.rate = (doc.passed * 100) \div doc.total /\ doc.total > 0
    BY <1>7, <1>10, <2>1
  <2>3. QED BY <1>2, <2>1, <2>2
<1>13. QED
  <2> HIDE DEF names, verdicts, tests, complete
  <2> QED BY <1>1, <1>2, <1>3, <1>4, <1>5, <1>7, <1>8, <1>11, <1>12 DEF MadeOf

\* The runs of a report share what they were asked for.
LEMMA HistoryFacts ==
  ASSUME ReportInv, AsAsked, req.kind = "history"
  PROVE  Keyed(History) /\ Evidence(History) /\ Configured(History)
<1> DEFINE ks(i) == {c[2] : c \in {d \in got : d[1] = i}}
<1>1. \A p \in DOMAIN History : \E i \in found :
         History[p] = H!Prepared(docs[i], ks(i), req) /\ H!InScope(docs[i], req)
  BY HistoryRun DEF Run
<1>2. ASSUME NEW i PROVE IsFiniteSet(ks(i))
  <2> DEFINE S == {d \in got : d[1] = i}
  <2> DEFINE f == [c \in S |-> c[2]]
  <2>1. IsFiniteSet(S)
    <3>1. S \in SUBSET got
      OBVIOUS
    <3>2. QED
      <4> HIDE DEF S
      <4> QED BY <3>1, ReadFinite, FS_Subset
  <2>2. f \in Surjection(S, ks(i))
    BY DEF Surjection
  <2>3. QED
    <3> HIDE DEF S, f, ks
    <3> QED BY <2>1, <2>2, FS_Surjection
<1> HIDE DEF ks
<1>3. ASSUME NEW p \in DOMAIN History, NEW q \in DOMAIN History
      PROVE  History[p].branch_key = History[q].branch_key <=>
                /\ History[p].branch = History[q].branch
                /\ History[p].context = History[q].context
  <2>1. PICK i \in found : History[p] = H!Prepared(docs[i], ks(i), req) /\ H!InScope(docs[i], req)
    BY <1>1
  <2>2. PICK j \in found : History[q] = H!Prepared(docs[j], ks(j), req) /\ H!InScope(docs[j], req)
    BY <1>1
  <2>3. /\ History[p].context = [stage |-> docs[i].stage, target |-> docs[i].target,
                                 environment |-> docs[i].environment]
        /\ History[p].branch_key = IF H!SplitContext(req) THEN <<History[p].branch, History[p].context>>
                                   ELSE <<History[p].branch>>
    BY <2>1, PreparedFacts DEF MadeOf
  <2>4. /\ History[q].context = [stage |-> docs[j].stage, target |-> docs[j].target,
                                 environment |-> docs[j].environment]
        /\ History[q].branch_key = IF H!SplitContext(req) THEN <<History[q].branch, History[q].context>>
                                   ELSE <<History[q].branch>>
    BY <2>2, PreparedFacts DEF MadeOf
  <2>5. CASE H!SplitContext(req)
    BY <2>3, <2>4, <2>5
  <2>6. CASE ~H!SplitContext(req)
    <3>1. History[p].context = History[q].context
      BY <2>1, <2>2, <2>3, <2>4, <2>6 DEF H!SplitContext, H!InScope
    <3>2. QED BY <2>3, <2>4, <2>6, <3>1
  <2>7. QED BY <2>5, <2>6
<1>4. ASSUME NEW p \in DOMAIN History, NEW q \in DOMAIN History,
             History[p].context = History[q].context, History[p].config = History[q].config
      PROVE  History[p].configured = History[q].configured
  <2>1. PICK i \in found : History[p] = H!Prepared(docs[i], ks(i), req)
    BY <1>1
  <2>2. PICK j \in found : History[q] = H!Prepared(docs[j], ks(j), req)
    BY <1>1
  <2>3. History[p].configured = (/\ H!ConfigComplete(History[p].config)
                                 /\ H!ScopeComplete(req)
                                 /\ H!SplitContext(req) => H!ContextKnown(History[p].context))
    <3>1. MadeOf(History[p], docs[i], ks(i), req)
      BY <2>1, PreparedFacts
    <3>2. QED BY <3>1 DEF MadeOf
  <2>4. History[q].configured = (/\ H!ConfigComplete(History[q].config)
                                 /\ H!ScopeComplete(req)
                                 /\ H!SplitContext(req) => H!ContextKnown(History[q].context))
    <3>1. MadeOf(History[q], docs[j], ks(j), req)
      BY <2>2, PreparedFacts
    <3>2. QED BY <3>1 DEF MadeOf
  <2>5. QED BY <1>4, <2>3, <2>4
<1>5. Evidence(History)
  <2>1. SUFFICES ASSUME NEW q \in DOMAIN History
        PROVE  /\ History[q].complete =>
                    /\ History[q].cohort = <<History[q].context, History[q].config,
                                            {History[q].tests[n] : n \in H!Cases(History[q])}>>
                    /\ History[q].run.status = "completed"
               /\ DOMAIN History[q].tests = H!Cases(History[q])
               /\ History[q].measured =>
                    /\ History[q].complete
                    /\ History[q].run.verdict \notin H!Operational
                    /\ \A n \in H!Cases(History[q]) : History[q].verdicts[n] \in {"passed", "failed"}
                    /\ Cardinality(H!Cases(History[q])) > 0
                    /\ History[q].rate = (Cardinality(PassedIn(History[q])) * 100)
                                            \div Cardinality(H!Cases(History[q]))
               /\ IsFiniteSet(H!Cases(History[q]))
    BY DEF Evidence
  <2>2. PICK i \in found : History[q] = H!Prepared(docs[i], ks(i), req)
    BY <1>1
  <2> DEFINE r == History[q]
  <2> HIDE DEF r
  <2>3. r = H!Prepared(docs[i], ks(i), req) /\ IsFiniteSet(ks(i))
    BY <1>2, <2>2 DEF r
  <2>4. /\ r.run = docs[i]
        /\ r.complete => r.cohort = <<r.context, r.config, {r.tests[n] : n \in H!Cases(r)}>>
        /\ r.complete => docs[i].status = "completed"
        /\ DOMAIN r.tests = H!Cases(r)
        /\ r.measured => /\ r.complete
                         /\ docs[i].verdict \notin H!Operational
                         /\ \A n \in H!Cases(r) : r.verdicts[n] \in {"passed", "failed"}
                         /\ Cardinality(H!Cases(r)) > 0
                         /\ r.rate = (Cardinality(PassedIn(r)) * 100) \div Cardinality(H!Cases(r))
        /\ IsFiniteSet(H!Cases(r))
    BY <2>3, PreparedFacts DEF MadeOf
  <2>5. QED BY <2>4 DEF r
<1>6. QED BY <1>3, <1>4, <1>5 DEF Keyed, Configured

-----------------------------------------------------------------------------
(* Four passes, one history *)

\* The run before is the last of the branch up to here.
LEMMA BeforeIs ==
  ASSUME NEW h, NEW p \in Nat \ {0}
  PROVE  /\ H!Before(h, p) \in 0..p - 1
         /\ H!Before(h, p) # 0 => h[H!Before(h, p)].branch_key = h[p].branch_key
         /\ \A j \in 1..p - 1 : h[j].branch_key = h[p].branch_key =>
                H!Before(h, p) # 0 /\ j <= H!Before(h, p)
<1> DEFINE S == {j \in 1..p - 1 : h[j].branch_key = h[p].branch_key}
<1>1. S \in SUBSET (1..p - 1) /\ p - 1 \in Nat /\ H!Before(h, p) = H!Latest(S)
  BY DEF H!Before
<1>2. \A j \in S : h[j].branch_key = h[p].branch_key /\ j # 0
  OBVIOUS
<1>3. \A j \in 1..p - 1 : h[j].branch_key = h[p].branch_key => j \in S
  OBVIOUS
<1>4. S = {} => H!Latest(S) = 0
  BY DEF H!Latest
<1>5. S # {} => H!Latest(S) \in S /\ \A x \in S : x <= H!Latest(S)
  <2> HIDE DEF S
  <2> QED BY <1>1, EndsAreMembers
<1>6. H!Latest(S) \in 0..p - 1
  <2> HIDE DEF S
  <2> QED BY <1>1, EndsInside
<1>7. QED
  <2> HIDE DEF S
  <2> QED BY <1>1, <1>2, <1>3, <1>4, <1>5, <1>6

\* Measured runs agree in cohort and tests if they agree in what makes a reference.
LEMMA SameSignature ==
  ASSUME NEW h, Evidence(h), NEW q \in DOMAIN h, NEW r \in DOMAIN h,
         h[q].measured, h[r].measured
  PROVE  /\ h[q].cohort = h[r].cohort /\ h[q].tests = h[r].tests <=>
                H!Signature(h[q]) = H!Signature(h[r])
         /\ h[q].cohort = h[r].cohort => h[q].context = h[r].context /\ h[q].config = h[r].config
<1>1. /\ h[q].cohort = <<h[q].context, h[q].config, {h[q].tests[n] : n \in DOMAIN h[q].tests}>>
      /\ h[r].cohort = <<h[r].context, h[r].config, {h[r].tests[n] : n \in DOMAIN h[r].tests}>>
  BY DEF Evidence
<1>2. /\ H!Signature(h[q]) = <<h[q].context, h[q].config, h[q].tests>>
      /\ H!Signature(h[r]) = <<h[r].context, h[r].config, h[r].tests>>
  BY DEF H!Signature
<1>3. QED BY <1>1, <1>2

\* The verified references of a run, each the latest of its branch.
LEMMA ReferencesAre ==
  ASSUME NEW h, NEW p \in Nat \ {0}
  PROVE  /\ \A r \in H!References(h, p) :
                /\ r \in 1..p - 1 /\ H!Referable(h[r]) /\ H!Referable(h[p])
                /\ H!Signature(h[r]) = H!Signature(h[p])
         /\ \A j \in 1..p - 1 :
                /\ H!Referable(h[p]) /\ H!Referable(h[j]) /\ H!Signature(h[j]) = H!Signature(h[p])
                /\ \A k \in 1..p - 1 : H!Referable(h[k]) /\ H!Signature(h[k]) = H!Signature(h[p])
                                       /\ h[k].branch = h[j].branch => k <= j
                => j \in H!References(h, p)
<1> DEFINE alike == {j \in 1..p - 1 : H!Referable(h[j]) /\ H!Signature(h[j]) = H!Signature(h[p])}
<1> DEFINE On(j) == {k \in alike : h[k].branch = h[j].branch}
<1>1. H!References(h, p) = IF H!Referable(h[p]) THEN {H!Latest(On(j)) : j \in alike} ELSE {}
  BY DEF H!References
<1>2. \A j \in alike : On(j) \in SUBSET (1..p - 1) /\ j \in On(j)
  OBVIOUS
<1>3. \A j \in alike : H!Latest(On(j)) \in On(j) /\ \A k \in On(j) : k <= H!Latest(On(j))
  <2> HIDE DEF On, alike
  <2>1. p - 1 \in Nat
    OBVIOUS
  <2>2. SUFFICES ASSUME NEW j \in alike
                 PROVE  H!Latest(On(j)) \in On(j) /\ \A k \in On(j) : k <= H!Latest(On(j))
    OBVIOUS
  <2>3. On(j) \in SUBSET (1..p - 1) /\ On(j) # {}
    BY <1>2
  <2>4. QED BY <2>1, <2>3, EndsAreMembers
<1>4. \A j \in alike : H!Latest(On(j)) \in alike
  <2>1. \A j \in alike : On(j) \subseteq alike
    OBVIOUS
  <2>2. QED
    <3> HIDE DEF On, alike
    <3> QED BY <1>3, <2>1
<1>5. ASSUME NEW r \in H!References(h, p)
      PROVE  /\ r \in 1..p - 1 /\ H!Referable(h[r]) /\ H!Referable(h[p])
             /\ H!Signature(h[r]) = H!Signature(h[p])
  <2>1. H!Referable(h[p]) /\ r \in alike
    <3> HIDE DEF On, alike
    <3> QED BY <1>1, <1>4, <1>5
  <2>2. QED BY <2>1
<1>6. ASSUME NEW j \in 1..p - 1, H!Referable(h[p]), H!Referable(h[j]),
             H!Signature(h[j]) = H!Signature(h[p]),
             \A k \in 1..p - 1 : H!Referable(h[k]) /\ H!Signature(h[k]) = H!Signature(h[p])
                                 /\ h[k].branch = h[j].branch => k <= j
      PROVE  j \in H!References(h, p)
  <2>1. j \in alike /\ \A k \in On(j) : k <= j
    BY <1>6
  <2>2. H!Latest(On(j)) = j
    <3>1. H!Latest(On(j)) <= j /\ j <= H!Latest(On(j)) /\ H!Latest(On(j)) \in 1..p - 1
      <4> HIDE DEF On, alike
      <4> QED BY <1>2, <1>3, <2>1
    <3>2. QED
      <4> HIDE DEF On, alike
      <4> QED BY <3>1
  <2>3. QED
    <3> HIDE DEF On, alike
    <3> QED BY <1>1, <1>6, <2>1, <2>2
<1>7. QED
  <2> HIDE DEF On, alike
  <2> QED BY <1>5, <1>6

\* The observed references of a run are the latest measured ones of each branch
\* in its context, but for those that are verified.
LEMMA ObservedAre ==
  ASSUME NEW h, NEW p \in Nat \ {0}
  PROVE  /\ \A r \in H!Observed(h, p) :
                /\ r.run \in 1..p - 1 /\ h[r.run].measured /\ h[r.run].branch # None
                /\ h[r.run].context = h[p].context
                /\ r.run \notin H!References(h, p)
         /\ \A j \in 1..p - 1 :
                /\ h[p].measured /\ h[p].branch # None
                /\ h[j].measured /\ h[j].branch # None /\ h[j].context = h[p].context
                /\ \A k \in 1..p - 1 : h[k].measured /\ h[k].context = h[p].context
                                       /\ h[k].branch = h[j].branch => k <= j
                => j \in H!References(h, p) \/ \E r \in H!Observed(h, p) : r.run = j
         /\ \A j \in 1..p - 1 :
                /\ h[p].measured /\ h[p].branch # None
                /\ h[j].measured /\ h[j].branch # None /\ h[j].context = h[p].context
                => H!References(h, p) # {} \/ H!Observed(h, p) # {}
<1> DEFINE seen == {j \in 1..p - 1 : /\ h[j].measured /\ h[j].branch # None
                                     /\ h[j].context = h[p].context}
<1> DEFINE On(j) == {k \in seen : h[k].branch = h[j].branch}
<1> DEFINE last == {H!Latest(On(j)) : j \in seen}
<1> DEFINE O == {[run |-> j, warnings |-> H!ObservedWarnings(h[p], h[j])] : j \in last \ H!References(h, p)}
<1>1. H!Observed(h, p) = IF h[p].measured /\ h[p].branch # None THEN O ELSE {}
  BY DEF H!Observed, H!Verified
<1>2. \A j \in seen : On(j) \in SUBSET (1..p - 1) /\ j \in On(j) /\ On(j) \subseteq seen
  OBVIOUS
<1>3. \A j \in seen : H!Latest(On(j)) \in On(j) /\ \A k \in On(j) : k <= H!Latest(On(j))
  <2> HIDE DEF On, seen
  <2>1. p - 1 \in Nat
    OBVIOUS
  <2>2. SUFFICES ASSUME NEW j \in seen
                 PROVE  H!Latest(On(j)) \in On(j) /\ \A k \in On(j) : k <= H!Latest(On(j))
    OBVIOUS
  <2>3. On(j) \in SUBSET (1..p - 1) /\ On(j) # {}
    BY <1>2
  <2>4. QED BY <2>1, <2>3, EndsAreMembers
<1>4. last \subseteq seen
  <2>1. \A j \in seen : H!Latest(On(j)) \in seen
    <3> HIDE DEF On, seen
    <3> QED BY <1>2, <1>3
  <2>2. QED
    <3> HIDE DEF On, seen
    <3> QED BY <2>1
<1>5. /\ \A r \in O : r.run \in last /\ r.run \notin H!References(h, p)
      /\ \A j \in last : j \in H!References(h, p) \/ \E r \in O : r.run = j
  <2>1. \A r \in O : r.run \in last /\ r.run \notin H!References(h, p)
    <3> HIDE DEF last
    <3> QED OBVIOUS
  <2>2. ASSUME NEW j \in last, j \notin H!References(h, p) PROVE \E r \in O : r.run = j
    <3> DEFINE r == [run |-> j, warnings |-> H!ObservedWarnings(h[p], h[j])]
    <3>1. r \in O /\ r.run = j
      <4> HIDE DEF last
      <4> QED BY <2>2
    <3>2. QED
      <4> HIDE DEF r, O
      <4> QED BY <3>1
  <2>3. QED BY <2>1, <2>2
<1>6. ASSUME NEW r \in H!Observed(h, p)
      PROVE  /\ r.run \in 1..p - 1 /\ h[r.run].measured /\ h[r.run].branch # None
             /\ h[r.run].context = h[p].context
             /\ r.run \notin H!References(h, p)
  <2>1. r.run \in seen /\ r.run \notin H!References(h, p)
    <3> HIDE DEF On, seen, last, O
    <3> QED BY <1>1, <1>4, <1>5, <1>6
  <2>2. QED BY <2>1
<1>7. ASSUME NEW j \in 1..p - 1, h[p].measured, h[p].branch # None,
             h[j].measured, h[j].branch # None, h[j].context = h[p].context
      PROVE  /\ H!References(h, p) # {} \/ H!Observed(h, p) # {}
             /\ (\A k \in 1..p - 1 : h[k].measured /\ h[k].context = h[p].context
                                     /\ h[k].branch = h[j].branch => k <= j)
                => j \in H!References(h, p) \/ \E r \in H!Observed(h, p) : r.run = j
  <2>1. j \in seen /\ H!Latest(On(j)) \in last
    BY <1>7
  <2>2. H!References(h, p) # {} \/ H!Observed(h, p) # {}
    <3> HIDE DEF On, seen, last, O
    <3> QED BY <1>1, <1>5, <1>7, <2>1
  <2>3. ASSUME \A k \in 1..p - 1 : h[k].measured /\ h[k].context = h[p].context
                                   /\ h[k].branch = h[j].branch => k <= j
        PROVE  H!Latest(On(j)) = j
    <3>1. \A k \in On(j) : k <= j
      BY <2>3
    <3>2. H!Latest(On(j)) <= j /\ j <= H!Latest(On(j)) /\ H!Latest(On(j)) \in 1..p - 1
      <4> HIDE DEF On, seen
      <4> QED BY <1>2, <1>3, <2>1, <3>1
    <3>3. QED
      <4> HIDE DEF On, seen
      <4> QED BY <3>2
  <2>4. QED
    <3> HIDE DEF On, seen, last, O
    <3> QED BY <1>1, <1>5, <1>7, <2>1, <2>2, <2>3
<1>8. QED
  <2> HIDE DEF On, seen, last, O
  <2> QED BY <1>6, <1>7

\* The line of progress: its step before, and the one on the same branch.
LEMMA ProgressionIs ==
  ASSUME NEW h, NEW p \in Nat \ {0}, h[p].branch # None
  PROVE  \A j \in 1..p - 1 :
            h[j].measured /\ h[j].context = h[p].context /\ H!Settings(h[j]) = H!Settings(h[p]) =>
              /\ j <= H!Progression(h, p).execution
              /\ h[j].branch = h[p].branch
                 /\ (\A k \in 1..p - 1 : h[k].measured /\ h[k].context = h[p].context
                                         /\ h[k].branch = h[p].branch => k <= j)
                 => H!Progression(h, p).same = j
<1> DEFINE In(j) == h[j].measured /\ h[j].context = h[p].context /\ H!Settings(h[j]) = H!Settings(h[p])
<1> DEFINE line == {j \in 1..p - 1 : In(j)}
<1> DEFINE branch == {j \in 1..p - 1 : In(j) /\ h[j].branch = h[p].branch}
<1>1. H!Progression(h, p).execution = H!Latest(line) /\ H!Progression(h, p).same = H!Latest(branch)
  BY DEF H!Progression
<1>2. line \in SUBSET (1..p - 1) /\ branch \in SUBSET (1..p - 1) /\ p - 1 \in Nat
  OBVIOUS
<1>3. \A j \in line : j <= H!Latest(line)
  <2> HIDE DEF line
  <2> QED BY <1>2, EndsAreMembers
<1>4. \A j \in branch : H!Latest(branch) \in branch /\ j <= H!Latest(branch)
  <2> HIDE DEF branch
  <2> QED BY <1>2, EndsAreMembers
<1>5. ASSUME NEW j \in 1..p - 1, In(j), h[j].branch = h[p].branch,
             \A k \in 1..p - 1 : h[k].measured /\ h[k].context = h[p].context
                                 /\ h[k].branch = h[p].branch => k <= j
      PROVE  H!Latest(branch) = j
  <2>1. j \in branch /\ \A k \in branch : k <= j
    BY <1>5
  <2>2. j <= H!Latest(branch) /\ H!Latest(branch) <= j /\ H!Latest(branch) \in 1..p - 1
    <3> HIDE DEF branch
    <3> QED BY <1>2, <1>4, <2>1
  <2>3. QED
    <3> HIDE DEF branch
    <3> QED BY <2>2
<1>6. \A j \in 1..p - 1 : In(j) => j \in line
  OBVIOUS
<1>7. QED
  <2> HIDE DEF line, branch
  <2> QED BY <1>1, <1>3, <1>5, <1>6

\* The run before on the branch in another context is later than the one in its own.
LEMMA ContextBeforeIs ==
  ASSUME NEW h, NEW n \in Nat, DOMAIN h = 1..n, Keyed(h), NEW p \in 1..n,
         H!ContextBefore(h, p) # 0
  PROVE  H!ContextBefore(h, p) > H!Before(h, p)
<1> DEFINE S == {k \in 1..p - 1 : h[p].branch # None /\ h[k].branch = h[p].branch}
<1> DEFINE c == H!Latest(S)
<1> DEFINE b == H!Before(h, p)
<1>1. H!ContextBefore(h, p) = IF c # 0 /\ h[p].measured /\ h[c].measured /\ h[p].context # h[c].context
                              THEN c ELSE 0
  BY DEF H!ContextBefore
<1>2. c # 0 /\ h[p].context # h[c].context /\ H!ContextBefore(h, p) = c
  <2> HIDE DEF c
  <2> QED BY <1>1
<1>3. S \in SUBSET (1..p - 1) /\ p - 1 \in Nat /\ p \in Nat \ {0}
  OBVIOUS
<1>4. S # {}
  <2> HIDE DEF S
  <2> QED BY <1>2 DEF H!Latest
<1>5. c \in S /\ \A k \in S : k <= c
  <2> HIDE DEF S
  <2> QED BY <1>3, <1>4, EndsAreMembers
<1>6. b \in 0..p - 1 /\ (b # 0 => h[b].branch_key = h[p].branch_key)
  BY <1>3, BeforeIs
<1>7. CASE b = 0
  BY <1>2, <1>3, <1>5, <1>7
<1>8. CASE b # 0
  <2>1. b \in 1..p - 1 /\ b \in DOMAIN h /\ p \in DOMAIN h
    <3> HIDE DEF b
    <3> QED BY <1>6, <1>8
  <2>2. h[b].branch = h[p].branch /\ h[b].context = h[p].context
    <3> HIDE DEF b
    <3> QED BY <1>6, <1>8, <2>1 DEF Keyed
  <2>3. h[p].branch # None
    <3> HIDE DEF c, b
    <3> QED BY <1>5
  <2>4. b \in S
    <3> HIDE DEF b, c
    <3> QED BY <2>1, <2>2, <2>3
  <2>5. b <= c /\ b # c /\ b \in Int /\ c \in Int
    <3> HIDE DEF S, b, c
    <3>1. b <= c
      BY <1>5, <2>4
    <3>2. b # c
      BY <1>2, <2>2
    <3>3. c \in 1..p - 1
      BY <1>3, <1>5
    <3>4. QED BY <1>3, <2>1, <3>1, <3>2, <3>3
  <2>6. QED
    <3> HIDE DEF S, b, c
    <3> QED BY <1>2, <2>5 DEF b
<1>9. QED BY <1>7, <1>8

\* The passes agree beside one run.
LEMMA AgreeAt ==
  ASSUME NEW h, NEW n \in Nat, DOMAIN h = 1..n, Keyed(h), Evidence(h), NEW p \in 1..n,
         NEW a, a = H!Annotations(h, p)
  PROVE  /\ a.transition = "comparable" =>
                a.before \in a.references /\ a.progression.same = a.before
         /\ a.transition = "settings_changed" => \E r \in a.observed : r.run = a.before
         /\ \A r \in a.observed : r.run \notin a.references
         /\ \A r \in a.references : r <= a.progression.execution
         /\ a.context # 0 => a.context > a.before
         /\ h[p].measured /\ h[p].branch # None =>
                (a.alone <=> ~\E q \in 1..p - 1 : /\ h[q].measured /\ h[q].branch # None
                                                 /\ h[q].context = h[p].context)
<1> DEFINE b == H!Before(h, p)
<1>1. /\ a.before = b /\ a.transition = H!Transition(h, p)
      /\ a.references = H!References(h, p) /\ a.observed = H!Observed(h, p)
      /\ a.context = H!ContextBefore(h, p)
      /\ h[p].measured => a.progression = H!Progression(h, p)
      /\ a.alone = (/\ h[p].branch # None /\ H!References(h, p) = {} /\ H!Observed(h, p) = {})
  BY DEF H!Annotations, H!Verified
<1>2. p \in Nat \ {0} /\ 1..p - 1 \subseteq DOMAIN h /\ p \in DOMAIN h
  OBVIOUS
<1>3. /\ b \in 0..p - 1
      /\ b # 0 => h[b].branch_key = h[p].branch_key
      /\ \A j \in 1..p - 1 : h[j].branch_key = h[p].branch_key => b # 0 /\ j <= b
  BY <1>2, BeforeIs
<1> HIDE DEF b
<1>4. \A j \in 1..p - 1 : h[j].branch_key = h[p].branch_key <=>
                              h[j].branch = h[p].branch /\ h[j].context = h[p].context
  BY <1>2 DEF Keyed
\* A run before that is measured, on a branch, in the same context.
<1>5. ASSUME H!Transition(h, p) \in {"comparable", "settings_changed"}
      PROVE  /\ b \in 1..p - 1 /\ b \in DOMAIN h
             /\ h[p].measured /\ h[b].measured /\ h[p].branch # None
             /\ h[b].branch = h[p].branch /\ h[b].context = h[p].context
             /\ \A k \in 1..p - 1 : h[k].context = h[p].context /\ h[k].branch = h[p].branch => k <= b
  <2>1. b # 0 /\ h[p].branch # None /\ h[p].measured /\ h[b].measured
    BY <1>5 DEF H!Transition, b
  <2>2. b \in 1..p - 1
    BY <1>3, <2>1
  <2>3. QED BY <1>2, <1>3, <1>4, <2>1, <2>2
<1>6. ASSUME H!Transition(h, p) = "comparable"
      PROVE  b \in H!References(h, p) /\ H!Progression(h, p).same = b
  <2>1. h[p].cohort = h[b].cohort /\ h[p].tests = h[b].tests /\ h[p].configured /\ h[b].configured
    BY <1>6 DEF H!Transition, b
  <2>2. H!Signature(h[b]) = H!Signature(h[p]) /\ h[b].config = h[p].config
    BY <1>2, <1>5, <1>6, <2>1, SameSignature
  <2>3. \A k \in 1..p - 1 : H!Signature(h[k]) = H!Signature(h[p]) => h[k].context = h[p].context
    BY DEF H!Signature
  <2>4. b \in H!References(h, p)
    <3>1. H!Referable(h[p]) /\ H!Referable(h[b])
      BY <1>5, <1>6, <2>1 DEF H!Referable
    <3>2. \A k \in 1..p - 1 : H!Referable(h[k]) /\ H!Signature(h[k]) = H!Signature(h[p])
                              /\ h[k].branch = h[b].branch => k <= b
      BY <1>5, <1>6, <2>3
    <3>3. \A j \in 1..p - 1 :
            /\ H!Referable(h[p]) /\ H!Referable(h[j]) /\ H!Signature(h[j]) = H!Signature(h[p])
            /\ \A k \in 1..p - 1 : H!Referable(h[k]) /\ H!Signature(h[k]) = H!Signature(h[p])
                                   /\ h[k].branch = h[j].branch => k <= j
            => j \in H!References(h, p)
      BY <1>2, ReferencesAre
    <3>4. QED BY <1>5, <1>6, <2>2, <3>1, <3>2, <3>3
  <2>5. H!Settings(h[b]) = H!Settings(h[p])
    BY <2>2 DEF H!Settings
  <2>6. QED BY <1>2, <1>5, <1>6, <2>4, <2>5, ProgressionIs
<1>7. ASSUME H!Transition(h, p) = "settings_changed"
      PROVE  \E r \in H!Observed(h, p) : r.run = b
  <2>1. h[p].cohort # h[b].cohort \/ h[p].tests # h[b].tests
    BY <1>7 DEF H!Transition, b
  <2>2. H!Signature(h[b]) # H!Signature(h[p])
    BY <1>2, <1>5, <1>7, <2>1, SameSignature
  <2>3. b \notin H!References(h, p)
    BY <1>2, <2>2, ReferencesAre
  <2>4. QED BY <1>2, <1>5, <1>7, <2>3, ObservedAre
<1>8. ASSUME NEW r \in H!References(h, p) PROVE r <= a.progression.execution
  <2>1. /\ r \in 1..p - 1 /\ H!Referable(h[r]) /\ H!Referable(h[p])
        /\ H!Signature(h[r]) = H!Signature(h[p])
    BY <1>2, ReferencesAre
  <2>2. /\ h[r].measured /\ h[r].context = h[p].context /\ H!Settings(h[r]) = H!Settings(h[p])
        /\ h[p].measured /\ h[p].branch # None
    BY <2>1 DEF H!Referable, H!Signature, H!Settings
  <2>3. QED BY <1>1, <1>2, <2>1, <2>2, ProgressionIs
<1>9. ASSUME h[p].measured, h[p].branch # None
      PROVE  a.alone <=> ~\E q \in 1..p - 1 : /\ h[q].measured /\ h[q].branch # None
                                             /\ h[q].context = h[p].context
  <2>1. a.alone <=> H!References(h, p) = {} /\ H!Observed(h, p) = {}
    BY <1>1, <1>9
  <2>2. ASSUME NEW r \in H!References(h, p)
        PROVE  r \in 1..p - 1 /\ h[r].measured /\ h[r].branch # None /\ h[r].context = h[p].context
    <3>1. r \in 1..p - 1 /\ H!Referable(h[r]) /\ H!Signature(h[r]) = H!Signature(h[p])
      BY <1>2, ReferencesAre
    <3>2. QED BY <3>1 DEF H!Referable, H!Signature
  <2>3. ASSUME NEW r \in H!Observed(h, p)
        PROVE  /\ r.run \in 1..p - 1 /\ h[r.run].measured /\ h[r.run].branch # None
               /\ h[r.run].context = h[p].context
    BY <1>2, ObservedAre
  <2>4. ASSUME NEW q \in 1..p - 1, h[q].measured, h[q].branch # None, h[q].context = h[p].context
        PROVE  H!References(h, p) # {} \/ H!Observed(h, p) # {}
    BY <1>2, <1>9, <2>4, ObservedAre
  <2>5. QED BY <2>1, <2>2, <2>3, <2>4
<1>10. H!ContextBefore(h, p) # 0 => H!ContextBefore(h, p) > b
  BY ContextBeforeIs DEF b
<1>11. \A r \in a.observed : r.run \notin a.references
  BY <1>1, <1>2, ObservedAre
<1>12. QED BY <1>1, <1>5, <1>6, <1>7, <1>8, <1>9, <1>10, <1>11

\* Reports.AnnotationsAgree: the passes of services/unit_history.py, each of which
\* looks for the run before in its own way, agree beside every run.
THEOREM PassesAgree == Spec => []AnnotationsAgree
<1>1. ASSUME ReportInv, AsAsked PROVE AnnotationsAgree
  <2>1. CASE Told("history")
    <3>1. Keyed(History) /\ Evidence(History)
      BY <1>1, <2>1, HistoryFacts DEF Told
    <3>2. Cardinality(found) \in Nat /\ DOMAIN History = 1..Cardinality(found)
      BY <1>1, HistoryPlaces
    <3> DEFINE h == History
    <3>3. ToldHistories = {h}
      BY <2>1 DEF ToldHistories
    <3> HIDE DEF h
    <3>4. /\ Keyed(h) /\ Evidence(h)
          /\ Cardinality(found) \in Nat /\ DOMAIN h = 1..Cardinality(found)
      BY <3>1, <3>2 DEF h
    <3>5. SUFFICES ASSUME NEW p \in DOMAIN h, NEW a, a = H!Annotations(h, p)
          PROVE  /\ a.transition = "comparable" =>
                       a.before \in a.references /\ a.progression.same = a.before
                 /\ a.transition = "settings_changed" => \E r \in a.observed : r.run = a.before
                 /\ \A r \in a.observed : r.run \notin a.references
                 /\ \A r \in a.references : r <= a.progression.execution
                 /\ a.context # 0 => a.context > a.before
                 /\ h[p].measured /\ h[p].branch # None =>
                       (a.alone <=> ~\E q \in 1..p - 1 : /\ h[q].measured /\ h[q].branch # None
                                                        /\ h[q].context = h[p].context)
      BY <3>3 DEF AnnotationsAgree
    <3>6. QED BY <3>4, <3>5, AgreeAt
  <2>2. CASE ~Told("history")
    BY <2>2 DEF AnnotationsAgree, ToldHistories
  <2>3. QED BY <2>1, <2>2
<1>2. QED BY <1>1, ReportInvariant, AskedAlways, PTL

-----------------------------------------------------------------------------
(* What is counted in one place is what is listed in another *)

\* What every group below is told of: the runs of one report.
Report(h, n) == DOMAIN h = 1..n /\ Keyed(h) /\ Evidence(h) /\ Configured(h)

\* The latest and the earliest of some places of a report, if there are any.
LEMMA PlacesHaveEnds ==
  ASSUME NEW n \in Nat, NEW S \in SUBSET (1..n), NEW i \in S
  PROVE  /\ H!Latest(S) \in S /\ i <= H!Latest(S)
         /\ H!Earliest(S) \in S /\ H!Earliest(S) <= i
<1>1. S # {}
  OBVIOUS
<1>2. /\ H!Latest(S) \in S /\ \A x \in S : x <= H!Latest(S)
      /\ H!Earliest(S) \in S /\ \A x \in S : x >= H!Earliest(S)
  BY <1>1, EndsAreMembers
<1>3. i \in Int /\ H!Earliest(S) \in Int
  <2>1. \A x \in S : x \in Int
    OBVIOUS
  <2>2. QED BY <1>2, <2>1
<1>4. i >= H!Earliest(S)
  BY <1>2
<1>5. H!Earliest(S) <= i
  BY <1>3, <1>4
<1>6. QED BY <1>2, <1>5

\* Operational runs are those with an issue, and none of them is measured.
LEMMA IssuesAgree ==
  ASSUME NEW h, NEW n \in Nat, Report(h, n), NEW cohort
  PROVE  /\ H!Signals(h, cohort).operational = {issue[1] : issue \in H!ExecutionIssues(h)}
         /\ \A p \in H!Signals(h, cohort).operational : ~h[p].measured
<1> DEFINE Hit(i) == {h[i].run.status, h[i].run.verdict} \cap H!Operational # {}
<1> DEFINE Of(i) == IF H!BlockedCases(h[i]) # {} THEN {<<i, m>> : m \in H!BlockedCases(h[i])}
                    ELSE IF Hit(i) THEN {<<i, None>>} ELSE {}
<1>1. H!Signals(h, cohort).operational = {i \in DOMAIN h : Hit(i) \/ H!BlockedCases(h[i]) # {}}
  BY DEF H!Signals
<1>2. H!ExecutionIssues(h) = UNION {Of(i) : i \in DOMAIN h}
  BY DEF H!ExecutionIssues
<1>3. \A i \in DOMAIN h : /\ \A issue \in Of(i) : issue[1] = i
                          /\ Of(i) # {} <=> Hit(i) \/ H!BlockedCases(h[i]) # {}
  <2> HIDE DEF Hit
  <2>1. SUFFICES ASSUME NEW i \in DOMAIN h
                 PROVE  /\ \A issue \in Of(i) : issue[1] = i
                        /\ Of(i) # {} <=> Hit(i) \/ H!BlockedCases(h[i]) # {}
    OBVIOUS
  <2>2. CASE H!BlockedCases(h[i]) # {}
    <3>1. Of(i) = {<<i, m>> : m \in H!BlockedCases(h[i])}
      BY <2>2
    <3>2. PICK m \in H!BlockedCases(h[i]) : TRUE
      BY <2>2
    <3>3. <<i, m>> \in Of(i) /\ \A issue \in Of(i) : issue[1] = i
      <4> HIDE DEF Of
      <4> QED BY <3>1, <3>2
    <3>4. QED
      <4> HIDE DEF Of
      <4> QED BY <2>2, <3>3
  <2>3. CASE H!BlockedCases(h[i]) = {}
    <3>1. Of(i) = IF Hit(i) THEN {<<i, None>>} ELSE {}
      BY <2>3
    <3>2. CASE Hit(i)
      <4>1. Of(i) = {<<i, None>>}
        BY <3>1, <3>2
      <4>2. QED
        <5> HIDE DEF Of
        <5> QED BY <3>2, <4>1
    <3>3. CASE ~Hit(i)
      <4>1. Of(i) = {}
        BY <3>1, <3>3
      <4>2. QED
        <5> HIDE DEF Of
        <5> QED BY <2>3, <3>3, <4>1
    <3>4. QED BY <3>2, <3>3
  <2>4. QED
    <3> HIDE DEF Of
    <3> QED BY <2>2, <2>3
<1>4. {issue[1] : issue \in H!ExecutionIssues(h)} = {i \in DOMAIN h : Of(i) # {}}
  <2> HIDE DEF Of
  <2> QED BY <1>2, <1>3
<1>5. ASSUME NEW p \in DOMAIN h, h[p].measured PROVE ~Hit(p) /\ H!BlockedCases(h[p]) = {}
  <2>1. /\ h[p].run.status = "completed" /\ h[p].run.verdict \notin H!Operational
        /\ \A m \in H!Cases(h[p]) : h[p].verdicts[m] \in {"passed", "failed"}
    BY <1>5 DEF Report, Evidence
  <2>2. ~Hit(p)
    BY <2>1 DEF H!Operational
  <2>3. H!BlockedCases(h[p]) = {}
    BY <2>1 DEF H!BlockedCases
  <2>4. QED BY <2>2, <2>3
<1>6. {i \in DOMAIN h : Of(i) # {}} = {i \in DOMAIN h : Hit(i) \/ H!BlockedCases(h[i]) # {}}
  <2> HIDE DEF Of, Hit
  <2> QED BY <1>3
<1>7. QED
  <2> HIDE DEF Of, Hit
  <2> QED BY <1>1, <1>4, <1>5, <1>6

\* A cohort has one set of versions.
LEMMA CohortsHaveOneGroup ==
  ASSUME NEW h, NEW n \in Nat, Report(h, n),
         NEW g \in H!SettingsGroups(h), NEW k \in H!SettingsGroups(h)
  PROVE  g = k \/ g.cohorts \cap k.cohorts = {}
<1> DEFINE R(i) == {j \in DOMAIN h : H!Settings(h[j]) = H!Settings(h[i])}
<1> DEFINE G(i) == [runs |-> R(i), cohorts |-> {h[j].cohort : j \in R(i) \cap H!Complete(h)}]
<1>1. H!SettingsGroups(h) = {G(i) : i \in DOMAIN h}
  BY DEF H!SettingsGroups
<1>2. PICK a \in DOMAIN h : g = G(a)
  <2> HIDE DEF G
  <2> QED BY <1>1
<1>3. PICK b \in DOMAIN h : k = G(b)
  <2> HIDE DEF G
  <2> QED BY <1>1
<1>4. SUFFICES ASSUME NEW c \in g.cohorts, c \in k.cohorts PROVE g = k
  OBVIOUS
<1>5. PICK i \in R(a) : i \in H!Complete(h) /\ c = h[i].cohort
  BY <1>2, <1>4
<1>6. PICK j \in R(b) : j \in H!Complete(h) /\ c = h[j].cohort
  BY <1>3, <1>4
<1>7. h[i].config = h[j].config
  <2>1. i \in DOMAIN h /\ h[i].complete /\ j \in DOMAIN h /\ h[j].complete
    BY <1>5, <1>6 DEF H!Complete
  <2>2. /\ h[i].cohort = <<h[i].context, h[i].config, {h[i].tests[m] : m \in H!Cases(h[i])}>>
        /\ h[j].cohort = <<h[j].context, h[j].config, {h[j].tests[m] : m \in H!Cases(h[j])}>>
    BY <2>1 DEF Report, Evidence
  <2>3. h[i].cohort = h[j].cohort
    BY <1>5, <1>6
  <2>4. QED BY <2>2, <2>3
<1>8. H!Settings(h[a]) = H!Settings(h[b])
  BY <1>5, <1>6, <1>7 DEF H!Settings
<1>9. R(a) = R(b)
  BY <1>8
<1>10. QED
  <2> HIDE DEF R
  <2> QED BY <1>2, <1>3, <1>9

\* What the latest run leaves out shows as not run.
LEMMA GapsShow ==
  ASSUME NEW h, NEW key, NEW p \in H!WiderRuns(h, key),
         NEW m \in H!Cases(h[p]) \ H!Cases(h[H!Latest(H!OnBranchKey(h, key))])
  PROVE  H!LatestState(h, key, m) \in {"not_run", "blocked"}
<1>1. h[H!Latest(H!OnBranchKey(h, key))].complete
  BY DEF H!WiderRuns
<1>2. QED BY <1>1 DEF H!LatestState

\* What makes a group inconsistent.
LEMMA GroupIs ==
  ASSUME NEW h, NEW n \in Nat, Report(h, n), NEW cohort,
         NEW g \in H!InconsistentGroups(h, cohort)
  PROVE  /\ g.runs \subseteq H!Matching(h, cohort) /\ g.runs \subseteq DOMAIN h
         /\ \A p, q \in g.runs :
                /\ h[p].branch_key = h[q].branch_key /\ h[p].sha = h[q].sha /\ h[p].sha # None
                /\ H!Cases(h[p]) = H!Cases(h[q])
         /\ g.cases # {}
         /\ \A m \in g.cases : \E f, s \in g.runs :
                /\ m \in H!Cases(h[f]) /\ h[f].verdicts[m] = "failed"
                /\ m \in H!Cases(h[s]) /\ h[s].verdicts[m] = "passed"
<1> DEFINE eligible == {i \in H!Matching(h, cohort) : /\ None \notin {h[i].sha, h[i].branch}
                                                      /\ h[i].configured}
<1> DEFINE Group(i) == {j \in eligible : /\ h[j].branch_key = h[i].branch_key
                                         /\ h[j].sha = h[i].sha
                                         /\ h[j].tests = h[i].tests}
<1> DEFINE Split(s) == {m \in H!Cases(h[H!Earliest(s)]) :
                            {"passed", "failed"} \subseteq {h[j].verdicts[m] : j \in s}}
<1>1. H!InconsistentGroups(h, cohort) =
         {x \in {[runs |-> Group(i), cases |-> Split(Group(i))] : i \in eligible} : x.cases # {}}
  BY DEF H!InconsistentGroups
<1>2. PICK i \in eligible : g = [runs |-> Group(i), cases |-> Split(Group(i))] /\ g.cases # {}
  <2> HIDE DEF eligible, Group, Split
  <2> QED BY <1>1
<1>3. g.runs = Group(i) /\ g.cases = Split(Group(i)) /\ i \in Group(i)
  BY <1>2
<1>4. H!Matching(h, cohort) \subseteq DOMAIN h
  BY DEF H!Matching, H!Cohort, H!Complete
<1>5. Group(i) \in SUBSET (1..n)
  BY <1>4 DEF Report
<1>6. \A p \in Group(i) : /\ p \in H!Matching(h, cohort) /\ p \in DOMAIN h
                          /\ h[p].branch_key = h[i].branch_key
                          /\ h[p].sha = h[i].sha /\ h[p].sha # None
                          /\ h[p].tests = h[i].tests
  BY <1>4
<1>7. \A p \in Group(i) : H!Cases(h[p]) = DOMAIN h[i].tests
  <2> HIDE DEF Group
  <2> QED BY <1>6 DEF Report, Evidence
<1>8. H!Earliest(Group(i)) \in Group(i)
  <2> HIDE DEF Group
  <2> QED BY <1>3, <1>5, PlacesHaveEnds
<1>9. ASSUME NEW m \in Split(Group(i))
      PROVE  \E f, s \in Group(i) :
                /\ m \in H!Cases(h[f]) /\ h[f].verdicts[m] = "failed"
                /\ m \in H!Cases(h[s]) /\ h[s].verdicts[m] = "passed"
  <2>1. /\ m \in H!Cases(h[H!Earliest(Group(i))])
        /\ "passed" \in {h[j].verdicts[m] : j \in Group(i)}
        /\ "failed" \in {h[j].verdicts[m] : j \in Group(i)}
    <3> HIDE DEF Group
    <3> QED OBVIOUS
  <2>2. QED
    <3> HIDE DEF Group
    <3> QED BY <1>7, <1>8, <2>1
<1>10. QED
  <2> HIDE DEF Group, Split, eligible
  <2> QED BY <1>2, <1>3, <1>6, <1>7, <1>9

\* A non-empty set of places has a positive number of members.
LEMMA PlacesCount ==
  ASSUME NEW n \in Nat, NEW S \in SUBSET (1..n), NEW i \in S
  PROVE  /\ IsFiniteSet(S) /\ Cardinality(S) \in Nat /\ Cardinality(S) > 0
         /\ \A j \in S : j # i => Cardinality(S) > 1
<1>1. IsFiniteSet(1..n)
  BY FS_Interval
<1>2. IsFiniteSet(S) /\ Cardinality(S) \in Nat
  BY <1>1, FS_Subset, FS_CardinalityType
<1>3. Cardinality(S \ {i}) = Cardinality(S) - 1 /\ IsFiniteSet(S \ {i})
  BY <1>2, FS_RemoveElement
<1>4. Cardinality(S \ {i}) \in Nat
  BY <1>3, FS_CardinalityType
<1>5. \A j \in S : j # i => Cardinality(S \ {i}) # 0
  <2>1. \A j \in S : j # i => S \ {i} # {}
    OBVIOUS
  <2>2. QED BY <1>3, <2>1, FS_EmptySet
<1>6. QED BY <1>2, <1>3, <1>4, <1>5

\* A latest run of inconsistent results shares its commit.
LEMMA CommitIsShared ==
  ASSUME NEW h, NEW n \in Nat, Report(h, n), NEW cohort, NEW key \in H!BranchKeys(h),
         H!InconsistentLatest(h, key, cohort)
  PROVE  \E commit \in H!Commits(h, key) :
            /\ H!Latest(H!OnBranchKey(h, key)) \in commit.runs
            /\ Cardinality(commit.runs) > 1
<1> DEFINE group == H!OnBranchKey(h, key)
<1> DEFINE l == H!Latest(group)
<1> DEFINE Commit(i) == IF h[i].sha = None THEN {i} ELSE {j \in group : h[j].sha = h[i].sha}
<1> DEFINE Rates(c) == {h[j].rate : j \in {k \in c : h[k].measured}}
<1>1. H!Commits(h, key) = {[runs |-> c, rates |-> Rates(c)] : c \in {Commit(i) : i \in group}}
  BY DEF H!Commits
<1>2. PICK g \in H!InconsistentGroups(h, cohort) : \E i \in g.runs :
          h[i].branch_key = key /\ h[i].sha = h[l].sha
  BY DEF H!InconsistentLatest
<1>3. PICK i \in g.runs : h[i].branch_key = key /\ h[i].sha = h[l].sha
  BY <1>2
<1>4. PICK f \in g.runs, s \in g.runs : f # s
  <2>1. PICK m \in g.cases : TRUE
    BY GroupIs
  <2>2. PICK f \in g.runs, s \in g.runs : h[f].verdicts[m] = "failed" /\ h[s].verdicts[m] = "passed"
    BY <2>1, GroupIs
  <2>3. f # s
    BY <2>2
  <2>4. QED BY <2>3
<1>5. \A j \in g.runs : j \in DOMAIN h /\ h[j].branch_key = key /\ h[j].sha = h[l].sha /\ h[l].sha # None
  <2>1. \A j \in g.runs : /\ j \in DOMAIN h /\ h[j].branch_key = h[i].branch_key
                          /\ h[j].sha = h[i].sha /\ h[i].sha # None
    BY <1>3, GroupIs
  <2>2. QED BY <1>3, <2>1
<1>6. group \in SUBSET (1..n) /\ \A j \in g.runs : j \in group
  BY <1>5 DEF H!OnBranchKey, Report
<1>7. l \in group
  <2> HIDE DEF group
  <2> QED BY <1>3, <1>6, PlacesHaveEnds
<1>8. Commit(l) = {j \in group : h[j].sha = h[l].sha} /\ Commit(l) \in SUBSET (1..n)
  <2> HIDE DEF group, l
  <2> QED BY <1>3, <1>5, <1>6
<1>9. l \in Commit(l) /\ f \in Commit(l) /\ s \in Commit(l)
  <2> HIDE DEF group, l
  <2> QED BY <1>4, <1>5, <1>6, <1>7, <1>8
<1>10. Cardinality(Commit(l)) > 1
  <2> HIDE DEF Commit
  <2> QED BY <1>4, <1>8, <1>9, PlacesCount
<1>11. [runs |-> Commit(l), rates |-> Rates(Commit(l))] \in H!Commits(h, key)
  <2> HIDE DEF Commit, Rates, group, l
  <2> QED BY <1>1, <1>7
<1>12. QED
  <2> HIDE DEF Commit, Rates
  <2> QED BY <1>9, <1>10, <1>11

\* Places of a branch, and the measured ones among them.
LEMMA BranchPlaces ==
  ASSUME NEW h, NEW n \in Nat, Report(h, n), NEW key
  PROVE  /\ H!OnBranchKey(h, key) \in SUBSET (1..n)
         /\ {i \in H!OnBranchKey(h, key) : h[i].measured} \in SUBSET (1..n)
  BY DEF H!OnBranchKey, Report

\* All runs of a cohort are configured, or none.
LEMMA CohortIsConfigured ==
  ASSUME NEW h, NEW n \in Nat, Report(h, n), NEW key, NEW p \in H!Cohort(h, key)
  PROVE  h[p].configured = H!ConfigurationComplete(h, key)
<1> DEFINE S == H!Cohort(h, key)
<1> DEFINE e == H!Earliest(S)
<1>1. /\ S \in SUBSET (1..n) /\ S \subseteq DOMAIN h
      /\ \A q \in S : h[q].complete /\ h[q].cohort = key
  BY DEF H!Cohort, H!Complete, Report
<1>2. e \in S /\ p \in S
  <2> HIDE DEF S
  <2>1. p \in S
    BY DEF S
  <2>2. QED BY <1>1, <2>1, PlacesHaveEnds
<1>3. /\ h[p].cohort = <<h[p].context, h[p].config, {h[p].tests[m] : m \in H!Cases(h[p])}>>
      /\ h[e].cohort = <<h[e].context, h[e].config, {h[e].tests[m] : m \in H!Cases(h[e])}>>
  <2> HIDE DEF S, e
  <2> QED BY <1>1, <1>2 DEF Report, Evidence
<1>4. h[p].cohort = h[e].cohort
  <2> HIDE DEF S, e
  <2> QED BY <1>1, <1>2
<1>5. h[p].context = h[e].context /\ h[p].config = h[e].config
  <2> HIDE DEF S, e
  <2> QED BY <1>3, <1>4
<1>6. h[p].configured = h[e].configured
  <2> HIDE DEF S, e
  <2> QED BY <1>1, <1>2, <1>5 DEF Report, Configured
<1>7. QED BY <1>6 DEF H!ConfigurationComplete

\* A run that has a case with a verdict is counted in the cell of its branch.
LEMMA CellCounts ==
  ASSUME NEW h, NEW n \in Nat, Report(h, n), NEW cohort, NEW verdict,
         NEW i \in H!Matching(h, cohort), NEW m \in H!Cases(h[i]), h[i].verdicts[m] = verdict
  PROVE  H!CellCount(h, cohort, h[i].branch_key, m, verdict) > 0
<1> DEFINE S == {j \in H!Executions(h, cohort, h[i].branch_key, m) : h[j].verdicts[m] = verdict}
<1>1. H!Matching(h, cohort) \subseteq DOMAIN h
  BY DEF H!Matching, H!Cohort, H!Complete
<1>2. S \in SUBSET (1..n) /\ i \in S
  BY <1>1 DEF H!Executions, H!OnBranchKey, Report
<1>3. Cardinality(S) > 0
  <2> HIDE DEF S
  <2> QED BY <1>2, PlacesCount
<1>4. H!CellCount(h, cohort, h[i].branch_key, m, verdict) = Cardinality(S)
  BY DEF H!CellCount, H!Cardinality, Cardinality
<1>5. QED BY <1>3, <1>4

\* A case is inconsistent only where it failed and passed.
LEMMA InconsistentCounts ==
  ASSUME NEW h, NEW n \in Nat, Report(h, n), NEW cohort,
         NEW g \in H!InconsistentGroups(h, cohort), NEW m \in g.cases, NEW p \in g.runs
  PROVE  /\ H!CellCount(h, cohort, h[p].branch_key, m, "failed") > 0
         /\ H!CellCount(h, cohort, h[p].branch_key, m, "passed") > 0
         /\ h[p].branch_key \in H!CaseRow(h, cohort, m).affected
<1>1. PICK f \in g.runs, s \in g.runs :
          /\ m \in H!Cases(h[f]) /\ h[f].verdicts[m] = "failed"
          /\ m \in H!Cases(h[s]) /\ h[s].verdicts[m] = "passed"
  BY GroupIs
<1>2. /\ f \in H!Matching(h, cohort) /\ h[f].branch_key = h[p].branch_key
      /\ s \in H!Matching(h, cohort) /\ h[s].branch_key = h[p].branch_key
  <2>1. /\ g.runs \subseteq H!Matching(h, cohort)
        /\ \A x, y \in g.runs : h[x].branch_key = h[y].branch_key
    BY GroupIs
  <2>2. QED BY <2>1
<1>3. H!CellCount(h, cohort, h[f].branch_key, m, "failed") > 0
  BY <1>1, <1>2, CellCounts
<1>4. H!CellCount(h, cohort, h[s].branch_key, m, "passed") > 0
  BY <1>1, <1>2, CellCounts
<1>5. h[f].branch_key \in H!CaseRow(h, cohort, m).affected
  BY <1>1, <1>2 DEF H!CaseRow
<1>6. QED BY <1>2, <1>3, <1>4, <1>5

\* The latest state of a cell is among its counts.
LEMMA LatestIsCounted ==
  ASSUME NEW h, NEW n \in Nat, Report(h, n), NEW cohort, NEW key \in H!BranchKeys(h),
         NEW l, l = H!Latest(H!OnBranchKey(h, key)), l \in H!Matching(h, cohort),
         NEW m \in H!Cases(h[l]), H!LatestState(h, key, m) # "blocked"
  PROVE  H!CellCount(h, cohort, key, m, H!LatestState(h, key, m)) > 0
<1>1. h[l].complete
  BY DEF H!Matching, H!Cohort, H!Complete
<1>2. H!LatestState(h, key, m) = h[l].verdicts[m]
  BY <1>1 DEF H!LatestState
<1>3. h[l].branch_key = key
  <2>1. PICK i \in DOMAIN h : key = h[i].branch_key
    BY DEF H!BranchKeys
  <2>2. H!OnBranchKey(h, key) \in SUBSET (1..n) /\ i \in H!OnBranchKey(h, key)
    BY <2>1 DEF H!OnBranchKey, Report
  <2>3. l \in H!OnBranchKey(h, key)
    BY <2>2, PlacesHaveEnds
  <2>4. QED BY <2>3 DEF H!OnBranchKey
<1>4. QED BY <1>2, <1>3, CellCounts

\* Rates of the same tests compare as the tests that passed.
LEMMA RatesCompare ==
  ASSUME NEW a \in Nat, NEW b \in Nat, NEW t \in Nat \ {0},
         (a * 100) \div t > (b * 100) \div t
  PROVE  a > b
<1> DEFINE x == (a * 100) \div t
<1> DEFINE y == (b * 100) \div t
<1>1. x \in Int /\ y \in Int /\ x > y
  OBVIOUS
<1>2. t * x <= a * 100 /\ b * 100 < t * (y + 1)
  OBVIOUS
<1>3. t * (y + 1) <= t * x
  <2> HIDE DEF x, y
  <2> QED BY <1>1
<1>4. b * 100 < a * 100
  <2>1. a * 100 \in Int /\ b * 100 \in Int /\ t * x \in Int /\ t * (y + 1) \in Int
    BY <1>1
  <2> HIDE DEF x, y
  <2> QED BY <1>2, <1>3, <2>1
<1>5. QED BY <1>4

\* A branch improves, or declines, only if the same tests passed more, or less,
\* often under another commit.
LEMMA DirectionIsEarned ==
  ASSUME NEW h, NEW n \in Nat, Report(h, n), NEW key,
         NEW l, l = H!Latest(H!OnBranchKey(h, key)),
         NEW f, f = H!Earliest({p \in H!OnBranchKey(h, key) : h[p].measured}),
         H!Direction(h, key) \in {"improved", "declined"}
  PROVE  /\ h[l].measured /\ H!Cases(h[f]) = H!Cases(h[l])
         /\ h[f].sha # h[l].sha
         /\ IF H!Direction(h, key) = "improved"
            THEN Cardinality(PassedIn(h[l])) > Cardinality(PassedIn(h[f]))
            ELSE Cardinality(PassedIn(h[l])) < Cardinality(PassedIn(h[f]))
<1> DEFINE M == {p \in H!OnBranchKey(h, key) : h[p].measured}
<1> DEFINE z == H!Latest(M)
<1>1. M \in SUBSET (1..n) /\ \A p \in M : h[p].measured /\ p \in DOMAIN h
  BY BranchPlaces DEF H!OnBranchKey
<1>2. /\ f # z /\ h[f].tests = h[z].tests /\ h[f].sha # h[z].sha /\ z = l
      /\ IF H!Direction(h, key) = "improved" THEN h[z].rate - h[f].rate > 0
         ELSE h[z].rate - h[f].rate < 0
  BY DEF H!Direction
<1>3. M # {}
  <2> HIDE DEF M
  <2> QED BY <1>2 DEF H!Latest, H!Earliest, M
<1>4. f \in M /\ z \in M
  <2> HIDE DEF M
  <2> QED BY <1>1, <1>3, EndsAreMembers DEF M
<1>5. /\ h[f].measured /\ h[z].measured /\ f \in DOMAIN h /\ z \in DOMAIN h
  <2> HIDE DEF M
  <2> QED BY <1>1, <1>4
<1>6. \A p \in {f, z} :
         /\ h[p].rate = (Cardinality(PassedIn(h[p])) * 100) \div Cardinality(H!Cases(h[p]))
         /\ Cardinality(H!Cases(h[p])) \in Nat \ {0} /\ Cardinality(PassedIn(h[p])) \in Nat
         /\ DOMAIN h[p].tests = H!Cases(h[p])
  <2> HIDE DEF M, z
  <2>1. SUFFICES ASSUME NEW p \in DOMAIN h, h[p].measured
                 PROVE  /\ h[p].rate = (Cardinality(PassedIn(h[p])) * 100) \div Cardinality(H!Cases(h[p]))
                        /\ Cardinality(H!Cases(h[p])) \in Nat \ {0} /\ Cardinality(PassedIn(h[p])) \in Nat
                        /\ DOMAIN h[p].tests = H!Cases(h[p])
    BY <1>5
  <2>2. /\ Cardinality(H!Cases(h[p])) > 0 /\ IsFiniteSet(H!Cases(h[p]))
        /\ DOMAIN h[p].tests = H!Cases(h[p])
        /\ h[p].rate = (Cardinality(PassedIn(h[p])) * 100) \div Cardinality(H!Cases(h[p]))
    BY <2>1 DEF Report, Evidence
  <2>3. PassedIn(h[p]) \in SUBSET H!Cases(h[p])
    BY DEF PassedIn
  <2>4. Cardinality(PassedIn(h[p])) \in Nat /\ Cardinality(H!Cases(h[p])) \in Nat
    BY <2>2, <2>3, FS_Subset, FS_CardinalityType
  <2>5. QED BY <2>2, <2>4
<1>7. H!Cases(h[f]) = H!Cases(h[z])
  <2> HIDE DEF M, z
  <2> QED BY <1>2, <1>6
<1> DEFINE t == Cardinality(H!Cases(h[f]))
<1> DEFINE a == Cardinality(PassedIn(h[z]))
<1> DEFINE b == Cardinality(PassedIn(h[f]))
<1>8. /\ t \in Nat \ {0} /\ a \in Nat /\ b \in Nat
      /\ h[z].rate = (a * 100) \div t /\ h[f].rate = (b * 100) \div t
  <2> HIDE DEF M, z
  <2> QED BY <1>6, <1>7
<1>9. (a * 100) \div t \in Int /\ (b * 100) \div t \in Int
  <2> HIDE DEF a, b, t, z
  <2> QED BY <1>8
<1>10. CASE H!Direction(h, key) = "improved"
  <2>1. (a * 100) \div t > (b * 100) \div t
    <3> HIDE DEF a, b, t, z
    <3> QED BY <1>2, <1>8, <1>9, <1>10
  <2>2. a > b
    <3> HIDE DEF a, b, t, z
    <3> QED BY <1>8, <2>1, RatesCompare
  <2>3. QED
    <3> HIDE DEF z
    <3> QED BY <1>2, <1>5, <1>7, <1>10, <2>2
<1>11. CASE H!Direction(h, key) # "improved"
  <2>1. (b * 100) \div t > (a * 100) \div t
    <3> HIDE DEF a, b, t, z
    <3> QED BY <1>2, <1>8, <1>9, <1>11
  <2>2. b > a
    <3> HIDE DEF a, b, t, z
    <3> QED BY <1>8, <2>1, RatesCompare
  <2>3. a < b
    <3> HIDE DEF a, b, t, z
    <3> QED BY <1>8, <2>2
  <2>4. QED
    <3> HIDE DEF z
    <3> QED BY <1>2, <1>5, <1>7, <1>11, <2>3
<1>12. QED BY <1>10, <1>11

\* A branch each of whose steps is comparable keeps its cohort and its tests.
LEMMA StepsKeepSettings ==
  ASSUME NEW h, NEW n \in Nat, Report(h, n), NEW key,
         \A p \in H!OnBranchKey(h, key) : H!Transition(h, p) \in {"first", "comparable"},
         NEW i \in H!OnBranchKey(h, key), NEW j \in H!OnBranchKey(h, key)
  PROVE  h[i].cohort = h[j].cohort /\ h[i].tests = h[j].tests
<1> DEFINE B == H!OnBranchKey(h, key)
<1> DEFINE e == H!Earliest(B)
<1> DEFINE X == {p \in B : h[p].cohort # h[e].cohort \/ h[p].tests # h[e].tests}
<1>1. B \in SUBSET (1..n) /\ \A p \in B : p \in 1..n /\ h[p].branch_key = key
  BY BranchPlaces DEF H!OnBranchKey
<1>2. \A p \in 1..n : h[p].branch_key = key => p \in B
  BY DEF H!OnBranchKey, Report
<1>3. e \in B /\ \A p \in B : e <= p
  <2> HIDE DEF B
  <2>1. i \in B
    BY DEF B
  <2>2. \A p \in B : H!Earliest(B) \in B /\ H!Earliest(B) <= p
    BY <1>1, PlacesHaveEnds
  <2>3. QED BY <2>1, <2>2
<1>4. X = {}
  <2>1. SUFFICES ASSUME X # {} PROVE FALSE
    OBVIOUS
  <2>2. X \in SUBSET Nat
    <3>1. X \subseteq B
      OBVIOUS
    <3>2. QED
      <4> HIDE DEF X, B
      <4> QED BY <1>1, <3>1
  <2>3. PICK p \in X : \A q \in X : p <= q
    <3> HIDE DEF X
    <3> QED BY <2>1, <2>2, HasLeast
  <2>4. p \in B /\ p # e /\ (h[p].cohort # h[e].cohort \/ h[p].tests # h[e].tests)
    <3> HIDE DEF B, e
    <3> QED BY <2>3
  <2> DEFINE b == H!Before(h, p)
  <2>5. p \in 1..n /\ e \in 1..n /\ p \in Nat \ {0} /\ e \in 1..p - 1
    <3> HIDE DEF B, e
    <3>1. p \in 1..n /\ e \in 1..n /\ e <= p
      BY <1>1, <1>3, <2>4
    <3>2. QED BY <2>4, <3>1
  <2>6. b # 0 /\ b \in 1..p - 1 /\ h[b].branch_key = h[p].branch_key
    <3>1. h[e].branch_key = h[p].branch_key
      <4> HIDE DEF B, e
      <4> QED BY <1>1, <1>3, <2>4
    <3>2. b # 0 /\ b \in 0..p - 1 /\ h[b].branch_key = h[p].branch_key
      <4> HIDE DEF e
      <4> QED BY <2>5, <3>1, BeforeIs
    <3>3. QED
      <4> HIDE DEF b
      <4> QED BY <2>5, <3>2
  <2>7. H!Transition(h, p) = "comparable"
    <3>1. H!Transition(h, p) \in {"first", "comparable"}
      BY <2>4
    <3>2. H!Transition(h, p) # "first"
      BY <2>6 DEF H!Transition
    <3>3. QED BY <3>1, <3>2
  <2>8. h[p].cohort = h[b].cohort /\ h[p].tests = h[b].tests
    BY <2>7 DEF H!Transition
  <2>9. b \in B
    <3>1. b \in 1..n /\ h[b].branch_key = key
      <4> HIDE DEF b, B
      <4> QED BY <1>1, <2>4, <2>5, <2>6
    <3>2. QED
      <4> HIDE DEF b, B
      <4> QED BY <1>2, <3>1
  <2>10. b \in X
    <3> HIDE DEF b, B, e
    <3> QED BY <2>4, <2>8, <2>9
  <2>11. p <= b
    <3> HIDE DEF b, X
    <3> QED BY <2>3, <2>10
  <2>12. QED
    <3> HIDE DEF b
    <3> QED BY <2>5, <2>6, <2>11
<1>5. \A p \in B : h[p].cohort = h[e].cohort /\ h[p].tests = h[e].tests
  <2> HIDE DEF B, e
  <2> QED BY <1>4
<1>6. QED
  <2> HIDE DEF e
  <2> QED BY <1>5

\* A branch none of whose steps changed its tests or settings has not changed context.
LEMMA NoChangeUnseen ==
  ASSUME NEW h, NEW n \in Nat, Report(h, n), NEW key,
         \A p \in H!OnBranchKey(h, key) : H!Transition(h, p) \in {"first", "comparable"}
  PROVE  H!Direction(h, key) # "context_changed"
<1> DEFINE M == {p \in H!OnBranchKey(h, key) : h[p].measured}
<1> DEFINE f == H!Earliest(M)
<1> DEFINE z == H!Latest(M)
<1>1. SUFFICES ASSUME H!Direction(h, key) = "context_changed" PROVE FALSE
  OBVIOUS
<1>2. f # z /\ (h[f].cohort # h[z].cohort \/ h[f].tests # h[z].tests)
  BY <1>1 DEF H!Direction
<1>3. M # {}
  <2> HIDE DEF M
  <2> QED BY <1>2 DEF H!Latest, H!Earliest
<1>4. f \in M /\ z \in M
  <2>1. M \in SUBSET (1..n)
    BY BranchPlaces
  <2>2. QED
    <3> HIDE DEF M
    <3> QED BY <1>3, <2>1, EndsAreMembers
<1>5. f \in H!OnBranchKey(h, key) /\ z \in H!OnBranchKey(h, key)
  <2> HIDE DEF f, z
  <2> QED BY <1>4
<1>6. h[f].cohort = h[z].cohort /\ h[f].tests = h[z].tests
  <2> HIDE DEF f, z
  <2> QED BY <1>5, StepsKeepSettings
<1>7. QED
  <2> HIDE DEF f, z
  <2> QED BY <1>2, <1>6

\* The groups of a page are those of its tables.
LEMMA GroupsDoAgree ==
  ASSUME NEW h, NEW n \in Nat, Report(h, n), NEW cohort
  PROVE  GroupsAgree(h, cohort)
<1> DEFINE signals == H!Signals(h, cohort)
<1>1. /\ signals.operational = {issue[1] : issue \in H!ExecutionIssues(h)}
      /\ \A p \in signals.operational : ~h[p].measured
  BY IssuesAgree
<1>2. \A g, k \in H!SettingsGroups(h) : g = k \/ g.cohorts \cap k.cohorts = {}
  BY CohortsHaveOneGroup
<1>3. \A key \in signals.gaps : \A p \in H!WiderRuns(h, key) :
         \A m \in H!Cases(h[p]) \ H!Cases(h[H!Latest(H!OnBranchKey(h, key))]) :
             H!LatestState(h, key, m) \in {"not_run", "blocked"}
  BY GapsShow
<1>4. \A key \in H!BranchKeys(h) : H!InconsistentLatest(h, key, cohort) =>
         \E commit \in H!Commits(h, key) :
             /\ H!Latest(H!OnBranchKey(h, key)) \in commit.runs
             /\ Cardinality(commit.runs) > 1
  BY CommitIsShared
<1>5. QED
  <2>1. SUFFICES ASSUME NEW s, s = signals
        PROVE  /\ s.operational = {issue[1] : issue \in H!ExecutionIssues(h)}
               /\ \A p \in s.operational : ~h[p].measured
               /\ \A g, k \in H!SettingsGroups(h) : g = k \/ g.cohorts \cap k.cohorts = {}
               /\ \A key \in s.gaps : \A p \in H!WiderRuns(h, key) :
                    \A m \in H!Cases(h[p]) \ H!Cases(h[H!Latest(H!OnBranchKey(h, key))]) :
                        H!LatestState(h, key, m) \in {"not_run", "blocked"}
               /\ \A key \in H!BranchKeys(h) : H!InconsistentLatest(h, key, cohort) =>
                    \E commit \in H!Commits(h, key) :
                        /\ H!Latest(H!OnBranchKey(h, key)) \in commit.runs
                        /\ Cardinality(commit.runs) > 1
    BY DEF GroupsAgree
  <2>2. QED
    <3> HIDE DEF signals
    <3> QED BY <1>1, <1>2, <1>3, <1>4, <2>1

\* What is said of one branch rests on its runs.
LEMMA BranchAddsUp ==
  ASSUME NEW h, NEW n \in Nat, Report(h, n), NEW shown, NEW key \in H!BranchKeys(h),
         NEW l, l = H!Latest(H!OnBranchKey(h, key)),
         NEW f, f = H!Earliest({p \in H!OnBranchKey(h, key) : h[p].measured}),
         NEW direction, direction = H!Direction(h, key)
  PROVE  /\ l \in H!Matching(h, shown) => \A m \in H!Cases(h[l]) :
                H!LatestState(h, key, m) # "blocked" =>
                    H!CellCount(h, shown, key, m, H!LatestState(h, key, m)) > 0
         /\ direction \in {"improved", "declined"} =>
                /\ h[l].measured /\ H!Cases(h[f]) = H!Cases(h[l])
                /\ h[f].sha # h[l].sha
                /\ IF direction = "improved"
                   THEN Cardinality(PassedIn(h[l])) > Cardinality(PassedIn(h[f]))
                   ELSE Cardinality(PassedIn(h[l])) < Cardinality(PassedIn(h[f]))
         /\ (\A p \in H!OnBranchKey(h, key) : H!Transition(h, p) \in {"first", "comparable"})
                => direction # "context_changed"
<1>1. l \in H!Matching(h, shown) => \A m \in H!Cases(h[l]) :
         H!LatestState(h, key, m) # "blocked" =>
             H!CellCount(h, shown, key, m, H!LatestState(h, key, m)) > 0
  BY LatestIsCounted
<1>2. direction \in {"improved", "declined"} =>
         /\ h[l].measured /\ H!Cases(h[f]) = H!Cases(h[l])
         /\ h[f].sha # h[l].sha
         /\ IF direction = "improved"
            THEN Cardinality(PassedIn(h[l])) > Cardinality(PassedIn(h[f]))
            ELSE Cardinality(PassedIn(h[l])) < Cardinality(PassedIn(h[f]))
  BY DirectionIsEarned
<1>3. QED BY <1>1, <1>2, NoChangeUnseen

\* Reports.EvidenceAddsUp: what services/unit_history.py counts in one place is
\* what it lists in another, and a signal rests on runs that show it.
THEOREM EvidenceDoesAddUp == Spec => []EvidenceAddsUp
<1>1. ASSUME ReportInv, AsAsked PROVE EvidenceAddsUp
  <2>1. CASE Told("history")
    <3>1. ToldHistories = {History}
      BY <2>1 DEF ToldHistories
    <3>2. \E n \in Nat : Report(History, n)
      BY <1>1, <2>1, HistoryFacts, HistoryPlaces DEF Told, Report
    <3>3. SUFFICES ASSUME NEW h \in ToldHistories, NEW shown \in {H!DefaultCohort(h)}
          PROVE  /\ GroupsAgree(h, shown)
                 /\ \A key \in H!Cohorts(h) : \A p \in H!Cohort(h, key) :
                         h[p].configured = H!ConfigurationComplete(h, key)
                 /\ \A g \in H!InconsistentGroups(h, shown) : \A n \in g.cases : \A p \in g.runs :
                         /\ H!CellCount(h, shown, h[p].branch_key, n, "failed") > 0
                         /\ H!CellCount(h, shown, h[p].branch_key, n, "passed") > 0
                         /\ h[p].branch_key \in H!CaseRow(h, shown, n).affected
                 /\ \A key \in H!BranchKeys(h) :
                     LET Measured == {p \in H!OnBranchKey(h, key) : h[p].measured}
                         Passed(p) == {n \in H!Cases(h[p]) : h[p].verdicts[n] = "passed"} IN
                     \A l \in {H!Latest(H!OnBranchKey(h, key))}, f \in {H!Earliest(Measured)},
                        direction \in {H!Direction(h, key)} :
                     /\ l \in H!Matching(h, shown) => \A n \in H!Cases(h[l]) :
                             LET state == H!LatestState(h, key, n) IN
                             state # "blocked" => H!CellCount(h, shown, key, n, state) > 0
                     /\ direction \in {"improved", "declined"} =>
                             /\ h[l].measured /\ H!Cases(h[f]) = H!Cases(h[l])
                             /\ h[f].sha # h[l].sha
                             /\ IF direction = "improved" THEN Cardinality(Passed(l)) > Cardinality(Passed(f))
                                ELSE Cardinality(Passed(l)) < Cardinality(Passed(f))
                     /\ (\A p \in H!OnBranchKey(h, key) : H!Transition(h, p) \in {"first", "comparable"})
                             => direction # "context_changed"
      BY DEF EvidenceAddsUp
    <3>4. PICK n \in Nat : Report(h, n)
      BY <3>1, <3>2
    <3>5. GroupsAgree(h, shown)
      BY <3>4, GroupsDoAgree
    <3>6. \A key \in H!Cohorts(h) : \A p \in H!Cohort(h, key) :
              h[p].configured = H!ConfigurationComplete(h, key)
      BY <3>4, CohortIsConfigured
    <3>7. \A g \in H!InconsistentGroups(h, shown) : \A m \in g.cases : \A p \in g.runs :
              /\ H!CellCount(h, shown, h[p].branch_key, m, "failed") > 0
              /\ H!CellCount(h, shown, h[p].branch_key, m, "passed") > 0
              /\ h[p].branch_key \in H!CaseRow(h, shown, m).affected
      BY <3>4, InconsistentCounts
    <3>8. SUFFICES ASSUME NEW key \in H!BranchKeys(h),
                          NEW l \in {H!Latest(H!OnBranchKey(h, key))},
                          NEW f \in {H!Earliest({p \in H!OnBranchKey(h, key) : h[p].measured})},
                          NEW direction \in {H!Direction(h, key)}
          PROVE  /\ l \in H!Matching(h, shown) => \A m \in H!Cases(h[l]) :
                        H!LatestState(h, key, m) # "blocked" =>
                            H!CellCount(h, shown, key, m, H!LatestState(h, key, m)) > 0
                 /\ direction \in {"improved", "declined"} =>
                        /\ h[l].measured /\ H!Cases(h[f]) = H!Cases(h[l])
                        /\ h[f].sha # h[l].sha
                        /\ IF direction = "improved"
                           THEN Cardinality(PassedIn(h[l])) > Cardinality(PassedIn(h[f]))
                           ELSE Cardinality(PassedIn(h[l])) < Cardinality(PassedIn(h[f]))
                 /\ (\A p \in H!OnBranchKey(h, key) : H!Transition(h, p) \in {"first", "comparable"})
                        => direction # "context_changed"
      BY <3>5, <3>6, <3>7 DEF PassedIn
    <3>9. QED BY <3>4, <3>8, BranchAddsUp
  <2>2. CASE ~Told("history")
    BY <2>2 DEF EvidenceAddsUp, ToldHistories
  <2>3. QED BY <2>1, <2>2
<1>2. QED BY <1>1, ReportInvariant, AskedAlways, PTL
==============================================================================
