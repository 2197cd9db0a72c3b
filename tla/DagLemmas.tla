----------------------------- MODULE DagLemmas -----------------------------
(***************************************************************************)
(* Facts about sets, sequences and graphs that the proofs about dag.py and *)
(* config.py share, and what the order and the schedules of the engine are *)
(* on every graph that has no cycle. The two are defined by recursion over *)
(* sets, and a recursive function is to TLAPS whatever satisfies its       *)
(* equation: RecursionHasSolution gives that there is one, by an induction *)
(* that takes the least set of numbers up to one where the claim fails.    *)
(***************************************************************************)
EXTENDS Dag, TLAPS, FiniteSetTheorems, WellFoundedInduction, SequenceTheorems

(***************************************************************************)
(* Every non-empty finite set of naturals has a least member: the one with *)
(* the least set of members up to it.                                      *)
(***************************************************************************)
LEMMA LeastIsMember ==
  ASSUME NEW S \in SUBSET Nat, S # {}, IsFiniteSet(S)
  PROVE  Min(S) \in S /\ \A y \in S : Min(S) <= y
<1> DEFINE UpTo(x) == {y \in S : y <= x}
           R == StrictSubsetOrdering(S)
           T == {UpTo(x) : x \in S}
<1>1. T \subseteq SUBSET S /\ T # {}
  OBVIOUS
<1>2. IsWellFoundedOn(R, SUBSET S)
  BY FS_StrictSubsetOrderingWellFounded, FS_FiniteSubsetsOfFinite
<1>3. PICK U \in T : \A V \in T : ~(<<V, U>> \in R)
  <2> HIDE DEF R, T
  <2> QED
    BY <1>1, <1>2, WFMin
<1>4. PICK x \in S : U = UpTo(x)
  BY <1>3
<1>5. \A y \in S : x <= y
  <2>1. SUFFICES ASSUME NEW y \in S, ~(x <= y) PROVE FALSE
    OBVIOUS
  <2>2. x \in Nat /\ y \in Nat /\ \A z \in S : z \in Nat
    OBVIOUS
  <2>3. y < x
    BY <2>1, <2>2
  <2>4. \A z \in S : z <= y => z <= x
    BY <2>2, <2>3
  <2>5. UpTo(y) \subseteq UpTo(x) /\ x \in UpTo(x) /\ x \notin UpTo(y)
    <3>1. UpTo(y) \subseteq UpTo(x)
      BY <2>4
    <3>2. x \in UpTo(x)
      BY <2>2
    <3>3. x \notin UpTo(y)
      BY <2>1
    <3> QED
      BY <3>1, <3>2, <3>3
  <2>6. <<UpTo(y), UpTo(x)>> \in R
    BY <2>5 DEF StrictSubsetOrdering
  <2> QED
    BY <1>3, <1>4, <2>6
<1> QED
  BY <1>5 DEF Min

(***************************************************************************)
(* A slice of a sequence.                                                  *)
(***************************************************************************)
LEMMA Slice ==
  ASSUME NEW S, NEW s \in Seq(S), NEW m \in 1 .. Len(s) + 1, NEW n \in 0 .. Len(s),
         m <= n + 1
  PROVE  /\ SubSeq(s, m, n) \in Seq(S)
         /\ Len(SubSeq(s, m, n)) = n - m + 1
         /\ \A i \in 1 .. n - m + 1 : SubSeq(s, m, n)[i] = s[m + i - 1]
<1>1. Len(s) \in Nat /\ m \in Int /\ n \in Int
  OBVIOUS
<1>2. \A i \in m .. n : s[i] \in S
  BY <1>1
<1>3. /\ SubSeq(s, m, n) \in Seq(S)
      /\ Len(SubSeq(s, m, n)) = IF m <= n THEN n - m + 1 ELSE 0
      /\ \A i \in 1 .. n - m + 1 : SubSeq(s, m, n)[i] = s[m + i - 1]
  BY <1>1, <1>2, SubSeqProperties, SMTT(20)
<1>4. (IF m <= n THEN n - m + 1 ELSE 0) = n - m + 1
  BY <1>1
<1> QED
  BY <1>3, <1>4

(***************************************************************************)
(* A sequence without repetitions is as long as its set is large.          *)
(***************************************************************************)
LEMMA LengthIsCardinality ==
  ASSUME NEW S, NEW s \in Seq(S), IsInjective(s)
  PROVE  IsFiniteSet(ToSet(s)) /\ Cardinality(ToSet(s)) = Len(s)
<1>1. Len(s) \in Nat /\ DOMAIN s = 1 .. Len(s) /\ s \in [1 .. Len(s) -> ToSet(s)]
  BY DEF ToSet
<1>2. s \in Bijection(1 .. Len(s), ToSet(s))
  BY <1>1 DEF Bijection, Injection, Surjection, IsInjective, ToSet
<1>3. ExistsBijection(1 .. Len(s), ToSet(s))
  BY <1>2 DEF ExistsBijection
<1> QED
  BY <1>1, <1>3, FS_CountingElements, FS_NatBijection

(***************************************************************************)
(* Induction up to a bound, for a set: one that holds 0 and with each      *)
(* number the next holds them all.                                         *)
(***************************************************************************)
LEMMA UpToInduction ==
  ASSUME NEW N \in Nat, NEW P, 0 \in P, \A n \in 1 .. N : n - 1 \in P => n \in P
  PROVE  0 .. N \subseteq P
<1> DEFINE Q == (0 .. N) \ P
<1> SUFFICES ASSUME Q # {} PROVE FALSE
  OBVIOUS
<1>1. Q \in SUBSET Nat /\ IsFiniteSet(Q)
  <2>1. IsFiniteSet(0 .. N) /\ Q \subseteq 0 .. N
    BY FS_Interval
  <2> QED
    BY <2>1, FS_Subset
<1>2. Min(Q) \in Q /\ \A n \in Q : Min(Q) <= n
  <2> HIDE DEF Q
  <2> QED
    BY <1>1, LeastIsMember
<1> DEFINE m == Min(Q)
<1>3. m \in 1 .. N /\ m \notin P
  BY <1>2
<1>4. m - 1 \notin Q
  BY <1>2, <1>3
<1> QED
  BY <1>3, <1>4

(***************************************************************************)
(* What a recursive definition by steps from 0 to N asks of a function.    *)
(***************************************************************************)
IsSeries(f, N, start, step) ==
  f[0] = start /\ \A n \in 1 .. N : f[n] = step[n][f[n - 1]]

(***************************************************************************)
(* A recursive definition by steps from 0 to N has a solution.             *)
(***************************************************************************)
LEMMA RecursionHasSolution ==
  ASSUME NEW N \in Nat, NEW V, NEW start \in V, NEW step \in [1 .. N -> [V -> V]]
  PROVE  \E f \in [0 .. N -> V] :
           IsSeries(f, N, start, step)
<1> DEFINE Solves(f, k) == IsSeries(f, k, start, step)
           P == {k \in 0 .. N : \E f \in [0 .. k -> V] : Solves(f, k)}
<1>1. 0 \in P
  <2> DEFINE f == [n \in 0 .. 0 |-> start]
  <2>1. f \in [0 .. 0 -> V] /\ f[0] = start
    OBVIOUS
  <2> HIDE DEF f
  <2>2. Solves(f, 0)
    BY <2>1 DEF IsSeries
  <2> QED
    BY <2>1, <2>2
<1>2. ASSUME NEW k \in 1 .. N, k - 1 \in P PROVE k \in P
  <2>1. PICK f \in [0 .. k - 1 -> V] : Solves(f, k - 1)
    BY <1>2
  <2> DEFINE h == [n \in 0 .. k |-> IF n = k THEN step[k][f[k - 1]] ELSE f[n]]
  <2>2. k - 1 \in 0 .. k - 1 /\ f[k - 1] \in V
    OBVIOUS
  <2>3. step[k][f[k - 1]] \in V
    BY <2>2
  <2>4. h \in [0 .. k -> V]
    BY <2>3
  <2>5. h[0] = start
    BY <2>1 DEF IsSeries
  <2>6. ASSUME NEW n \in 1 .. k PROVE h[n] = step[n][h[n - 1]]
    BY <2>1 DEF IsSeries
  <2> HIDE DEF h
  <2> QED
    BY <2>4, <2>5, <2>6 DEF IsSeries
<1>3. N \in P
  <2> HIDE DEF P
  <2>1. \A k \in 1 .. N : k - 1 \in P => k \in P
    BY <1>2
  <2>2. 0 .. N \subseteq P
    BY <1>1, <2>1, UpToInduction
  <2> QED
    BY <2>2
<1> QED
  BY <1>3
-----------------------------------------------------------------------------
(***************************************************************************)
(* What topological_order is by its definition: the last of a series of    *)
(* sequences, each the one before with the least of what is ready.         *)
(***************************************************************************)
Emits(g, series) ==
  /\ series \in [0 .. Cardinality(g.tasks) -> Seq(g.tasks)]
  /\ series[0] = <<>>
  /\ \A n \in 1 .. Cardinality(g.tasks) :
       LET order == series[n - 1]
           ready == Ready(g, order)
       IN  series[n] = IF ready = {} THEN order ELSE Append(order, Min(ready))

(***************************************************************************)
(* The recursive function in topological_order is defined.                 *)
(***************************************************************************)
LEMMA TopologicalOrderDef ==
  ASSUME NEW g, g.tasks \subseteq Nat, IsFiniteSet(g.tasks)
  PROVE  \E series :
           Emits(g, series) /\ topological_order(g) = series[Cardinality(g.tasks)]
<1> DEFINE K == Cardinality(g.tasks)
           Next(order) == LET ready == Ready(g, order)
                          IN  IF ready = {} THEN order ELSE Append(order, Min(ready))
           step == [n \in 1 .. K |-> [order \in Seq(g.tasks) |-> Next(order)]]
<1>1. K \in Nat
  BY FS_CardinalityType
<1>2. \A order \in Seq(g.tasks) : Next(order) \in Seq(g.tasks)
  <2> SUFFICES ASSUME NEW order \in Seq(g.tasks), Ready(g, order) # {}
               PROVE  Append(order, Min(Ready(g, order))) \in Seq(g.tasks)
    OBVIOUS
  <2>1. Ready(g, order) \subseteq g.tasks
    BY DEF Ready
  <2>2. Ready(g, order) \in SUBSET Nat /\ IsFiniteSet(Ready(g, order))
    BY <2>1, FS_Subset
  <2>3. Min(Ready(g, order)) \in g.tasks
    BY <2>1, <2>2, LeastIsMember
  <2> QED
    BY <2>3
<1>3. step \in [1 .. K -> [Seq(g.tasks) -> Seq(g.tasks)]]
  <2> HIDE DEF Next
  <2> QED
    BY <1>2
<1>4. PICK f \in [0 .. K -> Seq(g.tasks)] :
        IsSeries(f, K, <<>>, step)
  <2> DEFINE V == Seq(g.tasks)
             start == <<>>
  <2>1. start \in V
    OBVIOUS
  <2>2. step \in [1 .. K -> [V -> V]]
    BY <1>3
  <2> HIDE DEF step, K, V, start
  <2>3. \E f \in [0 .. K -> V] :
          IsSeries(f, K, start, step)
    BY <1>1, <2>1, <2>2, RecursionHasSolution
  <2> QED
    BY <2>3 DEF V, start
<1>f. f[0] = <<>>
  BY <1>4 DEF IsSeries
<1>5. \A n \in 1 .. K : f[n] = Next(f[n - 1])
  <2> SUFFICES ASSUME NEW n \in 1 .. K PROVE f[n] = Next(f[n - 1])
    OBVIOUS
  <2>1. f[n] = step[n][f[n - 1]]
    BY <1>4 DEF IsSeries
  <2>2. n - 1 \in 0 .. K
    BY <1>1
  <2>3. f[n - 1] \in Seq(g.tasks)
    BY <2>2
  <2> HIDE DEF Next
  <2> QED
    BY <2>1, <2>3
<1> DEFINE Body(h) == [n \in 0 .. K |->
                         IF n = 0 THEN <<>>
                         ELSE LET order == h[n - 1]
                                  ready == Ready(g, order)
                              IN  IF ready = {} THEN order ELSE Append(order, Min(ready))]
           E == CHOOSE h : h = Body(h)
<1>6. f = Body(f)
  <2>1. f = [n \in 0 .. K |-> f[n]]
    OBVIOUS
  <2>2. ASSUME NEW n \in 0 .. K PROVE f[n] = IF n = 0 THEN <<>> ELSE Next(f[n - 1])
    <3> HIDE DEF Next
    <3>1. n # 0 => n \in 1 .. K
      BY <1>1
    <3> QED
      BY <1>f, <1>5, <3>1
  <2>3. \A n \in 0 .. K : f[n] = Body(f)[n]
    <3> HIDE DEF Next
    <3> QED
      BY <2>2 DEF Next
  <2> QED
    BY <2>1, <2>3
<1>7. E = Body(E)
  <2> HIDE DEF Body
  <2> QED
    BY <1>6
<1>8. \A n \in 0 .. K : E[n] = f[n]
  <2> DEFINE P == {n \in 0 .. K : E[n] = f[n]}
  <2> HIDE DEF E
  <2>1. 0 \in P
    <3>1. E[0] = <<>>
      BY <1>1, <1>7
    <3> QED
      BY <1>1, <1>f, <3>1
  <2>2. ASSUME NEW n \in 1 .. K, n - 1 \in P PROVE n \in P
    <3>1. E[n] = Next(E[n - 1])
      <4>1. n \in 0 .. K /\ n # 0
        BY <1>1
      <4>2. E[n] = Body(E)[n]
        BY <1>7
      <4> QED
        BY <4>1, <4>2
    <3> HIDE DEF Next
    <3> QED
      BY <1>1, <1>5, <2>2, <3>1
  <2> HIDE DEF P, K
  <2>3. 0 .. K \subseteq P
    BY <1>1, <2>1, <2>2, UpToInduction
  <2> QED
    BY <2>3 DEF P
<1>9. topological_order(g) = E[K]
  BY DEF topological_order
<1>10. Emits(g, f)
  BY <1>f, <1>5 DEF Emits
<1> HIDE DEF E
<1> QED
  BY <1>1, <1>8, <1>9, <1>10

(***************************************************************************)
(* The set of the first members of a sequence.                             *)
(***************************************************************************)
LEMMA PrefixSet ==
  ASSUME NEW S, NEW s \in Seq(S), NEW n \in 1 .. Len(s) + 1
  PROVE  /\ SubSeq(s, 1, n - 1) \in Seq(S)
         /\ Len(SubSeq(s, 1, n - 1)) = n - 1
         /\ \A i \in 1 .. n - 1 : SubSeq(s, 1, n - 1)[i] = s[i]
         /\ ToSet(SubSeq(s, 1, n - 1)) = {s[m] : m \in 1 .. n - 1}
<1> DEFINE p == SubSeq(s, 1, n - 1)
<1>1. Len(s) \in Nat /\ 1 \in 1 .. Len(s) + 1 /\ n - 1 \in 0 .. Len(s) /\ 1 <= (n - 1) + 1
  OBVIOUS
<1>2. p \in Seq(S) /\ Len(p) = (n - 1) - 1 + 1
      /\ \A i \in 1 .. (n - 1) - 1 + 1 : p[i] = s[1 + i - 1]
  <2> HIDE DEF p
  <2> QED
    BY <1>1, Slice DEF p
<1>3. (n - 1) - 1 + 1 = n - 1 /\ \A i \in 1 .. n - 1 : 1 + i - 1 = i
  BY <1>1
<1>4. Len(p) = n - 1 /\ \A i \in 1 .. n - 1 : p[i] = s[i]
  <2> HIDE DEF p
  <2> QED
    BY <1>2, <1>3
<1>5. DOMAIN p = 1 .. n - 1
  <2> HIDE DEF p
  <2> QED
    BY <1>2, <1>4
<1>6. ToSet(p) = {s[m] : m \in 1 .. n - 1}
  <2> HIDE DEF p
  <2> QED
    BY <1>4, <1>5 DEF ToSet
<1> QED
  BY <1>2, <1>4, <1>6

(***************************************************************************)
(* Two naturals that are each the least of the same set are one.           *)
(***************************************************************************)
LEMMA MinIsUnique ==
  ASSUME NEW S \in SUBSET Nat, IsFiniteSet(S), NEW x \in S, \A y \in S : x <= y
  PROVE  Min(S) = x
<1>1. Min(S) \in S /\ \A y \in S : Min(S) <= y
  BY LeastIsMember
<1>2. Min(S) <= x /\ x <= Min(S)
  BY <1>1
<1>3. Min(S) \in Nat /\ x \in Nat
  BY <1>1
<1> QED
  BY <1>2, <1>3

(***************************************************************************)
(* A full order that always takes the least of what is ready is the one    *)
(* that topological_order computes.                                        *)
(***************************************************************************)
LEMMA LeastFirstIsTheOrder ==
  ASSUME NEW g, g.tasks \subseteq Nat, IsFiniteSet(g.tasks),
         NEW order \in Seq(g.tasks), Len(order) = Cardinality(g.tasks),
         LeastFirst(g, order)
  PROVE  order = topological_order(g)
<1> DEFINE K == Cardinality(g.tasks)
<1>1. K \in Nat /\ DOMAIN order = 1 .. K
  BY FS_CardinalityType
<1>2. PICK series : Emits(g, series) /\ topological_order(g) = series[K]
  BY TopologicalOrderDef
<1> DEFINE P == {n \in 0 .. K : series[n] = SubSeq(order, 1, n)}
<1>3. 0 \in P
  <2>1. series[0] = <<>>
    BY <1>2 DEF Emits
  <2>2. SubSeq(order, 1, 0) = <<>>
    OBVIOUS
  <2>3. 0 \in 0 .. K
    BY <1>1
  <2> HIDE DEF K
  <2> QED
    BY <2>1, <2>2, <2>3
<1>4. ASSUME NEW n \in 1 .. K, n - 1 \in P PROVE n \in P
  <2> DEFINE pre == SubSeq(order, 1, n - 1)
             ready == Ready(g, pre)
             all == SubSeq(order, 1, n)
  <2>1. series[n - 1] = pre
    BY <1>4
  <2>2. order[n] \in ready /\ \A t \in ready : order[n] <= t
    BY <1>1 DEF LeastFirst
  <2>3. ready \in SUBSET Nat /\ IsFiniteSet(ready)
    <3>1. ready \subseteq g.tasks
      BY DEF Ready
    <3> QED
      BY <3>1, FS_Subset
  <2>4. Min(ready) = order[n]
    <3> HIDE DEF ready
    <3> QED
      BY <2>2, <2>3, MinIsUnique
  <2>5. series[n] = IF Ready(g, series[n - 1]) = {} THEN series[n - 1]
                    ELSE Append(series[n - 1], Min(Ready(g, series[n - 1])))
    BY <1>2 DEF Emits
  <2>6. series[n] = Append(pre, order[n])
    <3> HIDE DEF pre
    <3> QED
      BY <2>1, <2>2, <2>4, <2>5
  <2>7. /\ pre \in Seq(g.tasks) /\ Len(pre) = n - 1
        /\ \A i \in 1 .. n - 1 : pre[i] = order[i]
    <3>1. n \in 1 .. Len(order) + 1
      BY <1>1
    <3> HIDE DEF pre
    <3> QED
      BY <3>1, PrefixSet DEF pre
  <2>8. /\ all \in Seq(g.tasks) /\ Len(all) = n
        /\ \A i \in 1 .. n : all[i] = order[i]
    <3>1. n + 1 \in 1 .. Len(order) + 1 /\ (n + 1) - 1 = n
      BY <1>1
    <3>2. /\ SubSeq(order, 1, (n + 1) - 1) \in Seq(g.tasks)
          /\ Len(SubSeq(order, 1, (n + 1) - 1)) = (n + 1) - 1
          /\ \A i \in 1 .. (n + 1) - 1 : SubSeq(order, 1, (n + 1) - 1)[i] = order[i]
      BY <3>1, PrefixSet
    <3> QED
      BY <3>1, <3>2
  <2>9. Append(pre, order[n]) = all
    <3> HIDE DEF pre, all
    <3>1. n \in Nat /\ order[n] \in g.tasks /\ n = (n - 1) + 1
      BY <1>1
    <3>2. DOMAIN all = 1 .. n /\ DOMAIN Append(pre, order[n]) = 1 .. n
      BY <2>7, <2>8, <3>1
    <3>3. \A i \in 1 .. n : Append(pre, order[n])[i] = all[i]
      BY <2>7, <2>8, <3>1
    <3>4. Append(pre, order[n]) \in Seq(g.tasks) /\ Len(Append(pre, order[n])) = n
      BY <2>7, <3>1
    <3> QED
      BY <2>8, <3>3, <3>4, SeqEqual
  <2>10. series[n] = all
    <3> HIDE DEF pre, all
    <3> QED
      BY <2>6, <2>9
  <2>11. n \in 0 .. K
    BY <1>1
  <2> HIDE DEF K, pre
  <2> QED
    BY <2>10, <2>11
<1>5. 0 .. K \subseteq P
  <2> HIDE DEF P, K
  <2> QED
    BY <1>1, <1>3, <1>4, UpToInduction
<1>6. series[K] = SubSeq(order, 1, K)
  BY <1>1, <1>5
<1>7. SubSeq(order, 1, K) = order
  BY <1>1
<1> QED
  BY <1>2, <1>6, <1>7

(***************************************************************************)
(* Such an order repeats nothing, and of a registered graph it puts every  *)
(* task after its upstream.                                                *)
(***************************************************************************)
LEMMA LeastFirstIsOrdered ==
  ASSUME NEW g, g.tasks \subseteq Nat, NEW order \in Seq(g.tasks),
         LeastFirst(g, order), Registered(g)
  PROVE  /\ IsInjective(order)
         /\ \A n \in DOMAIN order : \A u \in upstream(g, order[n]) :
              \E m \in 1 .. n - 1 : order[m] = u
<1>1. Len(order) \in Nat /\ DOMAIN order = 1 .. Len(order)
  OBVIOUS
<1>2. ASSUME NEW n \in DOMAIN order
      PROVE  /\ order[n] \notin {order[m] : m \in 1 .. n - 1}
             /\ upstream(g, order[n]) \cap g.tasks \subseteq {order[m] : m \in 1 .. n - 1}
  <2>1. order[n] \in Ready(g, SubSeq(order, 1, n - 1))
    BY DEF LeastFirst
  <2>2. n \in 1 .. Len(order) + 1
    BY <1>1
  <2>3. ToSet(SubSeq(order, 1, n - 1)) = {order[m] : m \in 1 .. n - 1}
    BY <2>2, PrefixSet
  <2> QED
    BY <2>1, <2>3 DEF Ready
<1>3. IsInjective(order)
  <2>1. SUFFICES ASSUME NEW a \in DOMAIN order, NEW b \in DOMAIN order,
                        order[a] = order[b], a # b
                 PROVE  FALSE
    BY DEF IsInjective
  <2>2. a < b \/ b < a
    BY <1>1, <2>1
  <2>3. a \in 1 .. b - 1 \/ b \in 1 .. a - 1
    BY <1>1, <2>2
  <2> QED
    BY <1>2, <2>1, <2>3
<1>4. ASSUME NEW n \in DOMAIN order, NEW u \in upstream(g, order[n])
      PROVE  \E m \in 1 .. n - 1 : order[m] = u
  <2>1. u \in g.tasks
    BY DEF Registered, NamedIds, upstream
  <2> QED
    BY <1>2, <2>1
<1> QED
  BY <1>3, <1>4

(***************************************************************************)
(* No topological order is before it.                                      *)
(***************************************************************************)
LEMMA LeastFirstIsLeast ==
  ASSUME NEW g, g.tasks \subseteq Nat, IsFiniteSet(g.tasks),
         NEW order \in Seq(g.tasks), Len(order) = Cardinality(g.tasks),
         LeastFirst(g, order), NEW other \in TopologicalOrders(g)
  PROVE  ~Before(other, order)
<1> SUFFICES ASSUME NEW n \in DOMAIN other, other[n] < order[n],
                    \A m \in 1 .. n - 1 : other[m] = order[m]
             PROVE  FALSE
  BY DEF Before
<1>1. /\ DOMAIN other = 1 .. Cardinality(g.tasks)
      /\ \A m \in DOMAIN other : other[m] \in g.tasks
      /\ IsTopological(g, other)
  BY DEF TopologicalOrders, SetToSeqs
<1>2. Cardinality(g.tasks) \in Nat /\ n \in DOMAIN order /\ n \in 1 .. Len(order) + 1
  BY <1>1, FS_CardinalityType
<1>3. ToSet(SubSeq(order, 1, n - 1)) = {other[m] : m \in 1 .. n - 1}
  <2>1. ToSet(SubSeq(order, 1, n - 1)) = {order[m] : m \in 1 .. n - 1}
    BY <1>2, PrefixSet
  <2> QED
    BY <2>1
<1>4. other[n] \notin {other[m] : m \in 1 .. n - 1}
  BY <1>1, <1>2 DEF IsTopological, IsInjective
<1>5. upstream(g, other[n]) \subseteq {other[m] : m \in 1 .. n - 1}
  BY <1>1 DEF IsTopological
<1>6. other[n] \in Ready(g, SubSeq(order, 1, n - 1))
  BY <1>1, <1>3, <1>4, <1>5 DEF Ready
<1>7. order[n] <= other[n]
  BY <1>2, <1>6 DEF LeastFirst
<1>8. other[n] \in Nat /\ order[n] \in Nat
  BY <1>1, <1>2
<1> QED
  BY <1>7, <1>8

(***************************************************************************)
(* While tasks are missing from an order of an acyclic graph, one of them  *)
(* is ready: otherwise each would wait for another.                        *)
(***************************************************************************)
LEMMA SomethingIsReady ==
  ASSUME NEW g, IsFiniteSet(g.tasks), Registered(g), ~HasCycle(g),
         NEW order \in Seq(g.tasks), IsInjective(order), Len(order) < Cardinality(g.tasks)
  PROVE  Ready(g, order) # {}
<1> DEFINE S == g.tasks \ ToSet(order)
<1>1. S # {}
  <2>1. SUFFICES ASSUME g.tasks \subseteq ToSet(order) PROVE FALSE
    OBVIOUS
  <2>2. ToSet(order) \subseteq g.tasks
    BY DEF ToSet
  <2>3. Cardinality(g.tasks) = Len(order)
    <3>1. g.tasks = ToSet(order)
      BY <2>1, <2>2
    <3> QED
      BY <3>1, LengthIsCardinality
  <2> QED
    BY <2>3
<1>2. PICK t \in S : upstream(g, t) \cap S = {}
  BY <1>1 DEF HasCycle
<1>3. upstream(g, t) \cap g.tasks \subseteq ToSet(order)
  BY <1>2
<1> QED
  BY <1>2, <1>3 DEF Ready

(***************************************************************************)
(* An order that takes the least of what is ready still does when the      *)
(* least of what is ready next is appended.                                *)
(***************************************************************************)
LEMMA LeastFirstGrows ==
  ASSUME NEW g, g.tasks \subseteq Nat, IsFiniteSet(g.tasks), NEW order \in Seq(g.tasks),
         LeastFirst(g, order), Ready(g, order) # {}
  PROVE  /\ Append(order, Min(Ready(g, order))) \in Seq(g.tasks)
         /\ Len(Append(order, Min(Ready(g, order)))) = Len(order) + 1
         /\ LeastFirst(g, Append(order, Min(Ready(g, order))))
<1> DEFINE x == Min(Ready(g, order))
           long == Append(order, x)
           L == Len(order)
<1>1. Ready(g, order) \subseteq g.tasks
  BY DEF Ready
<1>2. x \in Ready(g, order) /\ \A t \in Ready(g, order) : x <= t
  <2>1. Ready(g, order) \in SUBSET Nat /\ IsFiniteSet(Ready(g, order))
    BY <1>1, FS_Subset
  <2> QED
    BY <2>1, LeastIsMember
<1>3. x \in g.tasks
  BY <1>1, <1>2
<1> HIDE DEF x
<1>4. /\ L \in Nat /\ long \in Seq(g.tasks) /\ Len(long) = L + 1
      /\ DOMAIN long = 1 .. L + 1 /\ DOMAIN order = 1 .. L
      /\ \A i \in 1 .. L : long[i] = order[i]
      /\ long[L + 1] = x
  BY <1>3
<1> HIDE DEF long, L
<1>5. ASSUME NEW n \in 1 .. L + 1 PROVE SubSeq(long, 1, n - 1) = SubSeq(order, 1, n - 1)
  <2> DEFINE a == SubSeq(long, 1, n - 1)
             b == SubSeq(order, 1, n - 1)
  <2>1. n \in 1 .. Len(long) + 1 /\ n \in 1 .. Len(order) + 1
    BY <1>4 DEF L
  <2>2. a \in Seq(g.tasks) /\ Len(a) = n - 1 /\ \A i \in 1 .. n - 1 : a[i] = long[i]
    BY <1>4, <2>1, PrefixSet
  <2>3. b \in Seq(g.tasks) /\ Len(b) = n - 1 /\ \A i \in 1 .. n - 1 : b[i] = order[i]
    BY <2>1, PrefixSet
  <2>4. \A i \in 1 .. n - 1 : long[i] = order[i]
    BY <1>4
  <2> HIDE DEF a, b
  <2>5. \A i \in 1 .. Len(a) : a[i] = b[i]
    BY <2>2, <2>3, <2>4
  <2>6. a = b
    BY <2>2, <2>3, <2>5, SeqEqual
  <2> QED
    BY <2>6 DEF a, b
<1>6. SubSeq(order, 1, L) = order
  BY DEF L
<1>7. LeastFirst(g, long)
  <2> SUFFICES ASSUME NEW n \in 1 .. L + 1
               PROVE  /\ long[n] \in Ready(g, SubSeq(long, 1, n - 1))
                      /\ \A t \in Ready(g, SubSeq(long, 1, n - 1)) : long[n] <= t
    BY <1>4 DEF LeastFirst
  <2>1. CASE n \in 1 .. L
    <3>1. /\ order[n] \in Ready(g, SubSeq(order, 1, n - 1))
          /\ \A t \in Ready(g, SubSeq(order, 1, n - 1)) : order[n] <= t
      BY <1>4, <2>1 DEF LeastFirst
    <3> QED
      BY <1>4, <1>5, <2>1, <3>1
  <2>2. CASE n = L + 1
    <3>1. n - 1 = L /\ long[n] = x
      BY <1>4, <2>2
    <3>2. SubSeq(long, 1, n - 1) = order
      BY <1>5, <1>6, <3>1
    <3> QED
      BY <1>2, <3>1, <3>2
  <2> QED
    BY <1>4, <2>1, <2>2
<1> QED
  BY <1>4, <1>7 DEF long, L, x

(***************************************************************************)
(* A full order that takes the least of what is ready is topological.      *)
(***************************************************************************)
LEMMA LeastFirstIsTopological ==
  ASSUME NEW g, g.tasks \subseteq Nat, IsFiniteSet(g.tasks), Registered(g),
         NEW order \in Seq(g.tasks), Len(order) = Cardinality(g.tasks),
         LeastFirst(g, order)
  PROVE  IsTopological(g, order)
<1>1. /\ IsInjective(order)
      /\ \A n \in DOMAIN order : \A u \in upstream(g, order[n]) :
           \E m \in 1 .. n - 1 : order[m] = u
  BY LeastFirstIsOrdered
<1>2. ToSet(order) \subseteq g.tasks
  BY DEF ToSet
<1>3. ToSet(order) = g.tasks
  <2>1. Cardinality(ToSet(order)) = Cardinality(g.tasks)
    BY <1>1, LengthIsCardinality
  <2> QED
    BY <1>2, <2>1, FS_Subset
<1> QED
  BY <1>1, <1>3 DEF IsTopological

(***************************************************************************)
(* Of every graph that validate_graph accepts, topological_order is an     *)
(* order of all the tasks, each after its upstream, and at each place it   *)
(* has the least of the tasks whose upstream is done.                      *)
(***************************************************************************)
THEOREM OrderOfAcyclicGraph ==
  ASSUME NEW g, g.tasks \subseteq Nat, IsFiniteSet(g.tasks), Registered(g), ~HasCycle(g)
  PROVE  /\ topological_order(g) \in Seq(g.tasks)
         /\ Len(topological_order(g)) = Cardinality(g.tasks)
         /\ LeastFirst(g, topological_order(g))
         /\ IsTopological(g, topological_order(g))
<1> DEFINE K == Cardinality(g.tasks)
<1>1. K \in Nat
  BY FS_CardinalityType
<1>2. PICK series : Emits(g, series) /\ topological_order(g) = series[K]
  BY TopologicalOrderDef
<1> DEFINE P == {n \in 0 .. K : /\ series[n] \in Seq(g.tasks)
                                /\ Len(series[n]) = n
                                /\ LeastFirst(g, series[n])}
<1>3. 0 \in P
  <2>1. series[0] = <<>>
    BY <1>2 DEF Emits
  <2>2. 0 \in 0 .. K /\ <<>> \in Seq(g.tasks) /\ Len(<<>>) = 0
    BY <1>1
  <2>3. LeastFirst(g, <<>>)
    BY DEF LeastFirst
  <2> HIDE DEF K
  <2> QED
    BY <2>1, <2>2, <2>3
<1>4. ASSUME NEW n \in 1 .. K, n - 1 \in P PROVE n \in P
  <2> DEFINE order == series[n - 1]
  <2>1. order \in Seq(g.tasks) /\ Len(order) = n - 1 /\ LeastFirst(g, order)
    BY <1>4
  <2>2. IsInjective(order)
    BY <2>1, LeastFirstIsOrdered
  <2>3. Len(order) < Cardinality(g.tasks)
    BY <1>1, <2>1
  <2>4. Ready(g, order) # {}
    BY <2>1, <2>2, <2>3, SomethingIsReady
  <2>5. series[n] = IF Ready(g, order) = {} THEN order
                    ELSE Append(order, Min(Ready(g, order)))
    BY <1>2 DEF Emits
  <2>6. series[n] = Append(order, Min(Ready(g, order)))
    BY <2>4, <2>5
  <2> HIDE DEF order
  <2>7. /\ series[n] \in Seq(g.tasks)
        /\ Len(series[n]) = Len(order) + 1
        /\ LeastFirst(g, series[n])
    BY <2>1, <2>4, <2>6, LeastFirstGrows
  <2>8. n \in 0 .. K /\ Len(order) + 1 = n
    BY <1>1, <2>1
  <2> HIDE DEF K
  <2> QED
    BY <2>7, <2>8
<1>5. 0 .. K \subseteq P
  <2> HIDE DEF P, K
  <2> QED
    BY <1>1, <1>3, <1>4, UpToInduction
<1>6. /\ series[K] \in Seq(g.tasks)
      /\ Len(series[K]) = K
      /\ LeastFirst(g, series[K])
  BY <1>1, <1>5
<1> QED
  BY <1>2, <1>6, LeastFirstIsTopological

(***************************************************************************)
(* Likewise for the greatest.                                              *)
(***************************************************************************)
LEMMA GreatestIsMember ==
  ASSUME NEW S \in SUBSET Nat, S # {}, IsFiniteSet(S)
  PROVE  Max(S) \in S /\ \A y \in S : y <= Max(S)
<1> DEFINE From(x) == {y \in S : x <= y}
           R == StrictSubsetOrdering(S)
           T == {From(x) : x \in S}
<1>1. T \subseteq SUBSET S /\ T # {}
  OBVIOUS
<1>2. IsWellFoundedOn(R, SUBSET S)
  BY FS_StrictSubsetOrderingWellFounded, FS_FiniteSubsetsOfFinite
<1>3. PICK U \in T : \A V \in T : ~(<<V, U>> \in R)
  <2> HIDE DEF R, T
  <2> QED
    BY <1>1, <1>2, WFMin
<1>4. PICK x \in S : U = From(x)
  BY <1>3
<1>5. \A y \in S : y <= x
  <2>1. SUFFICES ASSUME NEW y \in S, ~(y <= x) PROVE FALSE
    OBVIOUS
  <2>2. x \in Nat /\ y \in Nat /\ \A z \in S : z \in Nat
    OBVIOUS
  <2>3. \A z \in S : y <= z => x <= z
    BY <2>1, <2>2
  <2>4. From(y) \subseteq From(x)
    BY <2>3
  <2>5. x \in From(x) /\ x \notin From(y)
    BY <2>1, <2>2
  <2>6. <<From(y), From(x)>> \in R
    BY <2>4, <2>5 DEF StrictSubsetOrdering
  <2> QED
    BY <1>3, <1>4, <2>6
<1>6. \A y \in S : x >= y
  BY <1>5
<1> QED
  BY <1>6 DEF Max

(***************************************************************************)
(* The values that a function has on a finite set.                         *)
(***************************************************************************)
LEMMA ImageIsFinite ==
  ASSUME NEW U, IsFiniteSet(U), NEW f
  PROVE  IsFiniteSet({f[u] : u \in U})
<1> DEFINE T == {f[u] : u \in U}
           h == [u \in U |-> f[u]]
<1>1. h \in Surjection(U, T)
  BY DEF Surjection
<1> HIDE DEF h, T
<1>2. IsFiniteSet(T)
  BY <1>1, FS_Surjection
<1> QED
  BY <1>2 DEF T
-----------------------------------------------------------------------------
(***************************************************************************)
(* Each task in its place of a topological order: the batches of a         *)
(* sequential run.                                                         *)
(***************************************************************************)
LEMMA PlacesAreASchedule ==
  ASSUME NEW g, IsFiniteSet(g.tasks), Registered(g),
         IsTopological(g, topological_order(g)),
         topological_order(g) \in Seq(g.tasks)
  PROVE  /\ sequential_batches(g) \in [g.tasks -> Nat]
         /\ IsSchedule(g, sequential_batches(g))
<1> DEFINE order == topological_order(g)
           L == Len(order)
           place(t) == CHOOSE n \in 1 .. L : order[n] = t
           batches == sequential_batches(g)
<1>1. L \in Nat /\ DOMAIN order = 1 .. L
  OBVIOUS
<1>2. \A t \in g.tasks : place(t) \in 1 .. L /\ order[place(t)] = t
  <2> SUFFICES ASSUME NEW t \in g.tasks PROVE \E n \in 1 .. L : order[n] = t
    OBVIOUS
  <2>1. t \in ToSet(order)
    BY DEF IsTopological
  <2> QED
    BY <1>1, <2>1 DEF ToSet
<1>3. batches = [t \in g.tasks |-> place(t) - 1]
  BY DEF sequential_batches
<1>4. \A n \in 1 .. L : order[n] \in g.tasks /\ place(order[n]) = n
  <2> SUFFICES ASSUME NEW n \in 1 .. L PROVE order[n] \in g.tasks /\ place(order[n]) = n
    OBVIOUS
  <2>1. order[n] \in g.tasks
    BY <1>1
  <2>2. place(order[n]) \in 1 .. L /\ order[place(order[n])] = order[n]
    BY <1>2, <2>1
  <2> HIDE DEF place
  <2> QED
    BY <1>1, <2>1, <2>2 DEF IsTopological, IsInjective
<1> HIDE DEF place, batches, order
<1>5. \A t \in g.tasks : batches[t] = place(t) - 1 /\ batches[t] \in 0 .. L - 1
  BY <1>1, <1>2, <1>3
<1>6. batches \in [g.tasks -> Nat]
  BY <1>1, <1>2, <1>3
<1>7. ASSUME NEW t \in g.tasks, NEW u \in upstream(g, t)
      PROVE  batches[u] < batches[t]
  <2>1. PICK m \in 1 .. place(t) - 1 : order[m] = u
    BY <1>1, <1>2 DEF IsTopological, order
  <2>2. place(t) \in 1 .. L /\ m \in 1 .. L
    BY <1>1, <1>2
  <2>3. u \in g.tasks /\ place(u) = m
    BY <1>4, <2>1, <2>2
  <2> QED
    BY <1>1, <1>5, <2>2, <2>3
<1>8. ASSUME NEW t \in g.tasks, NEW b \in 0 .. batches[t]
      PROVE  \E u \in g.tasks : batches[u] = b
  <2>1. b + 1 \in 1 .. L
    BY <1>1, <1>5
  <2>2. order[b + 1] \in g.tasks /\ place(order[b + 1]) = b + 1
    BY <1>4, <2>1
  <2>3. batches[order[b + 1]] = b
    BY <1>5, <2>1, <2>2
  <2> QED
    BY <2>2, <2>3
<1>9. IsSchedule(g, batches)
  BY <1>6, <1>7, <1>8 DEF IsSchedule
<1> QED
  BY <1>6, <1>9 DEF batches
-----------------------------------------------------------------------------
(***************************************************************************)
(* The level that the rule of level_of gives a task from those of its      *)
(* upstream.                                                               *)
(***************************************************************************)
LevelFrom(g, known, t) ==
  LET above == {known[u] : u \in upstream(g, t)}
  IN  IF above = {} THEN 0 ELSE 1 + Max(above)

(***************************************************************************)
(* The tasks of D, which has the upstream of each of its tasks, have the   *)
(* levels of the rule.                                                     *)
(***************************************************************************)
IsLeveled(g, D, known) ==
  /\ known \in [D -> Nat]
  /\ \A t \in D : upstream(g, t) \subseteq D /\ known[t] = LevelFrom(g, known, t)

(***************************************************************************)
(* What the rule gives is a natural, and it is determined by the upstream. *)
(***************************************************************************)
LEMMA LevelFromType ==
  ASSUME NEW g, NEW t, IsFiniteSet(upstream(g, t)), NEW known,
         \A u \in upstream(g, t) : known[u] \in Nat
  PROVE  /\ LevelFrom(g, known, t) \in Nat
         /\ \A u \in upstream(g, t) : known[u] < LevelFrom(g, known, t)
         /\ LevelFrom(g, known, t) # 0 =>
              \E u \in upstream(g, t) : LevelFrom(g, known, t) = 1 + known[u]
<1> DEFINE above == {known[u] : u \in upstream(g, t)}
<1>1. above \in SUBSET Nat /\ IsFiniteSet(above)
  BY ImageIsFinite
<1>2. above # {} => Max(above) \in above /\ \A y \in above : y <= Max(above)
  <2> HIDE DEF above
  <2> QED
    BY <1>1, GreatestIsMember
<1>3. LevelFrom(g, known, t) = IF above = {} THEN 0 ELSE 1 + Max(above)
  BY DEF LevelFrom
<1>4. CASE above = {}
  BY <1>3, <1>4
<1>5. CASE above # {}
  <2>1. LevelFrom(g, known, t) = 1 + Max(above)
    BY <1>3, <1>5
  <2>2. PICK v \in upstream(g, t) : Max(above) = known[v]
    BY <1>2, <1>5
  <2>3. \A u \in upstream(g, t) : known[u] <= known[v]
    BY <1>2, <1>5, <2>2
  <2> HIDE DEF above
  <2> QED
    BY <2>1, <2>2, <2>3
<1> QED
  BY <1>4, <1>5

(***************************************************************************)
(* The levels extend to a task whose upstream has them.                    *)
(***************************************************************************)
LEMMA OneMoreLevel ==
  ASSUME NEW g, NEW D, NEW known, IsLeveled(g, D, known),
         NEW t, t \notin D, upstream(g, t) \subseteq D, IsFiniteSet(upstream(g, t)),
         NEW next,
         next = [i \in DOMAIN known \cup {t} |->
                   IF i = t THEN LevelFrom(g, known, t) ELSE known[i]]
  PROVE  IsLeveled(g, D \cup {t}, next)
<1>1. known \in [D -> Nat]
  BY DEF IsLeveled
<1>2. LevelFrom(g, known, t) \in Nat
  BY <1>1, LevelFromType
<1>3. /\ next \in [D \cup {t} -> Nat]
      /\ next[t] = LevelFrom(g, known, t)
      /\ \A u \in D : next[u] = known[u]
  BY <1>1, <1>2
<1>4. \A i \in D \cup {t} : upstream(g, i) \subseteq D
  BY DEF IsLeveled
<1>5. ASSUME NEW i \in D \cup {t} PROVE LevelFrom(g, next, i) = LevelFrom(g, known, i)
  <2>1. \A u \in upstream(g, i) : next[u] = known[u]
    BY <1>3, <1>4
  <2>2. {next[u] : u \in upstream(g, i)} = {known[u] : u \in upstream(g, i)}
    BY <2>1
  <2> QED
    BY <2>2 DEF LevelFrom
<1>6. ASSUME NEW i \in D \cup {t} PROVE next[i] = LevelFrom(g, next, i)
  BY <1>3, <1>5 DEF IsLeveled
<1> QED
  BY <1>3, <1>4, <1>6 DEF IsLeveled

(***************************************************************************)
(* level_of gives every task the level of the rule.                        *)
(***************************************************************************)
LEMMA LevelOfDef ==
  ASSUME NEW g, IsFiniteSet(g.tasks), Registered(g),
         IsTopological(g, topological_order(g)),
         topological_order(g) \in Seq(g.tasks)
  PROVE  IsLeveled(g, g.tasks, level_of(g))
<1> DEFINE order == topological_order(g)
           K == Len(order)
           Pre(n) == {order[m] : m \in 1 .. n}
           V == UNION {[D -> Nat] : D \in SUBSET g.tasks}
           Next(n, known) == [i \in DOMAIN known \cup {order[n]} |->
                                IF i = order[n] THEN LevelFrom(g, known, order[n])
                                ELSE known[i]]
           step == [n \in 1 .. K |-> [known \in V |->
                      IF Next(n, known) \in V THEN Next(n, known) ELSE known]]
<1>1. K \in Nat /\ DOMAIN order = 1 .. K
  OBVIOUS
<1>2. ToSet(order) = g.tasks /\ IsInjective(order)
      /\ \A n \in DOMAIN order : \A u \in upstream(g, order[n]) :
           \E m \in 1 .. n - 1 : order[m] = u
  BY DEF IsTopological
<1> HIDE DEF order
<1>3. \A t \in g.tasks : IsFiniteSet(upstream(g, t))
  <2>1. \A t \in g.tasks : upstream(g, t) \subseteq g.tasks
    BY DEF Registered, NamedIds, upstream
  <2> QED
    BY <2>1, FS_Subset
<1>4. PICK f \in [0 .. K -> V] : IsSeries(f, K, <<>>, step)
  <2> DEFINE start == <<>>
  <2>1. start \in V
    <3>1. start \in [{} -> Nat]
      OBVIOUS
    <3> QED
      BY <3>1
  <2>2. step \in [1 .. K -> [V -> V]]
    <3> HIDE DEF V, Next
    <3> QED
      OBVIOUS
  <2> HIDE DEF step, K, V, start
  <2>3. \E f \in [0 .. K -> V] : IsSeries(f, K, start, step)
    BY <1>1, <2>1, <2>2, RecursionHasSolution
  <2> QED
    BY <2>3 DEF start
<1>f. f[0] = <<>>
  BY <1>4 DEF IsSeries
<1> DEFINE Good(n) == IsLeveled(g, Pre(n), f[n])
           P == {n \in 0 .. K : Good(n)}
<1>5. ASSUME NEW n \in 1 .. K, Good(n - 1)
      PROVE  IsLeveled(g, Pre(n), Next(n, f[n - 1])) /\ f[n] = Next(n, f[n - 1])
  <2> DEFINE t == order[n]
             known == f[n - 1]
             next == Next(n, known)
             D == Pre(n - 1)
  <2>1. n \in DOMAIN order /\ n - 1 \in 0 .. K
    BY <1>1
  <2>2. t \in g.tasks
    BY <1>2, <2>1 DEF ToSet
  <2>3. t \notin D
    <3> SUFFICES ASSUME NEW m \in 1 .. n - 1, order[m] = order[n] PROVE FALSE
      OBVIOUS
    <3>1. m \in DOMAIN order /\ m # n
      BY <1>1
    <3> QED
      BY <1>2, <2>1, <3>1 DEF IsInjective
  <2>4. upstream(g, t) \subseteq D
    BY <1>2, <2>1
  <2>5. Pre(n) = D \cup {t}
    <3>1. 1 .. n = (1 .. n - 1) \cup {n}
      BY <1>1
    <3> QED
      BY <3>1
  <2>6. IsLeveled(g, D, known)
    BY <1>5
  <2>7. next = [i \in DOMAIN known \cup {t} |->
                  IF i = t THEN LevelFrom(g, known, t) ELSE known[i]]
    OBVIOUS
  <2>8. IsFiniteSet(upstream(g, t))
    BY <1>3, <2>2
  <2>9. IsLeveled(g, D \cup {t}, next)
    <3> HIDE DEF next, D, t, known
    <3> QED
      BY <2>3, <2>4, <2>6, <2>7, <2>8, OneMoreLevel
  <2>10. next \in V
    <3>1. Pre(n) \in SUBSET g.tasks
      <4>1. 1 .. n \subseteq DOMAIN order
        BY <1>1
      <4>2. \A m \in DOMAIN order : order[m] \in g.tasks
        BY <1>2 DEF ToSet
      <4> QED
        BY <4>1, <4>2
    <3>2. next \in [Pre(n) -> Nat]
      <4> HIDE DEF next, D, t, Pre
      <4> QED
        BY <2>5, <2>9 DEF IsLeveled
    <3> HIDE DEF next, Pre
    <3> QED
      BY <3>1, <3>2
  <2>11. f[n] = step[n][known]
    BY <1>4 DEF IsSeries
  <2>12. known \in V
    <3> HIDE DEF V
    <3> QED
      BY <2>1
  <2>13. step[n][known] = IF next \in V THEN next ELSE known
    <3> HIDE DEF V, Next, known
    <3> QED
      BY <2>12
  <2>14. f[n] = next
    <3> HIDE DEF V, next, known, step
    <3> QED
      BY <2>10, <2>11, <2>13
  <2>15. IsLeveled(g, Pre(n), next)
    <3> HIDE DEF next, D, t, Pre
    <3> QED
      BY <2>5, <2>9
  <2> QED
    BY <2>14, <2>15
<1>6. Good(0)
  <2>1. Pre(0) = {} /\ f[0] \in [{} -> Nat]
    BY <1>f
  <2> QED
    BY <2>1 DEF IsLeveled
<1>7. \A n \in 0 .. K : Good(n)
  <2>1. 0 \in P
    <3> HIDE DEF Good
    <3> QED
      BY <1>1, <1>6
  <2>2. ASSUME NEW n \in 1 .. K, n - 1 \in P PROVE n \in P
    <3>1. Good(n - 1)
      <4> HIDE DEF Good
      <4> QED
        BY <2>2
    <3>2. IsLeveled(g, Pre(n), Next(n, f[n - 1])) /\ f[n] = Next(n, f[n - 1])
      BY <1>5, <3>1
    <3>3. IsLeveled(g, Pre(n), f[n])
      <4> HIDE DEF Next, Pre
      <4> QED
        BY <3>2
    <3>4. n \in 0 .. K
      BY <1>1
    <3> HIDE DEF Pre, K
    <3> QED
      BY <3>3, <3>4
  <2> HIDE DEF P, K
  <2>3. 0 .. K \subseteq P
    BY <1>1, <2>1, <2>2, UpToInduction
  <2> HIDE DEF Good
  <2> QED
    BY <2>3 DEF P
<1>8. \A n \in 1 .. K : f[n] = Next(n, f[n - 1])
  <2> SUFFICES ASSUME NEW n \in 1 .. K PROVE f[n] = Next(n, f[n - 1])
    OBVIOUS
  <2>1. n - 1 \in 0 .. K
    BY <1>1
  <2>2. Good(n - 1)
    <3> HIDE DEF Good
    <3> QED
      BY <1>7, <2>1
  <2> QED
    BY <1>5, <2>2
<1> DEFINE Body(h) == [n \in 0 .. K |->
                         IF n = 0 THEN <<>>
                         ELSE LET t == order[n]
                                  known == h[n - 1]
                                  above == {known[u] : u \in upstream(g, t)}
                                  level == IF above = {} THEN 0 ELSE 1 + Max(above)
                              IN  [i \in DOMAIN known \cup {t} |->
                                     IF i = t THEN level ELSE known[i]]]
           E == CHOOSE h : h = Body(h)
<1>9. ASSUME NEW h, NEW n \in 0 .. K
      PROVE  Body(h)[n] = IF n = 0 THEN <<>> ELSE Next(n, h[n - 1])
  BY DEF LevelFrom
<1>10. f = Body(f)
  <2>1. f = [n \in 0 .. K |-> f[n]]
    <3> HIDE DEF V
    <3> QED
      OBVIOUS
  <2>2. ASSUME NEW n \in 0 .. K PROVE f[n] = Body(f)[n]
    <3> HIDE DEF Next, Body
    <3>1. n # 0 => n \in 1 .. K
      BY <1>1
    <3> QED
      BY <1>f, <1>8, <1>9, <3>1
  <2>3. Body(f) = [n \in 0 .. K |-> Body(f)[n]]
    OBVIOUS
  <2> HIDE DEF Body
  <2> QED
    BY <2>1, <2>2, <2>3
<1>11. E = Body(E)
  <2> HIDE DEF Body
  <2> QED
    BY <1>10
<1>12. \A n \in 0 .. K : E[n] = f[n]
  <2> DEFINE Q == {n \in 0 .. K : E[n] = f[n]}
  <2> HIDE DEF E, Body, Next
  <2>1. 0 \in Q
    <3>1. 0 \in 0 .. K
      BY <1>1
    <3>2. E[0] = <<>>
      BY <1>9, <1>11, <3>1
    <3> QED
      BY <1>f, <3>1, <3>2
  <2>2. ASSUME NEW n \in 1 .. K, n - 1 \in Q PROVE n \in Q
    <3>1. n \in 0 .. K /\ n # 0
      BY <1>1
    <3>2. E[n] = Next(n, E[n - 1])
      BY <1>9, <1>11, <3>1
    <3> QED
      BY <1>8, <2>2, <3>1, <3>2
  <2> HIDE DEF Q, K
  <2>3. 0 .. K \subseteq Q
    BY <1>1, <2>1, <2>2, UpToInduction
  <2> QED
    BY <2>3 DEF Q
<1>13. level_of(g) = E[K]
  BY DEF level_of, order
<1>14. Pre(K) = g.tasks
  BY <1>1, <1>2 DEF ToSet
<1>15. K \in 0 .. K
  BY <1>1
<1>16. level_of(g) = f[K]
  <2> HIDE DEF E, K
  <2> QED
    BY <1>12, <1>13, <1>15
<1>17. IsLeveled(g, Pre(K), f[K])
  <2> HIDE DEF Pre, K
  <2> QED
    BY <1>7, <1>15
<1> HIDE DEF Pre, K
<1> QED
  BY <1>14, <1>16, <1>17

(***************************************************************************)
(* The levels are a schedule: the batches of a run with more workers.      *)
(***************************************************************************)
LEMMA LevelsAreASchedule ==
  ASSUME NEW g, IsFiniteSet(g.tasks), Registered(g),
         IsTopological(g, topological_order(g)),
         topological_order(g) \in Seq(g.tasks)
  PROVE  level_of(g) \in [g.tasks -> Nat] /\ IsSchedule(g, level_of(g))
<1> DEFINE level == level_of(g)
<1>1. IsLeveled(g, g.tasks, level)
  BY LevelOfDef
<1> HIDE DEF level
<1>2. level \in [g.tasks -> Nat]
  BY <1>1 DEF IsLeveled
<1>3. ASSUME NEW t \in g.tasks
      PROVE  /\ upstream(g, t) \subseteq g.tasks
             /\ \A u \in upstream(g, t) : level[u] < level[t]
             /\ level[t] # 0 => \E u \in upstream(g, t) : level[t] = 1 + level[u]
  <2>1. upstream(g, t) \subseteq g.tasks /\ level[t] = LevelFrom(g, level, t)
    BY <1>1 DEF IsLeveled
  <2>2. IsFiniteSet(upstream(g, t)) /\ \A u \in upstream(g, t) : level[u] \in Nat
    BY <1>2, <2>1, FS_Subset
  <2> QED
    BY <2>1, <2>2, LevelFromType
<1>4. ASSUME NEW t \in g.tasks, NEW b \in 0 .. level[t]
      PROVE  \E u \in g.tasks : level[u] = b
  <2> DEFINE N == level[t]
             P == {k \in 0 .. N : \E u \in g.tasks : level[u] = N - k}
  <2>1. N \in Nat
    BY <1>2
  <2>2. 0 \in P
    BY <2>1
  <2>3. ASSUME NEW k \in 1 .. N, k - 1 \in P PROVE k \in P
    <3>1. PICK u \in g.tasks : level[u] = N - (k - 1)
      BY <2>3
    <3>2. level[u] # 0
      BY <2>1, <3>1
    <3>3. PICK w \in upstream(g, u) : level[u] = 1 + level[w]
      BY <1>3, <3>2
    <3>4. w \in g.tasks /\ level[w] \in Nat
      BY <1>2, <1>3
    <3>5. level[w] = N - k
      BY <2>1, <3>1, <3>3, <3>4
    <3>6. k \in 0 .. N
      BY <2>1
    <3> QED
      BY <3>4, <3>5, <3>6
  <2>4. 0 .. N \subseteq P
    <3> HIDE DEF P, N
    <3> QED
      BY <2>1, <2>2, <2>3, UpToInduction
  <2>5. N - b \in 0 .. N /\ N - (N - b) = b
    BY <2>1
  <2> HIDE DEF N
  <2> QED
    BY <2>4, <2>5
<1>5. IsSchedule(g, level)
  BY <1>2, <1>3, <1>4 DEF IsSchedule
<1> QED
  BY <1>2, <1>5 DEF level

(***************************************************************************)
(* The batches of run() for every graph that validate_graph accepts and    *)
(* every number of workers are what Engine asks of Batch: each task has    *)
(* one, above those of its upstream, and none below the highest is empty.  *)
(***************************************************************************)
THEOREM BatchesOfAcyclicGraph ==
  ASSUME NEW g, g.tasks \subseteq Nat, IsFiniteSet(g.tasks), Registered(g), ~HasCycle(g),
         NEW max_workers
  PROVE  /\ run_batches(g, max_workers) \in [g.tasks -> Nat]
         /\ IsSchedule(g, run_batches(g, max_workers))
<1>1. topological_order(g) \in Seq(g.tasks) /\ IsTopological(g, topological_order(g))
  BY OrderOfAcyclicGraph
<1>2. /\ sequential_batches(g) \in [g.tasks -> Nat]
      /\ IsSchedule(g, sequential_batches(g))
  BY <1>1, PlacesAreASchedule
<1>3. level_of(g) \in [g.tasks -> Nat] /\ IsSchedule(g, level_of(g))
  BY <1>1, LevelsAreASchedule
<1> QED
  BY <1>2, <1>3 DEF run_batches
-----------------------------------------------------------------------------
(***************************************************************************)
(* The fields of a workflow, which is a record of two, after WithTask.     *)
(***************************************************************************)
LEMMA WithTaskFields ==
  ASSUME NEW h, IsRecord(h), NEW t
  PROVE  /\ IsRecord(WithTask(h, t))
         /\ WithTask(h, t).tasks = h.tasks \cup {t}
         /\ WithTask(h, t).dependencies = h.dependencies
BY DEF WithTask, IsRecord

(***************************************************************************)
(* The fields of a workflow after WithUpstream.                            *)
(***************************************************************************)
LEMMA WithUpstreamFields ==
  ASSUME NEW h, IsRecord(h), NEW t, NEW S
  PROVE  /\ IsRecord(WithUpstream(h, t, S))
         /\ WithUpstream(h, t, S).tasks = h.tasks
         /\ DOMAIN WithUpstream(h, t, S).dependencies \subseteq DOMAIN h.dependencies \cup {t}
         /\ upstream(WithUpstream(h, t, S), t) = upstream(h, t) \cup S
         /\ \A i : i # t => upstream(WithUpstream(h, t, S), i) = upstream(h, i)
<1>1. CASE S = {}
  BY <1>1 DEF WithUpstream, IsRecord
<1>2. CASE S # {}
  <2> DEFINE E == [i \in DOMAIN h.dependencies \cup {t} |->
                     IF i = t THEN upstream(h, t) \cup S ELSE h.dependencies[i]]
  <2>1. WithUpstream(h, t, S) = [tasks |-> h.tasks, dependencies |-> E]
    BY <1>2 DEF WithUpstream, IsRecord
  <2> QED
    BY <1>2, <2>1 DEF upstream, IsRecord
<1> QED
  BY <1>1, <1>2
=============================================================================
