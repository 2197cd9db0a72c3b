----------------------------- MODULE CycleProofs -----------------------------
(***************************************************************************)
(* The search reports real cycles only, and one whenever there is one, on  *)
(* every workflow.                                                         *)
(***************************************************************************)
EXTENDS CycleInvariant, DagLemmas

(***************************************************************************)
(* The neighbors of a task are tasks, and tasks are naturals.              *)
(***************************************************************************)
LEMMA NeighborsAreTasks ==
  ASSUME SearchTypeOK
  PROVE  /\ g.tasks \subseteq Nat /\ IsFiniteSet(g.tasks)
         /\ \A t \in g.tasks : Neighbors(t) \subseteq g.tasks
BY IdAssumption, FS_Subset DEF SearchTypeOK, IsWorkflow, Neighbors

(***************************************************************************)
(* A path that is not empty has a last node, and the least of what is left *)
(* to it is one of its neighbors.                                          *)
(***************************************************************************)
LEMMA TopIsTask ==
  ASSUME SearchTypeOK, path # <<>>
  PROVE  /\ Len(path) \in 1 .. Len(path)
         /\ Top = path[Len(path)]
         /\ Top \in g.tasks
         /\ rest[Top] # {} => Min(rest[Top]) \in rest[Top] /\ Min(rest[Top]) \in g.tasks
<1>1. Len(path) \in 1 .. Len(path) /\ Top = path[Len(path)] /\ Top \in g.tasks
  BY DEF SearchTypeOK, Top, Last
<1>2. rest[Top] \in SUBSET g.tasks
  BY <1>1 DEF SearchTypeOK
<1> QED
  BY <1>1, <1>2, LeastIsMember, NeighborsAreTasks, FS_Subset

(***************************************************************************)
(* The search starts in the invariant.                                     *)
(***************************************************************************)
LEMMA InitSearchInv == Init => SearchInv
<1> SUFFICES ASSUME Init PROVE SearchInv
  OBVIOUS
<1>1. SearchTypeOK
  BY WorkflowsAssumption DEF Init, SearchTypeOK
<1>2. PathIsGray
  BY DEF Init, PathIsGray, Colored, ToSet, IsInjective
<1>3. RestIsAhead /\ CyclesAreReal /\ AllReturned
  BY DEF Init, RestIsAhead, CyclesAreReal, AllReturned, ToSet
<1>4. TriedIsExplored /\ BlackIsClosed /\ BlackIsClear
  BY DEF Init, TriedIsExplored, BlackIsClosed, BlackIsClear, Colored, Trap
<1> QED
  BY <1>1, <1>2, <1>3, <1>4 DEF SearchInv

(***************************************************************************)
(* Starting a visit keeps the types.                                       *)
(***************************************************************************)
LEMMA VisitTypes ==
  ASSUME SearchTypeOK, pc = "searching", NEW t \in g.tasks,
         NEW trying \in [g.tasks -> SUBSET g.tasks], Visit(t, trying)
  PROVE  SearchTypeOK'
<1>1. path' \in Seq(g.tasks)
  BY DEF SearchTypeOK, Visit
<1>2. rest' \in [g.tasks -> SUBSET g.tasks]
  BY NeighborsAreTasks DEF Visit
<1> QED
  BY <1>1, <1>2 DEF SearchTypeOK, Visit, IsWorkflow

(***************************************************************************)
(* What is left of a path without its last node.                           *)
(***************************************************************************)
LEMMA FrontOfPath ==
  ASSUME SearchTypeOK, path # <<>>
  PROVE  /\ Front(path) \in Seq(g.tasks)
         /\ Len(Front(path)) = Len(path) - 1
         /\ \A n \in 1 .. Len(path) - 1 : Front(path)[n] = path[n]
<1>1. /\ path \in Seq(g.tasks)
      /\ Len(path) - 1 \in 0 .. Len(path)
      /\ 1 \in 1 .. Len(path) + 1
      /\ Len(path) - 1 - 1 + 1 = Len(path) - 1
      /\ \A n \in 1 .. Len(path) - 1 : path[1 + n - 1] = path[n]
  BY DEF SearchTypeOK
<1> DEFINE k == Len(path) - 1
<1>2. /\ SubSeq(path, 1, k) \in Seq(g.tasks)
      /\ Len(SubSeq(path, 1, k)) = k - 1 + 1
      /\ \A n \in 1 .. k - 1 + 1 : SubSeq(path, 1, k)[n] = path[1 + n - 1]
  <2>1. 1 <= k + 1
    BY <1>1
  <2> HIDE DEF k
  <2> QED
    BY <1>1, <2>1, Slice DEF k
<1> QED
  BY <1>1, <1>2 DEF Front

(***************************************************************************)
(* What a GRAY neighbor of the last node closes is a cycle.                *)
(***************************************************************************)
LEMMA GrayClosesCycle ==
  ASSUME SearchTypeOK, PathIsGray, RestIsAhead, Try("GRAY")
  PROVE  LET cycle == PathFrom(Min(rest[Top])) IN
         cycle \in Seq(g.tasks) /\ IsCycle(cycle)
<1> DEFINE m == Min(rest[Top])
           k == CHOOSE n \in DOMAIN path : path[n] = m
           cycle == SubSeq(path, k, Len(path))
<1>1. m \in rest[Top] /\ m \in Neighbors(Top) /\ m \in Colored("GRAY")
  BY TopIsTask DEF Try, RestIsAhead, Colored
<1>2. k \in 1 .. Len(path) /\ path[k] = m
  BY <1>1 DEF PathIsGray, ToSet, SearchTypeOK
<1>3. Len(path) \in Nat /\ \A n \in 1 .. Len(path) : path[n] \in g.tasks
  BY DEF SearchTypeOK
<1> HIDE DEF m, k
<1>4. /\ cycle \in Seq(g.tasks)
      /\ Len(cycle) = Len(path) - k + 1
      /\ \A n \in 1 .. Len(path) - k + 1 : cycle[n] = path[k + n - 1]
  <2>1. k \in 1 .. Len(path) + 1 /\ Len(path) \in 0 .. Len(path) /\ k <= Len(path) + 1
    BY <1>2, <1>3
  <2>2. path \in Seq(g.tasks)
    BY DEF SearchTypeOK
  <2> QED
    BY <2>1, <2>2, Slice
<1> HIDE DEF cycle
<1>5. IsInjective(cycle)
  <2>1. SUFFICES ASSUME NEW a \in 1 .. Len(cycle), NEW b \in 1 .. Len(cycle),
                        cycle[a] = cycle[b]
                 PROVE  a = b
    BY <1>4 DEF IsInjective
  <2>2. path[k + a - 1] = path[k + b - 1]
    BY <2>1, <1>4
  <2>3. k + a - 1 \in 1 .. Len(path) /\ k + b - 1 \in 1 .. Len(path)
    BY <1>2, <1>3, <1>4
  <2>4. k + a - 1 = k + b - 1
    BY <2>2, <2>3 DEF IsInjective, PathIsGray, SearchTypeOK
  <2> QED
    BY <2>4, <1>2, <1>3, <1>4
<1>6. \A n \in 1 .. Len(cycle) - 1 : cycle[n + 1] \in Neighbors(cycle[n])
  BY <1>2, <1>3, <1>4 DEF PathIsGray
<1>7. Head(cycle) = m /\ Last(cycle) = Top /\ cycle # <<>>
  <2>1. 1 \in 1 .. Len(path) - k + 1 /\ Len(path) - k + 1 \in 1 .. Len(path) - k + 1
    BY <1>2, <1>3
  <2>2. cycle[1] = path[k] /\ cycle[Len(cycle)] = path[Len(path)]
    BY <2>1, <1>2, <1>3, <1>4
  <2>3. cycle # <<>> /\ Head(cycle) = cycle[1]
    BY <1>2, <1>3, <1>4
  <2> QED
    BY <2>2, <2>3, <1>2 DEF Last, Top
<1>8. IsCycle(cycle)
  BY <1>1, <1>5, <1>6, <1>7 DEF IsCycle
<1> QED
  BY <1>4, <1>8 DEF cycle, k, m, PathFrom

(***************************************************************************)
(* Every step keeps the types.                                             *)
(***************************************************************************)
LEMMA SearchTypeOKStep ==
  ASSUME SearchTypeOK, PathIsGray, RestIsAhead, [Next]_vars
  PROVE  SearchTypeOK'
<1>1. Tried \in [g.tasks -> SUBSET g.tasks]
  BY DEF SearchTypeOK, Tried
<1>2. CASE VisitRoot
  <2>1. Colored("WHITE") \subseteq g.tasks
    BY DEF Colored
  <2>2. Min(Colored("WHITE")) \in g.tasks
    BY <1>2, <2>1, NeighborsAreTasks, FS_Subset, LeastIsMember DEF VisitRoot
  <2> QED
    BY <1>2, <2>2, VisitTypes DEF VisitRoot, SearchTypeOK
<1>3. CASE TryGray
  <2>1. cycles' \in Seq(Seq(g.tasks))
    <3> DEFINE cycle == PathFrom(Min(rest[Top]))
    <3>1. cycle \in Seq(g.tasks)
      BY <1>3, GrayClosesCycle DEF TryGray
    <3>2. cycles' \in {cycles, Append(cycles, cycle)}
      BY <1>3 DEF TryGray
    <3>3. Append(cycles, cycle) \in Seq(Seq(g.tasks))
      <4> DEFINE S == Seq(g.tasks)
      <4>1. cycles \in Seq(S) /\ cycle \in S
        BY <3>1 DEF SearchTypeOK
      <4> HIDE DEF cycle, S
      <4>2. Append(cycles, cycle) \in Seq(S)
        BY <4>1
      <4> QED
        BY <4>2 DEF S
    <3> QED
      BY <3>2, <3>3 DEF SearchTypeOK
  <2> QED
    BY <1>1, <1>3, <2>1 DEF TryGray, Try, SearchTypeOK, IsWorkflow
<1>4. CASE TryWhite
  BY <1>1, <1>4, TopIsTask, VisitTypes DEF TryWhite, Try
<1>5. CASE TryBlack
  BY <1>1, <1>5 DEF TryBlack, Try, SearchTypeOK, IsWorkflow
<1>6. CASE Leave
  BY <1>6, FrontOfPath, TopIsTask DEF Leave, SearchTypeOK, IsWorkflow
<1>7. CASE Return
  BY <1>7 DEF Return, SearchTypeOK, IsWorkflow
<1>8. CASE UNCHANGED vars
  BY <1>8 DEF vars, SearchTypeOK, IsWorkflow
<1> QED
  BY <1>2, <1>3, <1>4, <1>5, <1>6, <1>7, <1>8 DEF Next, Finished

(***************************************************************************)
(* Queries read nothing but the workflow, which never changes.             *)
(***************************************************************************)
LEMMA NeighborsStay ==
  ASSUME [Next]_vars
  PROVE  g' = g /\ \A t : Neighbors(t)' = Neighbors(t)
<1>1. g' = g
  BY DEF Next, vars, VisitRoot, TryGray, TryWhite, TryBlack, Leave, Return,
         Finished, Visit
<1> QED
  BY <1>1 DEF Neighbors, upstream

(***************************************************************************)
(* A visit puts its node at the end of the path.                           *)
(***************************************************************************)
LEMMA VisitKeepsPath ==
  ASSUME SearchTypeOK, PathIsGray, NEW t \in g.tasks, color[t] = "WHITE",
         NEW trying, Visit(t, trying), path # <<>> => t \in Neighbors(Top)
  PROVE  PathIsGray'
<1>1. /\ path \in Seq(g.tasks) /\ path' = Append(path, t) /\ g' = g
      /\ Len(path) \in Nat /\ Len(path') = Len(path) + 1
      /\ DOMAIN path' = 1 .. Len(path) + 1
      /\ \A n \in 1 .. Len(path) : path'[n] = path[n]
      /\ path'[Len(path) + 1] = t
  BY DEF SearchTypeOK, Visit
<1>2. \A n \in 1 .. Len(path) : path[n] \in Colored("GRAY")
  BY <1>1 DEF PathIsGray, ToSet
<1>3. t \notin Colored("GRAY")
  BY DEF Colored
<1>4. IsInjective(path')
  BY <1>1, <1>2, <1>3 DEF IsInjective, PathIsGray
<1>5. Colored("GRAY")' = Colored("GRAY") \cup {t}
  BY <1>1 DEF Colored, Visit, SearchTypeOK
<1>6. ToSet(path') = ToSet(path) \cup {t}
  BY <1>1 DEF ToSet
<1>7. ASSUME NEW n \in 1 .. Len(path') - 1
      PROVE  path'[n + 1] \in Neighbors(path'[n])
  <2>1. CASE n = Len(path)
    <3>1. path # <<>> /\ path'[n] = Top /\ path'[n + 1] = t
      BY <1>1, <1>7, <2>1 DEF Top, Last
    <3> QED
      BY <3>1
  <2>2. CASE n # Len(path)
    <3>1. n \in 1 .. Len(path) - 1 /\ path'[n] = path[n] /\ path'[n + 1] = path[n + 1]
      BY <1>1, <1>7, <2>2
    <3> QED
      BY <3>1 DEF PathIsGray
  <2> QED
    BY <2>1, <2>2
<1>8. ToSet(path') = Colored("GRAY")'
  BY <1>5, <1>6 DEF PathIsGray
<1> QED
  BY <1>1, <1>4, <1>7, <1>8 DEF PathIsGray, Neighbors, upstream

(***************************************************************************)
(* The path is the GRAY nodes, linked, after every step.                   *)
(***************************************************************************)
LEMMA PathIsGrayStep ==
  ASSUME SearchTypeOK, PathIsGray, RestIsAhead, [Next]_vars
  PROVE  PathIsGray'
<1>1. CASE VisitRoot
  <2>1. /\ Min(Colored("WHITE")) \in g.tasks
        /\ color[Min(Colored("WHITE"))] = "WHITE"
    <3>1. Colored("WHITE") \subseteq g.tasks
      BY DEF Colored
    <3>2. Min(Colored("WHITE")) \in Colored("WHITE")
      BY <1>1, <3>1, NeighborsAreTasks, FS_Subset, LeastIsMember DEF VisitRoot
    <3> QED
      BY <3>2 DEF Colored
  <2> QED
    BY <1>1, <2>1, VisitKeepsPath DEF VisitRoot
<1>2. CASE TryWhite
  <2>1. Min(rest[Top]) \in Neighbors(Top) /\ Min(rest[Top]) \in g.tasks
    BY <1>2, TopIsTask DEF TryWhite, Try, RestIsAhead
  <2> QED
    BY <1>2, <2>1, VisitKeepsPath DEF TryWhite, Try
<1>3. CASE Leave
  <2>1. /\ path' = Front(path) /\ g' = g /\ path' \in Seq(g.tasks)
        /\ Len(path) \in Nat \ {0} /\ Len(path') = Len(path) - 1
        /\ DOMAIN path' = 1 .. Len(path) - 1
        /\ \A n \in 1 .. Len(path) - 1 : path'[n] = path[n]
    BY <1>3, FrontOfPath, TopIsTask DEF Leave, SearchTypeOK
  <2>2. Top = path[Len(path)] /\ Top \in g.tasks
    BY <1>3, TopIsTask DEF Leave
  <2>3. IsInjective(path')
    BY <2>1 DEF PathIsGray, IsInjective
  <2>4. ToSet(path') = ToSet(path) \ {Top}
    <3>1. \A n \in 1 .. Len(path) - 1 : path[n] # Top
      BY <2>1, <2>2 DEF PathIsGray, IsInjective
    <3> QED
      BY <2>1, <2>2, <3>1 DEF ToSet
  <2>5. Colored("GRAY")' = Colored("GRAY") \ {Top}
    BY <1>3, <2>1, <2>2 DEF Leave, Colored, SearchTypeOK
  <2>6. \A n \in 1 .. Len(path') - 1 : path'[n + 1] \in Neighbors(path'[n])
    <3>1. \A n \in 1 .. Len(path') - 1 :
            /\ n \in 1 .. Len(path) - 1
            /\ path'[n] = path[n] /\ path'[n + 1] = path[n + 1]
      BY <2>1
    <3> QED
      BY <3>1 DEF PathIsGray
  <2> QED
    BY <2>1, <2>3, <2>4, <2>5, <2>6 DEF PathIsGray, Neighbors, upstream
<1>4. CASE UNCHANGED <<g, color, path>>
  BY <1>4, NeighborsStay DEF PathIsGray, Colored
<1> QED
  BY <1>1, <1>2, <1>3, <1>4 DEF Next, TryGray, TryBlack, Return, Finished, vars

(***************************************************************************)
(* What is left to try are neighbors, after every step.                    *)
(***************************************************************************)
LEMMA RestIsAheadStep ==
  ASSUME SearchTypeOK, RestIsAhead, [Next]_vars
  PROVE  RestIsAhead'
<1>1. \A t \in g.tasks : Tried[t] \subseteq Neighbors(t)
  BY DEF Tried, RestIsAhead, SearchTypeOK
<1>2. \A t \in g.tasks : rest'[t] \subseteq Neighbors(t)
  <2>1. CASE \E t \in g.tasks : rest' = [rest EXCEPT ![t] = Neighbors(t)]
    BY <2>1 DEF RestIsAhead, SearchTypeOK
  <2>2. CASE \E t \in g.tasks : rest' = [Tried EXCEPT ![t] = Neighbors(t)]
    BY <2>2, <1>1 DEF Tried, SearchTypeOK
  <2>3. CASE rest' \in {rest, Tried}
    BY <2>3, <1>1 DEF RestIsAhead
  <2>4. VisitRoot => \E t \in g.tasks : rest' = [rest EXCEPT ![t] = Neighbors(t)]
    <3>1. Colored("WHITE") \subseteq g.tasks
      BY DEF Colored
    <3> QED
      BY <3>1, NeighborsAreTasks, FS_Subset, LeastIsMember DEF VisitRoot, Visit
  <2>5. TryWhite => \E t \in g.tasks : rest' = [Tried EXCEPT ![t] = Neighbors(t)]
    BY TopIsTask DEF TryWhite, Try, Visit
  <2> QED
    BY <2>1, <2>2, <2>3, <2>4, <2>5
       DEF Next, TryGray, TryBlack, Leave, Return, Finished, vars
<1> QED
  BY <1>2, NeighborsStay DEF RestIsAhead

(***************************************************************************)
(* Whatever a step adds to the report is a cycle.                          *)
(***************************************************************************)
LEMMA CyclesAreRealStep ==
  ASSUME SearchTypeOK, PathIsGray, RestIsAhead, CyclesAreReal, [Next]_vars
  PROVE  CyclesAreReal'
<1> DEFINE cycle == PathFrom(Min(rest[Top]))
<1>1. ToSet(cycles') \subseteq ToSet(cycles) \cup {c \in Seq(g.tasks) : IsCycle(c)}
  <2>1. CASE TryGray
    <3>1. cycle \in Seq(g.tasks) /\ IsCycle(cycle)
      BY <2>1, GrayClosesCycle DEF TryGray
    <3>2. cycles' \in {cycles, Append(cycles, cycle)}
      BY <2>1 DEF TryGray
    <3>3. cycles \in Seq(Seq(g.tasks))
      BY DEF SearchTypeOK
    <3> HIDE DEF cycle
    <3>4. ToSet(Append(cycles, cycle)) \subseteq ToSet(cycles) \cup {cycle}
      <4> DEFINE S == Seq(g.tasks)
      <4>1. cycles \in Seq(S) /\ cycle \in S
        BY <3>1, <3>3
      <4> HIDE DEF S
      <4> QED
        BY <4>1 DEF ToSet
    <3> QED
      BY <3>1, <3>2, <3>4
  <2>2. CASE cycles' = cycles
    BY <2>2
  <2> QED
    BY <2>1, <2>2 DEF Next, VisitRoot, TryWhite, TryBlack, Leave, Return,
                      Finished, vars, Visit
<1>2. \A c : IsCycle(c) <=> IsCycle(c)'
  BY NeighborsStay DEF IsCycle
<1> QED
  BY <1>1, <1>2 DEF CyclesAreReal

(***************************************************************************)
(* A node may turn BLACK when all its neighbors are: a trap that contains  *)
(* it contains a smaller one, of nodes that were BLACK before.             *)
(***************************************************************************)
LEMMA BlackGrows ==
  ASSUME SearchTypeOK, BlackIsClosed, BlackIsClear,
         NEW t \in g.tasks, t \notin Colored("BLACK"),
         Neighbors(t) \subseteq Colored("BLACK"),
         NEW S \in SUBSET (Colored("BLACK") \cup {t})
  PROVE  ~Trap(S)
<1> SUFFICES ASSUME Trap(S) PROVE FALSE
  OBVIOUS
<1>1. Colored("BLACK") \subseteq g.tasks
  BY DEF Colored
<1>2. \A s \in S : upstream(g, s) \cap S \subseteq Neighbors(s)
  BY <1>1 DEF Neighbors
<1>3. S \ {t} \in SUBSET Colored("BLACK")
  OBVIOUS
<1>4. \A s \in S : upstream(g, s) \cap (S \ {t}) # {}
  <2> SUFFICES ASSUME NEW s \in S PROVE upstream(g, s) \cap (S \ {t}) # {}
    OBVIOUS
  <2>1. PICK u \in upstream(g, s) \cap S : TRUE
    BY DEF Trap
  <2>2. u \in Colored("BLACK")
    BY <1>2, <2>1 DEF BlackIsClosed
  <2> QED
    BY <2>1, <2>2
<1>5. Trap(S \ {t})
  BY <1>4 DEF Trap
<1> QED
  BY <1>3, <1>5 DEF BlackIsClear

(***************************************************************************)
(* While nothing is reported, what is BLACK stays closed and clear.        *)
(***************************************************************************)
LEMMA BlackStep ==
  ASSUME SearchTypeOK, PathIsGray, TriedIsExplored, BlackIsClosed, BlackIsClear,
         [Next]_vars
  PROVE  BlackIsClosed' /\ BlackIsClear'
<1>1. Colored("BLACK") \subseteq g.tasks
  BY DEF Colored
<1>2. CASE Leave
  <2>1. Top \in g.tasks /\ Len(path) \in DOMAIN path /\ Top = path[Len(path)]
    BY <1>2, TopIsTask DEF Leave, SearchTypeOK
  <2>2. Colored("BLACK")' = Colored("BLACK") \cup {Top}
    BY <1>2, <2>1 DEF Leave, Colored, SearchTypeOK
  <2>3. Neighbors(Top) \subseteq Colored("BLACK")
    BY <1>2, <2>1 DEF Leave, TriedIsExplored, Colored, Neighbors
  <2>4. Top \notin Colored("BLACK")
    BY <2>1 DEF PathIsGray, ToSet, Colored
  <2>5. \A S \in SUBSET (Colored("BLACK") \cup {Top}) : ~Trap(S)
    BY <2>1, <2>3, <2>4, BlackGrows
  <2> QED
    BY <2>2, <2>3, <2>5, NeighborsStay DEF BlackIsClosed, BlackIsClear, Trap
<1>3. CASE Colored("BLACK")' = Colored("BLACK")
  BY <1>3, NeighborsStay DEF BlackIsClosed, BlackIsClear, Trap
<1>4. VisitRoot \/ TryWhite => Colored("BLACK")' = Colored("BLACK")
  <2>1. Colored("WHITE") \subseteq g.tasks
    BY DEF Colored
  <2>2. VisitRoot => Min(Colored("WHITE")) \in Colored("WHITE")
    BY <2>1, NeighborsAreTasks, FS_Subset, LeastIsMember DEF VisitRoot
  <2>3. \A t \in g.tasks : \A trying :
          color[t] = "WHITE" /\ Visit(t, trying) => Colored("BLACK")' = Colored("BLACK")
    BY DEF Visit, Colored, SearchTypeOK
  <2>4. VisitRoot => Colored("BLACK")' = Colored("BLACK")
    BY <2>2, <2>3 DEF VisitRoot, Colored
  <2>5. TryWhite => Colored("BLACK")' = Colored("BLACK")
    BY <2>3, TopIsTask DEF TryWhite, Try
  <2> QED
    BY <2>4, <2>5
<1>5. TryGray \/ TryBlack \/ Return \/ UNCHANGED vars => Colored("BLACK")' = Colored("BLACK")
  BY DEF TryGray, TryBlack, Return, vars, Colored
<1> QED
  BY <1>2, <1>3, <1>4, <1>5 DEF Next, Finished

(***************************************************************************)
(* While nothing is reported, what was tried from the path is BLACK or     *)
(* next on the path, after every step.                                     *)
(***************************************************************************)
LEMMA TriedIsExploredStep ==
  ASSUME SearchTypeOK, PathIsGray, TriedIsExplored, cycles = <<>>, cycles' = <<>>,
         [Next]_vars
  PROVE  TriedIsExplored'
<1>1. SUFFICES ASSUME NEW n \in DOMAIN path', NEW m,
                      m \in Neighbors(path'[n]) \ rest'[path'[n]]
               PROVE  color'[m] = "BLACK" \/ (n < Len(path') /\ m = path'[n + 1])
  BY NeighborsStay DEF TriedIsExplored, Neighbors, upstream
<1>2. path \in Seq(g.tasks) /\ Len(path) \in Nat /\ DOMAIN path = 1 .. Len(path)
  BY DEF SearchTypeOK
<1>3. ASSUME NEW t \in g.tasks, color[t] = "WHITE", path' = Append(path, t),
             color' = [color EXCEPT ![t] = "GRAY"], rest'[t] = Neighbors(t),
             \A p \in DOMAIN path : p < Len(path) => rest'[path[p]] = rest[path[p]],
             path # <<>> => rest[Top] \subseteq rest'[Top] \cup {t}
      PROVE  color'[m] = "BLACK" \/ (n < Len(path') /\ m = path'[n + 1])
  <2>1. /\ Len(path') = Len(path) + 1 /\ DOMAIN path' = 1 .. Len(path) + 1
        /\ \A p \in 1 .. Len(path) : path'[p] = path[p]
        /\ path'[Len(path) + 1] = t
    BY <1>2, <1>3
  <2>2. n # Len(path) + 1
    BY <1>1, <1>3, <2>1
  <2>3. n \in DOMAIN path /\ path'[n] = path[n]
    BY <1>1, <1>2, <2>1, <2>2
  <2>4. color[m] = "BLACK" => color'[m] = "BLACK"
    BY <1>3 DEF SearchTypeOK
  <2>5. CASE n < Len(path)
    <3>1. m \in Neighbors(path[n]) \ rest[path[n]]
      BY <1>1, <1>3, <2>3, <2>5
    <3>2. path'[n + 1] = path[n + 1]
      BY <1>2, <2>1, <2>3, <2>5
    <3> QED
      BY <1>2, <2>1, <2>3, <2>4, <2>5, <3>1, <3>2 DEF TriedIsExplored
  <2>6. CASE n = Len(path)
    <3>1. path[n] = Top /\ path # <<>>
      BY <1>2, <2>3, <2>6 DEF Top, Last
    <3>2. CASE m \in rest[Top]
      BY <1>1, <1>3, <2>1, <2>3, <2>6, <3>1, <3>2
    <3>3. CASE m \notin rest[Top]
      <4>1. m \in Neighbors(path[n]) \ rest[path[n]]
        BY <1>1, <2>3, <3>1, <3>3
      <4> QED
        BY <2>3, <2>4, <2>6, <4>1 DEF TriedIsExplored
    <3> QED
      BY <3>2, <3>3
  <2> QED
    BY <1>2, <2>3, <2>5, <2>6
<1>4. CASE VisitRoot
  <2>1. Colored("WHITE") \subseteq g.tasks
    BY DEF Colored
  <2>2. Min(Colored("WHITE")) \in Colored("WHITE")
    BY <1>4, <2>1, NeighborsAreTasks, FS_Subset, LeastIsMember DEF VisitRoot
  <2> QED
    BY <1>2, <1>3, <1>4, <2>2 DEF VisitRoot, Visit, SearchTypeOK, Colored
<1>5. CASE TryWhite
  <2> DEFINE t == Min(rest[Top])
  <2>1. t \in g.tasks /\ color[t] = "WHITE" /\ Top \in g.tasks /\ Top = path[Len(path)]
    BY <1>5, TopIsTask DEF TryWhite, Try
  <2>2. /\ path' = Append(path, t) /\ color' = [color EXCEPT ![t] = "GRAY"]
        /\ rest' = [Tried EXCEPT ![t] = Neighbors(t)]
    BY <1>5 DEF TryWhite, Visit
  <2>3. path # <<>> /\ Len(path) \in DOMAIN path
    BY <1>5, TopIsTask, <1>2 DEF TryWhite, Try
  <2>4. \A p \in DOMAIN path : path[p] \in g.tasks /\ path[p] # t
    BY <2>1, <1>2 DEF PathIsGray, ToSet, Colored
  <2>5. \A p \in DOMAIN path : p < Len(path) => path[p] # Top
    BY <1>2, <2>1, <2>3 DEF PathIsGray, IsInjective
  <2>6. Tried = [rest EXCEPT ![Top] = rest[Top] \ {t}]
    BY <2>1 DEF Tried, SearchTypeOK
  <2> HIDE DEF t
  <2>7. rest'[t] = Neighbors(t)
    BY <2>1, <2>2, <2>6 DEF SearchTypeOK
  <2>8. \A p \in DOMAIN path : p < Len(path) => rest'[path[p]] = rest[path[p]]
    BY <2>2, <2>4, <2>5, <2>6 DEF SearchTypeOK
  <2>9. rest'[Top] = rest[Top] \ {t}
    BY <2>1, <2>2, <2>3, <2>4, <2>6 DEF SearchTypeOK
  <2> QED
    BY <1>3, <2>1, <2>2, <2>7, <2>8, <2>9
<1>6. CASE TryBlack
  <2> DEFINE t == Min(rest[Top])
  <2>1. Top \in g.tasks /\ color[t] = "BLACK" /\ path' = path /\ color' = color
    BY <1>6, TopIsTask DEF TryBlack, Try
  <2>2. rest' = [rest EXCEPT ![Top] = rest[Top] \ {t}]
    BY <1>6, <2>1 DEF TryBlack, Tried, SearchTypeOK
  <2> HIDE DEF t
  <2>3. m = t \/ m \notin rest[path[n]]
    BY <1>1, <1>2, <2>1, <2>2 DEF SearchTypeOK
  <2> QED
    BY <1>1, <2>1, <2>3 DEF TriedIsExplored
<1>7. CASE Leave
  <2>1. /\ Top \in g.tasks /\ Top = path[Len(path)] /\ rest' = rest
        /\ color' = [color EXCEPT ![Top] = "BLACK"]
        /\ Len(path') = Len(path) - 1 /\ DOMAIN path' = 1 .. Len(path) - 1
        /\ \A p \in 1 .. Len(path) - 1 : path'[p] = path[p]
    BY <1>7, TopIsTask, FrontOfPath DEF Leave
  <2>2. n \in DOMAIN path /\ n < Len(path) /\ path'[n] = path[n]
    BY <1>1, <1>2, <2>1
  <2>3. color[m] = "BLACK" \/ m = path[n + 1]
    BY <1>1, <2>1, <2>2 DEF TriedIsExplored
  <2>4. CASE color[m] = "BLACK"
    BY <2>1, <2>4 DEF SearchTypeOK
  <2>5. CASE m = path[n + 1] /\ n + 1 = Len(path)
    BY <2>1, <2>5 DEF SearchTypeOK
  <2>6. CASE m = path[n + 1] /\ n + 1 # Len(path)
    <3>1. n + 1 \in 1 .. Len(path) - 1 /\ n < Len(path')
      BY <1>2, <2>1, <2>2, <2>6
    <3> QED
      BY <2>1, <2>6, <3>1
  <2> QED
    BY <2>3, <2>4, <2>5, <2>6
<1>8. CASE TryGray
  <2>1. Seen = {}
    BY DEF Seen, ToSet
  <2>2. cycles' = Append(cycles, PathFrom(Min(rest[Top])))
    BY <1>8, <2>1 DEF TryGray
  <2>3. cycles' # <<>>
    BY <2>2
  <2> QED
    BY <2>3
<1>9. CASE UNCHANGED <<color, path, rest>>
  BY <1>1, <1>9 DEF TriedIsExplored
<1> QED
  BY <1>4, <1>5, <1>6, <1>7, <1>8, <1>9 DEF Next, Return, Finished, vars

(***************************************************************************)
(* The invariant is inductive.                                             *)
(***************************************************************************)
LEMMA NextSearchInv ==
  ASSUME SearchInv, [Next]_vars
  PROVE  SearchInv'
<1> USE DEF SearchInv
<1>1. SearchTypeOK' /\ PathIsGray' /\ RestIsAhead' /\ CyclesAreReal'
  BY SearchTypeOKStep, PathIsGrayStep, RestIsAheadStep, CyclesAreRealStep
<1>2. ASSUME cycles' = <<>>
      PROVE  TriedIsExplored' /\ BlackIsClosed' /\ BlackIsClear'
  <2>1. cycles = <<>>
    <3>1. CASE TryGray
      <4>1. cycles' \in {cycles, Append(cycles, PathFrom(Min(rest[Top])))}
        BY <3>1 DEF TryGray
      <4>2. Append(cycles, PathFrom(Min(rest[Top]))) # <<>>
        <5> DEFINE cycle == PathFrom(Min(rest[Top]))
                   S == Seq(g.tasks)
        <5>1. cycles \in Seq(S) /\ cycle \in S
          BY <3>1, GrayClosesCycle DEF TryGray, SearchTypeOK
        <5> HIDE DEF cycle, S
        <5>2. Append(cycles, cycle) # <<>>
          BY <5>1
        <5> QED
          BY <5>2 DEF cycle
      <4> QED
        BY <1>2, <4>1, <4>2
    <3>2. CASE cycles' = cycles
      BY <1>2, <3>2
    <3> QED
      BY <3>1, <3>2 DEF Next, VisitRoot, TryWhite, TryBlack, Leave, Return,
                        Finished, vars, Visit
  <2> QED
    BY <1>2, <2>1, TriedIsExploredStep, BlackStep
<1>3. AllReturned'
  <2>1. CASE Return
    <3>1. Colored("GRAY") = {}
      BY <2>1 DEF Return, PathIsGray, ToSet
    <3> QED
      BY <2>1, <3>1 DEF Return, AllReturned, Colored, SearchTypeOK
  <2>2. CASE UNCHANGED vars
    BY <2>2 DEF vars, AllReturned, Colored
  <2>3. CASE pc' = "searching"
    BY <2>3 DEF AllReturned
  <2> QED
    BY <2>1, <2>2, <2>3 DEF Next, VisitRoot, TryGray, TryWhite, TryBlack, Try,
                            Leave, Finished, Visit
<1> QED
  BY <1>1, <1>2, <1>3

(***************************************************************************)
(* The invariant holds on every workflow, throughout the search.           *)
(***************************************************************************)
THEOREM SearchInvariance == Spec => []SearchInv
<1>1. SearchInv /\ [Next]_vars => SearchInv'
  BY NextSearchInv
<1> QED
  BY InitSearchInv, <1>1, PTL DEF Spec

(***************************************************************************)
(* Whatever _find_cycles reports is a cycle of the graph (221-226).        *)
(***************************************************************************)
THEOREM ReportIsReal == Spec => []CyclesAreReal
<1>1. SearchInv => CyclesAreReal
  BY DEF SearchInv
<1> QED
  BY <1>1, SearchInvariance, PTL

(***************************************************************************)
(* _find_cycles finds a cycle exactly when the graph has one, so that      *)
(* validate_graph rejects exactly the graphs that cannot be ordered.       *)
(***************************************************************************)
THEOREM SearchIsComplete == Spec => []FindsACycle
<1>1. ASSUME SearchInv PROVE FindsACycle
  <2> SUFFICES ASSUME pc = "returned" PROVE cycles # <<>> <=> HasCycle(g)
    BY DEF FindsACycle
  <2>1. ASSUME cycles # <<>> PROVE HasCycle(g)
    <3>1. PICK cycle \in Seq(g.tasks) : IsCycle(cycle)
      BY <1>1, <2>1 DEF SearchInv, SearchTypeOK, CyclesAreReal, ToSet
    <3> DEFINE S == ToSet(cycle)
    <3>2. S \in SUBSET g.tasks /\ S # {}
      BY <3>1 DEF ToSet, IsCycle
    <3>3. ASSUME NEW t \in S PROVE upstream(g, t) \cap S # {}
      <4>1. PICK n \in 1 .. Len(cycle) : t = cycle[n]
        BY <3>3 DEF ToSet
      <4>2. CASE n = Len(cycle)
        BY <3>1, <4>1, <4>2 DEF IsCycle, Neighbors, Last, ToSet
      <4>3. CASE n # Len(cycle)
        <5>1. n \in 1 .. Len(cycle) - 1 /\ n + 1 \in 1 .. Len(cycle)
          BY <3>1, <4>1, <4>3
        <5> QED
          BY <3>1, <4>1, <5>1 DEF IsCycle, Neighbors, ToSet
      <4> QED
        BY <4>2, <4>3
    <3> QED
      BY <3>2, <3>3 DEF HasCycle
  <2>2. ASSUME cycles = <<>> PROVE ~HasCycle(g)
    BY <1>1, <2>2 DEF SearchInv, AllReturned, BlackIsClear, Trap, HasCycle
  <2> QED
    BY <2>1, <2>2
<1> QED
  BY <1>1, SearchInvariance, PTL
-----------------------------------------------------------------------------
(***************************************************************************)
(* What the search has done: the tasks whose visits have begun, those      *)
(* whose visits have ended, and the neighbors that each visit has tried.   *)
(***************************************************************************)
Deeds == (g.tasks \X g.tasks) \X {"begun", "ended", "tried"}

Did(t, m, deed) ==
  \/ deed = "begun" /\ color[t] # "WHITE"
  \/ deed = "ended" /\ color[t] = "BLACK"
  \/ deed = "tried" /\ color[t] # "WHITE" /\ m \notin rest[t]

Done == {x \in Deeds : Did(x[1][1], x[1][2], x[2])}

SearchSteps == Cardinality(Done) + IF pc = "returned" THEN 1 ELSE 0

(***************************************************************************)
(* There are finitely many deeds.                                          *)
(***************************************************************************)
LEMMA DoneIsFinite ==
  ASSUME SearchTypeOK
  PROVE  /\ IsFiniteSet(Deeds)
         /\ Cardinality(Deeds) = 3 * Cardinality(g.tasks) * Cardinality(g.tasks)
         /\ Cardinality(g.tasks) \in Nat
         /\ IsFiniteSet(Done) /\ Cardinality(Done) \in 0 .. Cardinality(Deeds)
<1> DEFINE pairs == g.tasks \X g.tasks
           kinds == {"begun", "ended", "tried"}
           n == Cardinality(g.tasks)
<1>1. IsFiniteSet(g.tasks) /\ n \in Nat
  BY NeighborsAreTasks, FS_CardinalityType
<1>2. IsFiniteSet(pairs) /\ Cardinality(pairs) = n * n
  BY <1>1, FS_Product
<1>3. IsFiniteSet(kinds) /\ Cardinality(kinds) = 3
  <2>1. IsFiniteSet({"tried"}) /\ Cardinality({"tried"}) = 1
    BY FS_Singleton
  <2>2. IsFiniteSet({"tried"} \cup {"ended"}) /\ Cardinality({"tried"} \cup {"ended"}) = 2
    BY <2>1, FS_AddElement
  <2>3. IsFiniteSet(({"tried"} \cup {"ended"}) \cup {"begun"})
        /\ Cardinality(({"tried"} \cup {"ended"}) \cup {"begun"}) = 3
    BY <2>2, FS_AddElement
  <2>4. kinds = ({"tried"} \cup {"ended"}) \cup {"begun"}
    OBVIOUS
  <2> QED
    BY <2>3, <2>4
<1> HIDE DEF pairs, kinds
<1>4. IsFiniteSet(pairs \X kinds) /\ Cardinality(pairs \X kinds) = (n * n) * 3
  BY <1>2, <1>3, FS_Product
<1>5. Deeds = pairs \X kinds
  BY DEF Deeds, pairs, kinds
<1>6. (n * n) * 3 = 3 * n * n
  BY <1>1
<1>7. Done \subseteq Deeds
  BY DEF Done
<1> QED
  BY <1>1, <1>4, <1>5, <1>6, <1>7, FS_Subset, FS_CardinalityType

(***************************************************************************)
(* A step undoes nothing, and does one thing at least.                     *)
(***************************************************************************)
LEMMA StepsDoSomething ==
  ASSUME SearchInv, [Next]_vars
  PROVE  /\ Done \subseteq Done'
         /\ VisitRoot \/ TryGray \/ TryWhite \/ TryBlack \/ Leave => Done # Done'
<1> USE DEF SearchInv
<1>g. g' = g /\ Deeds' = Deeds
  BY NeighborsStay DEF Deeds
<1>d. ASSUME \A t, m \in g.tasks : \A deed \in {"begun", "ended", "tried"} :
               Did(t, m, deed) => Did(t, m, deed)'
      PROVE  Done \subseteq Done'
  BY <1>g, <1>d DEF Done, Deeds
<1>n. ASSUME NEW t \in g.tasks, NEW m \in g.tasks, NEW deed \in {"begun", "ended", "tried"},
             ~ Did(t, m, deed), Did(t, m, deed)'
      PROVE  Done # Done'
  <2>1. <<<<t, m>>, deed>> \in Deeds
    BY DEF Deeds
  <2>2. <<<<t, m>>, deed>> \notin Done /\ <<<<t, m>>, deed>> \in Done'
    BY <1>g, <1>n, <2>1 DEF Done
  <2> QED
    BY <2>2
<1>v. ASSUME NEW t \in g.tasks, color[t] = "WHITE",
             NEW trying \in [g.tasks -> SUBSET g.tasks], \A u \in g.tasks : trying[u] \subseteq rest[u],
             Visit(t, trying)
      PROVE  Done \subseteq Done' /\ Done # Done'
  <2>1. \A u \in g.tasks : /\ color'[u] = IF u = t THEN "GRAY" ELSE color[u]
                           /\ u # t => rest'[u] \subseteq rest[u]
    BY <1>v DEF Visit, SearchTypeOK
  <2>2. Done \subseteq Done'
    BY <1>d, <1>v, <2>1 DEF Did
  <2>3. ~ Did(t, t, "begun") /\ Did(t, t, "begun")'
    BY <1>v, <2>1 DEF Did
  <2> QED
    BY <1>n, <2>2, <2>3
<1>p. ASSUME path # <<>>
      PROVE  Top \in g.tasks /\ color[Top] = "GRAY"
  <2>1. Top \in ToSet(path)
    BY <1>p, TopIsTask DEF ToSet
  <2> QED
    BY <2>1 DEF PathIsGray, Colored
<1>1. CASE VisitRoot
  <2>1. Min(Colored("WHITE")) \in Colored("WHITE")
    <3>1. Colored("WHITE") \in SUBSET g.tasks
      BY DEF Colored
    <3> QED
      BY <1>1, <3>1, NeighborsAreTasks, FS_Subset, LeastIsMember DEF VisitRoot
  <2>2. PICK t \in g.tasks : color[t] = "WHITE" /\ Visit(t, rest)
    BY <1>1, <2>1 DEF VisitRoot, Colored
  <2> QED
    BY <1>v, <2>2 DEF SearchTypeOK
<1>2. ASSUME path # <<>>, rest[Top] # {}
      PROVE  /\ Tried \in [g.tasks -> SUBSET g.tasks]
             /\ \A u \in g.tasks : Tried[u] \subseteq rest[u]
             /\ Min(rest[Top]) \in rest[Top] /\ Min(rest[Top]) \notin Tried[Top]
             /\ Min(rest[Top]) \in g.tasks
  BY <1>2, TopIsTask DEF Tried, SearchTypeOK
<1>3. CASE TryWhite
  <2>1. PICK t \in g.tasks : color[t] = "WHITE" /\ Visit(t, Tried)
    BY <1>2, <1>3 DEF TryWhite, Try
  <2> QED
    BY <1>2, <1>3, <1>v, <2>1 DEF TryWhite, Try
<1>4. CASE TryGray \/ TryBlack
  <2>1. /\ path # <<>> /\ rest[Top] # {} /\ rest' = Tried /\ color' = color
    BY <1>4 DEF TryGray, TryBlack, Try
  <2>2. Done \subseteq Done'
    BY <1>2, <1>d, <2>1 DEF Did
  <2>3. PICK t \in g.tasks, m \in g.tasks :
          color[t] = "GRAY" /\ m \in rest[t] /\ m \notin Tried[t]
    BY <1>2, <1>p, <2>1
  <2>4. ~ Did(t, m, "tried") /\ Did(t, m, "tried")'
    BY <2>1, <2>3 DEF Did
  <2> QED
    BY <1>n, <2>2, <2>4
<1>5. CASE Leave
  <2>1. PICK t \in g.tasks : t = Top /\ color[t] = "GRAY"
    BY <1>5, <1>p DEF Leave
  <2>2. rest' = rest /\ \A u \in g.tasks : color'[u] = IF u = t THEN "BLACK" ELSE color[u]
    BY <1>5, <2>1 DEF Leave, SearchTypeOK
  <2>3. Done \subseteq Done'
    BY <1>d, <2>1, <2>2 DEF Did
  <2>4. ~ Did(t, t, "ended") /\ Did(t, t, "ended")'
    BY <2>1, <2>2 DEF Did
  <2> QED
    BY <1>n, <2>3, <2>4
<1>6. ASSUME UNCHANGED <<color, rest>> PROVE Done \subseteq Done'
  BY <1>6, <1>d DEF Did
<1>7. VisitRoot \/ TryGray \/ TryWhite \/ TryBlack \/ Leave
        => Done \subseteq Done' /\ Done # Done'
  BY <1>1, <1>3, <1>4, <1>5
<1> QED
  BY <1>6, <1>7 DEF Next, Return, Finished, vars

(***************************************************************************)
(* The search ends after at most three steps for each pair of tasks and    *)
(* one more, whatever cycles there are: a visit begins once, tries every   *)
(* neighbor once and ends once (dag.py 204-235).                           *)
(***************************************************************************)
THEOREM SearchEnds ==
  Spec => /\ [](SearchSteps \in 0 .. 3 * Cardinality(g.tasks) * Cardinality(g.tasks) + 1)
          /\ [][SearchSteps < SearchSteps']_vars
<1>1. ASSUME SearchInv
      PROVE  /\ SearchSteps \in 0 .. 3 * Cardinality(g.tasks) * Cardinality(g.tasks) + 1
             /\ IsFiniteSet(Done) /\ Cardinality(Done) \in Nat
  <2>1. SearchTypeOK
    BY <1>1 DEF SearchInv
  <2>2. /\ IsFiniteSet(Done) /\ Cardinality(Done) \in 0 .. Cardinality(Deeds)
        /\ Cardinality(Deeds) = 3 * Cardinality(g.tasks) * Cardinality(g.tasks)
        /\ Cardinality(Deeds) \in Nat
    BY <2>1, DoneIsFinite, FS_CardinalityType
  <2>3. SearchSteps \in 0 .. Cardinality(Deeds) + 1
    BY <2>2 DEF SearchSteps
  <2> QED
    BY <2>2, <2>3
<1>2. ASSUME SearchInv, IsFiniteSet(Done'), Cardinality(Done') \in Nat, Next, ~ UNCHANGED vars
      PROVE  SearchSteps < SearchSteps'
  <2>1. Done \subseteq Done' /\ Cardinality(Done) \in Nat /\ Cardinality(Done) <= Cardinality(Done')
    BY <1>1, <1>2, StepsDoSomething, FS_Subset
  <2>2. CASE Return
    BY <1>2, <2>1, <2>2 DEF Return, SearchSteps
  <2>3. CASE VisitRoot \/ TryGray \/ TryWhite \/ TryBlack \/ Leave
    <3>1. Cardinality(Done) # Cardinality(Done')
      BY <1>2, <2>1, <2>3, StepsDoSomething, FS_Subset
    <3>2. pc' = pc
      BY <2>3 DEF VisitRoot, TryGray, TryWhite, TryBlack, Leave, Visit
    <3> QED
      BY <1>2, <2>1, <3>1, <3>2 DEF SearchSteps
  <2> QED
    BY <1>2, <2>2, <2>3 DEF Next, Finished
<1>3. SearchInv => SearchSteps \in 0 .. 3 * Cardinality(g.tasks) * Cardinality(g.tasks) + 1
  BY <1>1
<1>4. SearchInv => IsFiniteSet(Done) /\ Cardinality(Done) \in Nat
  BY <1>1
<1>5. SearchInv /\ (IsFiniteSet(Done) /\ Cardinality(Done) \in Nat)' /\ [Next]_vars
        => [SearchSteps < SearchSteps']_vars
  BY <1>2
<1> QED
  BY SearchInvariance, <1>3, <1>4, <1>5, PTL DEF Spec
=============================================================================
