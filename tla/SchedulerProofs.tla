-------------------------- MODULE SchedulerProofs --------------------------
(***************************************************************************)
(* Proofs about the scheduler, for any schedules, intervals and numbers of *)
(* loops, and for calls of the caller at any time; and about the file that *)
(* the scheduler commands keep the schedules in, for any number of them.   *)
(***************************************************************************)
EXTENDS Scheduler, ScheduleFile, FiniteSetTheorems, TLAPS

USE DEF Caller, Loop, Thread, Never, Absent, clashes

(***************************************************************************)
(* The size of the registry.                                               *)
(***************************************************************************)
LEMMA Sizes == Cardinality(Registered) \in Nat
<1>1. IsFiniteSet(Registered)
  BY SchedulerAssumption, FS_Subset DEF Registered
<1> QED
  BY <1>1, FS_CardinalityType

(***************************************************************************)
(* Leaving run_once, by its end or by an exception.                        *)
(***************************************************************************)
LEMMA LeaveFits ==
  ASSUME ThreadsFit, NEW u \in Thread, NEW next \in {"idle", "polling", "ended"},
         Leave(u, next), u # Caller => Live(u), next = "idle" <=> u = Caller,
         pc[u] # "joining"
  PROVE  ThreadsFit'
<1>t. SchedulerTypeOK
  BY DEF ThreadsFit
<1>1. /\ pc' = [pc EXCEPT ![u] = next]
      /\ todo' = [todo EXCEPT ![u] = Nothing]
      /\ scan' = [scan EXCEPT ![u] = NoScan]
      /\ name' = [name EXCEPT ![u] = 0]
      /\ attached' = attached \ {u}
      /\ disturbed' = disturbed \ {u} /\ churned' = churned \ {u}
      /\ UNCHANGED <<schedules, saved, event, thread, abandoned, now, calls>>
  <2>1. UNCHANGED registry /\ UNCHANGED loops
    BY DEF Leave
  <2> QED
    BY <2>1 DEF Leave, Go, registry, loops
<1>2. Nothing \in [Name -> Nat]
  BY DEF Nothing
<1>3. NoScan \in [now : 0 .. MaxTime, size : Nat, left : Nat, unseen : SUBSET Name]
  BY SchedulerAssumption DEF NoScan
<1>4. SchedulerTypeOK'
  BY <1>1, <1>2, <1>3, <1>t DEF SchedulerTypeOK
<1>5. OneLoop'
  BY <1>1, <1>t DEF ThreadsFit, SchedulerTypeOK, OneLoop, Live, At
<1>6. LocalsFit'
  BY <1>1, <1>t DEF ThreadsFit, SchedulerTypeOK, LocalsFit, At, NoScan, Registered
<1> QED
  BY <1>4, <1>5, <1>6 DEF ThreadsFit

(***************************************************************************)
(* A registration.                                                         *)
(***************************************************************************)
LEMMA RegisterFits ==
  ASSUME ThreadsFit, NEW n \in Name, NEW i \in Interval, register(n, i)
  PROVE  ThreadsFit'
<1>t. SchedulerTypeOK
  BY DEF ThreadsFit
<1>1. /\ schedules' = [schedules EXCEPT ![n] = [interval |-> i, last |-> 0]]
      /\ saved' = [saved EXCEPT ![n] = 0]
      /\ attached' = {u \in attached : name[u] # n}
      /\ pc[Caller] = "idle"
      /\ i >= 0
      /\ UNCHANGED <<event, thread, abandoned, pc, todo, name, now>>
  BY DEF register, Replace, Calls, At, loops
<1>5. calls' \in 0 .. MaxCalls
  BY <1>t, SchedulerAssumption DEF register, Calls, SchedulerTypeOK
<1>6. disturbed' \subseteq Thread /\ churned' \subseteq Thread
  BY <1>t DEF register, Append, Scanning, InRunOnce, SchedulerTypeOK
<1>7. /\ scan' \in [Thread -> [now : 0 .. MaxTime, size : Nat, left : Nat, unseen : SUBSET Name]]
      /\ \A u \in Thread : scan'[u].unseen \subseteq scan[u].unseen \cup {n}
  <2>1. CASE n \in Registered
    BY <2>1, <1>t DEF register, SchedulerTypeOK
  <2>2. CASE n \notin Registered
    <3>1. PICK skipped \in [Scanning -> SUBSET Name] :
            scan' = [u \in Thread |->
                       IF u \in Scanning
                         THEN [scan[u] EXCEPT !.unseen = (@ \cup {n}) \ skipped[u]]
                         ELSE scan[u]]
      BY <2>2 DEF register, Append
    <3> QED
      BY <3>1, <1>t DEF SchedulerTypeOK
  <2> QED
    BY <2>1, <2>2
<1>8. [interval |-> i, last |-> 0] \in [interval : Int, last : 0 .. MaxTime]
  BY SchedulerAssumption
<1>9. /\ schedules' \in [Name -> [interval : Int, last : 0 .. MaxTime]]
      /\ saved' \in [Name -> 0 .. MaxTime]
  BY <1>1, <1>t, <1>8, SchedulerAssumption DEF SchedulerTypeOK
<1>2. SchedulerTypeOK'
  BY <1>1, <1>t, <1>5, <1>6, <1>7, <1>9 DEF SchedulerTypeOK
<1>3. OneLoop'
  BY <1>1, <1>t DEF ThreadsFit, SchedulerTypeOK, OneLoop, Live, At
<1>4. LocalsFit'
  BY <1>1, <1>t, <1>7, SchedulerAssumption DEF ThreadsFit, SchedulerTypeOK, LocalsFit, At, Registered
<1> QED
  BY <1>2, <1>3, <1>4 DEF ThreadsFit

(***************************************************************************)
(* A name is taken out.                                                    *)
(***************************************************************************)
LEMMA UnregisterFits ==
  ASSUME ThreadsFit, NEW n \in Name, unregister(n)
  PROVE  ThreadsFit'
<1>t. SchedulerTypeOK
  BY DEF ThreadsFit
<1>1. /\ schedules' = [schedules EXCEPT ![n] = Absent]
      /\ saved' = [saved EXCEPT ![n] = 0]
      /\ attached' = {u \in attached : name[u] # n}
      /\ pc[Caller] = "idle"
      /\ scan' = [u \in Thread |-> [scan[u] EXCEPT !.unseen = @ \ {n}]]
      /\ UNCHANGED <<event, thread, abandoned, pc, todo, name, now, disturbed>>
  BY DEF unregister, Replace, Calls, At, loops
<1>5. calls' \in 0 .. MaxCalls
  BY <1>t, SchedulerAssumption DEF unregister, Calls, SchedulerTypeOK
<1>8. Absent \in [interval : Int, last : 0 .. MaxTime] /\ churned' \subseteq Thread
  BY <1>t, SchedulerAssumption DEF unregister, InRunOnce, SchedulerTypeOK
<1>9. /\ schedules' \in [Name -> [interval : Int, last : 0 .. MaxTime]]
      /\ saved' \in [Name -> 0 .. MaxTime]
  BY <1>1, <1>t, <1>8, SchedulerAssumption DEF SchedulerTypeOK
<1>10. scan' \in [Thread -> [now : 0 .. MaxTime, size : Nat, left : Nat, unseen : SUBSET Name]]
  <2>1. scan \in [Thread -> [now : 0 .. MaxTime, size : Nat, left : Nat, unseen : SUBSET Name]]
    BY <1>t DEF SchedulerTypeOK
  <2>2. scan' = [u \in Thread |-> [scan[u] EXCEPT !.unseen = @ \ {n}]]
    BY <1>1
  <2>3. \A u \in Thread :
          [scan[u] EXCEPT !.unseen = @ \ {n}]
            \in [now : 0 .. MaxTime, size : Nat, left : Nat, unseen : SUBSET Name]
    BY <2>1
  <2> QED
    BY <2>2, <2>3
<1>2. SchedulerTypeOK'
  BY <1>1, <1>t, <1>5, <1>8, <1>9, <1>10 DEF SchedulerTypeOK
<1>3. OneLoop'
  BY <1>1, <1>t DEF ThreadsFit, SchedulerTypeOK, OneLoop, Live, At
<1>4. LocalsFit'
  BY <1>1, <1>t, SchedulerAssumption DEF ThreadsFit, SchedulerTypeOK, LocalsFit, At, Registered
<1> QED
  BY <1>2, <1>3, <1>4 DEF ThreadsFit

(***************************************************************************)
(* The clock is read and the iteration begins.                             *)
(***************************************************************************)
LEMMA BeginFits ==
  ASSUME ThreadsFit, NEW u \in Thread, Begin(u)
  PROVE  ThreadsFit'
<1>t. SchedulerTypeOK
  BY DEF ThreadsFit
<1>1. /\ pc' = [pc EXCEPT ![u] = "scanning"]
      /\ pc[u] \in {"idle", "polling"} /\ (u # Caller => pc[u] = "polling")
      /\ scan' = [scan EXCEPT ![u] =
                   [now |-> now, size |-> Cardinality(Registered),
                    left |-> Cardinality(Registered), unseen |-> Registered]]
      /\ UNCHANGED <<schedules, saved, event, thread, abandoned, todo, name, attached, now, churned>>
  BY DEF Begin, Calls, At, Go, registry, loops
<1>5. calls' \in 0 .. MaxCalls
  BY <1>t, SchedulerAssumption DEF Begin, Calls, SchedulerTypeOK
<1>6. disturbed' \subseteq Thread
  BY <1>t DEF Begin, InRunOnce, SchedulerTypeOK
<1>7. Registered \subseteq Name
  BY DEF Registered
<1>2. SchedulerTypeOK'
  BY <1>1, <1>t, <1>5, <1>6, <1>7, Sizes, SchedulerAssumption DEF SchedulerTypeOK
<1>3. OneLoop'
  BY <1>1, <1>t DEF ThreadsFit, SchedulerTypeOK, OneLoop, Live, At
<1>4. LocalsFit'
  BY <1>1, <1>t DEF ThreadsFit, SchedulerTypeOK, LocalsFit, At, Registered
<1> QED
  BY <1>2, <1>3, <1>4 DEF ThreadsFit

(***************************************************************************)
(* One entry of the iteration.                                             *)
(***************************************************************************)
LEMMA VisitFits ==
  ASSUME ThreadsFit, NEW u \in Thread, Visit(u)
  PROVE  ThreadsFit'
<1>t. SchedulerTypeOK
  BY DEF ThreadsFit
<1>1. /\ UNCHANGED <<schedules, saved, event, thread, abandoned, pc, name, attached, now, calls, disturbed, churned>>
  BY DEF Visit, registry, loops
<1>5. /\ scan' \in [Thread -> [now : 0 .. MaxTime, size : Nat, left : Nat, unseen : SUBSET Name]]
      /\ \A w \in Thread : scan'[w].unseen \subseteq scan[w].unseen
      /\ todo' \in [Thread -> [Name -> Nat]]
  <2>1. PICK n \in scan[u].unseen :
          /\ scan' = [scan EXCEPT ![u].unseen = @ \ {n}, ![u].left = @ - 1]
          /\ todo' = IF Elapsed(n, scan[u].now) THEN [todo EXCEPT ![u][n] = @ + 1] ELSE todo
    BY DEF Visit
  <2>2. n \in Name /\ scan[u].left \in Nat /\ scan[u].left > 0
    BY <1>t DEF Visit, SchedulerTypeOK
  <2>3. scan' \in [Thread -> [now : 0 .. MaxTime, size : Nat, left : Nat, unseen : SUBSET Name]]
    BY <2>1, <2>2, <1>t DEF SchedulerTypeOK
  <2>4. \A w \in Thread : scan'[w].unseen \subseteq scan[w].unseen
    BY <2>1, <1>t DEF SchedulerTypeOK
  <2>5. todo' \in [Thread -> [Name -> Nat]]
    BY <2>1, <2>2, <1>t DEF SchedulerTypeOK
  <2> QED
    BY <2>3, <2>4, <2>5
<1>2. SchedulerTypeOK'
  BY <1>1, <1>t, <1>5 DEF SchedulerTypeOK
<1>3. OneLoop'
  BY <1>1, <1>t DEF ThreadsFit, SchedulerTypeOK, OneLoop, Live, At
<1>4. LocalsFit'
  BY <1>1, <1>t, <1>5 DEF ThreadsFit, SchedulerTypeOK, LocalsFit, At, Registered
<1> QED
  BY <1>2, <1>3, <1>4 DEF ThreadsFit

(***************************************************************************)
(* The iteration ends.                                                     *)
(***************************************************************************)
LEMMA ScannedFits ==
  ASSUME ThreadsFit, NEW u \in Thread, Scanned(u)
  PROVE  ThreadsFit'
<1>t. SchedulerTypeOK
  BY DEF ThreadsFit
<1>1. /\ pc' = [pc EXCEPT ![u] = "next"] /\ pc[u] = "scanning"
      /\ scan' = [scan EXCEPT ![u] = NoScan]
      /\ UNCHANGED <<schedules, saved, event, thread, abandoned, todo, name, attached, now, calls, disturbed, churned>>
  BY DEF Scanned, At, Go, registry, loops
<1>5. /\ NoScan \in [now : 0 .. MaxTime, size : Nat, left : Nat, unseen : SUBSET Name]
      /\ NoScan.unseen = {}
  BY SchedulerAssumption DEF NoScan
<1>2. SchedulerTypeOK'
  BY <1>1, <1>t, <1>5 DEF SchedulerTypeOK
<1>3. OneLoop'
  BY <1>1, <1>t DEF ThreadsFit, SchedulerTypeOK, OneLoop, Live, At
<1>4. LocalsFit'
  BY <1>1, <1>t, <1>5 DEF ThreadsFit, SchedulerTypeOK, LocalsFit, At, Registered
<1> QED
  BY <1>2, <1>3, <1>4 DEF ThreadsFit

(***************************************************************************)
(* The schedule that is due is looked up.                                  *)
(***************************************************************************)
LEMMA LookupFits ==
  ASSUME ThreadsFit, NEW u \in Thread, Lookup(u)
  PROVE  ThreadsFit'
<1>t. SchedulerTypeOK
  BY DEF ThreadsFit
<1>1. /\ pc' = [pc EXCEPT ![u] = "running"] /\ pc[u] = "next"
      /\ attached' = attached \cup {u}
      /\ UNCHANGED <<schedules, saved, event, thread, abandoned, scan, now, calls, disturbed, churned>>
  BY DEF Lookup, At, Go, registry, loops
<1>5. \E n \in Registered : n \in Name /\ name' = [name EXCEPT ![u] = n]
  BY DEF Lookup, Registered
<1>6. todo' \in [Thread -> [Name -> Nat]]
  <2>1. PICK n \in Name : todo[u][n] > 0 /\ todo' = [todo EXCEPT ![u][n] = @ - 1]
    BY DEF Lookup, IsNext, Registered
  <2> QED
    BY <2>1, <1>t DEF SchedulerTypeOK
<1>2. SchedulerTypeOK'
  BY <1>1, <1>t, <1>5, <1>6 DEF SchedulerTypeOK
<1>3. OneLoop'
  BY <1>1, <1>t DEF ThreadsFit, SchedulerTypeOK, OneLoop, Live, At
<1>4. LocalsFit'
  BY <1>1, <1>t, <1>5 DEF ThreadsFit, SchedulerTypeOK, LocalsFit, At, Registered
<1> QED
  BY <1>2, <1>3, <1>4 DEF ThreadsFit

(***************************************************************************)
(* The run is saved.                                                       *)
(***************************************************************************)
LEMMA SaveFits ==
  ASSUME ThreadsFit, NEW u \in Thread, Save(u)
  PROVE  ThreadsFit'
<1>t. SchedulerTypeOK
  BY DEF ThreadsFit
<1>1. /\ pc' = [pc EXCEPT ![u] = "saved"] /\ pc[u] = "running"
      /\ saved' = IF u \in attached THEN [saved EXCEPT ![name[u]] = now] ELSE saved
      /\ UNCHANGED <<schedules, event, thread, abandoned, scan, todo, name, attached, now, calls, disturbed, churned>>
  BY DEF Save, At, Go, loops
<1>5. now # 0 /\ name[u] \in Name
  BY <1>1, <1>t DEF ThreadsFit, LocalsFit, At, SchedulerTypeOK
<1>2. SchedulerTypeOK'
  BY <1>1, <1>t, <1>5 DEF SchedulerTypeOK
<1>3. OneLoop'
  BY <1>1, <1>t DEF ThreadsFit, SchedulerTypeOK, OneLoop, Live, At
<1>6. /\ \A n \in Name : saved[n] # 0 => saved'[n] # 0
      /\ u \in attached => saved'[name[u]] # 0
  BY <1>1, <1>5, <1>t DEF SchedulerTypeOK
<1>7. \A w \in Thread : /\ w # u => pc'[w] = pc[w]
                        /\ w = u => pc'[w] = "saved"
  BY <1>1, <1>t DEF SchedulerTypeOK
<1>8. UNCHANGED <<schedules, scan, name, attached>>
  BY <1>1
<1>9. Registered' = Registered
  BY <1>8 DEF Registered
<1>10. Registered \subseteq Name
  BY DEF Registered
<1>11. LocalsFit
  BY DEF ThreadsFit
<1>4. LocalsFit'
  BY <1>1, <1>5, <1>6, <1>7, <1>8, <1>9, <1>10, <1>11 DEF LocalsFit, At
<1> QED
  BY <1>2, <1>3, <1>4 DEF ThreadsFit

(***************************************************************************)
(* The schedule is stamped.                                                *)
(***************************************************************************)
LEMMA StampFits ==
  ASSUME ThreadsFit, NEW u \in Thread, Stamp(u)
  PROVE  ThreadsFit'
<1>t. SchedulerTypeOK
  BY DEF ThreadsFit
<1>1. /\ pc' = [pc EXCEPT ![u] = "next"] /\ pc[u] = "saved"
      /\ schedules' = IF u \in attached
                      THEN [schedules EXCEPT ![name[u]].last = now] ELSE schedules
      /\ name' = [name EXCEPT ![u] = 0]
      /\ attached' = attached \ {u}
      /\ UNCHANGED <<event, thread, abandoned, scan, todo, now, calls, saved, disturbed, churned>>
  BY DEF Stamp, At, Go, loops
<1>5. now # 0 /\ now \in 0 .. MaxTime /\ name[u] \in Name
  BY <1>1, <1>t DEF ThreadsFit, LocalsFit, At, SchedulerTypeOK
<1>6. \A n \in Name : schedules'[n] # Absent <=> schedules[n] # Absent
  BY <1>1, <1>5, <1>t DEF ThreadsFit, LocalsFit, SchedulerTypeOK, Registered
<1>2. SchedulerTypeOK'
  BY <1>1, <1>t, <1>5 DEF SchedulerTypeOK
<1>3. OneLoop'
  BY <1>1, <1>t DEF ThreadsFit, SchedulerTypeOK, OneLoop, Live, At
<1>4. LocalsFit'
  BY <1>1, <1>t, <1>5, <1>6 DEF ThreadsFit, SchedulerTypeOK, LocalsFit, At, Registered
<1> QED
  BY <1>2, <1>3, <1>4 DEF ThreadsFit

(***************************************************************************)
(* A new loop.                                                             *)
(***************************************************************************)
LEMMA StartFits ==
  ASSUME ThreadsFit, start
  PROVE  ThreadsFit'
<1>t. SchedulerTypeOK
  BY DEF ThreadsFit
<1>1. /\ event' = FALSE
      /\ pc[Caller] = "idle"
      /\ ~(thread # Caller /\ Live(thread))
      /\ UNCHANGED <<schedules, saved, scan, todo, name, attached, now, abandoned, disturbed, churned>>
  BY DEF start, Calls, At, registry
<1>5. calls' \in 0 .. MaxCalls
  BY <1>t, SchedulerAssumption DEF start, Calls, SchedulerTypeOK
<1>6. \E l \in Loop : /\ pc[l] = "unborn" /\ thread' = l
                     /\ pc' = [pc EXCEPT ![l] = "polling"]
  BY DEF start, At, Go
<1>2. SchedulerTypeOK'
  BY <1>1, <1>t, <1>5, <1>6 DEF SchedulerTypeOK
<1>3. OneLoop'
  BY <1>1, <1>t, <1>6 DEF ThreadsFit, SchedulerTypeOK, OneLoop, Live, At
<1>4. LocalsFit'
  BY <1>1, <1>t, <1>6 DEF ThreadsFit, SchedulerTypeOK, LocalsFit, At, Registered
<1> QED
  BY <1>2, <1>3, <1>4 DEF ThreadsFit

(***************************************************************************)
(* The event is set.                                                       *)
(***************************************************************************)
LEMMA StopFits ==
  ASSUME ThreadsFit, stop
  PROVE  ThreadsFit'
<1>t. SchedulerTypeOK
  BY DEF ThreadsFit
<1>1. /\ event' = TRUE
      /\ pc[Caller] = "idle"
      /\ pc' = [pc EXCEPT ![Caller] = IF thread = Caller THEN "idle" ELSE "joining"]
      /\ UNCHANGED <<schedules, saved, thread, abandoned, scan, todo, name, attached, now, disturbed, churned>>
  BY DEF stop, Calls, At, Go, registry
<1>5. calls' \in 0 .. MaxCalls
  BY <1>t, SchedulerAssumption DEF stop, Calls, SchedulerTypeOK
<1>2. SchedulerTypeOK'
  BY <1>1, <1>t, <1>5 DEF SchedulerTypeOK
<1>6. /\ pc'[Caller] \in {"idle", "joining"}
      /\ pc'[Caller] = "joining" => thread # Caller
      /\ \A w \in Thread : w # Caller => pc'[w] = pc[w]
  BY <1>1, <1>t DEF SchedulerTypeOK
<1>3. OneLoop'
  BY <1>1, <1>6, <1>t DEF ThreadsFit, SchedulerTypeOK, OneLoop, Live, At
<1>4. LocalsFit'
  BY <1>1, <1>6, <1>t DEF ThreadsFit, SchedulerTypeOK, LocalsFit, At, Registered
<1> QED
  BY <1>2, <1>3, <1>4 DEF ThreadsFit

(***************************************************************************)
(* The thread is forgotten.                                                *)
(***************************************************************************)
LEMMA JoinedFits ==
  ASSUME ThreadsFit, Joined
  PROVE  ThreadsFit'
<1>t. SchedulerTypeOK
  BY DEF ThreadsFit
<1>1. /\ thread' = Caller
      /\ pc[Caller] = "joining"
      /\ pc' = [pc EXCEPT ![Caller] = "idle"]
      /\ abandoned' = IF Live(thread) THEN abandoned \cup {thread} ELSE abandoned
      /\ UNCHANGED <<schedules, saved, event, scan, todo, name, attached, now, calls, disturbed, churned>>
  BY DEF Joined, At, Go, registry
<1>5. thread # Caller
  BY <1>1 DEF ThreadsFit, OneLoop, At
<1>2. SchedulerTypeOK'
  BY <1>1, <1>5, <1>t DEF SchedulerTypeOK
<1>3. OneLoop'
  BY <1>1, <1>t DEF ThreadsFit, SchedulerTypeOK, OneLoop, Live, At
<1>4. LocalsFit'
  BY <1>1, <1>t DEF ThreadsFit, SchedulerTypeOK, LocalsFit, At, Registered
<1> QED
  BY <1>2, <1>3, <1>4 DEF ThreadsFit

(***************************************************************************)
(* A loop ends.                                                            *)
(***************************************************************************)
LEMMA LoopEndsFits ==
  ASSUME ThreadsFit, NEW l \in Loop, LoopEnds(l)
  PROVE  ThreadsFit'
<1>t. SchedulerTypeOK
  BY DEF ThreadsFit
<1>1. /\ pc[l] = "polling" /\ pc' = [pc EXCEPT ![l] = "ended"]
      /\ UNCHANGED <<schedules, saved, event, thread, abandoned, scan, todo, name, attached, now, calls, disturbed, churned>>
  BY DEF LoopEnds, At, Go, registry, loops
<1>2. SchedulerTypeOK'
  BY <1>1, <1>t DEF SchedulerTypeOK
<1>3. OneLoop'
  BY <1>1, <1>t DEF ThreadsFit, SchedulerTypeOK, OneLoop, Live, At
<1>4. LocalsFit'
  BY <1>1, <1>t DEF ThreadsFit, SchedulerTypeOK, LocalsFit, At, Registered
<1> QED
  BY <1>2, <1>3, <1>4 DEF ThreadsFit

(***************************************************************************)
(* Whatever threads do, the types, the loops and the locals fit.           *)
(***************************************************************************)
THEOREM ThreadsInvariance == Spec => []ThreadsFit
<1>1. Init => ThreadsFit
  <2> SUFFICES ASSUME Init PROVE ThreadsFit
    OBVIOUS
  <2>1. SchedulerTypeOK
    <3>1. schedules \in [Name -> [interval : Int, last : 0 .. MaxTime]]
      BY SchedulerAssumption DEF Init
    <3>2. NoScan \in [now : 0 .. MaxTime, size : Nat, left : Nat, unseen : SUBSET Name]
      BY SchedulerAssumption DEF NoScan
    <3>3. Nothing \in [Name -> Nat]
      BY DEF Nothing
    <3>4. /\ scan \in [Thread -> [now : 0 .. MaxTime, size : Nat, left : Nat, unseen : SUBSET Name]]
          /\ todo \in [Thread -> [Name -> Nat]]
      BY <3>2, <3>3 DEF Init
    <3>5. /\ pc \in [Thread -> {"idle", "unborn", "polling", "scanning", "next", "running",
                              "saved", "joining", "ended"}]
          /\ name \in [Thread -> Name \cup {0}]
      BY DEF Init
    <3>6. /\ event \in BOOLEAN /\ thread \in Thread
          /\ attached \subseteq Thread /\ abandoned \subseteq Loop /\ disturbed \subseteq Thread
          /\ churned \subseteq Thread
      BY DEF Init
    <3>7. now \in 1 .. MaxTime /\ calls \in 0 .. MaxCalls /\ 0 \in 0 .. MaxTime
      BY SchedulerAssumption DEF Init
    <3>8. saved \in [Name -> 0 .. MaxTime]
      BY <3>7 DEF Init
    <3> QED
      BY <3>1, <3>4, <3>5, <3>6, <3>7, <3>8 DEF SchedulerTypeOK
  <2>2. OneLoop /\ LocalsFit
    BY DEF Init, OneLoop, LocalsFit, At, Live, NoScan
  <2> QED
    BY <2>1, <2>2 DEF ThreadsFit
<1>2. ThreadsFit /\ [Next]_vars => ThreadsFit'
  <2> SUFFICES ASSUME ThreadsFit, [Next]_vars PROVE ThreadsFit'
    OBVIOUS
  <2>1. ASSUME NEW u \in Thread, run_once(u) PROVE ThreadsFit'
    <3>1. CASE ScanRaises(u) \/ LookupRaises(u) \/ RunRaises(u)
      <4>1. pc[u] \in {"scanning", "next", "running"}
        BY <3>1 DEF ScanRaises, LookupRaises, RunRaises, At
      <4>2. Leave(u, IF u = Caller THEN "idle" ELSE "ended")
        BY <3>1 DEF ScanRaises, LookupRaises, RunRaises, Raise
      <4> QED
        BY <4>1, <4>2, LeaveFits DEF Live, At
    <3>2. CASE Finish(u)
      <4>1. pc[u] = "next" /\ Leave(u, IF u = Caller THEN "idle" ELSE "polling")
        BY <3>2 DEF Finish, At
      <4> QED
        BY <4>1, LeaveFits DEF Live, At
    <3> QED
      BY <2>1, <3>1, <3>2, BeginFits, VisitFits, ScannedFits, LookupFits, SaveFits, StampFits
      DEF run_once
  <2>2. CASE Tick
    <3>1. /\ now' \in 1 .. MaxTime
          /\ UNCHANGED <<schedules, event, thread, pc, scan, todo, name, attached, calls,
                         abandoned, saved, disturbed, churned>>
      BY <2>2, SchedulerAssumption
      DEF Tick, registry, loops, locals, ThreadsFit, SchedulerTypeOK
    <3> QED
      BY <3>1 DEF ThreadsFit, SchedulerTypeOK, OneLoop, LocalsFit, At, Live, Registered
  <2>3. CASE UNCHANGED vars
    BY <2>3 DEF vars, ThreadsFit, SchedulerTypeOK, OneLoop, LocalsFit, At, Live, Registered
  <2> QED
    BY <2>1, <2>2, <2>3, RegisterFits, UnregisterFits, StartFits, StopFits, JoinedFits,
       LoopEndsFits
    DEF Next
<1> QED
  BY <1>1, <1>2, PTL DEF Spec

(***************************************************************************)
(* Whatever threads do, there is one live loop that start and stop know    *)
(* of, and any other is one whose stop has timed out (scheduler.py 8,      *)
(* 145).                                                                   *)
(***************************************************************************)
THEOREM LoopIsOne == Spec => []OneLoop
<1>1. ThreadsFit => OneLoop
  BY DEF ThreadsFit
<1> QED
  BY <1>1, ThreadsInvariance, PTL

(***************************************************************************)
(* A stamp never lands on a registration that it is not of (scheduler.py   *)
(* 78, 118).                                                               *)
(***************************************************************************)
THEOREM RegistrationsAreNew == Spec => []RegistrationsStartOver
<1>1. Init => RegistrationsStartOver
  BY DEF Init, RegistrationsStartOver
<1>2. ThreadsFit /\ RegistrationsStartOver /\ [Next]_vars => RegistrationsStartOver'
  <2> SUFFICES ASSUME ThreadsFit, RegistrationsStartOver, [Next]_vars
               PROVE  RegistrationsStartOver'
    OBVIOUS
  <2>t. SchedulerTypeOK
    BY DEF ThreadsFit
  <2>1. ASSUME NEW u \in Thread, Save(u) PROVE RegistrationsStartOver'
    BY <2>1, <2>t DEF Save, SchedulerTypeOK, RegistrationsStartOver, loops
  <2>2. ASSUME NEW u \in Thread, Stamp(u) PROVE RegistrationsStartOver'
    <3>1. u \in attached => name[u] \in Name /\ saved[name[u]] # Never
      BY <2>2 DEF Stamp, At, ThreadsFit, LocalsFit
    <3> QED
      BY <2>2, <2>t, <3>1 DEF Stamp, SchedulerTypeOK, RegistrationsStartOver
  <2>3. ASSUME NEW n \in Name, NEW s, s.last = Never, Replace(n, s)
        PROVE  RegistrationsStartOver'
    BY <2>3, <2>t DEF Replace, SchedulerTypeOK, RegistrationsStartOver
  <2>4. CASE UNCHANGED registry
    BY <2>4 DEF registry, RegistrationsStartOver
  <2> QED
    BY <2>1, <2>2, <2>3, <2>4
    DEF Next, run_once, register, unregister, Begin, Visit, Scanned, ScanRaises, Lookup,
        LookupRaises, RunRaises, Finish, Raise, Leave, start, stop, Joined, LoopEnds, Tick,
        vars, registry
<1> QED
  BY <1>1, <1>2, ThreadsInvariance, PTL DEF Spec

(***************************************************************************)
(* Who is in a run_once, for short.                                        *)
(***************************************************************************)
Busy == {"scanning", "next", "running", "saved"}

(***************************************************************************)
(* While a thread is in a run_once, no other is there undisturbed.         *)
(***************************************************************************)
Undisturbed == \A u \in InRunOnce \ disturbed : Alone(u)

(***************************************************************************)
(* What the proofs below take from the types.                              *)
(***************************************************************************)
LEMMA SomeTypes ==
  ASSUME SchedulerTypeOK
  PROVE  /\ schedules \in [Name -> [interval : Int, last : Nat]]
         /\ saved \in [Name -> Nat] /\ now \in Nat /\ now # 0
         /\ DOMAIN pc = Thread /\ DOMAIN scan = Thread
         /\ todo \in [Thread -> [Name -> Nat]]
         /\ name \in [Thread -> Name \cup {0}]
         /\ attached \subseteq Thread
         /\ \A u \in Thread : scan[u].now \in Nat
<1>1. 0 .. MaxTime \subseteq Nat /\ 1 .. MaxTime \subseteq Nat \ {0}
  BY SchedulerAssumption
<1>2. schedules \in [Name -> [interval : Int, last : Nat]]
  <2>1. schedules \in [Name -> [interval : Int, last : 0 .. MaxTime]]
    BY DEF SchedulerTypeOK
  <2>2. [interval : Int, last : 0 .. MaxTime] \subseteq [interval : Int, last : Nat]
    BY <1>1
  <2> QED
    BY <2>1, <2>2
<1>3. saved \in [Name -> Nat] /\ now \in Nat /\ now # 0
  BY <1>1 DEF SchedulerTypeOK
<1>4. \A u \in Thread : scan[u].now \in Nat
  BY <1>1 DEF SchedulerTypeOK
<1> QED
  BY <1>2, <1>3, <1>4 DEF SchedulerTypeOK

(***************************************************************************)
(* Steps that change no schedule, no save and nothing that is to be run,   *)
(* outside of every run_once.                                              *)
(***************************************************************************)
LEMMA QuietSteps ==
  ASSUME ThreadsFit, StampsFollow, Undisturbed,
         UNCHANGED <<schedules, saved, todo, scan, name, attached, disturbed>>,
         now' \in Nat, now <= now',
         \A u \in Thread : pc'[u] = pc[u] \/ (pc[u] \notin Busy /\ pc'[u] \notin Busy)
  PROVE  StampsFollow' /\ Undisturbed'
<1>t. /\ saved \in [Name -> Nat] /\ now \in Nat
      /\ schedules \in [Name -> [interval : Int, last : Nat]]
      /\ attached \subseteq Thread
      /\ \A u \in Thread : scan[u].now \in Nat
  BY SomeTypes DEF ThreadsFit
<1>1. InRunOnce' = InRunOnce
  BY DEF InRunOnce, Busy
<1>2. \A u \in Thread : /\ At(u, "running")' <=> At(u, "running")
                        /\ At(u, "saved")' <=> At(u, "saved")
  BY DEF At, Busy
<1>3. \A n \in Name : saved[n] <= now'
  BY <1>t DEF StampsFollow
<1>4. StampsFollow'
  BY <1>t, <1>1, <1>2, <1>3 DEF StampsFollow
<1>5. ASSUME NEW u \in InRunOnce \ disturbed PROVE Alone(u)'
  <2>1. Alone(u) /\ u \in Thread
    BY <1>5 DEF Undisturbed, InRunOnce
  <2>2. scan[u].now <= now'
    BY <1>t, <2>1 DEF Alone
  <2>3. \A n \in Name : todo[u][n] > 0 =>
          saved[n] = Never \/ now' - saved[n] >= schedules[n].interval
    BY <1>t, <2>1 DEF Alone
  <2> QED
    BY <1>1, <1>2, <2>1, <2>2, <2>3 DEF Alone
<1> QED
  BY <1>1, <1>4, <1>5 DEF Undisturbed

(***************************************************************************)
(* A schedule is replaced or taken out.                                    *)
(***************************************************************************)
LEMMA ReplaceKeepsIntervals ==
  ASSUME ThreadsFit, StampsFollow, Undisturbed, NEW n \in Name, NEW s, Replace(n, s),
         UNCHANGED <<todo, name, now, pc>>,
         disturbed \subseteq disturbed',
         \A u \in Thread \ disturbed' :
           scan'[u].now = scan[u].now /\ scan'[u].unseen \subseteq scan[u].unseen
  PROVE  StampsFollow' /\ Undisturbed'
<1>t. /\ saved \in [Name -> Nat] /\ now \in Nat
      /\ schedules \in [Name -> [interval : Int, last : Nat]]
      /\ attached \subseteq Thread
  BY SomeTypes DEF ThreadsFit
<1>1. /\ \A m \in Name : saved'[m] = IF m = n THEN 0 ELSE saved[m]
      /\ \A m \in Name : m # n => schedules'[m] = schedules[m]
      /\ attached' = {u \in attached : name[u] # n}
  BY <1>t DEF Replace
<1>2. InRunOnce' = InRunOnce
  BY DEF InRunOnce
<1>3. StampsFollow'
  <2>1. \A m \in Name : saved'[m] <= now'
    BY <1>t, <1>1 DEF StampsFollow
  <2>2. ASSUME NEW m \in Name, saved'[m] # Never
        PROVE  \/ schedules'[m].last >= saved'[m]
               \/ \E u \in attached' : At(u, "saved")' /\ name'[u] = m
    <3>1. m # n /\ saved'[m] = saved[m] /\ schedules'[m] = schedules[m]
      BY <1>1, <2>2
    <3>2. CASE \E u \in attached : At(u, "saved") /\ name[u] = m
      BY <1>1, <3>1, <3>2 DEF At
    <3> QED
      BY <2>2, <3>1, <3>2 DEF StampsFollow
  <2>3. \A u \in Thread \ InRunOnce', m \in Name : todo'[u][m] = 0
    BY <1>2 DEF StampsFollow
  <2> QED
    BY <2>1, <2>2, <2>3 DEF StampsFollow
<1>4. ASSUME NEW u \in InRunOnce \ disturbed' PROVE Alone(u)'
  <2>1. Alone(u) /\ u \in Thread
    BY <1>4 DEF Undisturbed, InRunOnce
  <2>2. scan'[u].now = scan[u].now /\ scan'[u].unseen \subseteq scan[u].unseen
    BY <1>4, <2>1
  <2> QED
    BY <1>1, <1>2, <2>1, <2>2 DEF Alone, At
<1> QED
  BY <1>2, <1>3, <1>4 DEF Undisturbed

(***************************************************************************)
(* Both changes of the registry.                                           *)
(***************************************************************************)
LEMMA RegistryKeepsIntervals ==
  ASSUME ThreadsFit, StampsFollow, Undisturbed, NEW n \in Name,
         unregister(n) \/ \E i \in Interval : register(n, i)
  PROVE  StampsFollow' /\ Undisturbed'
<1>t. scan \in [Thread -> [now : 0 .. MaxTime, size : Nat, left : Nat, unseen : SUBSET Name]]
  BY DEF ThreadsFit, SchedulerTypeOK
<1>1. CASE unregister(n)
  <2>1. \A u \in Thread :
          scan'[u].now = scan[u].now /\ scan'[u].unseen \subseteq scan[u].unseen
    BY <1>1, <1>t DEF unregister
  <2> QED
    BY <1>1, <2>1, ReplaceKeepsIntervals DEF unregister, loops
<1>2. ASSUME NEW i \in Interval, register(n, i) PROVE StampsFollow' /\ Undisturbed'
  <2>1. /\ disturbed \subseteq disturbed'
        /\ \A u \in Thread \ disturbed' : scan'[u] = scan[u]
    <3>1. CASE n \in Registered
      BY <1>2, <3>1 DEF register
    <3>2. CASE n \notin Registered
      <4>1. disturbed' = disturbed \cup Scanning
        BY <1>2, <3>2 DEF register, Append
      <4>2. PICK skipped \in [Scanning -> SUBSET Name] :
              scan' = [u \in Thread |->
                         IF u \in Scanning
                           THEN [scan[u] EXCEPT !.unseen = (@ \cup {n}) \ skipped[u]]
                           ELSE scan[u]]
        BY <1>2, <3>2 DEF register, Append
      <4> QED
        BY <4>1, <4>2
    <3> QED
      BY <3>1, <3>2
  <2>2. Replace(n, [interval |-> i, last |-> Never]) /\ UNCHANGED <<todo, name, now, pc>>
    BY <1>2 DEF register
  <2> QED
    BY <2>1, <2>2, ReplaceKeepsIntervals
<1> QED
  BY <1>1, <1>2

(***************************************************************************)
(* A run_once begins: alone, with nothing to run yet, or disturbing.       *)
(***************************************************************************)
LEMMA BeginKeepsIntervals ==
  ASSUME ThreadsFit, StampsFollow, Undisturbed, NEW u \in Thread, Begin(u)
  PROVE  StampsFollow' /\ Undisturbed'
<1>t. /\ saved \in [Name -> Nat] /\ now \in Nat /\ DOMAIN pc = Thread
      /\ DOMAIN scan = Thread
      /\ attached \subseteq Thread
  BY SomeTypes DEF ThreadsFit
<1>1. /\ pc[u] \in {"idle", "polling"} /\ pc' = [pc EXCEPT ![u] = "scanning"]
      /\ scan'[u].now = now
      /\ UNCHANGED <<schedules, saved, todo, name, attached, now>>
      /\ disturbed' = IF InRunOnce = {} THEN disturbed ELSE InRunOnce \cup {u}
  BY <1>t DEF Begin, Calls, At, Go, registry, loops
<1>2. InRunOnce' = InRunOnce \cup {u} /\ u \notin InRunOnce
  BY <1>t, <1>1 DEF InRunOnce
<1>3. \A n \in Name : todo[u][n] = 0
  BY <1>2 DEF StampsFollow
<1>4. \A w \in Thread : /\ At(w, "saved")' <=> At(w, "saved")
                        /\ w = u => ~At(w, "running")' /\ ~At(w, "saved")'
  BY <1>t, <1>1 DEF At
<1>5. StampsFollow'
  BY <1>t, <1>1, <1>2, <1>4 DEF StampsFollow
<1>6. CASE InRunOnce = {}
  <2>1. InRunOnce' = {u}
    BY <1>2, <1>6
  <2>2. Alone(u)'
    BY <1>t, <1>1, <1>3, <1>4, <2>1 DEF Alone
  <2> QED
    BY <1>5, <2>1, <2>2 DEF Undisturbed
<1>7. CASE InRunOnce # {}
  BY <1>1, <1>2, <1>5, <1>7 DEF Undisturbed
<1> QED
  BY <1>6, <1>7

(***************************************************************************)
(* A step within a run_once: only its own thread can be alone there.       *)
(***************************************************************************)
LEMMA OnlyOneAlone ==
  ASSUME Undisturbed, NEW u \in InRunOnce, InRunOnce' = InRunOnce, disturbed' = disturbed,
         u \notin disturbed /\ Alone(u) => Alone(u)'
  PROVE  Undisturbed'
<1>1. ASSUME NEW w \in InRunOnce \ disturbed PROVE Alone(w)'
  <2>1. Alone(w)
    BY <1>1 DEF Undisturbed
  <2>2. w = u
    BY <2>1 DEF Alone
  <2> QED
    BY <1>1, <2>1, <2>2
<1> QED
  BY <1>1 DEF Undisturbed

(***************************************************************************)
(* An entry is found due: its last run was saved an interval ago.          *)
(***************************************************************************)
LEMMA VisitKeepsIntervals ==
  ASSUME ThreadsFit, StampsFollow, Undisturbed, NEW u \in Thread, Visit(u)
  PROVE  StampsFollow' /\ Undisturbed'
<1>t. /\ saved \in [Name -> Nat] /\ now \in Nat /\ attached \subseteq Thread
      /\ schedules \in [Name -> [interval : Int, last : Nat]]
      /\ todo \in [Thread -> [Name -> Nat]]
      /\ scan[u].now \in Nat
  BY SomeTypes DEF ThreadsFit
<1>s. scan \in [Thread -> [now : 0 .. MaxTime, size : Nat, left : Nat, unseen : SUBSET Name]]
  BY DEF ThreadsFit, SchedulerTypeOK
<1>1. PICK n \in scan[u].unseen :
        /\ scan' = [scan EXCEPT ![u].unseen = @ \ {n}, ![u].left = @ - 1]
        /\ todo' = IF Elapsed(n, scan[u].now) THEN [todo EXCEPT ![u][n] = @ + 1] ELSE todo
  BY DEF Visit
<1>2. /\ pc[u] = "scanning" /\ n \in Name
      /\ UNCHANGED <<schedules, saved, pc, name, attached, now, disturbed>>
  BY <1>s DEF Visit, At, registry, loops
<1>3. InRunOnce' = InRunOnce /\ u \in InRunOnce
  BY <1>2 DEF InRunOnce
<1>4. /\ \A w \in Thread \ {u} : todo'[w] = todo[w]
      /\ \A m \in Name \ {n} : todo'[u][m] = todo[u][m]
      /\ todo'[u][n] \in {todo[u][n], todo[u][n] + 1}
      /\ ~Elapsed(n, scan[u].now) => todo'[u][n] = todo[u][n]
  BY <1>t, <1>1, <1>2
<1>5. scan'[u].now = scan[u].now /\ scan'[u].unseen = scan[u].unseen \ {n}
  BY <1>s, <1>1
<1>6. StampsFollow'
  BY <1>t, <1>2, <1>3, <1>4 DEF StampsFollow, At
<1>7. ASSUME Alone(u) PROVE Alone(u)'
  <2>1. todo[u][n] = 0
    BY <1>2, <1>7 DEF Alone
  <2>2. \A m \in Name : todo'[u][m] <= 1 /\ (m \in scan'[u].unseen => todo'[u][m] = 0)
    BY <1>t, <1>4, <1>5, <1>7, <2>1 DEF Alone
  <2>3. ASSUME todo'[u][n] > 0
        PROVE  saved[n] = Never \/ now - saved[n] >= schedules[n].interval
    <3>1. Elapsed(n, scan[u].now)
      BY <1>t, <1>4, <2>1, <2>3
    <3>2. saved[n] # Never => schedules[n].last >= saved[n]
      <4>1. \A w \in attached : ~At(w, "saved")
        BY <1>t, <1>2, <1>7 DEF Alone, InRunOnce, At
      <4> QED
        BY <1>2, <4>1 DEF StampsFollow
    <3>3. scan[u].now <= now
      BY <1>7 DEF Alone
    <3>4. /\ saved[n] \in Nat /\ schedules[n].last \in Nat /\ schedules[n].interval \in Int
      BY <1>t, <1>2
    <3> QED
      BY <1>t, <3>1, <3>2, <3>3, <3>4 DEF Elapsed
  <2>4. \A m \in Name : todo'[u][m] > 0 =>
          saved[m] = Never \/ now - saved[m] >= schedules[m].interval
    BY <1>4, <1>7, <2>3 DEF Alone
  <2>5. ~At(u, "running")' /\ ~At(u, "saved")'
    BY <1>2 DEF At
  <2>6. scan'[u].now <= now'
    BY <1>2, <1>5, <1>7 DEF Alone
  <2> QED
    BY <1>2, <1>3, <1>7, <2>2, <2>4, <2>5, <2>6 DEF Alone
<1> QED
  BY <1>2, <1>3, <1>6, <1>7, OnlyOneAlone

(***************************************************************************)
(* The iteration is over, or the next schedule is looked up.               *)
(***************************************************************************)
LEMMA LookupKeepsIntervals ==
  ASSUME ThreadsFit, StampsFollow, Undisturbed, NEW u \in Thread, Scanned(u) \/ Lookup(u)
  PROVE  StampsFollow' /\ Undisturbed'
<1>t. /\ saved \in [Name -> Nat] /\ now \in Nat /\ attached \subseteq Thread
      /\ todo \in [Thread -> [Name -> Nat]] /\ name \in [Thread -> Name \cup {0}]
      /\ DOMAIN pc = Thread /\ DOMAIN scan = Thread
  BY SomeTypes DEF ThreadsFit
<1>1. /\ pc[u] \in {"scanning", "next"} /\ pc'[u] \in {"next", "running"}
      /\ \A w \in Thread : w # u => pc'[w] = pc[w] /\ name'[w] = name[w]
      /\ UNCHANGED <<schedules, saved, now, disturbed>>
  BY <1>t DEF Scanned, Lookup, At, Go, registry, loops
<1>2. InRunOnce' = InRunOnce /\ u \in InRunOnce
  BY <1>1 DEF InRunOnce
<1>3. /\ attached \subseteq attached'
      /\ \A w \in Thread : At(w, "saved")' <=> At(w, "saved")
      /\ ~At(u, "saved")
  BY <1>1 DEF Scanned, Lookup, At
<1>4. /\ \A w \in Thread, n \in Name : todo'[w][n] <= todo[w][n] /\ todo'[w][n] \in Nat
      /\ pc'[u] = "running" => todo'[u][name'[u]] < todo[u][name'[u]]
  <2>1. CASE Scanned(u)
    <3>1. todo' = todo /\ pc'[u] = "next"
      BY <1>t, <2>1 DEF Scanned, Go
    <3> QED
      BY <1>t, <3>1
  <2>2. CASE Lookup(u)
    <3>1. PICK n \in Name : /\ todo[u][n] > 0
                            /\ todo' = [todo EXCEPT ![u][n] = @ - 1]
                            /\ name' = [name EXCEPT ![u] = n]
      BY <2>2 DEF Lookup, IsNext, Registered
    <3>2. /\ \A w \in Thread, m \in Name :
               todo'[w][m] = IF w = u /\ m = n THEN todo[u][n] - 1 ELSE todo[w][m]
          /\ name'[u] = n
      BY <1>t, <3>1
    <3>3. \A w \in Thread, m \in Name : todo[w][m] \in Nat
      BY <1>t
    <3>4. \A w \in Thread, m \in Name : todo'[w][m] <= todo[w][m] /\ todo'[w][m] \in Nat
      BY <3>1, <3>2, <3>3
    <3>5. todo'[u][n] < todo[u][n]
      BY <3>2, <3>3
    <3> QED
      BY <3>2, <3>4, <3>5
  <2> QED
    BY <2>1, <2>2
<1>5. StampsFollow'
  <2>1. \A w \in Thread \ InRunOnce, n \in Name : todo'[w][n] = 0
    BY <1>4 DEF StampsFollow
  <2>2. \A n \in Name, w \in attached :
          At(w, "saved") /\ name[w] = n => w \in attached' /\ At(w, "saved")' /\ name'[w] = n
    BY <1>t, <1>1, <1>3
  <2> QED
    BY <1>1, <1>2, <2>1, <2>2 DEF StampsFollow
<1>6. ASSUME Alone(u) PROVE Alone(u)'
  <2>1. scan'[u].now <= now /\ scan'[u].unseen \subseteq scan[u].unseen
    <3>1. CASE Scanned(u)
      <4>1. scan'[u] = NoScan
        BY <1>t, <3>1 DEF Scanned
      <4> QED
        BY <1>t, <4>1 DEF NoScan
    <3>2. CASE Lookup(u)
      BY <1>6, <3>2 DEF Lookup, Alone
    <3> QED
      BY <3>1, <3>2
  <2>2. \A n \in Name : todo[u][n] \in Nat /\ todo'[u][n] \in Nat
    BY <1>t, <1>4
  <2>3. \A n \in Name : /\ todo'[u][n] <= 1
                        /\ n \in scan'[u].unseen => todo'[u][n] = 0
                        /\ todo'[u][n] > 0 =>
                             saved[n] = Never \/ now - saved[n] >= schedules[n].interval
    BY <1>4, <1>6, <2>1, <2>2 DEF Alone
  <2>4. ASSUME NEW n \in Name, pc'[u] = "running", name'[u] = n PROVE todo'[u][n] = 0
    BY <1>4, <1>6, <2>2, <2>4 DEF Alone
  <2> QED
    BY <1>1, <1>2, <1>3, <1>6, <2>1, <2>3, <2>4 DEF Alone, At
<1> QED
  BY <1>1, <1>2, <1>5, <1>6, OnlyOneAlone

(***************************************************************************)
(* The run is saved: it is not to be run again in this run_once.           *)
(***************************************************************************)
LEMMA SaveKeepsIntervals ==
  ASSUME ThreadsFit, StampsFollow, Undisturbed, NEW u \in Thread, Save(u)
  PROVE  StampsFollow' /\ Undisturbed'
<1>t. /\ saved \in [Name -> Nat] /\ now \in Nat /\ attached \subseteq Thread
      /\ todo \in [Thread -> [Name -> Nat]] /\ name \in [Thread -> Name \cup {0}]
      /\ DOMAIN pc = Thread
      /\ schedules \in [Name -> [interval : Int, last : Nat]]
  BY SomeTypes DEF ThreadsFit
<1>1. /\ pc[u] = "running" /\ pc'[u] = "saved"
      /\ \A w \in Thread : w # u => pc'[w] = pc[w]
      /\ UNCHANGED <<schedules, scan, todo, name, attached, now, disturbed>>
      /\ saved' = IF u \in attached THEN [saved EXCEPT ![name[u]] = now] ELSE saved
  BY <1>t DEF Save, At, Go, registry, loops
<1>2. InRunOnce' = InRunOnce /\ u \in InRunOnce
  BY <1>1 DEF InRunOnce
<1>3. \A n \in Name : saved'[n] = IF u \in attached /\ n = name[u] THEN now ELSE saved[n]
  BY <1>t, <1>1
<1>4. StampsFollow'
  <2>1. \A n \in Name : saved'[n] <= now
    BY <1>t, <1>3 DEF StampsFollow
  <2>2. ASSUME NEW n \in Name, saved'[n] # Never
        PROVE  \/ schedules[n].last >= saved'[n]
               \/ \E w \in attached : At(w, "saved")' /\ name[w] = n
    <3>1. CASE u \in attached /\ n = name[u]
      BY <1>1, <3>1 DEF At
    <3>2. CASE ~(u \in attached /\ n = name[u])
      <4>1. saved'[n] = saved[n]
        BY <1>3, <3>2
      <4>2. \A w \in attached : At(w, "saved") => At(w, "saved")'
        BY <1>t, <1>1 DEF At
      <4> QED
        BY <2>2, <4>1, <4>2 DEF StampsFollow
    <3> QED
      BY <3>1, <3>2
  <2> QED
    BY <1>1, <1>2, <2>1, <2>2 DEF StampsFollow
<1>5. ASSUME Alone(u) PROVE Alone(u)'
  <2>1. \A n \in Name : name[u] = n => todo[u][n] = 0
    BY <1>1, <1>5 DEF Alone, At
  <2>2. \A n \in Name : todo[u][n] > 0 =>
          saved'[n] = Never \/ now - saved'[n] >= schedules[n].interval
    BY <1>3, <1>5, <2>1 DEF Alone
  <2> QED
    BY <1>1, <1>2, <1>5, <2>1, <2>2 DEF Alone
<1> QED
  BY <1>1, <1>2, <1>4, <1>5, OnlyOneAlone

(***************************************************************************)
(* The stamp is not before the save that it belongs to.                    *)
(***************************************************************************)
LEMMA StampKeepsIntervals ==
  ASSUME ThreadsFit, StampsFollow, Undisturbed, NEW u \in Thread, Stamp(u)
  PROVE  StampsFollow' /\ Undisturbed'
<1>t. /\ saved \in [Name -> Nat] /\ now \in Nat /\ attached \subseteq Thread
      /\ todo \in [Thread -> [Name -> Nat]] /\ name \in [Thread -> Name \cup {0}]
      /\ DOMAIN pc = Thread
      /\ schedules \in [Name -> [interval : Int, last : Nat]]
  BY SomeTypes DEF ThreadsFit
<1>1. /\ pc[u] = "saved" /\ pc'[u] = "next"
      /\ \A w \in Thread : w # u => pc'[w] = pc[w] /\ name'[w] = name[w]
      /\ attached' = attached \ {u}
      /\ UNCHANGED <<saved, scan, todo, now, disturbed>>
      /\ schedules' = IF u \in attached
                      THEN [schedules EXCEPT ![name[u]].last = now] ELSE schedules
  BY <1>t DEF Stamp, At, Go, loops
<1>2. InRunOnce' = InRunOnce /\ u \in InRunOnce
  BY <1>1 DEF InRunOnce
<1>3. \A n \in Name :
        /\ schedules'[n].interval = schedules[n].interval
        /\ schedules'[n].last =
             IF u \in attached /\ n = name[u] THEN now ELSE schedules[n].last
  BY <1>t, <1>1
<1>4. StampsFollow'
  <2>1. ASSUME NEW n \in Name, saved[n] # Never
        PROVE  \/ schedules'[n].last >= saved[n]
               \/ \E w \in attached' : At(w, "saved")' /\ name'[w] = n
    <3>1. CASE u \in attached /\ n = name[u]
      BY <1>3, <3>1 DEF StampsFollow
    <3>2. CASE ~(u \in attached /\ n = name[u])
      <4>1. schedules'[n].last = schedules[n].last
        BY <1>3, <3>2
      <4>2. ASSUME NEW w \in attached, At(w, "saved"), name[w] = n
            PROVE  w \in attached' /\ At(w, "saved")' /\ name'[w] = n
        <5>1. w # u /\ w \in Thread
          BY <1>t, <3>2, <4>2
        <5> QED
          BY <1>1, <4>2, <5>1 DEF At
      <4> QED
        BY <2>1, <4>1, <4>2 DEF StampsFollow
    <3> QED
      BY <3>1, <3>2
  <2> QED
    BY <1>1, <1>2, <2>1 DEF StampsFollow
<1>5. ASSUME Alone(u) PROVE Alone(u)'
  BY <1>1, <1>2, <1>3, <1>5 DEF Alone, At
<1> QED
  BY <1>1, <1>2, <1>4, <1>5, OnlyOneAlone

(***************************************************************************)
(* A thread leaves run_once.                                               *)
(***************************************************************************)
LEMMA LeaveKeepsIntervals ==
  ASSUME ThreadsFit, StampsFollow, Undisturbed, NEW u \in Thread,
         NEW next \in {"idle", "polling", "ended"}, Leave(u, next),
         pc[u] \in {"scanning", "next", "running"}
  PROVE  StampsFollow' /\ Undisturbed'
<1>t. /\ attached \subseteq Thread /\ todo \in [Thread -> [Name -> Nat]]
      /\ name \in [Thread -> Name \cup {0}]
      /\ DOMAIN pc = Thread
  BY SomeTypes DEF ThreadsFit
<1>1. /\ pc'[u] = next
      /\ \A w \in Thread : w # u => pc'[w] = pc[w] /\ name'[w] = name[w] /\ todo'[w] = todo[w]
      /\ todo'[u] = Nothing
      /\ attached' = attached \ {u} /\ disturbed' = disturbed \ {u}
      /\ UNCHANGED <<schedules, saved, now>>
  BY <1>t DEF Leave, Go, registry
<1>2. InRunOnce' = InRunOnce \ {u} /\ u \in InRunOnce
  BY <1>1 DEF InRunOnce
<1>3. ASSUME NEW n \in Name, NEW w \in attached, At(w, "saved"), name[w] = n
      PROVE  w \in attached' /\ At(w, "saved")' /\ name'[w] = n
  <2>1. w # u /\ w \in Thread
    BY <1>t, <1>3 DEF At
  <2> QED
    BY <1>1, <1>3, <2>1 DEF At
<1>4. \A w \in Thread \ InRunOnce', n \in Name : todo'[w][n] = 0
  BY <1>1, <1>2 DEF StampsFollow, Nothing
<1>5. StampsFollow'
  BY <1>1, <1>3, <1>4 DEF StampsFollow
<1>6. InRunOnce' \ disturbed' = {}
  <2> SUFFICES ASSUME NEW w \in InRunOnce' \ disturbed' PROVE FALSE
    OBVIOUS
  <2>1. w # u /\ w \in InRunOnce \ disturbed
    BY <1>1, <1>2
  <2>2. InRunOnce = {w}
    BY <2>1 DEF Undisturbed, Alone
  <2> QED
    BY <1>2, <2>1, <2>2
<1> QED
  BY <1>5, <1>6 DEF Undisturbed

(***************************************************************************)
(* Stamps follow saves, and an undisturbed run_once is alone.              *)
(***************************************************************************)
THEOREM StampsFollowing == Spec => [](StampsFollow /\ Undisturbed)
<1>1. Init => StampsFollow /\ Undisturbed
  <2> SUFFICES ASSUME Init PROVE StampsFollow /\ Undisturbed
    OBVIOUS
  <2>1. InRunOnce = {}
    BY DEF Init, InRunOnce
  <2>2. StampsFollow
    BY DEF Init, StampsFollow, Nothing
  <2> QED
    BY <2>1, <2>2 DEF Undisturbed
<1>2. ThreadsFit /\ StampsFollow /\ Undisturbed /\ [Next]_vars => StampsFollow' /\ Undisturbed'
  <2> SUFFICES ASSUME ThreadsFit, StampsFollow, Undisturbed, [Next]_vars
               PROVE  StampsFollow' /\ Undisturbed'
    OBVIOUS
  <2>t. now \in Nat /\ DOMAIN pc = Thread
    BY SomeTypes DEF ThreadsFit
  <2>1. ASSUME NEW u \in Thread, run_once(u) PROVE StampsFollow' /\ Undisturbed'
    <3>1. CASE ScanRaises(u) \/ LookupRaises(u) \/ RunRaises(u)
      <4>1. pc[u] \in {"scanning", "next", "running"}
        BY <3>1 DEF ScanRaises, LookupRaises, RunRaises, At
      <4>2. Leave(u, IF u = Caller THEN "idle" ELSE "ended")
        BY <3>1 DEF ScanRaises, LookupRaises, RunRaises, Raise
      <4> QED
        BY <4>1, <4>2, LeaveKeepsIntervals
    <3>2. CASE Finish(u)
      <4>1. pc[u] = "next" /\ Leave(u, IF u = Caller THEN "idle" ELSE "polling")
        BY <3>2 DEF Finish, At
      <4> QED
        BY <4>1, LeaveKeepsIntervals
    <3> QED
      BY <2>1, <3>1, <3>2, BeginKeepsIntervals, VisitKeepsIntervals, LookupKeepsIntervals,
         SaveKeepsIntervals, StampKeepsIntervals
      DEF run_once
  <2>2. CASE start \/ stop \/ Joined \/ \E l \in Loop : LoopEnds(l)
    <3>1. UNCHANGED <<schedules, saved, todo, scan, name, attached, disturbed, now>>
      BY <2>2 DEF start, stop, Joined, LoopEnds, registry, loops
    <3>2. \A u \in Thread : pc'[u] = pc[u] \/ (pc[u] \notin Busy /\ pc'[u] \notin Busy)
      BY <2>2, <2>t DEF start, stop, Joined, LoopEnds, Calls, At, Go, Busy
    <3> QED
      BY <2>t, <3>1, <3>2, QuietSteps
  <2>3. CASE Tick \/ UNCHANGED vars
    <3>1. UNCHANGED <<schedules, saved, todo, scan, name, attached, disturbed, pc>>
      BY <2>3 DEF Tick, registry, loops, locals, vars
    <3>2. now' \in Nat /\ now <= now'
      BY <2>3, <2>t DEF Tick, vars
    <3> QED
      BY <3>1, <3>2, QuietSteps
  <2> QED
    BY <2>1, <2>2, <2>3, RegistryKeepsIntervals DEF Next
<1> QED
  BY <1>1, <1>2, ThreadsInvariance, PTL DEF Spec

(***************************************************************************)
(* What a run_once finds while the names in the registry stay.             *)
(***************************************************************************)
Unchurned == \A u \in InRunOnce \ churned : Steady(u)

(***************************************************************************)
(* A step of one thread that leaves the names in the registry: only what   *)
(* that thread itself has found is to be looked at.                        *)
(***************************************************************************)
LEMMA OthersSteady ==
  ASSUME Unchurned, NEW u \in Thread, Registered' = Registered,
         \A w \in Thread \ {u} : /\ pc'[w] = pc[w] /\ scan'[w] = scan[w] /\ todo'[w] = todo[w]
                                 /\ w \in churned => w \in churned',
         u \in InRunOnce' \ churned' => Steady(u)'
  PROVE  Unchurned'
<1>1. ASSUME NEW w \in InRunOnce' \ churned', w # u PROVE Steady(w)'
  <2>1. w \in InRunOnce \ churned /\ w \in Thread
    BY <1>1 DEF InRunOnce
  <2>2. Steady(w)
    BY <2>1 DEF Unchurned
  <2> QED
    BY <1>1, <2>1, <2>2 DEF Steady, At
<1> QED
  BY <1>1 DEF Unchurned

(***************************************************************************)
(* Names come and go only under run_onces that are churned by it.          *)
(***************************************************************************)
LEMMA RegistryKeepsSteady ==
  ASSUME ThreadsFit, Unchurned, NEW n \in Name,
         unregister(n) \/ \E i \in Interval : register(n, i)
  PROVE  Unchurned'
<1>t. /\ schedules \in [Name -> [interval : Int, last : Nat]]
      /\ scan \in [Thread -> [now : 0 .. MaxTime, size : Nat, left : Nat, unseen : SUBSET Name]]
  BY SomeTypes DEF ThreadsFit, SchedulerTypeOK
<1>1. UNCHANGED <<pc, todo>>
  BY DEF unregister, register
<1>2. InRunOnce' = InRunOnce
  BY <1>1 DEF InRunOnce
<1>3. CASE InRunOnce \subseteq churned'
  BY <1>2, <1>3 DEF Unchurned
<1>4. CASE Registered' = Registered /\ scan' = scan /\ churned' = churned
  BY <1>1, <1>2, <1>4 DEF Unchurned, Steady, At
<1>5. CASE unregister(n)
  <2>1. CASE n \in Registered
    BY <1>3, <1>5, <2>1 DEF unregister
  <2>2. CASE n \notin Registered
    <3>1. schedules[n] = Absent /\ schedules' = [schedules EXCEPT ![n] = Absent]
      BY <1>5, <2>2 DEF unregister, Replace, Registered
    <3>2. schedules' = schedules
      BY <1>t, <3>1
    <3>3. \A u \in Thread : n \notin scan[u].unseen
      BY <2>2 DEF ThreadsFit, LocalsFit
    <3>4. \A u \in Thread : scan'[u] = scan[u]
      <4> SUFFICES ASSUME NEW u \in Thread PROVE scan'[u] = scan[u]
        OBVIOUS
      <4>1. scan'[u] = [scan[u] EXCEPT !.unseen = @ \ {n}]
        BY <1>5 DEF unregister
      <4>2. scan[u].unseen \ {n} = scan[u].unseen
        BY <3>3
      <4> QED
        BY <1>t, <4>1, <4>2
    <3>5. scan' = scan
      BY <1>5, <1>t, <3>4 DEF unregister
    <3> QED
      BY <1>4, <1>5, <2>2, <3>2, <3>5 DEF unregister, Registered
  <2> QED
    BY <2>1, <2>2
<1>6. ASSUME NEW i \in Interval, register(n, i) PROVE Unchurned'
  <2>1. CASE n \notin Registered
    BY <1>3, <1>6, <2>1 DEF register, Append
  <2>2. CASE n \in Registered
    <3>1. scan' = scan /\ churned' = churned
      BY <1>6, <2>2 DEF register
    <3>2. schedules' = [schedules EXCEPT ![n] = [interval |-> i, last |-> 0]] /\ i >= 0
      BY <1>6 DEF register, Replace
    <3>3. schedules'[n].interval = i
      BY <1>t, <3>2
    <3>4. schedules'[n] # Absent
      BY <3>2, <3>3, SchedulerAssumption
    <3>5. \A m \in Name : m # n => schedules'[m] = schedules[m]
      BY <1>t, <3>2
    <3> QED
      BY <1>4, <2>2, <3>1, <3>4, <3>5 DEF Registered
  <2> QED
    BY <2>1, <2>2
<1> QED
  BY <1>5, <1>6

(***************************************************************************)
(* A run_once begins: with the whole registry before it.                   *)
(***************************************************************************)
LEMMA BeginKeepsSteady ==
  ASSUME ThreadsFit, StampsFollow, Unchurned, NEW u \in Thread, Begin(u)
  PROVE  Unchurned'
<1>t. /\ DOMAIN pc = Thread /\ DOMAIN scan = Thread
      /\ todo \in [Thread -> [Name -> Nat]]
  BY SomeTypes DEF ThreadsFit
<1>1. /\ pc[u] \in {"idle", "polling"} /\ pc' = [pc EXCEPT ![u] = "scanning"]
      /\ scan' = [scan EXCEPT ![u] =
                   [now |-> now, size |-> Cardinality(Registered),
                    left |-> Cardinality(Registered), unseen |-> Registered]]
      /\ UNCHANGED <<schedules, todo, churned>>
  BY DEF Begin, Calls, At, Go, registry
<1>2. u \notin InRunOnce
  BY <1>1 DEF InRunOnce
<1>3. \A n \in Name : todo[u][n] = 0
  BY <1>2 DEF StampsFollow
<1>4. Registered' = Registered
  BY <1>1 DEF Registered
<1>5. /\ scan'[u].size = Cardinality(Registered)
      /\ scan'[u].left = Cardinality(scan'[u].unseen)
  BY <1>t, <1>1
<1>6. Steady(u)'
  BY <1>1, <1>3, <1>4, <1>5 DEF Steady
<1>7. \A w \in Thread \ {u} : pc'[w] = pc[w] /\ scan'[w] = scan[w]
  BY <1>t, <1>1
<1> QED
  BY <1>1, <1>4, <1>6, <1>7, OthersSteady

(***************************************************************************)
(* One entry less lies ahead, and it is one of the registry.               *)
(***************************************************************************)
LEMMA VisitKeepsSteady ==
  ASSUME ThreadsFit, Unchurned, NEW u \in Thread, Visit(u)
  PROVE  Unchurned'
<1>t. /\ todo \in [Thread -> [Name -> Nat]]
      /\ scan \in [Thread -> [now : 0 .. MaxTime, size : Nat, left : Nat, unseen : SUBSET Name]]
  BY DEF ThreadsFit, SchedulerTypeOK
<1>1. PICK n \in scan[u].unseen :
        /\ scan' = [scan EXCEPT ![u].unseen = @ \ {n}, ![u].left = @ - 1]
        /\ todo' = IF Elapsed(n, scan[u].now) THEN [todo EXCEPT ![u][n] = @ + 1] ELSE todo
  BY DEF Visit
<1>2. /\ pc[u] = "scanning" /\ n \in Name /\ n \in Registered
      /\ UNCHANGED <<schedules, pc, churned>>
  BY <1>t DEF Visit, At, registry, ThreadsFit, LocalsFit
<1>3. Registered' = Registered
  BY <1>2 DEF Registered
<1>4. /\ \A w \in Thread \ {u} : todo'[w] = todo[w] /\ scan'[w] = scan[w]
      /\ \A m \in Name \ {n} : todo'[u][m] = todo[u][m]
      /\ scan'[u].unseen = scan[u].unseen \ {n}
      /\ scan'[u].left = scan[u].left - 1
      /\ scan'[u].size = scan[u].size
  BY <1>t, <1>1, <1>2
<1>5. ASSUME u \in InRunOnce' \ churned' PROVE Steady(u)'
  <2>1. Steady(u)
    BY <1>2, <1>5 DEF Unchurned, InRunOnce
  <2>2. IsFiniteSet(scan[u].unseen)
    BY <1>t, SchedulerAssumption, FS_Subset
  <2>3. Cardinality(scan[u].unseen \ {n}) = Cardinality(scan[u].unseen) - 1
    BY <2>2, FS_RemoveElement
  <2>4. scan[u].size = Cardinality(Registered) /\ scan[u].left = Cardinality(scan[u].unseen)
    BY <1>2, <2>1 DEF Steady, At
  <2>5. \A m \in Name : todo'[u][m] > 0 => m \in Registered
    BY <1>2, <1>4, <2>1 DEF Steady
  <2> QED
    BY <1>3, <1>4, <2>3, <2>4, <2>5 DEF Steady
<1> QED
  BY <1>2, <1>3, <1>4, <1>5, OthersSteady

(***************************************************************************)
(* The rest of a run_once finds nothing more to run.                       *)
(***************************************************************************)
LEMMA RunKeepsSteady ==
  ASSUME ThreadsFit, Unchurned, NEW u \in Thread,
         Scanned(u) \/ Lookup(u) \/ Save(u) \/ Stamp(u)
  PROVE  Unchurned'
<1>t. /\ DOMAIN pc = Thread /\ DOMAIN scan = Thread
      /\ todo \in [Thread -> [Name -> Nat]] /\ name \in [Thread -> Name \cup {0}]
      /\ schedules \in [Name -> [interval : Int, last : Nat]]
  BY SomeTypes DEF ThreadsFit
<1>1. /\ u \in InRunOnce /\ pc'[u] # "scanning" /\ churned' = churned
      /\ \A w \in Thread \ {u} : pc'[w] = pc[w] /\ scan'[w] = scan[w]
  BY <1>t DEF Scanned, Lookup, Save, Stamp, InRunOnce, At, Go
<1>2. \A w \in Thread : /\ w # u => todo'[w] = todo[w]
                        /\ \A n \in Name : todo'[w][n] > 0 => todo[w][n] > 0
  <2>1. CASE Lookup(u)
    <3>1. PICK n \in Name : todo[u][n] > 0 /\ todo' = [todo EXCEPT ![u][n] = @ - 1]
      BY <2>1 DEF Lookup, IsNext, Registered
    <3> QED
      BY <1>t, <3>1
  <2>2. CASE ~Lookup(u)
    BY <2>2 DEF Scanned, Save, Stamp
  <2> QED
    BY <2>1, <2>2
<1>3. Registered' = Registered
  <2>1. CASE Stamp(u)
    <3>1. \A n \in Name : schedules'[n] # Absent <=> schedules[n] # Absent
      BY <1>t, <2>1, SomeTypes DEF Stamp, At, ThreadsFit, LocalsFit, Registered
    <3> QED
      BY <3>1 DEF Registered
  <2>2. CASE ~Stamp(u)
    BY <2>2 DEF Scanned, Lookup, Save, registry, Registered
  <2> QED
    BY <2>1, <2>2
<1>4. ASSUME u \in InRunOnce' \ churned' PROVE Steady(u)'
  <2>1. Steady(u)
    BY <1>1, <1>4 DEF Unchurned
  <2> QED
    BY <1>1, <1>2, <1>3, <2>1 DEF Steady, At
<1> QED
  BY <1>1, <1>2, <1>3, <1>4, OthersSteady

(***************************************************************************)
(* Who is outside of every run_once is not asked for anything.             *)
(***************************************************************************)
LEMMA OutsideKeepsSteady ==
  ASSUME ThreadsFit, Unchurned, NEW u \in Thread, UNCHANGED schedules,
         pc'[u] \notin Busy,
         \A w \in Thread \ {u} : /\ pc'[w] = pc[w] /\ scan'[w] = scan[w] /\ todo'[w] = todo[w]
                                 /\ w \in churned => w \in churned'
  PROVE  Unchurned'
<1>1. Registered' = Registered
  BY DEF Registered
<1>2. u \notin InRunOnce'
  BY DEF InRunOnce, Busy
<1> QED
  BY <1>1, <1>2, OthersSteady

(***************************************************************************)
(* Nothing but the caller's own changes of the names makes a run_once find *)
(* another dict than it began with.                                        *)
(***************************************************************************)
THEOREM UnchurnedInvariance == Spec => []Unchurned
<1>1. Init => Unchurned
  BY DEF Init, InRunOnce, Unchurned
<1>2. ThreadsFit /\ StampsFollow /\ Unchurned /\ [Next]_vars => Unchurned'
  <2> SUFFICES ASSUME ThreadsFit, StampsFollow, Unchurned, [Next]_vars PROVE Unchurned'
    OBVIOUS
  <2>t. /\ DOMAIN pc = Thread /\ DOMAIN scan = Thread
        /\ todo \in [Thread -> [Name -> Nat]]
    BY SomeTypes DEF ThreadsFit
  <2>1. ASSUME NEW u \in Thread, run_once(u) PROVE Unchurned'
    <3>1. CASE ScanRaises(u) \/ LookupRaises(u) \/ RunRaises(u) \/ Finish(u)
      <4>1. PICK next \in {"idle", "ended", "polling"} : Leave(u, next)
        BY <3>1 DEF ScanRaises, LookupRaises, RunRaises, Raise, Finish
      <4>2. /\ pc'[u] = next /\ UNCHANGED schedules
            /\ \A w \in Thread \ {u} : /\ pc'[w] = pc[w] /\ scan'[w] = scan[w]
                                       /\ todo'[w] = todo[w]
                                       /\ w \in churned => w \in churned'
        BY <2>t, <4>1 DEF Leave, Go, registry
      <4> QED
        BY <4>2, OutsideKeepsSteady DEF Busy
    <3> QED
      BY <2>1, <3>1, BeginKeepsSteady, VisitKeepsSteady, RunKeepsSteady DEF run_once
  <2>2. CASE start \/ stop \/ Joined \/ \E l \in Loop : LoopEnds(l)
    <3>1. /\ UNCHANGED <<schedules, scan, todo, churned>>
          /\ \E u \in Thread : /\ pc'[u] \notin Busy
                               /\ \A w \in Thread \ {u} : pc'[w] = pc[w]
      BY <2>2, <2>t DEF start, stop, Joined, LoopEnds, registry, loops, Go, Busy
    <3> QED
      BY <3>1, OutsideKeepsSteady
  <2>3. CASE Tick \/ UNCHANGED vars
    <3>1. UNCHANGED <<schedules, scan, todo, pc, churned>>
      BY <2>3 DEF Tick, registry, loops, locals, vars
    <3> QED
      BY <3>1 DEF Unchurned, Steady, InRunOnce, Registered, At
  <2> QED
    BY <2>1, <2>2, <2>3, RegistryKeepsSteady DEF Next
<1> QED
  BY <1>1, <1>2, ThreadsInvariance, StampsFollowing, PTL DEF Spec

(***************************************************************************)
(* The inductive invariant of the scheduler.                               *)
(***************************************************************************)
THEOREM SchedulerInvariance == Spec => []SchedulerInv
<1>1. StampsFollow /\ Undisturbed /\ Unchurned /\ ThreadsFit => SchedulerInv
  BY DEF SchedulerInv, Undisturbed, Unchurned
<1> QED
  BY <1>1, ThreadsInvariance, StampsFollowing, UnchurnedInvariance, PTL

(***************************************************************************)
(* Schedules keep their intervals, unless run_onces meet or the registry   *)
(* is churned under due() (scheduler.py 94-119).                           *)
(***************************************************************************)
THEOREM IntervalsKept == Spec => IntervalsAreKept
<1> DEFINE Kept(u) ==
      At(u, "next") /\ pc'[u] = "running" /\ u \notin disturbed =>
        LET n == name'[u]
        IN  saved[n] = Never \/ now - saved[n] >= schedules[n].interval
<1>1. SchedulerInv /\ [Next]_vars => [\A u \in Thread : Kept(u)]_vars
  <2> SUFFICES ASSUME SchedulerInv, [Next]_vars, NEW u \in Thread,
                      pc[u] = "next", pc'[u] = "running", u \notin disturbed
               PROVE  LET n == name'[u]
                      IN  saved[n] = Never \/ now - saved[n] >= schedules[n].interval
    BY DEF At
  <2>t. DOMAIN pc = Thread /\ name \in [Thread -> Name \cup {0}]
    BY SomeTypes DEF SchedulerInv, ThreadsFit
  <2>1. Lookup(u)
    <3>1. ASSUME NEW w \in Thread, run_once(w), ~Lookup(w) PROVE pc'[u] # "running" \/ w # u
      BY <3>1, <2>t
      DEF run_once, Begin, Visit, Scanned, ScanRaises, LookupRaises, Save, RunRaises, Stamp,
          Finish, Raise, Leave, Go, At
    <3>2. ASSUME NEW w \in Thread, run_once(w), w # u PROVE pc'[u] = pc[u]
      BY <3>2, <2>t
      DEF run_once, Begin, Visit, Scanned, ScanRaises, Lookup, LookupRaises, Save, RunRaises,
          Stamp, Finish, Raise, Leave, Go
    <3>3. ASSUME ~ \E w \in Thread : run_once(w) PROVE pc'[u] # "running"
      BY <3>3, <2>t
      DEF Next, register, unregister, start, stop, Joined, LoopEnds, Tick, vars, locals, Go
    <3> QED
      BY <3>1, <3>2, <3>3 DEF run_once
  <2>2. PICK n \in Name : todo[u][n] > 0 /\ name'[u] = n
    BY <2>1, <2>t DEF Lookup, IsNext, Registered
  <2>3. Alone(u)
    BY DEF SchedulerInv, InRunOnce
  <2> QED
    BY <2>2, <2>3 DEF Alone
<1> QED
  BY <1>1, SchedulerInvariance, PTL DEF Spec, IntervalsAreKept

(***************************************************************************)
(* A loop ends by stop(), by an exception of the run itself, or because    *)
(* the caller put a name in or took one out under its run_once             *)
(* (scheduler.py 98, 114, 150).                                            *)
(***************************************************************************)
THEOREM LoopsEndForReasons == Spec => LoopsEndForAReason
<1> DEFINE Reason(l) ==
      Live(l) /\ pc'[l] = "ended" => event \/ At(l, "running") \/ l \in churned
<1>1. SchedulerInv /\ [Next]_vars => [\A l \in Loop : Reason(l)]_vars
  <2> SUFFICES ASSUME SchedulerInv, [Next]_vars, NEW l \in Loop,
                      Live(l), pc'[l] = "ended", ~At(l, "running"), l \notin churned
               PROVE  event
    OBVIOUS
  <2>t. DOMAIN pc = Thread /\ l \in Thread /\ pc[l] # "ended"
    BY SomeTypes DEF SchedulerInv, ThreadsFit, Live, At
  <2>1. ASSUME NEW w \in Thread, run_once(w) PROVE FALSE
    <3>1. w = l
      BY <2>1, <2>t
      DEF run_once, Begin, Visit, Scanned, ScanRaises, Lookup, LookupRaises, Save, RunRaises,
          Stamp, Finish, Raise, Leave, Go
    <3>2. ScanRaises(l) \/ LookupRaises(l)
      BY <2>1, <2>t, <3>1, SchedulerAssumption
      DEF run_once, Begin, Visit, Scanned, Lookup, Save, RunRaises, Stamp, Finish, Leave, Go, At
    <3>3. Steady(l)
      BY <2>t, <3>2 DEF ScanRaises, LookupRaises, SchedulerInv, InRunOnce, At
    <3>4. CASE ScanRaises(l)
      <4>1. IsFiniteSet(scan[l].unseen)
        BY <2>t, SchedulerAssumption, FS_Subset DEF SchedulerInv, ThreadsFit, SchedulerTypeOK
      <4>2. scan[l].left = 0 => scan[l].unseen = {}
        BY <3>3, <3>4, <4>1, FS_EmptySet DEF Steady, ScanRaises
      <4> QED
        BY <3>3, <3>4, <4>2 DEF Steady, ScanRaises
    <3>5. CASE LookupRaises(l)
      BY <3>3, <3>5 DEF Steady, LookupRaises, IsNext
    <3> QED
      BY <3>2, <3>4, <3>5
  <2>2. CASE ~ \E w \in Thread : run_once(w)
    BY <2>2, <2>t
    DEF Next, register, unregister, start, stop, Joined, LoopEnds, Tick, vars, locals, Go, At
  <2> QED
    BY <2>1, <2>2
<1> QED
  BY <1>1, SchedulerInvariance, PTL DEF Spec, LoopsEndForAReason
-----------------------------------------------------------------------------
(***************************************************************************)
(* The processes that are to write the file, and those that have begun to. *)
(***************************************************************************)
Rewriting(p) == at[p] \in {"rewriting", "writing"}
Writing(p)   == at[p] = "writing"

(***************************************************************************)
(* Types of the file and of what each process knows of it.                 *)
(***************************************************************************)
FileTypeOK ==
  /\ file \in [text : {"entries", "none", "garbled"}, entries : Entries]
  /\ at \in [Process -> {"idle", "rewriting", "writing", "registering", "running"}]
  /\ entries \in [Process -> Entries]
  /\ left \in [Process -> SUBSET FileName]
  /\ ran \in [Process -> SUBSET FileName]
  /\ changed \in [Process -> SUBSET FileName]
  /\ intended \in Entries
  /\ asked \in [Process -> [name : FileName \cup {None}, to : FileInterval \cup {None}]]
  /\ torn \in BOOLEAN

(***************************************************************************)
(* Who rewrites the file has what is intended, but for suspects and for    *)
(* what it is asked to change.                                             *)
(***************************************************************************)
HoldsIntended ==
  \A p \in Process : Rewriting(p) =>
    /\ asked[p].name \in FileName
    /\ entries[p][asked[p].name] = asked[p].to
    /\ \A n \in FileName \ suspects : n # asked[p].name => entries[p][n] = intended[n]

(***************************************************************************)
(* The name of a writer is suspect once another rewrites as well, or has   *)
(* written since.                                                          *)
(***************************************************************************)
WritersAreSuspect ==
  \A q \in Process : Writing(q) =>
    /\ \A p \in Process \ {q} : Rewriting(p) => asked[q].name \in suspects
    /\ file.text # "none" => asked[q].name \in suspects

(***************************************************************************)
(* While nothing is torn there is one writer at most, and the file cannot  *)
(* be read exactly while there is one.                                     *)
(***************************************************************************)
OneWriter ==
  ~torn =>
    /\ \A p, q \in Process : Writing(p) /\ Writing(q) => p = q
    /\ file = Truncated \/ file.text = "entries"
    /\ file.text = "none" => \E p \in Process : Writing(p)
    /\ \A p \in Process : Writing(p) => file = Truncated

(***************************************************************************)
(* A file that can be read has what is intended, but for suspects.         *)
(***************************************************************************)
FileIsIntended ==
  file.text = "entries" => \A n \in FileName \ suspects : file.entries[n] = intended[n]

(***************************************************************************)
(* What run-once has read is intended, but for suspects and for what has   *)
(* been written since; what it has registered is positive; and when it     *)
(* runs, everything is.                                                    *)
(***************************************************************************)
CopyIsIntended(p) ==
  \A n \in FileName \ (suspects \cup changed[p]) : entries[p][n] = intended[n]

RunsTheCopy ==
  \A p \in Process :
    /\ at[p] # "running" => ran[p] = {}
    /\ InRunOnceCommand(p) => CopyIsIntended(p)
    /\ at[p] = "registering" =>
         \A n \in Names(entries[p]) \ left[p] : entries[p][n] > 0
    /\ at[p] = "running" =>
         /\ \A n \in Names(entries[p]) : entries[p][n] > 0
         /\ left[p] \cup ran[p] = Names(entries[p])

(***************************************************************************)
(* The inductive invariant of the schedules file.                          *)
(***************************************************************************)
FileInv ==
  /\ FileTypeOK
  /\ HoldsIntended
  /\ WritersAreSuspect
  /\ OneWriter
  /\ FileIsIntended
  /\ RunsTheCopy
-----------------------------------------------------------------------------
(***************************************************************************)
(* A step that touches nothing but the count of commands: list, and no     *)
(* step at all.                                                            *)
(***************************************************************************)
LEMMA FileUntouched ==
  ASSUME FileInv,
         UNCHANGED <<file, at, entries, runOnce, intended, asked, suspects, torn>>
  PROVE  FileInv'
<1>1. UNCHANGED <<left, ran, changed>>
  BY DEF runOnce
<1>2. FileTypeOK' /\ RunsTheCopy'
  BY <1>1 DEF FileInv, FileTypeOK, RunsTheCopy, CopyIsIntended, InRunOnceCommand
<1> QED
  BY <1>2 DEF FileInv, HoldsIntended, WritersAreSuspect, OneWriter, FileIsIntended,
              Rewriting, Writing

(***************************************************************************)
(* A command that reads the file and goes on to rewrite it: what it holds  *)
(* is intended, and a writer under way is suspect already.                 *)
(***************************************************************************)
LEMMA RewriteKeepsFile ==
  ASSUME FileInv, NEW p \in Process, NEW n \in FileName, NEW to \in FileInterval \cup {None},
         Read(p), Rewrite(p, n, to, [file.entries EXCEPT ![n] = to])
  PROVE  FileInv'
<1> DEFINE es == [file.entries EXCEPT ![n] = to]
<1> USE DEF FileInv
<1>1. /\ at[p] = "idle" /\ file.text = "entries" /\ file.entries \in Entries
      /\ at' = [at EXCEPT ![p] = "rewriting"]
      /\ entries' = [entries EXCEPT ![p] = es]
      /\ asked' = [asked EXCEPT ![p] = [name |-> n, to |-> to]]
      /\ UNCHANGED <<file, left, ran, changed, intended, suspects, torn>>
  BY DEF Read, Rewrite, IsAt, FileTypeOK, runOnce
<1>2. es \in Entries /\ es[n] = to /\ \A m \in FileName : m # n => es[m] = file.entries[m]
  BY <1>1 DEF Entries
<1> HIDE DEF es
<1>3. FileTypeOK'
  BY <1>1, <1>2 DEF FileTypeOK
<1>4. \A q \in Process : q # p =>
        at'[q] = at[q] /\ entries'[q] = entries[q] /\ asked'[q] = asked[q]
  BY <1>1 DEF FileTypeOK
<1>5. at'[p] = "rewriting" /\ entries'[p] = es /\ asked'[p].name = n /\ asked'[p].to = to
  BY <1>1 DEF FileTypeOK
<1>6. HoldsIntended'
  <2> SUFFICES ASSUME NEW q \in Process, Rewriting(q)'
               PROVE  /\ asked'[q].name \in FileName
                      /\ entries'[q][asked'[q].name] = asked'[q].to
                      /\ \A m \in FileName \ suspects :
                           m # asked'[q].name => entries'[q][m] = intended[m]
    BY <1>1 DEF HoldsIntended
  <2>1. CASE q = p
    BY <1>1, <1>2, <1>5, <2>1 DEF FileIsIntended
  <2>2. CASE q # p
    BY <1>4, <2>2 DEF HoldsIntended, Rewriting
  <2> QED
    BY <2>1, <2>2
<1>7. WritersAreSuspect'
  BY <1>1, <1>4, <1>5 DEF WritersAreSuspect, Writing, Rewriting
<1>8. OneWriter'
  BY <1>1, <1>4, <1>5 DEF OneWriter, Writing
<1>9. FileIsIntended'
  BY <1>1 DEF FileIsIntended
<1>10. RunsTheCopy'
  BY <1>1, <1>4, <1>5 DEF RunsTheCopy, CopyIsIntended, InRunOnceCommand
<1> QED
  BY <1>3, <1>6, <1>7, <1>8, <1>9, <1>10

(***************************************************************************)
(* The file is truncated.                                                  *)
(***************************************************************************)
LEMMA TruncateKeepsFile ==
  ASSUME FileInv, NEW p \in Process, Truncate(p)
  PROVE  FileInv'
<1> DEFINE writing == {q \in Process : Writing(q)}
           alone   == \A q \in Process \ {p} : ~Rewriting(q)
<1> USE DEF FileInv
<1>1. /\ at[p] = "rewriting" /\ file' = Truncated
      /\ at' = [at EXCEPT ![p] = "writing"]
      /\ suspects' = suspects \cup {asked[q].name : q \in writing}
                              \cup (IF alone THEN {} ELSE {asked[p].name})
      /\ torn' = (torn \/ writing # {})
      /\ UNCHANGED <<entries, left, ran, changed, intended, asked>>
  <2>1. \A q \in Process : (~IsAt(q, "rewriting") /\ ~IsAt(q, "writing")) <=> ~Rewriting(q)
    BY DEF IsAt, Rewriting
  <2>2. \A q \in Process : IsAt(q, "writing") <=> Writing(q)
    BY DEF IsAt, Writing
  <2> QED
    BY <2>1, <2>2 DEF Truncate, IsAt, runOnce
<1>2. file'.text = "none" /\ file'.entries \in Entries
      /\ file' \in [text : {"entries", "none", "garbled"}, entries : Entries]
  BY <1>1 DEF Truncated, Empty, Entries
<1>3. FileTypeOK'
  BY <1>1, <1>2 DEF FileTypeOK
<1>4. at'[p] = "writing" /\ \A q \in Process : q # p => at'[q] = at[q]
  BY <1>1 DEF FileTypeOK
<1>5. \A q \in Process : Rewriting(q)' <=> Rewriting(q)
  BY <1>1, <1>4 DEF Rewriting
<1>6. \A q \in Process : Writing(q)' <=> Writing(q) \/ q = p
  BY <1>4 DEF Writing
<1>7. HoldsIntended'
  BY <1>1, <1>5 DEF HoldsIntended
<1>8. WritersAreSuspect'
  <2> SUFFICES ASSUME NEW q \in Process, Writing(q)', NEW r \in Process \ {q}, Rewriting(r)
               PROVE  asked[q].name \in suspects'
    BY <1>1, <1>2, <1>5 DEF WritersAreSuspect
  <2>1. CASE Writing(q)
    <3>1. q \in writing
      BY <2>1
    <3> QED
      BY <1>1, <3>1
  <2>2. CASE q = p
    <3>1. ~alone
      BY <2>2
    <3> QED
      BY <1>1, <2>2, <3>1
  <2> QED
    BY <1>6, <2>1, <2>2
<1>9. OneWriter'
  <2> SUFFICES ASSUME ~torn'
               PROVE  /\ \A q, r \in Process : Writing(q)' /\ Writing(r)' => q = r
                      /\ file' = Truncated
                      /\ \E q \in Process : Writing(q)'
    BY DEF OneWriter
  <2>1. \A q \in Process : ~Writing(q)
    BY <1>1
  <2> QED
    BY <1>1, <1>6, <2>1
<1>10. FileIsIntended'
  BY <1>2 DEF FileIsIntended
<1>11. RunsTheCopy'
  BY <1>1, <1>4 DEF RunsTheCopy, CopyIsIntended, InRunOnceCommand
<1> QED
  BY <1>3, <1>7, <1>8, <1>9, <1>10, <1>11

(***************************************************************************)
(* What leaving does.                                                      *)
(***************************************************************************)
LEMMA FinishFacts ==
  ASSUME FileTypeOK, NEW p \in Process, Exit(p)
  PROVE  /\ at' \in [Process -> {"idle", "rewriting", "writing", "registering", "running"}]
         /\ entries' \in [Process -> Entries]
         /\ left' \in [Process -> SUBSET FileName]
         /\ ran' \in [Process -> SUBSET FileName]
         /\ asked' \in [Process -> [name : FileName \cup {None},
                                    to : FileInterval \cup {None}]]
         /\ at'[p] = "idle" /\ ran'[p] = {}
         /\ \A q \in Process : q # p => /\ at'[q] = at[q] /\ entries'[q] = entries[q]
                                        /\ left'[q] = left[q] /\ ran'[q] = ran[q]
                                        /\ asked'[q] = asked[q]
<1>1. Empty \in Entries
  BY DEF Empty, Entries
<1>2. NoChange \in [name : FileName \cup {None}, to : FileInterval \cup {None}]
  BY DEF NoChange
<1>3. /\ at' = [at EXCEPT ![p] = "idle"]
      /\ entries' = [entries EXCEPT ![p] = Empty]
      /\ left' = [left EXCEPT ![p] = {}]
      /\ ran' = [ran EXCEPT ![p] = {}]
      /\ asked' = [asked EXCEPT ![p] = NoChange]
  BY DEF Exit
<1> QED
  BY <1>1, <1>2, <1>3 DEF FileTypeOK

(***************************************************************************)
(* A process that leaves without a change to the file: one that is killed, *)
(* or has run everything.                                                  *)
(***************************************************************************)
LEMMA LeavingKeepsFile ==
  ASSUME FileInv, NEW p \in Process, Exit(p), UNCHANGED <<file, intended, suspects>>,
         torn' = (torn \/ Writing(p)),
         changed' = [changed EXCEPT ![p] = {}]
  PROVE  FileInv'
<1> USE DEF FileInv
<1>1. /\ at'[p] = "idle" /\ ran'[p] = {}
      /\ \A q \in Process : q # p => /\ at'[q] = at[q] /\ entries'[q] = entries[q]
                                     /\ left'[q] = left[q] /\ ran'[q] = ran[q]
                                     /\ asked'[q] = asked[q] /\ changed'[q] = changed[q]
  BY FinishFacts DEF FileTypeOK
<1>2. FileTypeOK'
  BY FinishFacts DEF FileTypeOK
<1>3. \A q \in Process : /\ Rewriting(q)' <=> Rewriting(q) /\ q # p
                         /\ Writing(q)' <=> Writing(q) /\ q # p
  BY <1>1 DEF Rewriting, Writing
<1>4. HoldsIntended'
  BY <1>1, <1>3 DEF HoldsIntended
<1>5. WritersAreSuspect'
  BY <1>1, <1>3 DEF WritersAreSuspect
<1>6. OneWriter'
  BY <1>3 DEF OneWriter
<1>7. FileIsIntended'
  BY DEF FileIsIntended
<1>8. RunsTheCopy'
  BY <1>1 DEF RunsTheCopy, CopyIsIntended, InRunOnceCommand
<1> QED
  BY <1>2, <1>4, <1>5, <1>6, <1>7, <1>8

(***************************************************************************)
(* The text is written: what the process changes is intended from then on, *)
(* and whoever rewrites at the same time makes it a suspect.               *)
(***************************************************************************)
LEMMA WriteKeepsFile ==
  ASSUME FileInv, NEW p \in Process, Write(p)
  PROVE  FileInv'
<1> DEFINE n == asked[p].name
<1> USE DEF FileInv
<1>1. /\ Writing(p) /\ Exit(p) /\ UNCHANGED <<suspects, torn>>
      /\ intended' = [intended EXCEPT ![n] = asked[p].to]
      /\ changed' = [q \in Process |-> IF InRunOnceCommand(q) THEN changed[q] \cup {n}
                                      ELSE changed[q]]
      /\ file' = Readable(entries[p]) \/ file' = Garbled
      /\ file = Truncated => file' = Readable(entries[p])
  <2>1. Truncated.text = "none" /\ \A m \in FileName : Truncated.entries[m] = None
    BY DEF Truncated, Empty
  <2> QED
    BY <2>1 DEF Write, IsAt, Writing
<1>2. /\ at'[p] = "idle" /\ ran'[p] = {}
      /\ \A q \in Process : q # p => /\ at'[q] = at[q] /\ entries'[q] = entries[q]
                                     /\ left'[q] = left[q] /\ ran'[q] = ran[q]
                                     /\ asked'[q] = asked[q]
  BY <1>1, FinishFacts
<1>3. n \in FileName /\ entries[p][n] = asked[p].to /\ entries[p] \in Entries
      /\ \A m \in FileName \ suspects : m # n => entries[p][m] = intended[m]
  BY <1>1 DEF HoldsIntended, Rewriting, Writing, FileTypeOK
<1> HIDE DEF n
<1>4. intended'[n] = asked[p].to /\ \A m \in FileName : m # n => intended'[m] = intended[m]
  BY <1>1, <1>3 DEF FileTypeOK, Entries
<1>5. FileTypeOK'
  <2>1. file' \in [text : {"entries", "none", "garbled"}, entries : Entries]
    <3>1. Empty \in Entries
      BY DEF Empty, Entries
    <3> QED
      BY <1>1, <1>3, <3>1 DEF Readable, Garbled
  <2>2. intended' \in Entries
    <3>1. asked[p].to \in FileInterval \cup {None}
      BY DEF FileTypeOK
    <3> QED
      BY <1>1, <3>1 DEF FileTypeOK, Entries
  <2>3. changed' \in [Process -> SUBSET FileName]
    BY <1>1, <1>3 DEF FileTypeOK
  <2> QED
    BY <1>1, <2>1, <2>2, <2>3, FinishFacts DEF FileTypeOK
<1>6. \A q \in Process : /\ Rewriting(q)' <=> Rewriting(q) /\ q # p
                         /\ Writing(q)' <=> Writing(q) /\ q # p
  BY <1>2 DEF Rewriting, Writing
<1>7. \A q \in Process : Rewriting(q) /\ q # p => n \in suspects
  BY <1>1 DEF WritersAreSuspect, n
<1>8. HoldsIntended'
  <2> SUFFICES ASSUME NEW q \in Process, Rewriting(q), q # p
               PROVE  /\ asked[q].name \in FileName
                      /\ entries[q][asked[q].name] = asked[q].to
                      /\ \A m \in FileName \ suspects :
                           m # asked[q].name => entries[q][m] = intended'[m]
    BY <1>1, <1>2, <1>6 DEF HoldsIntended
  <2> QED
    BY <1>4, <1>7 DEF HoldsIntended
<1>9. WritersAreSuspect'
  <2> SUFFICES ASSUME NEW q \in Process, Writing(q), q # p
               PROVE  asked[q].name \in suspects
    BY <1>1, <1>2, <1>6 DEF WritersAreSuspect
  <2>1. Rewriting(p)
    BY <1>1 DEF Rewriting, Writing
  <2> QED
    BY <2>1 DEF WritersAreSuspect
<1>10. OneWriter'
  <2> SUFFICES ASSUME ~torn
               PROVE  /\ \A q \in Process : ~Writing(q)'
                      /\ file'.text = "entries"
    BY <1>1 DEF OneWriter
  <2>1. file = Truncated /\ \A q \in Process : Writing(q) => q = p
    BY <1>1 DEF OneWriter
  <2>2. file'.text = "entries"
    BY <1>1, <2>1 DEF Readable
  <2> QED
    BY <1>6, <2>1, <2>2
<1>11. FileIsIntended'
  <2> SUFFICES ASSUME file'.text = "entries", NEW m \in FileName \ suspects
               PROVE  file'.entries[m] = intended'[m]
    BY <1>1 DEF FileIsIntended
  <2>1. file' = Readable(entries[p])
    BY <1>1 DEF Garbled
  <2>2. file'.entries = entries[p]
    BY <2>1 DEF Readable
  <2> QED
    BY <1>3, <1>4, <2>2
<1>12. RunsTheCopy'
  <2>1. at'[p] = "idle" /\ ran'[p] = {}
    BY <1>2
  <2>2. ASSUME NEW q \in Process, q # p, InRunOnceCommand(q) PROVE CopyIsIntended(q)'
    <3>1. changed'[q] = changed[q] \cup {n}
      BY <1>1, <2>2
    <3>2. CopyIsIntended(q)
      BY <2>2 DEF RunsTheCopy
    <3> QED
      BY <1>1, <1>2, <1>4, <2>2, <3>1, <3>2 DEF CopyIsIntended
  <2>3. \A q \in Process : InRunOnceCommand(q)' => q # p /\ InRunOnceCommand(q)
    BY <1>2 DEF InRunOnceCommand
  <2> QED
    BY <1>2, <2>2, <2>3 DEF RunsTheCopy
<1> QED
  BY <1>5, <1>8, <1>9, <1>10, <1>11, <1>12

(***************************************************************************)
(* A step of run-once which leaves the file and the other processes alone  *)
(* disturbs only what is said of the command itself.                       *)
(***************************************************************************)
LEMMA RunOnceStep ==
  ASSUME FileInv, FileTypeOK', NEW p \in Process, ~Rewriting(p), InRunOnceCommand(p)',
         \A q \in Process \ {p} : /\ at'[q] = at[q] /\ entries'[q] = entries[q]
                                 /\ left'[q] = left[q] /\ ran'[q] = ran[q],
         UNCHANGED <<file, changed, intended, asked, suspects, torn>>,
         CopyIsIntended(p)',
         \/ /\ at'[p] = "registering" /\ ran'[p] = {}
            /\ \A n \in Names(entries'[p]) \ left'[p] : entries'[p][n] > 0
         \/ /\ at'[p] = "running" /\ left'[p] \cup ran'[p] = Names(entries'[p])
            /\ \A n \in Names(entries'[p]) : entries'[p][n] > 0
  PROVE  FileInv'
<1> USE DEF FileInv
<1>1. \A q \in Process : /\ Rewriting(q)' <=> Rewriting(q)
                         /\ Writing(q)' <=> Writing(q)
                         /\ Rewriting(q) => q # p
                         /\ Writing(q) => q # p
  BY DEF Rewriting, Writing, InRunOnceCommand
<1>2. HoldsIntended'
  BY <1>1 DEF HoldsIntended
<1>3. WritersAreSuspect' /\ OneWriter' /\ FileIsIntended'
  BY <1>1 DEF WritersAreSuspect, OneWriter, FileIsIntended
<1>4. RunsTheCopy'
  <2> SUFFICES ASSUME NEW q \in Process
               PROVE  /\ at'[q] # "running" => ran'[q] = {}
                      /\ InRunOnceCommand(q)' => CopyIsIntended(q)'
                      /\ at'[q] = "registering" =>
                           \A n \in Names(entries'[q]) \ left'[q] : entries'[q][n] > 0
                      /\ at'[q] = "running" =>
                           /\ \A n \in Names(entries'[q]) : entries'[q][n] > 0
                           /\ left'[q] \cup ran'[q] = Names(entries'[q])
    BY DEF RunsTheCopy
  <2>1. CASE q # p
    BY <2>1 DEF RunsTheCopy, CopyIsIntended, InRunOnceCommand
  <2>2. CASE q = p
    BY <2>2
  <2> QED
    BY <2>1, <2>2
<1> QED
  BY <1>2, <1>3, <1>4

(***************************************************************************)
(* run-once begins: nothing has been written since it read.                *)
(***************************************************************************)
LEMMA RunOnceKeepsFile ==
  ASSUME FileInv, NEW p \in Process, scheduler_run_once(p)
  PROVE  FileInv'
<1>1. /\ at[p] = "idle" /\ file.text = "entries" /\ file.entries \in Entries
      /\ at' = [at EXCEPT ![p] = "registering"]
      /\ entries' = [entries EXCEPT ![p] = file.entries]
      /\ left' = [left EXCEPT ![p] = Names(file.entries)]
      /\ UNCHANGED <<file, ran, changed, intended, asked, suspects, torn>>
  BY DEF scheduler_run_once, Read, IsAt, FileInv, FileTypeOK
<1>2. FileTypeOK'
  BY <1>1 DEF FileInv, FileTypeOK, Names
<1>3. /\ at'[p] = "registering" /\ entries'[p] = file.entries
      /\ left'[p] = Names(file.entries) /\ ran'[p] = {}
      /\ \A q \in Process \ {p} : /\ at'[q] = at[q] /\ entries'[q] = entries[q]
                                  /\ left'[q] = left[q] /\ ran'[q] = ran[q]
  BY <1>1 DEF FileInv, FileTypeOK, RunsTheCopy
<1>4. CopyIsIntended(p)'
  BY <1>1, <1>3 DEF FileInv, FileIsIntended, CopyIsIntended
<1>5. ~Rewriting(p) /\ InRunOnceCommand(p)'
  BY <1>1, <1>3 DEF Rewriting, InRunOnceCommand
<1> QED
  BY <1>1, <1>2, <1>3, <1>4, <1>5, RunOnceStep

(***************************************************************************)
(* The steps of run-once go by its copy.                                   *)
(***************************************************************************)
LEMMA RunKeepsFile ==
  ASSUME FileInv, NEW p \in Process, Register(p) \/ AllRegistered(p) \/ Run(p)
  PROVE  FileInv'
<1>t. FileTypeOK
  BY DEF FileInv
<1>1. /\ at[p] \in {"registering", "running"} /\ ~Rewriting(p)
      /\ UNCHANGED <<file, entries, changed, intended, asked, suspects, torn>>
      /\ Names(entries[p]) \subseteq FileName
  BY DEF Register, AllRegistered, Run, IsAt, Rewriting, Names
<1>2. CopyIsIntended(p)'
  BY <1>1 DEF FileInv, RunsTheCopy, CopyIsIntended, InRunOnceCommand
<1>3. /\ FileTypeOK'
      /\ \A q \in Process \ {p} : /\ at'[q] = at[q] /\ entries'[q] = entries[q]
                                  /\ left'[q] = left[q] /\ ran'[q] = ran[q]
  <2>1. CASE Register(p)
    <3>1. PICK n \in left[p] : left' = [left EXCEPT ![p] = @ \ {n}]
      BY <2>1 DEF Register
    <3>2. UNCHANGED <<at, ran>>
      BY <2>1 DEF Register
    <3> QED
      BY <1>t, <1>1, <3>1, <3>2 DEF FileTypeOK
  <2>2. CASE AllRegistered(p)
    BY <1>t, <1>1, <2>2 DEF AllRegistered, FileTypeOK
  <2>3. CASE Run(p)
    <3>1. PICK n \in left[p] : /\ left' = [left EXCEPT ![p] = @ \ {n}]
                               /\ ran' = [ran EXCEPT ![p] = @ \cup {n}]
      BY <2>3 DEF Run
    <3>2. UNCHANGED at
      BY <2>3 DEF Run
    <3> QED
      BY <1>t, <1>1, <3>1, <3>2 DEF FileTypeOK
  <2> QED
    BY <2>1, <2>2, <2>3
<1>4. \/ /\ at'[p] = "registering" /\ ran'[p] = {}
         /\ \A n \in Names(entries[p]) \ left'[p] : entries[p][n] > 0
      \/ /\ at'[p] = "running" /\ left'[p] \cup ran'[p] = Names(entries[p])
         /\ \A n \in Names(entries[p]) : entries[p][n] > 0
  <2>1. CASE Register(p)
    BY <1>t, <2>1 DEF Register, IsAt, FileTypeOK, FileInv, RunsTheCopy
  <2>2. CASE AllRegistered(p)
    BY <1>t, <2>2 DEF AllRegistered, IsAt, FileTypeOK, FileInv, RunsTheCopy
  <2>3. CASE Run(p)
    BY <1>t, <2>3 DEF Run, IsAt, FileTypeOK, FileInv, RunsTheCopy
  <2> QED
    BY <2>1, <2>2, <2>3
<1>5. InRunOnceCommand(p)'
  BY <1>4 DEF InRunOnceCommand
<1> QED
  BY <1>1, <1>2, <1>3, <1>4, <1>5, RunOnceStep

(***************************************************************************)
(* The invariant is inductive.                                             *)
(***************************************************************************)
LEMMA NextFileInv ==
  ASSUME FileInv, [FileNext]_fileVars
  PROVE  FileInv'
<1>1. CASE UNCHANGED fileVars
  BY <1>1, FileUntouched DEF fileVars
<1>2. ASSUME NEW p \in Process, NEW n \in FileName, scheduler_unregister(p, n) PROVE FileInv'
  BY <1>2, RewriteKeepsFile DEF scheduler_unregister
<1>3. ASSUME NEW p \in Process, NEW n \in FileName, NEW i \in FileInterval, scheduler_register(p, n, i)
      PROVE  FileInv'
  BY <1>3, RewriteKeepsFile DEF scheduler_register
<1>4. ASSUME NEW p \in Process, Truncate(p) PROVE FileInv'
  BY <1>4, TruncateKeepsFile
<1>5. ASSUME NEW p \in Process, Write(p) PROVE FileInv'
  BY <1>5, WriteKeepsFile
<1>6. ASSUME NEW p \in Process, Die(p) PROVE FileInv'
  BY <1>6, LeavingKeepsFile DEF Die, IsAt, Writing
<1>7. ASSUME NEW p \in Process, scheduler_run_once(p) PROVE FileInv'
  BY <1>7, RunOnceKeepsFile
<1>8. ASSUME NEW p \in Process, Register(p) \/ AllRegistered(p) \/ Run(p) PROVE FileInv'
  BY <1>8, RunKeepsFile
<1>9. ASSUME NEW p \in Process, RegisterRaises(p) \/ AllRun(p) PROVE FileInv'
  <2>1. ~Writing(p) /\ torn \in BOOLEAN
    BY <1>9 DEF RegisterRaises, AllRun, IsAt, Writing, FileInv, FileTypeOK
  <2> QED
    BY <1>9, <2>1, LeavingKeepsFile DEF RegisterRaises, AllRun
<1>10. ASSUME NEW p \in Process, scheduler_list(p) PROVE FileInv'
  BY <1>10, FileUntouched DEF scheduler_list
<1> QED
  BY <1>1, <1>2, <1>3, <1>4, <1>5, <1>6, <1>7, <1>8, <1>9, <1>10 DEF FileNext

(***************************************************************************)
(* A file that is not there holds what is intended.                        *)
(***************************************************************************)
LEMMA InitFileInv == FileInit => FileInv
<1> SUFFICES ASSUME FileInit PROVE FileInv
  OBVIOUS
<1> USE DEF FileInit
<1>1. Empty \in Entries
  BY DEF Empty, Entries
<1>2. FileTypeOK
  BY <1>1 DEF FileTypeOK, Readable, NoChange
<1>3. \A p \in Process : at[p] = "idle" /\ ran[p] = {}
  OBVIOUS
<1>4. file.text = "entries" /\ file.entries = Empty
  BY DEF Readable
<1>5. HoldsIntended /\ WritersAreSuspect /\ OneWriter /\ FileIsIntended /\ RunsTheCopy
  BY <1>3, <1>4 DEF HoldsIntended, WritersAreSuspect, OneWriter, FileIsIntended, RunsTheCopy,
                    Rewriting, Writing, InRunOnceCommand
<1> QED
  BY <1>2, <1>5 DEF FileInv

(***************************************************************************)
(* A change is lost or undone only by two commands that rewrite the file   *)
(* at a time, and then only of a name that one of them changes; and the    *)
(* file is undecodable only after two wrote at once or one died at it      *)
(* (cli.py 266-350): for any number of processes, names and commands.      *)
(***************************************************************************)
THEOREM OnlyRacesLose == FileSpec => []LostByRacesOnly
<1>1. FileInv => LostByRacesOnly
  BY DEF FileInv, OneWriter, FileIsIntended, LostByRacesOnly, IsAt, Writing,
         Truncated
<1>2. FileInv /\ [FileNext]_fileVars => FileInv'
  BY NextFileInv
<1> QED
  BY InitFileInv, <1>1, <1>2, PTL DEF FileSpec

(***************************************************************************)
(* What run-once has run is what the commands before it have asked for,    *)
(* whatever other commands do about it, but for names that two of them     *)
(* fought for or that are written while it runs (cli.py 322-350).          *)
(***************************************************************************)
THEOREM RunOnceIsFaithful == FileSpec => []RunOnceRunsWhatIsAsked
<1>1. ASSUME FileInv PROVE RunOnceRunsWhatIsAsked
  <2> SUFFICES ASSUME NEW p \in Process, ran[p] # {},
                      NEW n \in FileName \ (suspects \cup changed[p])
               PROVE  /\ intended[n] = None \/ intended[n] > 0
                      /\ n \in ran[p] => n \in Names(intended)
                      /\ left[p] = {} /\ n \in Names(intended) => n \in ran[p]
    BY DEF RunOnceRunsWhatIsAsked
  <2>1. at[p] = "running" /\ InRunOnceCommand(p)
    BY <1>1 DEF FileInv, RunsTheCopy, InRunOnceCommand
  <2>2. /\ entries[p][n] = intended[n]
        /\ \A m \in Names(entries[p]) : entries[p][m] > 0
        /\ left[p] \cup ran[p] = Names(entries[p])
    BY <1>1, <2>1 DEF FileInv, RunsTheCopy, CopyIsIntended
  <2> QED
    BY <2>2 DEF Names
<1>2. FileInv /\ [FileNext]_fileVars => FileInv'
  BY NextFileInv
<1> QED
  BY InitFileInv, <1>1, <1>2, PTL DEF FileSpec
=============================================================================
