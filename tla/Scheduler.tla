----------------------------- MODULE Scheduler -----------------------------
(***************************************************************************)
(* The local scheduler (scheduler.py): one caller, which registers         *)
(* schedules, starts and stops the background loop and may call run_once   *)
(* itself, and the loop threads that it has started. Nothing in the class  *)
(* is locked.                                                              *)
(***************************************************************************)
EXTENDS Integers, FiniteSets

CONSTANTS
  Name,      \* names of schedules; numbers, for run_once sorts them
  Interval,  \* what callers pass as interval_seconds, in whole steps of the
             \* clock: 0 is a positive one below a step, a negative one is refused
  MaxTime,   \* bound on the clock
  MaxCalls,  \* bound on the calls of the caller
  MaxLoops   \* bound on the threads it starts

ASSUME SchedulerAssumption ==
  /\ Name \subseteq Nat /\ IsFiniteSet(Name)
  /\ Interval \subseteq Int
  /\ MaxTime \in Nat \ {0} /\ MaxCalls \in Nat /\ MaxLoops \in Nat

Caller == 0
Loop   == 1 .. MaxLoops
Thread == {Caller} \cup Loop

Never  == 0
Absent == [interval |-> -1, last |-> Never]
NoScan == [now |-> 0, size |-> 0, left |-> 0, unseen |-> {}]

VARIABLES
  schedules,  \* the Schedule under each name, Absent when there is none
  event,      \* whether _stop_event is set
  thread,     \* _thread; Caller stands for None
  pc,         \* where each thread is
  scan,       \* the clock value and the iteration of each thread's due()
  todo,       \* how often each name is still to be run in its run_once
  name,       \* the schedule that it runs
  attached,   \* threads whose schedule is still the one in the registry
  now,        \* the clock, from 1
  calls,      \* how many calls the caller has made
  abandoned,  \* history: loops that a stop() did not wait for any longer
  saved,      \* history: when a run of the registered schedule was last saved
  disturbed,  \* history: threads in a run_once that met another run_once, or
              \* a registration of a new name while it iterated
  churned     \* history: threads in a run_once during which the caller put a
              \* name into the registry or took one out

registry == <<schedules, saved>>
loops    == <<event, thread, abandoned>>
clashes  == <<disturbed, churned>>
locals   == <<pc, scan, todo, name, attached, clashes>>
vars     == <<schedules, event, thread, pc, scan, todo, name, attached, now,
              calls, abandoned, saved, clashes>>

Nothing == [n \in Name |-> 0]

(***************************************************************************)
(* Some schedules have been registered before.                             *)
(***************************************************************************)
Init ==
  /\ schedules \in [Name -> {Absent} \cup
                       {[interval |-> i, last |-> Never] : i \in Interval \cap Nat}]
  /\ event = FALSE
  /\ thread = Caller
  /\ pc = [u \in Thread |-> IF u = Caller THEN "idle" ELSE "unborn"]
  /\ scan = [u \in Thread |-> NoScan]
  /\ todo = [u \in Thread |-> Nothing]
  /\ name = [u \in Thread |-> 0]
  /\ attached = {}
  /\ now = 1
  /\ calls = 0
  /\ abandoned = {}
  /\ saved = [n \in Name |-> Never]
  /\ disturbed = {}
  /\ churned = {}
-----------------------------------------------------------------------------
At(u, here) == pc[u] = here
Go(u, next) == pc' = [pc EXCEPT ![u] = next]

Live(l)    == ~At(l, "unborn") /\ ~At(l, "ended")
InRunOnce  == {u \in Thread : pc[u] \in {"scanning", "next", "running", "saved"}}
Scanning   == {u \in Thread : At(u, "scanning")}
Registered == {n \in Name : schedules[n] # Absent}

Calls == At(Caller, "idle") /\ calls < MaxCalls /\ calls' = calls + 1

Elapsed(n, t) == schedules[n].last = Never
                   \/ t - schedules[n].last >= schedules[n].interval
-----------------------------------------------------------------------------
(***************************************************************************)
(* A new Schedule under a name; a run that is under way keeps the old one. *)
(***************************************************************************)
Replace(n, schedule) ==
  /\ schedules' = [schedules EXCEPT ![n] = schedule]
  /\ saved' = [saved EXCEPT ![n] = Never]
  /\ attached' = {u \in attached : name[u] # n}

(***************************************************************************)
(* A new name goes to the end of the dict, where iterations that have      *)
(* begun will find it, even if they have seen it before; but if the dict   *)
(* is compacted meanwhile they skip as many entries as were removed        *)
(* before.                                                                 *)
(***************************************************************************)
Append(n) ==
  /\ \E skipped \in [Scanning -> SUBSET Name] :
       scan' = [u \in Thread |->
                  IF u \in Scanning
                    THEN [scan[u] EXCEPT !.unseen = (@ \cup {n}) \ skipped[u]]
                    ELSE scan[u]]
  /\ disturbed' = disturbed \cup Scanning
  /\ churned' = churned \cup InRunOnce

register(n, interval) ==
  /\ Calls
  /\ interval >= 0
  /\ Replace(n, [interval |-> interval, last |-> Never])
  /\ IF n \in Registered THEN UNCHANGED <<scan, clashes>> ELSE Append(n)
  /\ UNCHANGED <<loops, pc, todo, name, now>>

unregister(n) ==
  /\ Calls
  /\ Replace(n, Absent)
  /\ scan' = [u \in Thread |-> [scan[u] EXCEPT !.unseen = @ \ {n}]]
  /\ churned' = IF n \in Registered THEN churned \cup InRunOnce ELSE churned
  /\ UNCHANGED <<loops, pc, todo, name, now, disturbed>>
-----------------------------------------------------------------------------
(***************************************************************************)
(* What a thread does after its run_once: the caller returns, a loop       *)
(* sleeps and polls again; and what an exception does: it ends a loop.     *)
(***************************************************************************)
Leave(u, next) ==
  /\ Go(u, next)
  /\ todo' = [todo EXCEPT ![u] = Nothing]
  /\ scan' = [scan EXCEPT ![u] = NoScan]
  /\ name' = [name EXCEPT ![u] = 0]
  /\ attached' = attached \ {u}
  /\ disturbed' = disturbed \ {u}
  /\ churned' = churned \ {u}
  /\ UNCHANGED <<registry, loops, now, calls>>

Raise(u) == Leave(u, IF u = Caller THEN "idle" ELSE "ended")

(***************************************************************************)
(* Wrong: a loop polls without a look at the event.                        *)
(***************************************************************************)
BeginDeaf(u) ==
  /\ IF u = Caller THEN Calls ELSE At(u, "polling") /\ UNCHANGED calls
  /\ Go(u, "scanning")
  /\ scan' = [scan EXCEPT ![u] =
                [now |-> now, size |-> Cardinality(Registered),
                 left |-> Cardinality(Registered), unseen |-> Registered]]
  /\ disturbed' = IF InRunOnce = {} THEN disturbed ELSE InRunOnce \cup {u}
  /\ UNCHANGED <<registry, loops, todo, name, attached, now, churned>>

(***************************************************************************)
(* run_once reads the clock and starts to iterate over the registry: when  *)
(* the caller calls it, or a loop that finds the event clear.              *)
(***************************************************************************)
Begin(u) ==
  /\ IF u = Caller THEN Calls ELSE At(u, "polling") /\ ~event /\ UNCHANGED calls
  /\ Go(u, "scanning")
  /\ scan' = [scan EXCEPT ![u] =
                [now |-> now, size |-> Cardinality(Registered),
                 left |-> Cardinality(Registered), unseen |-> Registered]]
  /\ disturbed' = IF InRunOnce = {} THEN disturbed ELSE InRunOnce \cup {u}
  /\ UNCHANGED <<registry, loops, todo, name, attached, now, churned>>

(***************************************************************************)
(* due(), one entry of the dict after the other.                           *)
(***************************************************************************)
Visit(u) ==
  /\ At(u, "scanning")
  /\ Cardinality(Registered) = scan[u].size
  /\ scan[u].left > 0
  /\ \E n \in scan[u].unseen :
       /\ scan' = [scan EXCEPT ![u].unseen = @ \ {n}, ![u].left = @ - 1]
       /\ todo' = IF Elapsed(n, scan[u].now) THEN [todo EXCEPT ![u][n] = @ + 1] ELSE todo
  /\ UNCHANGED <<registry, loops, pc, name, attached, now, calls, clashes>>

Scanned(u) ==
  /\ At(u, "scanning")
  /\ Cardinality(Registered) = scan[u].size
  /\ scan[u].unseen = {}
  /\ scan' = [scan EXCEPT ![u] = NoScan]
  /\ Go(u, "next")
  /\ UNCHANGED <<registry, loops, todo, name, attached, now, calls, clashes>>

(***************************************************************************)
(* RuntimeError: the dict changed its size during the iteration, or there  *)
(* is more in it than there was when the iteration began.                  *)
(***************************************************************************)
ScanRaises(u) ==
  /\ At(u, "scanning")
  /\ \/ Cardinality(Registered) # scan[u].size
     \/ scan[u].left = 0 /\ scan[u].unseen # {}
  /\ Raise(u)

IsNext(u, n) ==
  /\ todo[u][n] > 0
  /\ \A m \in Name : todo[u][m] > 0 => n <= m

Lookup(u) ==
  /\ At(u, "next")
  /\ \E n \in Registered :
       /\ IsNext(u, n)
       /\ todo' = [todo EXCEPT ![u][n] = @ - 1]
       /\ name' = [name EXCEPT ![u] = n]
  /\ attached' = attached \cup {u}
  /\ Go(u, "running")
  /\ UNCHANGED <<registry, loops, scan, now, calls, clashes>>

(***************************************************************************)
(* KeyError: the schedule was unregistered since it was found due.         *)
(***************************************************************************)
LookupRaises(u) ==
  /\ At(u, "next")
  /\ \E n \in Name \ Registered : IsNext(u, n)
  /\ Raise(u)

(***************************************************************************)
(* The run has ended, or could not be made, and is saved.                  *)
(***************************************************************************)
Save(u) ==
  /\ At(u, "running")
  /\ saved' = IF u \in attached THEN [saved EXCEPT ![name[u]] = now] ELSE saved
  /\ Go(u, "saved")
  /\ UNCHANGED <<schedules, loops, scan, todo, name, attached, now, calls, clashes>>

(***************************************************************************)
(* What is no OrchestrationError leaves run_once: from loading, from the   *)
(* run itself, or from save_run.                                           *)
(***************************************************************************)
RunRaises(u) ==
  /\ At(u, "running")
  /\ Raise(u)

(***************************************************************************)
(* Wrong: only the first run is stamped.                                   *)
(***************************************************************************)
StampFirst(u) ==
  /\ At(u, "saved")
  /\ schedules' = IF u \in attached /\ schedules[name[u]].last = Never
                    THEN [schedules EXCEPT ![name[u]].last = now] ELSE schedules
  /\ name' = [name EXCEPT ![u] = 0]
  /\ attached' = attached \ {u}
  /\ Go(u, "next")
  /\ UNCHANGED <<loops, scan, todo, now, calls, saved, clashes>>

(***************************************************************************)
(* Wrong: after a run the loop polls again, and so looks for what is due   *)
(* anew.                                                                   *)
(***************************************************************************)
StampAndPoll(u) ==
  /\ At(u, "saved")
  /\ schedules' = IF u \in attached
                    THEN [schedules EXCEPT ![name[u]].last = now] ELSE schedules
  /\ name' = [name EXCEPT ![u] = 0]
  /\ attached' = attached \ {u}
  /\ todo' = [todo EXCEPT ![u] = Nothing]
  /\ Go(u, IF u = Caller THEN "idle" ELSE "polling")
  /\ UNCHANGED <<loops, scan, now, calls, saved, clashes>>

(***************************************************************************)
(* Wrong: a schedule is taken out once it has run.                         *)
(***************************************************************************)
StampAndRemove(u) ==
  /\ At(u, "saved")
  /\ schedules' = IF u \in attached THEN [schedules EXCEPT ![name[u]] = Absent] ELSE schedules
  /\ saved' = IF u \in attached THEN [saved EXCEPT ![name[u]] = Never] ELSE saved
  /\ scan' = [v \in Thread |-> IF u \in attached
                                THEN [scan[v] EXCEPT !.unseen = @ \ {name[u]}] ELSE scan[v]]
  /\ name' = [name EXCEPT ![u] = 0]
  /\ attached' = {v \in attached : name[v] # name[u]}
  /\ Go(u, "next")
  /\ UNCHANGED <<loops, todo, now, calls, clashes>>

(***************************************************************************)
(* Wrong: the stamp goes to whatever is registered under the name by now.  *)
(***************************************************************************)
StampByName(u) ==
  /\ At(u, "saved")
  /\ schedules' = IF name[u] \in Registered
                    THEN [schedules EXCEPT ![name[u]].last = now] ELSE schedules
  /\ name' = [name EXCEPT ![u] = 0]
  /\ attached' = attached \ {u}
  /\ Go(u, "next")
  /\ UNCHANGED <<loops, scan, todo, now, calls, saved, clashes>>

(***************************************************************************)
(* last_run_at is set in the Schedule that was looked up.                  *)
(***************************************************************************)
Stamp(u) ==
  /\ At(u, "saved")
  /\ schedules' = IF u \in attached
                    THEN [schedules EXCEPT ![name[u]].last = now] ELSE schedules
  /\ name' = [name EXCEPT ![u] = 0]
  /\ attached' = attached \ {u}
  /\ Go(u, "next")
  /\ UNCHANGED <<loops, scan, todo, now, calls, saved, clashes>>

Finish(u) ==
  /\ At(u, "next")
  /\ todo[u] = Nothing
  /\ Leave(u, IF u = Caller THEN "idle" ELSE "polling")

run_once(u) ==
  \/ Begin(u) \/ Visit(u) \/ Scanned(u) \/ ScanRaises(u)
  \/ Lookup(u) \/ LookupRaises(u) \/ Save(u) \/ RunRaises(u) \/ Stamp(u)
  \/ Finish(u)
-----------------------------------------------------------------------------
(***************************************************************************)
(* Wrong: start() does not ask whether the thread is alive.                *)
(***************************************************************************)
start_unchecked ==
  /\ Calls
  /\ event' = FALSE
  /\ \E l \in Loop :
       /\ At(l, "unborn") /\ \A k \in 1 .. l - 1 : ~At(k, "unborn")
       /\ thread' = l
       /\ Go(l, "polling")
  /\ UNCHANGED <<registry, scan, todo, name, attached, now, abandoned, clashes>>

(***************************************************************************)
(* start() raises RuntimeError, and changes nothing, while _thread is      *)
(* alive.                                                                  *)
(***************************************************************************)
start ==
  /\ Calls
  /\ ~(thread # Caller /\ Live(thread))
  /\ event' = FALSE
  /\ \E l \in Loop :
       /\ At(l, "unborn") /\ \A k \in 1 .. l - 1 : ~At(k, "unborn")
       /\ thread' = l
       /\ Go(l, "polling")
  /\ UNCHANGED <<registry, scan, todo, name, attached, now, abandoned, clashes>>

(***************************************************************************)
(* stop() sets the event and, when there is a thread, joins it.            *)
(***************************************************************************)
stop ==
  /\ Calls
  /\ event' = TRUE
  /\ Go(Caller, IF thread = Caller THEN "idle" ELSE "joining")
  /\ UNCHANGED <<registry, thread, abandoned, scan, todo, name, attached, now, clashes>>

(***************************************************************************)
(* The join returns when the thread has ended, or when its timeout is      *)
(* over; either way the thread is forgotten.                               *)
(***************************************************************************)
Joined ==
  /\ At(Caller, "joining")
  /\ thread' = Caller
  /\ abandoned' = IF Live(thread) THEN abandoned \cup {thread} ELSE abandoned
  /\ Go(Caller, "idle")
  /\ UNCHANGED <<registry, event, scan, todo, name, attached, now, calls, clashes>>

LoopEnds(l) ==
  /\ At(l, "polling")
  /\ event
  /\ Go(l, "ended")
  /\ UNCHANGED <<registry, loops, scan, todo, name, attached, now, calls, clashes>>

Tick ==
  /\ now < MaxTime
  /\ now' = now + 1
  /\ UNCHANGED <<registry, loops, locals, calls>>

Next ==
  \/ \E n \in Name : unregister(n) \/ \E i \in Interval : register(n, i)
  \/ start \/ stop \/ Joined
  \/ \E u \in Thread : run_once(u)
  \/ \E l \in Loop : LoopEnds(l)
  \/ Tick

Spec == Init /\ [][Next]_vars

(***************************************************************************)
(* A loop goes on for as long as it lives: no run hangs.                   *)
(***************************************************************************)
FairSpec == Spec /\ \A l \in Loop : WF_vars(run_once(l) \/ LoopEnds(l))
-----------------------------------------------------------------------------
SchedulerTypeOK ==
  /\ schedules \in [Name -> [interval : Int, last : 0 .. MaxTime]]
  /\ event \in BOOLEAN
  /\ thread \in Thread
  /\ pc \in [Thread -> {"idle", "unborn", "polling", "scanning", "next", "running",
                        "saved", "joining", "ended"}]
  /\ scan \in [Thread -> [now : 0 .. MaxTime, size : Nat, left : Nat,
                       unseen : SUBSET Name]]
  /\ todo \in [Thread -> [Name -> Nat]]
  /\ name \in [Thread -> Name \cup {0}]
  /\ attached \subseteq Thread /\ abandoned \subseteq Loop /\ disturbed \subseteq Thread
  /\ churned \subseteq Thread
  /\ now \in 1 .. MaxTime /\ calls \in 0 .. MaxCalls
  /\ saved \in [Name -> 0 .. MaxTime]

(***************************************************************************)
(* "start spawns one thread" (8): a live loop is either the one that start *)
(* and stop know of, or one whose stop has timed out; and a caller that    *)
(* joins has a thread to join, and the event is set.                       *)
(***************************************************************************)
OneLoop ==
  /\ At(Caller, "joining") => thread # Caller /\ event
  /\ \A l \in Loop : Live(l) => l = thread \/ l \in abandoned

(***************************************************************************)
(* A thread that is in a run_once is there with what it needs.             *)
(***************************************************************************)
LocalsFit ==
  \A u \in Thread :
    /\ (At(u, "running") \/ At(u, "saved")) => name[u] \in Name
    /\ u \in attached =>
         /\ At(u, "running") \/ (At(u, "saved") /\ saved[name[u]] # Never)
         /\ name[u] \in Registered
    /\ scan[u].unseen \subseteq Registered

(***************************************************************************)
(* The types, the loops and the locals.                                    *)
(***************************************************************************)
ThreadsFit == SchedulerTypeOK /\ OneLoop /\ LocalsFit

(***************************************************************************)
(* A stamp is not before the save, once whoever saved has got to it;       *)
(* nobody is to run anything outside of a run_once.                        *)
(***************************************************************************)
StampsFollow ==
  /\ \A n \in Name : saved[n] <= now
  /\ \A n \in Name : saved[n] # Never =>
       \/ schedules[n].last >= saved[n]
       \/ \E u \in attached : At(u, "saved") /\ name[u] = n
  /\ \A u \in Thread \ InRunOnce, n \in Name : todo[u][n] = 0

(***************************************************************************)
(* A thread that is in a run_once undisturbed is the only one, has found   *)
(* each schedule at most once, and will run what it has found only if the  *)
(* interval has passed.                                                    *)
(***************************************************************************)
Alone(u) ==
  /\ InRunOnce = {u}
  /\ scan[u].now <= now
  /\ \A n \in Name :
       /\ todo[u][n] <= 1
       /\ n \in scan[u].unseen => todo[u][n] = 0
       /\ (At(u, "running") \/ At(u, "saved")) /\ name[u] = n => todo[u][n] = 0
       /\ todo[u][n] > 0 =>
            saved[n] = Never \/ now - saved[n] >= schedules[n].interval

(***************************************************************************)
(* A thread in a run_once during which the caller leaves the names alone   *)
(* finds the dict as large as it was, with as many entries ahead as it     *)
(* counts, and will find under its name whatever it is to run.             *)
(***************************************************************************)
Steady(u) ==
  /\ At(u, "scanning") => /\ scan[u].size = Cardinality(Registered)
                          /\ scan[u].left = Cardinality(scan[u].unseen)
  /\ \A n \in Name : todo[u][n] > 0 => n \in Registered

(***************************************************************************)
(* The inductive invariant.                                                *)
(***************************************************************************)
SchedulerInv ==
  /\ ThreadsFit
  /\ StampsFollow
  /\ \A u \in InRunOnce \ disturbed : Alone(u)
  /\ \A u \in InRunOnce \ churned : Steady(u)

(***************************************************************************)
(* Registering a name again starts it over (78): what is registered and    *)
(* has had no run of its own saved has no last_run_at, so that it is due   *)
(* at once, even when a run of the Schedule that it replaced was under     *)
(* way.                                                                    *)
(***************************************************************************)
RegistrationsStartOver ==
  \A n \in Name : schedules[n].last # Never => saved[n] # Never

(***************************************************************************)
(* A schedule runs again when its interval has passed since its last run   *)
(* was saved (101), unless two run_once met, or a name was taken out and   *)
(* put back under the eyes of due().                                       *)
(***************************************************************************)
IntervalsAreKept ==
  [][\A u \in Thread :
       At(u, "next") /\ pc'[u] = "running" /\ u \notin disturbed =>
         LET n == name'[u]
         IN  saved[n] = Never \/ now - saved[n] >= schedules[n].interval]_vars

(***************************************************************************)
(* What can end a loop other than stop(): an exception of the run itself   *)
(* (115-117), or that the caller put a name into the registry or took one  *)
(* out during the loop's run_once (98, 114). Neither a registration that   *)
(* replaces one, nor the removal of an unknown name, nor any run_once of   *)
(* other threads does it.                                                  *)
(***************************************************************************)
LoopsEndForAReason ==
  [][\A l \in Loop :
       Live(l) /\ pc'[l] = "ended" => event \/ At(l, "running") \/ l \in churned]_vars

(***************************************************************************)
(* While a loop lives, what is due is run: schedules that sort before it,  *)
(* be they due at every poll, changes to the registry and other threads    *)
(* may delay it, and what they can do worse is to end the loop.            *)
(***************************************************************************)
DueIsRun ==
  \A l \in Loop, n \in Name :
    Live(l) /\ n \in Registered /\ Elapsed(n, now)
      ~> \/ \E u \in Thread : At(u, "running") /\ name[u] = n
         \/ ~Live(l) \/ ~(n \in Registered /\ Elapsed(n, now))

(***************************************************************************)
(* A loop that lives when stop() sets the event ends, unless start() comes *)
(* before it has seen it.                                                  *)
(***************************************************************************)
StopEndsLoops ==
  \A l \in Loop : Live(l) /\ event ~> ~Live(l) \/ ~event

(***************************************************************************)
(* The loop polls "until Scheduler.stop" (9): one that stop() has given up *)
(* waiting for ends all the same.                                          *)
(***************************************************************************)
StoppedLoopsEnd ==
  \A l \in Loop : l \in abandoned ~> ~Live(l)
=============================================================================
