-------------------------- MODULE EngineInvariant --------------------------
(***************************************************************************)
(* The inductive invariant behind the safety of a run, in named parts.     *)
(***************************************************************************)
EXTENDS EngineProperties

Walking   == {"walking", "putting", "marking"}
Visiting  == {"putting", "marking"}
Executing == {"starting", "calling", "failing", "backoff"}
Fresh     == {"absent", "pending", "upstream_failed"}

(***************************************************************************)
(* The batches go through the pool one after the other: all before the     *)
(* current one are done, all behind it are idle, and threads are at work   *)
(* only while run() waits for them.                                        *)
(***************************************************************************)
Pipeline ==
  /\ pc = "created" => wfState = "pending"
  /\ pc \in {"dispatch", "waiting", "finalize"} => wfState = "running"
  /\ \A t \in Task :
       /\ Batch[t] < batch => phase[t] = "done"
       /\ Batch[t] > batch => phase[t] = "idle"
       /\ phase[t] \notin {"idle"} \cup Over => pc = "waiting"
       /\ pc = "waiting" /\ Batch[t] = batch => phase[t] # "idle"
       /\ pc \in {"created", "dispatch"} /\ Batch[t] = batch => phase[t] = "idle"
       /\ pc \in {"finalize", "ended"} => phase[t] = "done"

(***************************************************************************)
(* What the record of a task may say while its thread is where it is.      *)
(***************************************************************************)
Fits(p, s, n, max) ==
  /\ p \in {"idle", "queued", "creating"} => s \in Fresh
  /\ p \in {"fetching", "scanning", "admit"} \cup Walking
       => s \in {"pending", "upstream_failed"}
  /\ p = "starting" => s \in {"pending", "retrying"}
  /\ p = "calling"  => s = "running"
  /\ p = "failing"  => s = "failed"
  /\ p = "backoff"  => s = "retrying"
  /\ p = "done"     => s \in {"success", "failed", "upstream_failed"}
  /\ p = "raised"   => s \in {"running", "success", "failed", "retrying"}
  /\ n <= max
  /\ n = 0 <=> s \in Fresh
  /\ s = "retrying" => n < max
  /\ s = "failed" /\ p \in Over => n = max

StateFitsPhase ==
  \A t \in Task : Fits(phase[t], state[t], attempts[t], MaxAttempts[t])

(***************************************************************************)
(* A thread past the scan is either admitted, all its dependencies having  *)
(* succeeded, or its record is blocked.                                    *)
(***************************************************************************)
UpstreamDone(t) == \A u \in Upstream[t] : state[u] = "success"

Admitted ==
  \A t \in Task :
    /\ attempts[t] > 0 \/ phase[t] \in Executing => UpstreamDone(t)
    /\ phase[t] = "admit" => UpstreamDone(t) \/ state[t] = "upstream_failed"

(***************************************************************************)
(* A walk starts from an exhausted failure above its own task, goes only   *)
(* to tasks below that failure, each of which has a dependency that did    *)
(* not succeed, and blocks its own task on the way.                        *)
(***************************************************************************)
Doomed(w, d) ==
  /\ state[d] \in Fresh
  /\ d \in Descendants[culprit[w]]
  /\ \E u \in Upstream[d] : u \in visited[w] \/ u = culprit[w]

WalkIsDoomed ==
  \A w \in Task :
    /\ phase[w] \in Walking =>
         /\ culprit[w] \in Upstream[w]
         /\ Exhausted(culprit[w]) /\ phase[culprit[w]] = "done"
         /\ w \in todo[w] \cup visited[w]
         /\ w \in visited[w] => state[w] = "upstream_failed"
         /\ \A d \in todo[w] \cup visited[w] : Doomed(w, d)
         /\ \A d \in visited[w] : state[d] # "absent"
    /\ phase[w] \notin Walking => todo[w] = {} /\ visited[w] = {}

(***************************************************************************)
(* The lock is held during a visit.  A record seen absent in the visit is  *)
(* at most just inserted, and its own thread cannot get past its walk.     *)
(***************************************************************************)
LockedVisit ==
  /\ \A w \in Task : lock = w <=> phase[w] \in Visiting
  /\ \A w \in Task : phase[w] \in Visiting => target \in todo[w]
  /\ \A w \in Task : phase[w] = "putting" =>
       /\ state[target] # "upstream_failed"
       /\ phase[target] \in {"idle", "queued", "creating", "fetching",
                             "scanning", "walking"}
       /\ visited[target] = {}
  /\ \A w \in Task : phase[w] = "marking" => state[target] # "absent"

(***************************************************************************)
(* Nobody leaves a dependent of a blocked task behind: while the record is *)
(* absent some walk still has to visit it, and when the batch of the       *)
(* blocked task is over the dependent is blocked for good.  A record that  *)
(* is pending before its thread has looked at it is about to be marked.    *)
(***************************************************************************)
BlockedSpreads ==
  /\ \A u \in Task : state[u] = "upstream_failed" =>
       \A d \in Downstream(u) : state[d] = "absent" =>
         \E w \in Task : phase[w] \in Walking /\ d \in todo[w]
  /\ \A d \in Task : state[d] = "pending" /\ phase[d] \in {"idle", "queued"} =>
       \E w \in Task : phase[w] = "marking" /\ target = d
  /\ \A u \in Task : state[u] = "upstream_failed" /\ Batch[u] < batch =>
       \A d \in Downstream(u) :
         /\ state[d] = "upstream_failed"
         /\ phase[d] \in {"idle", "queued", "fetching", "done"}

(***************************************************************************)
(* The error of a blocked record names an exhausted task above it, whose   *)
(* thread is done: what the property BlameIsReal says, and a step more.    *)
(***************************************************************************)
Blamed ==
  \A t \in Task : state[t] = "upstream_failed" =>
    /\ error[t] # None
    /\ Exhausted(error[t]) /\ phase[error[t]] = "done"
    /\ t \in Descendants[error[t]]

(***************************************************************************)
(* A thread that holds a lost record has not come to the second lookup.    *)
(***************************************************************************)
DetachedIsBeforeAdmission ==
  \A t \in detached : phase[t] \in {"scanning", "admit"} \cup Walking

(***************************************************************************)
(* A record that a thread has found absent and that is there now was       *)
(* inserted by the walk of another thread of the batch.                    *)
(***************************************************************************)
InsertedByPeer ==
  \A t \in Task : phase[t] = "creating" /\ state[t] # "absent" => HasPeer(t)

(***************************************************************************)
(* The state of a run that has returned is told by its records.            *)
(***************************************************************************)
Concluded ==
  pc = "ended" =>
    wfState = IF \E t \in Task : state[t] = "failed" THEN "failed" ELSE "success"

(***************************************************************************)
(* No batch is empty, and a walk has not visited what it is yet to visit.  *)
(***************************************************************************)
NothingTwice ==
  /\ \E t \in Task : Batch[t] = batch
  /\ \A w \in Task : todo[w] \cap visited[w] = {}

(***************************************************************************)
(* The inductive invariant: what holds of the threads, the records, the    *)
(* walks and the lock between any two steps of a run (engine.py 180-456).  *)
(***************************************************************************)
IInv ==
  /\ TypeOK
  /\ Pipeline
  /\ StateFitsPhase
  /\ Admitted
  /\ WalkIsDoomed
  /\ LockedVisit
  /\ BlockedSpreads
  /\ Blamed
  /\ DetachedIsBeforeAdmission
  /\ InsertedByPeer
  /\ Concluded
  /\ NothingTwice
=============================================================================
