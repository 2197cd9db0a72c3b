----------------------------- MODULE MCRunStore -----------------------------
(***************************************************************************)
(* An instance of the run store for TLC.  Threads 1 and 2 share a process, *)
(* as the scheduler's thread and its caller do; 3 is another process.  Run *)
(* 1 is long enough to be saved, loaded and saved again; run 2 is one that *)
(* the scheduler could not start: one point, no started_at, no records.    *)
(***************************************************************************)
EXTENDS StoreInvariant

MCProcess   == {"P", "Q"}
MCThread    == 1 .. 3
MCProcessOf == <<"P", "P", "Q">>
MCRun       == 1 .. 2
MCStartedAt == <<1, 0>>
MCOwner     == <<1, 1>>
MCUses      == <<{}, {"show", "cancel"}, {"cancel", "status"}>>
MCTask      == {"t"}

At1(state, record) == [state |-> state, records |-> [t |-> record]]

MCLife ==
  <<<<At1("running", "retrying"), At1("success", "success")>>,
    <<[state |-> "failed", records |-> <<>>]>>>>
=============================================================================
