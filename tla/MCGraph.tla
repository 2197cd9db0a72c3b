------------------------------ MODULE MCGraph ------------------------------
(***************************************************************************)
(* Every graph on a few ids, for the two searches of dag.py.               *)
(***************************************************************************)
EXTENDS Integers

(***************************************************************************)
(* Graphs in which any id may be left unregistered and still be named.     *)
(***************************************************************************)
BulkId == 1 .. 3
BulkWorkflows ==
  [tasks : SUBSET BulkId,
   dependencies : UNION {[keys -> SUBSET BulkId] : keys \in SUBSET BulkId}]

(***************************************************************************)
(* What add_task and add_dependency can build from four tasks: nothing     *)
(* unregistered, nothing that depends on itself.                           *)
(***************************************************************************)
BuiltId == 1 .. 4
BuiltWorkflows ==
  [tasks : {BuiltId},
   dependencies : {d \in [BuiltId -> SUBSET BuiltId] : \A t \in BuiltId : t \notin d[t]}]

(***************************************************************************)
(* Both kinds together, on ids 1 to 4.                                     *)
(***************************************************************************)
AllWorkflows == BulkWorkflows \cup BuiltWorkflows
=============================================================================
