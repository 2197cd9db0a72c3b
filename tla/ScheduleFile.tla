---------------------------- MODULE ScheduleFile ----------------------------
(***************************************************************************)
(* The schedules file behind the scheduler commands of the command line    *)
(* (cli.py): every command is a process of its own, which reads the whole  *)
(* file and may write it anew. Nothing locks the file, and a process may   *)
(* die at any point.                                                       *)
(***************************************************************************)
EXTENDS Integers

CONSTANTS
  Process,       \* the commands that may be under way at a time
  FileName,      \* names of workflows; numbers, for run-once sorts them
  FileInterval,  \* what --interval is given; any number passes
  MaxCommands    \* bound on the commands in all

None == -1    \* not an entry

ASSUME FileAssumption ==
  /\ FileName \subseteq Nat
  /\ FileInterval \subseteq Int \ {None}
  /\ MaxCommands \in Nat

Entries  == [FileName -> FileInterval \cup {None}]
Empty    == [n \in FileName |-> None]
NoChange == [name |-> None, to |-> None]

VARIABLES
  file,      \* what kind of text is in the file, and its entries
  at,        \* where each process is
  entries,   \* the entries that it has read, or is about to write
  left,      \* the schedules that its run-once is still to register, or to run
  ran,       \* the schedules that it has run
  commands,  \* how many commands there have been
  intended,  \* history: the entries when every command that has written
             \* changes what it is asked to and nothing else
  asked,     \* history: what each process is to change, and to what
  suspects,  \* history: names changed by commands that were not alone
  changed,   \* history: names written since each run-once read the file
  torn       \* history: two processes wrote at once, or one died at it

runOnce  == <<left, ran, changed>>
fileVars == <<file, at, entries, runOnce, commands, intended, asked, suspects, torn>>

Readable(es) == [text |-> "entries", entries |-> es]
Truncated    == [text |-> "none", entries |-> Empty]
Garbled      == [text |-> "garbled", entries |-> Empty]

(***************************************************************************)
(* A file that is not there is read as one without entries.                *)
(***************************************************************************)
FileInit ==
  /\ file = Readable(Empty)
  /\ at = [p \in Process |-> "idle"]
  /\ entries = [p \in Process |-> Empty]
  /\ left = [p \in Process |-> {}]
  /\ ran = [p \in Process |-> {}]
  /\ changed = [p \in Process |-> {}]
  /\ commands = 0
  /\ intended = Empty
  /\ asked = [p \in Process |-> NoChange]
  /\ suspects = {}
  /\ torn = FALSE
-----------------------------------------------------------------------------
IsAt(p, here) == at[p] = here

Names(es) == {n \in FileName : es[n] # None}

(***************************************************************************)
(* A command that starts finds the file readable, or dies of it with the   *)
(* JSONDecodeError that nobody catches, and has changed nothing.           *)
(***************************************************************************)
Read(p) ==
  /\ IsAt(p, "idle")
  /\ commands < MaxCommands
  /\ commands' = commands + 1
  /\ file.text = "entries"

(***************************************************************************)
(* It goes on to rewrite the file with es, in which n is to be changed.    *)
(***************************************************************************)
Rewrite(p, n, to, es) ==
  /\ at' = [at EXCEPT ![p] = "rewriting"]
  /\ entries' = [entries EXCEPT ![p] = es]
  /\ asked' = [asked EXCEPT ![p] = [name |-> n, to |-> to]]
  /\ UNCHANGED <<file, runOnce, intended, suspects, torn>>

Exit(p) ==
  /\ at' = [at EXCEPT ![p] = "idle"]
  /\ entries' = [entries EXCEPT ![p] = Empty]
  /\ left' = [left EXCEPT ![p] = {}]
  /\ ran' = [ran EXCEPT ![p] = {}]
  /\ asked' = [asked EXCEPT ![p] = NoChange]

(***************************************************************************)
(* Wrong: an entry that is there already is left as it is.                 *)
(***************************************************************************)
scheduler_register_kept(p, n, interval) ==
  /\ Read(p)
  /\ Rewrite(p, n, interval, IF file.entries[n] = None
                               THEN [file.entries EXCEPT ![n] = interval]
                               ELSE file.entries)

(***************************************************************************)
(* scheduler register: the entry of the name is replaced, whatever the     *)
(* interval is.                                                            *)
(***************************************************************************)
scheduler_register(p, n, interval) ==
  /\ Read(p)
  /\ Rewrite(p, n, interval, [file.entries EXCEPT ![n] = interval])

(***************************************************************************)
(* scheduler unregister; what is not there is refused.                     *)
(***************************************************************************)
scheduler_unregister(p, n) ==
  /\ Read(p)
  /\ n \in Names(file.entries)
  /\ Rewrite(p, n, None, [file.entries EXCEPT ![n] = None])

Truncate(p) ==
  /\ IsAt(p, "rewriting")
  /\ file' = Truncated
  /\ at' = [at EXCEPT ![p] = "writing"]
  /\ LET writing == {q \in Process : IsAt(q, "writing")}
         alone   == \A q \in Process \ {p} : ~IsAt(q, "rewriting") /\ ~IsAt(q, "writing")
     IN  /\ suspects' = suspects \cup {asked[q].name : q \in writing}
                                 \cup (IF alone THEN {} ELSE {asked[p].name})
         /\ torn' = (torn \/ writing # {})
  /\ UNCHANGED <<entries, runOnce, commands, intended, asked>>

InRunOnceCommand(p) == at[p] \in {"registering", "running"}

(***************************************************************************)
(* The text is written from the start of the file. If another process has  *)
(* written since it was truncated, what is longer there stays at the end,  *)
(* and the whole is no JSON; a text with more entries is the longer one,   *)
(* and of two others either may be.                                        *)
(***************************************************************************)
Write(p) ==
  /\ IsAt(p, "writing")
  /\ LET longer == /\ file.text # "garbled"
                   /\ \A n \in FileName : file.entries[n] \in {None, entries[p][n]}
     IN  file' \in {Readable(entries[p])} \cup IF longer THEN {} ELSE {Garbled}
  /\ intended' = [intended EXCEPT ![asked[p].name] = asked[p].to]
  /\ changed' = [q \in Process |-> IF InRunOnceCommand(q) THEN changed[q] \cup {asked[p].name}
                                  ELSE changed[q]]
  /\ Exit(p)
  /\ UNCHANGED <<commands, suspects, torn>>

(***************************************************************************)
(* A process that is killed, or whose write or run raises.                 *)
(***************************************************************************)
Die(p) ==
  /\ ~IsAt(p, "idle")
  /\ torn' = (torn \/ IsAt(p, "writing"))
  /\ Exit(p)
  /\ changed' = [changed EXCEPT ![p] = {}]
  /\ UNCHANGED <<file, commands, intended, suspects>>
-----------------------------------------------------------------------------
(***************************************************************************)
(* scheduler run-once goes by the entries that it has read, whatever is    *)
(* written to the file from then on.                                       *)
(***************************************************************************)
scheduler_run_once(p) ==
  /\ Read(p)
  /\ Names(file.entries) # {}
  /\ at' = [at EXCEPT ![p] = "registering"]
  /\ entries' = [entries EXCEPT ![p] = file.entries]
  /\ left' = [left EXCEPT ![p] = Names(file.entries)]
  /\ UNCHANGED <<file, ran, changed, intended, asked, suspects, torn>>

(***************************************************************************)
(* Wrong: Scheduler.register takes any interval.                           *)
(***************************************************************************)
RegisterUnchecked(p) ==
  /\ IsAt(p, "registering")
  /\ \E n \in left[p] : left' = [left EXCEPT ![p] = @ \ {n}]
  /\ UNCHANGED <<file, at, entries, ran, changed, commands, intended, asked, suspects, torn>>

(***************************************************************************)
(* The entries are registered with a new Scheduler one by one, in the      *)
(* order of the file, which the model leaves open.                         *)
(***************************************************************************)
Register(p) ==
  /\ IsAt(p, "registering")
  /\ \E n \in left[p] : /\ entries[p][n] > 0
                        /\ left' = [left EXCEPT ![p] = @ \ {n}]
  /\ UNCHANGED <<file, at, entries, ran, changed, commands, intended, asked, suspects, torn>>

(***************************************************************************)
(* The command ends of the ValueError of an interval that is refused.      *)
(***************************************************************************)
RegisterRaises(p) ==
  /\ IsAt(p, "registering")
  /\ \E n \in left[p] : entries[p][n] <= 0
  /\ Exit(p)
  /\ changed' = [changed EXCEPT ![p] = {}]
  /\ UNCHANGED <<file, commands, intended, suspects, torn>>

(***************************************************************************)
(* All the schedules are due, for none of them has a last_run_at.          *)
(***************************************************************************)
AllRegistered(p) ==
  /\ IsAt(p, "registering")
  /\ left[p] = {}
  /\ at' = [at EXCEPT ![p] = "running"]
  /\ left' = [left EXCEPT ![p] = Names(entries[p])]
  /\ UNCHANGED <<file, entries, ran, changed, commands, intended, asked, suspects, torn>>

(***************************************************************************)
(* One schedule after the other in the order of their names.               *)
(***************************************************************************)
Run(p) ==
  /\ IsAt(p, "running")
  /\ \E n \in left[p] :
       /\ \A m \in left[p] : n <= m
       /\ left' = [left EXCEPT ![p] = @ \ {n}]
       /\ ran' = [ran EXCEPT ![p] = @ \cup {n}]
  /\ UNCHANGED <<file, at, entries, changed, commands, intended, asked, suspects, torn>>

AllRun(p) ==
  /\ IsAt(p, "running")
  /\ left[p] = {}
  /\ Exit(p)
  /\ changed' = [changed EXCEPT ![p] = {}]
  /\ UNCHANGED <<file, commands, intended, suspects, torn>>

(***************************************************************************)
(* scheduler list only reads.                                              *)
(***************************************************************************)
scheduler_list(p) ==
  /\ Read(p)
  /\ UNCHANGED <<file, at, entries, runOnce, intended, asked, suspects, torn>>

FileNext ==
  \E p \in Process :
    \/ \E n \in FileName : \/ scheduler_unregister(p, n)
                          \/ \E i \in FileInterval : scheduler_register(p, n, i)
    \/ Truncate(p) \/ Write(p) \/ Die(p)
    \/ scheduler_run_once(p) \/ Register(p) \/ RegisterRaises(p) \/ AllRegistered(p)
    \/ Run(p) \/ AllRun(p)
    \/ scheduler_list(p)

FileSpec == FileInit /\ [][FileNext]_fileVars
-----------------------------------------------------------------------------
(***************************************************************************)
(* What a command has changed stays until another changes it, and the file *)
(* can be read, but for two cases (cli.py 275). A name is lost, or comes   *)
(* back, only when two commands rewrite the file at a time, and then only  *)
(* a name that one of them changes; the file becomes undecodable only when *)
(* two write at once, or one dies in the middle. Everything else does no   *)
(* harm: readers, refused commands, commands that die earlier or later.    *)
(***************************************************************************)
LostByRacesOnly ==
  (\A p \in Process : ~IsAt(p, "writing")) =>
    /\ file.text = "entries" \/ torn
    /\ file.text = "entries" => \A n \in FileName \ suspects : file.entries[n] = intended[n]

(***************************************************************************)
(* What run-once has run is what the commands before it have asked for     *)
(* (cli.py 322-350), with whatever commands about it: leaving aside names  *)
(* that two commands fought for and names written since it read the file,  *)
(* one schedule whose interval is not positive, which register accepts     *)
(* (293), keeps it from running any; it runs none that has been            *)
(* unregistered; and in the end it has run all that are registered.        *)
(***************************************************************************)
RunOnceRunsWhatIsAsked ==
  \A p \in Process :
    LET known == FileName \ (suspects \cup changed[p]) IN
    ran[p] # {} =>
      /\ \A n \in known : intended[n] = None \/ intended[n] > 0
      /\ ran[p] \cap known \subseteq Names(intended)
      /\ left[p] = {} => known \cap Names(intended) \subseteq ran[p]
=============================================================================
