--------------------------- MODULE MCScheduleFile ---------------------------
(***************************************************************************)
(* An instance of the schedules file for TLC: three commands at a time,    *)
(* one of the two intervals refused by Scheduler.register.                 *)
(***************************************************************************)
EXTENDS ScheduleFile

MCProcess      == 1 .. 3
MCFileName     == 1 .. 2
MCFileInterval == {0, 1}
=============================================================================
