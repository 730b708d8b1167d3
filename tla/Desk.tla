---------------------------------- MODULE Desk ----------------------------------
(***************************************************************************)
(* Commands typed at terminals that share one database (cli, main.py).  A  *)
(* command is a sequence of database statements; between two of them any   *)
(* other process may act, and the command may be killed.  What a process   *)
(* has read and has still to do is its stage, a record whose field `at`    *)
(* names the next statement.                                               *)
(***************************************************************************)
EXTENDS Integers, Sequences, FiniteSets

CONSTANTS Procs,    \* terminals, and daemons that write to the database
          MaxWork,  \* bound on the commands of one process
          NONE      \* no value

VARIABLES proc,   \* the stage each process is in
          quiet,  \* no other process has updated a row since the command began
          work    \* commands each process may still start

deskVars == <<proc, quiet, work>>

resting == [at |-> "idle"]

DeskInit ==
  /\ proc = [p \in Procs |-> resting]
  /\ quiet = [p \in Procs |-> TRUE]
  /\ work = [p \in Procs |-> MaxWork]

Goes(p, stage) == proc' = [proc EXCEPT ![p] = stage] /\ work' = work

Starts(p, stage) ==
  /\ proc[p] = resting /\ work[p] > 0
  /\ proc' = [proc EXCEPT ![p] = stage]
  /\ work' = [work EXCEPT ![p] = @ - 1]
  /\ quiet' = [quiet EXCEPT ![p] = TRUE]

\* A command of one statement.
Commands(t) == Starts(t, resting)

\* Process p changes a row: every command under way elsewhere has been overlapped.
Updates(p) == quiet' = [q \in Procs |-> proc[q] = resting \/ (q = p /\ quiet[q])]

\* The command ends where it is: an exception that reaches main(), or a kill.
Ends(p) ==
  /\ proc[p] # resting
  /\ Goes(p, resting)
  /\ quiet' = [quiet EXCEPT ![p] = TRUE]
=================================================================================
