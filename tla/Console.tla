--------------------------------- MODULE Console ---------------------------------
(***************************************************************************)
(* What the commands of a desk put on the screen.  A command that only     *)
(* reads is one step: all it does is tell what it has read.                *)
(***************************************************************************)
EXTENDS Desk

VARIABLE told  \* told[p]: the last answer of process p

consoleVars == <<deskVars, told>>

ConsoleInit == told = [p \in Procs |-> NONE]

Tells(p, answer) == told' = [told EXCEPT ![p] = answer]

\* A command of one statement that changes no row.
Reads(t, answer) == Commands(t) /\ Tells(t, answer)

\* A command that ends without having changed anything more.
Refuses(p) == Ends(p) /\ UNCHANGED told
=================================================================================
