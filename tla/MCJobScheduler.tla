--------------------------- MODULE MCJobScheduler ---------------------------
(* Instances of JobSafety for TLC. *)
EXTENDS JobSafety, TLC

CONSTANTS i1, i2, c1, c2, j1, j2

\* c1 calls into i1; the second client into the same or another instance.
SameHome  == [c \in Clients |-> i1]
OwnHome   == c1 :> i1 @@ c2 :> i2
Equal     == [j \in Jobs |-> 0]
Ranked    == [j \in Jobs |-> IF j = j1 THEN 0 ELSE 1]
Symmetry  == Permutations(Attempts)
=============================================================================
