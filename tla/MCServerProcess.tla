--------------------------- MODULE MCServerProcess ---------------------------
(* ServerProcess on a small instance; the constants are in the .cfg file. *)
EXTENDS ServerProcess, TLC

CONSTANT Good  \* a content MakeTokenDB accepts

\* Nothing is configured; auth.db is in the first directory and both files are
\* in the last one.
NowhereYet == [f \in Files |-> [d \in Dirs |-> Absent]]
Shadowed == [f \in Files |-> [d \in Dirs |->
                IF d = 1 /\ f # Auth THEN Absent ELSE Good]]
SomeDisks == {NowhereYet, Shadowed}
=============================================================================
