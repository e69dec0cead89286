------------------------------- MODULE MCServer -------------------------------
(* Server on a small instance; the other constants are in the .cfg file. *)
EXTENDS Server, TLC

CONSTANTS Token, ShortToken, Old, New

\* A file that gives the token an address, one with a second entry that gives
\* it another, and one that does so but cannot be used as a whole.
SmallFiles ==
    {<<[token |-> Token, email |-> Old]>>,
     <<[token |-> Token, email |-> Old], [token |-> Token, email |-> New]>>,
     <<[token |-> Token, email |-> New], [token |-> ShortToken, email |-> Old]>>}

\* Below, at and above the form's limits.
AskedNumbers == {-1, 2, 3}

Symmetry == Permutations(Requests)
=============================================================================
