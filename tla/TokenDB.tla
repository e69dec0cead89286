-------------------------------- MODULE TokenDB --------------------------------
(***************************************************************************)
(* tokendb/auth.go: what of an auth.db is taken over, and whose a token    *)
(* is.  Of a token counts whether it is long enough, of an address whether *)
(* misc.ValidEmail takes it.                                               *)
(***************************************************************************)
EXTENDS Integers, Sequences

CONSTANTS
    Tokens,         \* auth tokens, right or wrong
    LongTokens,     \* those of at least minTokenLen characters
    NoToken,        \* ""
    Addresses,      \* what ValidEmail takes
    NoAddress,      \* what it does not, "" included
    AuthFiles,      \* the contents auth.db can have
    Unparsable      \* the one json.Unmarshal rejects

AuthToken == [token : Tokens \cup {NoToken}, email : Addresses \cup {NoAddress}]

ASSUME TokenAssumption ==
    /\ LongTokens \subseteq Tokens /\ NoToken \notin Tokens
    /\ Addresses \cap (Tokens \cup {NoToken, NoAddress}) = {}
    /\ AuthFiles \ {Unparsable} \subseteq Seq(AuthToken)

Usable(e) == e.token \in LongTokens /\ e.email \in Addresses

Loads(file) == file # Unparsable /\ \A i \in DOMAIN file : Usable(file[i])

\* Mutant: what can be used of the file is used.
SkippingUnusable(file) ==
    IF file = Unparsable THEN <<>> ELSE SelectSeq(file, Usable)

\* One bad entry and none is loaded; nil is as good as empty.
MakeTokenDB(file) == IF Loads(file) THEN file ELSE <<>>

\* The address, in a set: empty if t is not in db.  The last entry wins.
findToken(db, t) ==
    {db[i].email : i \in {k \in DOMAIN db :
                            /\ db[k].token = t
                            /\ \A j \in DOMAIN db : db[j].token = t => j <= k}}

Knows(db, t) == t # NoToken /\ findToken(db, t) # {}

\* Whom the file names for t, if there is nothing wrong with it.
Vouched(file, t) ==
    IF Loads(file)
    THEN {file[i].email : i \in {k \in DOMAIN file : file[k].token = t}}
    ELSE {}
=============================================================================
