-------------------------------- MODULE Server --------------------------------
(***************************************************************************)
(* httpio's handlers behind misc.RateLimit, as cmd/server.go wires them    *)
(* up: what requests do to the store and what they get to see.             *)
(*                                                                         *)
(* The store is taken as OneTimeLink, which SecretStore implements; of the *)
(* limiter only its verdict is visible here.  The steps of a handler       *)
(* interleave with other requests, with the expiry of links and with       *)
(* reloads of auth.db, and a response may never reach its client.          *)
(***************************************************************************)
EXTENDS TokenDB, FiniteSets

CONSTANTS
    Requests,       \* the requests that can be handled at a time
    Ids,            \* the ids newID can draw
    Unknown,        \* an id no link has
    Capacity,       \* SecretStore.maxEntries
    Form,           \* the author HandleCreate stores instead of an address
    AllowAnonymous, \* the flag -allow-anonymous
    FormMaxClicks, FormMaxDays, FormDefaultDays,
    DefaultValidity,    \* store's defaultValidity
    Numbers,        \* the numbers a request asks for
    Garbage         \* a form value that is no number

ASSUME ServerAssumption ==
    /\ IsFiniteSet(Requests)
    /\ IsFiniteSet(Ids) /\ Unknown \notin Ids /\ Capacity \in Nat \ {0}
    /\ AuthFiles # {} /\ Form \notin Tokens \cup Addresses
    /\ AllowAnonymous \in BOOLEAN
    /\ FormMaxClicks \in Nat \ {0} /\ FormMaxDays \in Nat \ {0}
    /\ FormDefaultDays \in 1..FormMaxDays /\ DefaultValidity \in Nat \ {0}
    /\ Numbers \subseteq Int /\ Garbage \notin Int

VARIABLES
    live, budget, views,    \* the store, see OneTimeLink
    days, author,   \* days[i], author[i]: ValidFor, AuthToken of the entry i
    authFile,       \* the auth.db that was read last
    pc,             \* where each request is in its handler
    route,          \* which handler that is
    id,             \* the id it is about
    token,          \* its token; once IsAuthorized has found it, the address
    auth,           \* the TokenDB getAuth returned to it, until it is used
    reply,          \* what it answers
    \* History:
    current,        \* current[r]: whom the auth.dbs in use since the request
                    \* could be judged name for its token
    told,           \* the ids some client was told
    delivered, lost \* per id: responses with the secret that did (not) arrive

linkVars == <<live, budget, views, days, author>>
histVars == <<told, delivered, lost>>
vars == <<linkVars, authFile, pc, route, id, token, auth, reply, current,
          histVars>>

Link == INSTANCE OneTimeLink
            WITH CallerIds <- {}, Budgets <- Nat \ {0}

\* What getAuth returns.
DB == MakeTokenDB(authFile)

\* The routes buildMux registers, as far as they touch the store: the web form
\* only if anonymous use is allowed, GET and POST of HandleGet apart.
Routes == {"apinew", "apiget", "info", "confirm", "reveal"}
              \cup (IF AllowAnonymous THEN {"create"} ELSE {})

Goto(r, label) == pc' = [pc EXCEPT ![r] = label]

Answer(r, what) == reply' = [reply EXCEPT ![r] = what] /\ Goto(r, "respond")

-----------------------------------------------------------------------------
(* Values *)

\* Mutant: whatever parses is good enough.
formIntUnchecked(raw, def, min, max) == IF raw # Garbage THEN raw ELSE def

formInt(raw, def, min, max) == IF raw \in min..max THEN raw ELSE def

\* Mutant: AddEntry takes what it is given.
AsAsked(n, def) == n

\* AddEntry's defaults
Granted(n, def) == IF n <= 0 THEN def ELSE n

\* Mutant: the entry keeps the token it came with.
TokenKept(db, t) == {t}

\* IsAuthorized puts the address in the token's place, in an entry to be
\* stored.
AuthorOf(db, t) == findToken(db, t)

-----------------------------------------------------------------------------
(* Every handler *)

\* What a request says, as far as its handler looks at it: the link it is
\* about, which only who was told it can name, and the token it carries.
AskedIds(x) ==
    IF x \in {"apinew", "create"} THEN {Unknown} ELSE told \cup {Unknown}
SentTokens(x) ==
    IF x \in {"apinew", "info"} THEN Tokens \cup {NoToken} ELSE {NoToken}

Arrive(r) ==
    /\ pc[r] = "idle"
    /\ \E x \in Routes : \E i \in AskedIds(x), t \in SentTokens(x) :
          /\ route' = [route EXCEPT ![r] = x]
          /\ id' = [id EXCEPT ![r] = i]
          /\ token' = [token EXCEPT ![r] = t]
    /\ Goto(r, "limit")
    /\ UNCHANGED <<linkVars, authFile, auth, reply, current, histVars>>

\* RateLimit: 429, and the handler is not called.
Limited(r) ==
    /\ pc[r] = "limit"
    /\ Answer(r, "toomany")
    /\ UNCHANGED <<linkVars, authFile, route, id, token, auth, current,
                   histVars>>

\* Mutant: opening a link was enough once.
OpeningClaims(x) == CASE x \in {"apinew", "create"} -> "body"
                      [] x = "info" -> "auth"
                      [] x \in {"confirm", "reveal", "apiget"} -> "claim"

\* What the handler does first: read the body, load the TokenDB, look at the
\* store.  From here on the request can be judged.
FirstStep(x) == CASE x \in {"apinew", "create"} -> "body"
                  [] x = "info" -> "auth"
                  [] x = "confirm" -> "lookup"
                  [] x \in {"reveal", "apiget"} -> "claim"

SinceNow(r) == [current EXCEPT ![r] = Vouched(authFile, token[r])]

Admitted(r) ==
    /\ pc[r] = "limit"
    /\ Goto(r, FirstStep(route[r]))
    /\ current' = SinceNow(r)
    /\ UNCHANGED <<linkVars, authFile, route, id, token, auth, reply, histVars>>

\* The wrong method, an unreadable or unparsable body.
BadRequest(r) ==
    /\ pc[r] = "body"
    /\ Answer(r, "bad")
    /\ UNCHANGED <<linkVars, authFile, route, id, token, auth, current,
                   histVars>>

\* The body takes its time to arrive; HandleApiNew loads the TokenDB after it.
ReadBody(r) ==
    /\ pc[r] = "body"
    /\ Goto(r, IF route[r] = "apinew" THEN "auth" ELSE "add")
    /\ current' = SinceNow(r)
    /\ UNCHANGED <<linkVars, authFile, route, id, token, auth, reply, histVars>>

\* The handler returns and its locals are gone.
Forget(r) ==
    /\ Goto(r, "idle")
    /\ route' = [route EXCEPT ![r] = "confirm"]
    /\ id' = [id EXCEPT ![r] = Unknown]
    /\ token' = [token EXCEPT ![r] = NoToken]
    /\ auth' = [auth EXCEPT ![r] = <<>>]
    /\ reply' = [reply EXCEPT ![r] = "none"]
    /\ current' = [current EXCEPT ![r] = {}]

\* The response is written, or the client is gone by then.
Respond(r) ==
    /\ pc[r] = "respond"
    /\ Forget(r)
    /\ \/ /\ told' = IF reply[r] = "created" THEN told \cup {id[r]} ELSE told
          /\ delivered' = IF reply[r] = "secret"
                          THEN [delivered EXCEPT ![id[r]] = @ + 1]
                          ELSE delivered
          /\ UNCHANGED lost
       \/ /\ lost' = IF reply[r] = "secret"
                     THEN [lost EXCEPT ![id[r]] = @ + 1] ELSE lost
          /\ UNCHANGED <<told, delivered>>
    /\ UNCHANGED <<linkVars, authFile>>

-----------------------------------------------------------------------------
(* HandleApiNew, HandleCreate, HandleInfo *)

\* getAuth()
LoadAuth(r) ==
    /\ pc[r] = "auth"
    /\ auth' = [auth EXCEPT ![r] = DB]
    /\ Goto(r, "check")
    /\ UNCHANGED <<linkVars, authFile, route, id, token, reply, current,
                   histVars>>

\* IsAuthorized, TokenDB.Knows
Authorized(r) ==
    /\ pc[r] = "check"
    /\ Knows(auth[r], token[r])
    /\ IF route[r] = "info"
       THEN Goto(r, "lookup") /\ UNCHANGED token
       ELSE /\ Goto(r, "add")
            /\ \E m \in AuthorOf(auth[r], token[r]) :
                  token' = [token EXCEPT ![r] = m]
    /\ auth' = [auth EXCEPT ![r] = <<>>]
    /\ UNCHANGED <<linkVars, authFile, route, id, reply, current, histVars>>

Unauthorized(r) ==
    /\ pc[r] = "check"
    /\ ~Knows(auth[r], token[r])
    /\ Answer(r, "unauthorized")
    /\ auth' = [auth EXCEPT ![r] = <<>>]
    /\ UNCHANGED <<linkVars, authFile, route, id, token, current, histVars>>

\* AddEntry; what the form sends went through formInt.
Add(r, i, clicks, valid, by) ==
    /\ Link!Create(i, Granted(clicks, 1))
    /\ days' = [days EXCEPT ![i] = Granted(valid, DefaultValidity)]
    /\ author' = [author EXCEPT ![i] = by]
    /\ id' = [id EXCEPT ![r] = i]
    /\ UNCHANGED <<authFile, route, token, auth, current, histVars>>

AddFromApi(r) ==
    /\ pc[r] = "add" /\ route[r] = "apinew"
    /\ \E i \in Ids, clicks \in Numbers, valid \in Numbers :
          Add(r, i, clicks, valid, token[r])
    /\ Goto(r, "describe") /\ UNCHANGED reply

AddFromForm(r) ==
    /\ pc[r] = "add" /\ route[r] = "create"
    /\ \E i \in Ids, clicks \in Numbers \cup {Garbage},
                     valid \in Numbers \cup {Garbage} :
          Add(r, i, formInt(clicks, 1, 1, FormMaxClicks),
                    formInt(valid, FormDefaultDays, 1, FormMaxDays), Form)
    /\ Answer(r, "created")

\* ErrStoreFull, ErrEmptySecret, ErrSecretTooLong, no random id.
AddFails(r) ==
    /\ pc[r] = "add"
    /\ Answer(r, "notstored")
    /\ UNCHANGED <<linkVars, authFile, route, id, token, auth, current,
                   histVars>>

\* GetEntryInfoHidden of the new entry.  Whether it is still there is ignored:
\* the reply names the id in any case.
Describe(r) ==
    /\ pc[r] = "describe"
    /\ Answer(r, "created")
    /\ UNCHANGED <<linkVars, authFile, route, id, token, auth, current,
                   histVars>>

-----------------------------------------------------------------------------
(* HandleInfo, HandleGet, HandleApiGet *)

\* Mutant: the page that asks for confirmation already holds the secret.
PageWithSecret(x) == IF x = "info" THEN "metadata" ELSE "secret"

PageOf(x) == IF x = "info" THEN "metadata" ELSE "confirm"

\* GetEntryInfoHidden, GetEntry
Lookup(r) ==
    /\ pc[r] = "lookup"
    /\ Answer(r, IF id[r] \in live THEN PageOf(route[r]) ELSE "gone")
    /\ UNCHANGED <<linkVars, authFile, route, id, token, auth, current,
                   histVars>>

Claim(r) ==
    /\ pc[r] = "claim"
    /\ IF id[r] \in live
       THEN Link!View(id[r]) /\ Answer(r, "secret")
       ELSE Answer(r, "gone") /\ UNCHANGED <<live, budget, views>>
    /\ UNCHANGED <<days, author, authFile, route, id, token, auth, current,
                   histVars>>

-----------------------------------------------------------------------------
(* The expiry goroutine, the reload goroutine *)

Expire ==
    /\ \E i \in Ids : Link!Expire(i)
    /\ UNCHANGED <<days, author, authFile, pc, route, id, token, auth, reply,
                   current, histVars>>

Reload ==
    /\ authFile' \in AuthFiles \ {authFile}
    /\ current' = [r \in Requests |->
                      current[r] \cup Vouched(authFile', token[r])]
    /\ UNCHANGED <<linkVars, pc, route, id, token, auth, reply, histVars>>

Init ==
    /\ Link!Init
    /\ days = [i \in Ids |-> 0] /\ author = [i \in Ids |-> Form]
    /\ authFile \in AuthFiles
    /\ pc = [r \in Requests |-> "idle"]
    /\ route = [r \in Requests |-> "confirm"]
    /\ id = [r \in Requests |-> Unknown]
    /\ token = [r \in Requests |-> NoToken]
    /\ auth = [r \in Requests |-> <<>>]
    /\ reply = [r \in Requests |-> "none"]
    /\ current = [r \in Requests |-> {}]
    /\ told = {}
    /\ delivered = [i \in Ids |-> 0] /\ lost = [i \in Ids |-> 0]

Handle(r) ==
    \/ Arrive(r) \/ Limited(r) \/ Admitted(r) \/ BadRequest(r) \/ ReadBody(r)
    \/ LoadAuth(r) \/ Authorized(r) \/ Unauthorized(r)
    \/ AddFromApi(r) \/ AddFromForm(r) \/ AddFails(r) \/ Describe(r)
    \/ Lookup(r) \/ Claim(r)
    \/ Respond(r)

Next == (\E r \in Requests : Handle(r)) \/ Expire \/ Reload

Spec == Init /\ [][Next]_vars

-----------------------------------------------------------------------------
(* Properties *)

TypeOK ==
    /\ live \subseteq Ids
    /\ budget \in [Ids -> Nat] /\ views \in [Ids -> Nat]
    /\ days \in [Ids -> Nat]
    /\ author \in [Ids -> Tokens \cup Addresses \cup {Form}]
    /\ authFile \in AuthFiles
    /\ pc \in [Requests -> {"idle", "limit", "body", "auth", "check", "add",
                            "describe", "lookup", "claim", "respond"}]
    /\ route \in [Requests -> Routes]
    /\ id \in [Requests -> Ids \cup {Unknown}]
    /\ token \in [Requests -> Tokens \cup Addresses \cup {NoToken}]
    /\ auth \in [Requests -> Seq(AuthToken)]
    /\ reply \in [Requests ->
           {"none", "toomany", "bad", "unauthorized", "notstored", "created",
            "metadata", "confirm", "gone", "secret"}]
    /\ current \in [Requests -> SUBSET Addresses]
    /\ told \subseteq Ids
    /\ delivered \in [Ids -> Nat] /\ lost \in [Ids -> Nat]

\* The responses on their way that hold the secret of link i.
Carrying(i) ==
    {r \in Requests : pc[r] = "respond" /\ reply[r] = "secret" /\ id[r] = i}

\* Each response that holds a secret is paid for with a view of its own, so no
\* more clients see it than the link has views, over all the routes together.
PaidReveals ==
    \A i \in Ids :
        /\ views[i] = delivered[i] + lost[i] + Cardinality(Carrying(i))
        /\ views[i] <= budget[i]

\* Whoever only opens a link (a preview, a scanner, HandleGet's GET) or reads
\* its metadata uses no view and ends no link: the recipient does not find a
\* dead link because of them.  (A sweep, which is no step of a request, does.)
OnlyClaimsConsume ==
    [][\A i \in Ids :
          views'[i] > views[i] \/ (i \in live \ live' /\ pc' # pc) =>
          \E r \in Requests :
              id[r] = i /\ route[r] \in {"reveal", "apiget"} /\ pc'[r] # pc[r]]_vars

\* Where only a request with a valid token gets.
Admits(r) ==
    \/ pc[r] \in {"add", "describe"} /\ route[r] = "apinew"
    \/ pc[r] = "lookup" /\ route[r] = "info"
    \/ reply[r] = "metadata"

\* Creating through the API and reading metadata need a token that some auth.db
\* in use after the request had come in completely gives an address, with
\* nothing wrong in the whole file: a token revoked before that is refused, and
\* a file with a mistake in it lets nobody in.
OnlyAuthorized == \A r \in Requests : Admits(r) => current[r] # {}

\* An entry made through the API is signed with the address its token had
\* during the request, however auth.db changed hands meanwhile; with nobody
\* else's, and never with the token itself, which reports and pages would show.
AuthorIsAccount ==
    \A r \in Requests : route[r] = "apinew" =>
        /\ pc[r] = "add" => token[r] \in current[r]
        /\ pc[r] = "describe" \/ reply[r] = "created"
              => author[id[r]] \in current[r]

\* What an anonymous visitor parks on the server stays within the form's
\* limits, whatever the form was made to send.
FormWithinLimits ==
    \A i \in Ids :
        budget[i] > 0 /\ author[i] = Form =>
            budget[i] \in 1..FormMaxClicks /\ days[i] \in 1..FormMaxDays
=============================================================================
