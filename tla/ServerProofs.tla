----------------------------- MODULE ServerProofs -----------------------------
(* Theorems about Server, for any number of requests, links and tokens.     *)
EXTENDS Server, FiniteSetTheorems, LeastElements, TLAPS

DBs == Seq(AuthToken)

Signers == Addresses \cup {Form}

LinkOK ==
    /\ live \subseteq Ids
    /\ budget \in [Ids -> Nat] /\ views \in [Ids -> Nat]
    /\ days \in [Ids -> Nat]
    /\ author \in [Ids -> Tokens \cup Addresses \cup {Form}]
    /\ told \subseteq Ids
    /\ delivered \in [Ids -> Nat] /\ lost \in [Ids -> Nat]

RequestOK ==
    /\ authFile \in AuthFiles
    /\ pc \in [Requests -> {"idle", "limit", "body", "auth", "check", "add",
                            "describe", "lookup", "claim", "respond"}]
    /\ route \in [Requests -> Routes]
    /\ id \in [Requests -> Ids \cup {Unknown}]
    /\ token \in [Requests -> Tokens \cup Addresses \cup {NoToken}]
    /\ auth \in [Requests -> DBs]
    /\ reply \in [Requests ->
           {"none", "toomany", "bad", "unauthorized", "notstored", "created",
            "metadata", "confirm", "gone", "secret"}]
    /\ current \in [Requests -> SUBSET Addresses]

LEMMA TypeParts == TypeOK <=> LinkOK /\ RequestOK
  BY DEF TypeOK, LinkOK, RequestOK, DBs

\* A request's route fits the step it is at, and it has no answer before it has
\* got to the end.
PlaceOK ==
    \A r \in Requests :
        /\ pc[r] = "claim" => route[r] \in {"reveal", "apiget"}
        /\ pc[r] \in {"auth", "check"} => route[r] \in {"apinew", "info"}
        /\ pc[r] = "lookup" => route[r] \in {"info", "confirm"}
        /\ pc[r] \in {"add", "body"} => route[r] \in {"apinew", "create"}
        /\ pc[r] = "describe" => id[r] \in Ids
        /\ pc[r] # "respond" => reply[r] = "none"
        /\ reply[r] \in {"created", "secret"} => id[r] \in Ids

\* As long as the handler is at it, a request can be judged by the auth.db in
\* use; the TokenDB it was given says nothing that one in use since did not.
JudgedOK ==
    \A r \in Requests :
        /\ pc[r] \notin {"idle", "limit", "respond"}
              => Vouched(authFile, token[r]) \subseteq current[r]
        /\ pc[r] = "check" =>
              findToken(auth[r], token[r]) \subseteq current[r]

\* The entry a request has made is one nobody else can make again.
NamedOK ==
    \A r \in Requests :
        pc[r] = "describe" \/ reply[r] = "created" => budget[id[r]] # 0

JudgesOK == JudgedOK /\ NamedOK /\ OnlyAuthorized /\ AuthorIsAccount

-----------------------------------------------------------------------------
(* What the operators yield *)

LEMMA RoutesKnown ==
    /\ Routes \subseteq {"apinew", "apiget", "info", "confirm", "reveal", "create"}
    /\ "confirm" \in Routes
  BY DEF Routes

LEMMA GrantedType ==
    ASSUME NEW n \in Int, NEW def \in Nat \ {0}
    PROVE  Granted(n, def) \in Nat \ {0} /\ (n > 0 => Granted(n, def) = n)
  BY DEF Granted

\* Only an address is vouched for, and for a token only.
LEMMA VouchedType ==
    ASSUME NEW file \in AuthFiles, NEW t
    PROVE  /\ Vouched(file, t) \subseteq Addresses
           /\ t \in Addresses \cup {NoToken} => Vouched(file, t) = {}
  BY TokenAssumption DEF Vouched, Loads, Usable

\* What a file is loaded as says no more than the file vouches for.
LEMMA LoadedVouches ==
    ASSUME NEW file \in AuthFiles, NEW t
    PROVE  findToken(MakeTokenDB(file), t) \subseteq Vouched(file, t)
  BY DEF findToken, MakeTokenDB, Vouched

\* A search for a token ends with one address if an entry has the token, and
\* with none if none has: the last entry is always there to win.
LEMMA OneAddress ==
    ASSUME NEW db \in DBs, NEW t
    PROVE  IF \E i \in DOMAIN db : db[i].token = t
           THEN \E i \in DOMAIN db :
                   db[i].token = t /\ findToken(db, t) = {db[i].email}
           ELSE findToken(db, t) = {}
<1> DEFINE S == {i \in DOMAIN db : db[i].token = t}
<1>1. Len(db) \in Nat /\ DOMAIN db = 1..Len(db)
  BY DEF DBs
<1>2. CASE S = {}
  BY <1>2 DEF findToken
<1>3. CASE S # {}
  <2>1. S \in SUBSET (1..Len(db))
    BY <1>1
  <2>2. PICK k \in S : \A j \in S : j <= k
    BY <1>1, <1>3, <2>1, GreatestOne
  <2>3. \A i \in S : (\A j \in S : j <= i) <=> i = k
    BY <1>1, <2>2
  <2>4. findToken(db, t) = {db[k].email}
    BY <2>2, <2>3 DEF findToken
  <2> QED
    BY <2>2, <2>4
<1> QED
  BY <1>2, <1>3

\* Whom a faultless auth.db names is let in, and answers for one address that
\* the file has for the token, however often the token occurs in it; a file with
\* a mistake lets nobody in.
THEOREM KnownIfVouched ==
    ASSUME NEW file \in AuthFiles, NEW t
    PROVE  /\ Knows(MakeTokenDB(file), t) <=> Vouched(file, t) # {}
           /\ Vouched(file, t) # {} =>
                 \E a \in Vouched(file, t) :
                    findToken(MakeTokenDB(file), t) = {a}
<1>1. CASE ~Loads(file)
  <2>1. MakeTokenDB(file) = <<>> /\ Vouched(file, t) = {}
    BY <1>1 DEF MakeTokenDB, Vouched
  <2>2. findToken(<<>>, t) = {}
    BY DEF findToken
  <2> QED
    BY <2>1, <2>2 DEF Knows
<1>2. CASE Loads(file)
  <2>1. /\ MakeTokenDB(file) = file /\ file \in DBs
        /\ Vouched(file, t) =
              {file[i].email : i \in {k \in DOMAIN file : file[k].token = t}}
    BY <1>2, TokenAssumption DEF MakeTokenDB, Vouched, Loads, DBs
  <2>2. CASE \E i \in DOMAIN file : file[i].token = t
    <3>1. PICK i \in DOMAIN file :
             file[i].token = t /\ findToken(file, t) = {file[i].email}
      BY <2>1, <2>2, OneAddress
    <3>2. file[i].email \in Vouched(file, t)
      BY <2>1, <3>1
    <3>3. t # NoToken
      BY <1>2, <3>1, TokenAssumption DEF Loads, Usable
    <3> QED
      BY <2>1, <3>1, <3>2, <3>3 DEF Knows
  <2>3. CASE ~\E i \in DOMAIN file : file[i].token = t
    <3>1. findToken(file, t) = {}
      BY <2>1, <2>3, OneAddress
    <3>2. Vouched(file, t) = {}
      BY <2>1, <2>3
    <3> QED
      BY <2>1, <3>1, <3>2 DEF Knows
  <2> QED
    BY <2>2, <2>3
<1> QED
  BY <1>1, <1>2

LEMMA LoadedType ==
    <<>> \in DBs /\ \A file \in AuthFiles : MakeTokenDB(file) \in DBs
  BY TokenAssumption DEF MakeTokenDB, Loads, DBs

LEMMA FormIntBounds ==
    ASSUME NEW raw, NEW max \in Nat \ {0}, NEW def \in 1..max
    PROVE  formInt(raw, def, 1, max) \in 1..max
  BY DEF formInt

-----------------------------------------------------------------------------
(* Types and places *)

LEMMA AddTypes ==
    ASSUME LinkOK, RequestOK, NEW r \in Requests, NEW i \in Ids,
           NEW clicks \in Int, NEW valid \in Int, NEW by \in Signers,
           Add(r, i, clicks, valid, by)
    PROVE  /\ LinkOK'
           /\ id' = [id EXCEPT ![r] = i]
           /\ UNCHANGED <<authFile, route, token, auth, current>>
           /\ budget[i] = 0
           /\ budget' = [budget EXCEPT ![i] = Granted(clicks, 1)]
           /\ views' = [views EXCEPT ![i] = 0]
           /\ days' = [days EXCEPT ![i] = Granted(valid, DefaultValidity)]
           /\ author' = [author EXCEPT ![i] = by]
           /\ UNCHANGED <<told, delivered, lost>>
<1>1. Granted(clicks, 1) \in Nat /\ Granted(valid, DefaultValidity) \in Nat
  BY ServerAssumption DEF Granted
<1>2. /\ live' = live \cup {i} /\ budget[i] = 0
      /\ budget' = [budget EXCEPT ![i] = Granted(clicks, 1)]
      /\ views' = [views EXCEPT ![i] = 0]
  BY DEF Add, Link!Create
<1> QED
  BY <1>1, <1>2 DEF Add, LinkOK, histVars, Signers

\* The two ways an entry is added, with what the proofs need of them.
LEMMA Additions ==
    ASSUME LinkOK, RequestOK, JudgesOK, NEW r \in Requests,
           AddFromApi(r) \/ AddFromForm(r)
    PROVE  \E i \in Ids, n \in Nat \ {0}, d \in Nat \ {0}, by \in Signers :
              /\ LinkOK'
              /\ id' = [id EXCEPT ![r] = i]
              /\ UNCHANGED <<authFile, route, token, auth, current>>
              /\ budget[i] = 0
              /\ budget' = [budget EXCEPT ![i] = n]
              /\ views' = [views EXCEPT ![i] = 0]
              /\ days' = [days EXCEPT ![i] = d]
              /\ author' = [author EXCEPT ![i] = by]
              /\ route[r] = "apinew" => by = token[r]
              /\ by = Form => n \in 1..FormMaxClicks /\ d \in 1..FormMaxDays
              /\ UNCHANGED <<told, delivered, lost>>
<1> USE ServerAssumption
<1>1. CASE AddFromApi(r)
  <2>1. PICK i \in Ids, clicks \in Numbers, valid \in Numbers :
           Add(r, i, clicks, valid, token[r])
    BY <1>1 DEF AddFromApi
  <2>2. token[r] \in current[r] /\ current[r] \subseteq Addresses
    BY <1>1 DEF AddFromApi, JudgesOK, AuthorIsAccount, RequestOK
  <2>3. token[r] \in Signers /\ token[r] # Form
    BY <2>2 DEF Signers
  <2>4. clicks \in Int /\ valid \in Int
    OBVIOUS
  <2>5. /\ Granted(clicks, 1) \in Nat \ {0}
        /\ Granted(valid, DefaultValidity) \in Nat \ {0}
    BY <2>4, GrantedType
  <2> QED
    BY <2>1, <2>3, <2>4, <2>5, AddTypes
<1>2. CASE AddFromForm(r)
  <2>1. PICK i \in Ids, clicks \in Numbers \cup {Garbage},
                        valid \in Numbers \cup {Garbage} :
           Add(r, i, formInt(clicks, 1, 1, FormMaxClicks),
                     formInt(valid, FormDefaultDays, 1, FormMaxDays), Form)
    BY <1>2 DEF AddFromForm, Signers
  <2> DEFINE n == formInt(clicks, 1, 1, FormMaxClicks)
             d == formInt(valid, FormDefaultDays, 1, FormMaxDays)
  <2>2. n \in 1..FormMaxClicks /\ d \in 1..FormMaxDays
    BY FormIntBounds
  <2>3. Form \in Signers /\ route[r] # "apinew"
    BY <1>2 DEF AddFromForm, Signers
  <2> HIDE DEF n, d
  <2>4. /\ n \in Int /\ n > 0 /\ n \in Nat \ {0}
        /\ d \in Int /\ d > 0 /\ d \in Nat \ {0}
    BY <2>2
  <2>5. Granted(n, 1) = n /\ Granted(d, DefaultValidity) = d
    BY <2>4, GrantedType
  <2>6. Add(r, i, n, d, Form)
    BY <2>1 DEF n, d
  <2> QED
    BY <2>2, <2>3, <2>4, <2>5, <2>6, AddTypes
<1> QED
  BY <1>1, <1>2

\* The steps of a handler that leave the store and the history alone.
Quiet(r) ==
    \/ Arrive(r) \/ Limited(r) \/ Admitted(r) \/ BadRequest(r) \/ ReadBody(r)
    \/ LoadAuth(r) \/ Authorized(r) \/ Unauthorized(r) \/ AddFails(r)
    \/ Describe(r) \/ Lookup(r)

Adding(r) == AddFromApi(r) \/ AddFromForm(r)

LEMMA Steps ==
    Next <=> \/ \E r \in Requests :
                   Quiet(r) \/ Adding(r) \/ Claim(r) \/ Respond(r)
             \/ Expire \/ Reload
  BY DEF Next, Handle, Quiet, Adding

LEMMA QuietKeeps ==
    ASSUME NEW r \in Requests, Quiet(r)
    PROVE  UNCHANGED <<live, budget, views, days, author, told, delivered,
                       lost, authFile>>
  BY DEF Quiet, Arrive, Limited, Admitted, BadRequest, ReadBody, LoadAuth,
         Authorized, Unauthorized, AddFails, Describe, Lookup, linkVars, histVars

LEMMA QuietTypes ==
    ASSUME LinkOK, RequestOK, JudgesOK, NEW r \in Requests, Quiet(r)
    PROVE  LinkOK' /\ RequestOK'
<1> USE DEF RequestOK, Goto, Answer
<1>1. LinkOK'
  BY QuietKeeps DEF LinkOK
<1>2. CASE Arrive(r)
  BY <1>1, <1>2 DEF Arrive, AskedIds, SentTokens, LinkOK
<1>3. CASE Limited(r) \/ BadRequest(r) \/ AddFails(r) \/ Describe(r)
  BY <1>1, <1>3 DEF Limited, BadRequest, AddFails, Describe
<1>4. CASE Admitted(r)
  <2>1. FirstStep(route[r]) \in {"body", "auth", "lookup", "claim"}
    BY RoutesKnown DEF FirstStep
  <2> QED
    BY <1>1, <1>4, <2>1, VouchedType DEF Admitted, SinceNow
<1>5. CASE ReadBody(r)
  BY <1>1, <1>5, VouchedType DEF ReadBody, SinceNow
<1>6. CASE LoadAuth(r) \/ Unauthorized(r)
  BY <1>1, <1>6, LoadedType DEF LoadAuth, Unauthorized, DB
<1>7. CASE Authorized(r)
  <2>1. pc[r] = "check" /\ findToken(auth[r], token[r]) \subseteq Addresses
    BY <1>7 DEF Authorized, JudgesOK, JudgedOK
  <2> QED
    BY <1>1, <1>7, <2>1, LoadedType DEF Authorized, AuthorOf
<1>8. CASE Lookup(r)
  BY <1>1, <1>8 DEF Lookup, PageOf
<1> QED
  BY <1>1, <1>2, <1>3, <1>4, <1>5, <1>6, <1>7, <1>8 DEF Quiet

LEMMA ClaimEffect ==
    ASSUME LinkOK, RequestOK, NEW r \in Requests, Claim(r), id[r] \in live
    PROVE  /\ pc[r] = "claim" /\ id[r] \in Ids
           /\ views[id[r]] < budget[id[r]]
           /\ views' = [views EXCEPT ![id[r]] = views[id[r]] + 1]
           /\ reply' = [reply EXCEPT ![r] = "secret"]
           /\ pc' = [pc EXCEPT ![r] = "respond"]
           /\ live' \subseteq live /\ live \ live' \subseteq {id[r]}
           /\ UNCHANGED <<budget, id, days, author, told, delivered, lost>>
  BY DEF Claim, Link!View, Answer, Goto, LinkOK, histVars

LEMMA TypesNext ==
    LinkOK /\ RequestOK /\ PlaceOK /\ JudgesOK /\ [Next]_vars
        => LinkOK' /\ RequestOK'
<1> SUFFICES ASSUME LinkOK, RequestOK, PlaceOK, JudgesOK,
                    [Next]_vars
             PROVE  LinkOK' /\ RequestOK'
  OBVIOUS
<1>1. CASE UNCHANGED vars
  BY <1>1 DEF vars, linkVars, histVars, LinkOK, RequestOK
<1>2. ASSUME NEW r \in Requests, Adding(r) PROVE LinkOK' /\ RequestOK'
  <2>1. AddFromApi(r) \/ AddFromForm(r)
    BY <1>2 DEF Adding
  <2>2. PICK i \in Ids :
           /\ LinkOK' /\ id' = [id EXCEPT ![r] = i]
           /\ UNCHANGED <<authFile, route, token, auth, current>>
    BY <2>1, Additions
  <2>3. pc' \in {[pc EXCEPT ![r] = "describe"], [pc EXCEPT ![r] = "respond"]}
        /\ reply' \in {reply, [reply EXCEPT ![r] = "created"]}
    BY <2>1 DEF AddFromApi, AddFromForm, Answer, Goto
  <2> QED
    BY <2>2, <2>3 DEF RequestOK
<1>3. ASSUME NEW r \in Requests, Claim(r) PROVE LinkOK' /\ RequestOK'
  <2>1. LinkOK'
    <3>1. CASE id[r] \in live
      BY <1>3, <3>1, ClaimEffect DEF LinkOK
    <3>2. CASE id[r] \notin live
      BY <1>3, <3>2 DEF Claim, LinkOK, histVars
    <3> QED
      BY <3>1, <3>2
  <2>2. RequestOK'
    BY <1>3 DEF Claim, Answer, Goto, RequestOK
  <2> QED
    BY <2>1, <2>2
<1>4. ASSUME NEW r \in Requests, Respond(r) PROVE LinkOK' /\ RequestOK'
  <2>1. pc[r] = "respond" /\ (reply[r] \in {"created", "secret"} => id[r] \in Ids)
    BY <1>4 DEF Respond, PlaceOK
  <2>2. LinkOK'
    BY <1>4, <2>1 DEF Respond, LinkOK, linkVars
  <2>3. RequestOK'
    BY <1>4, RoutesKnown, LoadedType DEF Respond, Forget, Goto, RequestOK
  <2> QED
    BY <2>2, <2>3
<1>5. CASE Expire
  BY <1>5 DEF Expire, Link!Expire, LinkOK, RequestOK, histVars
<1>6. CASE Reload
  BY <1>6, VouchedType DEF Reload, LinkOK, RequestOK, linkVars, histVars
<1> QED
  BY <1>1, <1>2, <1>3, <1>4, <1>5, <1>6, QuietTypes, Steps

-----------------------------------------------------------------------------
(* Where requests are, and what they were judged by *)

LEMMA AddingEffect ==
    ASSUME NEW r \in Requests, Adding(r)
    PROVE  /\ pc[r] = "add" /\ route[r] \in {"apinew", "create"}
           /\ \/ /\ route[r] = "apinew" /\ pc' = [pc EXCEPT ![r] = "describe"]
                 /\ reply' = reply
              \/ /\ route[r] = "create" /\ pc' = [pc EXCEPT ![r] = "respond"]
                 /\ reply' = [reply EXCEPT ![r] = "created"]
  BY DEF Adding, AddFromApi, AddFromForm, Answer, Goto

LEMMA AddingKeeps ==
    ASSUME LinkOK, RequestOK, JudgesOK, NEW r \in Requests,
           Adding(r)
    PROVE  /\ UNCHANGED <<authFile, route, token, auth, current>>
           /\ \E i \in Ids : id' = [id EXCEPT ![r] = i]
  BY Additions DEF Adding

LEMMA ClaimKeeps ==
    ASSUME NEW r \in Requests, Claim(r)
    PROVE  /\ pc[r] = "claim" /\ pc' = [pc EXCEPT ![r] = "respond"]
           /\ reply' = [reply EXCEPT ![r] = IF id[r] \in live THEN "secret"
                                           ELSE "gone"]
           /\ UNCHANGED <<authFile, route, id, token, auth, current>>
  BY DEF Claim, Answer, Goto

LEMMA RespondEffect ==
    ASSUME NEW r \in Requests, Respond(r)
    PROVE  /\ pc[r] = "respond" /\ pc' = [pc EXCEPT ![r] = "idle"]
           /\ reply' = [reply EXCEPT ![r] = "none"]
           /\ route' = [route EXCEPT ![r] = "confirm"]
           /\ id' = [id EXCEPT ![r] = Unknown]
           /\ token' = [token EXCEPT ![r] = NoToken]
           /\ auth' = [auth EXCEPT ![r] = <<>>]
           /\ current' = [current EXCEPT ![r] = {}]
           /\ authFile' = authFile
  BY DEF Respond, Forget, Goto

LEMMA PlaceNext ==
    ASSUME LinkOK, RequestOK, PlaceOK, JudgesOK, [Next]_vars
    PROVE  PlaceOK'
<1> USE DEF RequestOK, PlaceOK
<1>1. CASE UNCHANGED vars
  BY <1>1 DEF vars
<1>2. ASSUME NEW r \in Requests, Quiet(r) PROVE PlaceOK'
  <2> USE DEF Goto, Answer
  <2>1. CASE Arrive(r)
    BY <2>1 DEF Arrive
  <2>2. CASE Limited(r) \/ BadRequest(r)
    BY <2>2 DEF Limited, BadRequest
  <2>3. CASE Admitted(r)
    BY <2>3, RoutesKnown DEF Admitted, FirstStep
  <2>4. CASE ReadBody(r)
    BY <2>4 DEF ReadBody
  <2>5. CASE LoadAuth(r) \/ Authorized(r) \/ Unauthorized(r)
    BY <2>5 DEF LoadAuth, Authorized, Unauthorized
  <2>6. CASE AddFails(r) \/ Describe(r)
    BY <2>6 DEF AddFails, Describe
  <2>7. CASE Lookup(r)
    BY <2>7 DEF Lookup, PageOf
  <2> QED
    BY <1>2, <2>1, <2>2, <2>3, <2>4, <2>5, <2>6, <2>7 DEF Quiet
<1>3. ASSUME NEW r \in Requests, Adding(r) PROVE PlaceOK'
  BY <1>3, AddingEffect, AddingKeeps
<1>4. ASSUME NEW r \in Requests, Claim(r) PROVE PlaceOK'
  BY <1>4, ClaimKeeps DEF LinkOK
<1>5. ASSUME NEW r \in Requests, Respond(r) PROVE PlaceOK'
  BY <1>5, RespondEffect
<1>6. CASE Expire \/ Reload
  BY <1>6 DEF Expire, Reload
<1> QED
  BY <1>1, <1>2, <1>3, <1>4, <1>5, <1>6, Steps

LEMMA JudgedNext ==
    ASSUME LinkOK, RequestOK, PlaceOK, JudgesOK, [Next]_vars
    PROVE  JudgedOK' /\ OnlyAuthorized'
<1> USE DEF RequestOK, JudgesOK, JudgedOK, OnlyAuthorized, Admits
<1>1. CASE UNCHANGED vars
  BY <1>1 DEF vars
<1>2. ASSUME NEW r \in Requests, Quiet(r) PROVE JudgedOK' /\ OnlyAuthorized'
  <2> USE DEF Goto, Answer
  <2>1. CASE Arrive(r)
    BY <2>1 DEF Arrive, PlaceOK
  <2>2. CASE Limited(r) \/ BadRequest(r)
    BY <2>2 DEF Limited, BadRequest
  <2>3. CASE Admitted(r)
    BY <2>3, RoutesKnown DEF Admitted, FirstStep, SinceNow, PlaceOK
  <2>4. CASE ReadBody(r)
    BY <2>4 DEF ReadBody, SinceNow, PlaceOK
  <2>5. CASE LoadAuth(r)
    <3>1. findToken(DB, token[r]) \subseteq Vouched(authFile, token[r])
      BY LoadedVouches DEF DB
    <3> QED
      BY <2>5, <3>1 DEF LoadAuth
  <2>6. CASE Authorized(r)
    <3>1. findToken(auth[r], token[r]) # {}
      BY <2>6 DEF Authorized, Knows
    <3>2. current[r] # {} /\ \A m \in current[r] : Vouched(authFile, m) = {}
      BY <2>6, <3>1, VouchedType DEF Authorized
    <3>3. token' \in {token} \cup {[token EXCEPT ![r] = m] : m \in current[r]}
      BY <2>6 DEF Authorized, AuthorOf
    <3> QED
      BY <2>6, <3>2, <3>3 DEF Authorized
  <2>7. CASE Unauthorized(r)
    BY <2>7 DEF Unauthorized
  <2>8. CASE AddFails(r) \/ Describe(r)
    BY <2>8 DEF AddFails, Describe
  <2>9. CASE Lookup(r)
    BY <2>9 DEF Lookup, PageOf
  <2> QED
    BY <1>2, <2>1, <2>2, <2>3, <2>4, <2>5, <2>6, <2>7, <2>8, <2>9 DEF Quiet
<1>3. ASSUME NEW r \in Requests, Adding(r) PROVE JudgedOK' /\ OnlyAuthorized'
  BY <1>3, AddingEffect, AddingKeeps
<1>4. ASSUME NEW r \in Requests, Claim(r) PROVE JudgedOK' /\ OnlyAuthorized'
  BY <1>4, ClaimKeeps
<1>5. ASSUME NEW r \in Requests, Respond(r) PROVE JudgedOK' /\ OnlyAuthorized'
  BY <1>5, RespondEffect
<1>6. CASE Expire
  BY <1>6 DEF Expire
<1>7. CASE Reload
  BY <1>7 DEF Reload
<1> QED
  BY <1>1, <1>2, <1>3, <1>4, <1>5, <1>6, <1>7, Steps

LEMMA AddingSigns ==
    ASSUME LinkOK, RequestOK, JudgesOK, NEW r \in Requests, Adding(r)
    PROVE  \E i \in Ids, n \in Nat \ {0}, by \in Signers :
              /\ id' = [id EXCEPT ![r] = i]
              /\ UNCHANGED <<route, token, current>>
              /\ budget[i] = 0
              /\ budget' = [budget EXCEPT ![i] = n]
              /\ author' = [author EXCEPT ![i] = by]
              /\ route[r] = "apinew" => by = token[r]
  BY Additions DEF Adding

LEMMA AccountNext ==
    ASSUME LinkOK, RequestOK, PlaceOK, JudgesOK, [Next]_vars
    PROVE  NamedOK' /\ AuthorIsAccount'
<1> USE DEF RequestOK, JudgesOK, NamedOK, AuthorIsAccount
<1>1. CASE UNCHANGED vars
  BY <1>1 DEF vars, linkVars
<1>2. ASSUME NEW r \in Requests, Quiet(r) PROVE NamedOK' /\ AuthorIsAccount'
  <2>0. UNCHANGED <<budget, author>>
    BY <1>2, QuietKeeps
  <2> USE <2>0 DEF Goto, Answer, PlaceOK
  <2>1. CASE Arrive(r)
    BY <2>1 DEF Arrive
  <2>2. CASE Limited(r) \/ BadRequest(r) \/ Unauthorized(r) \/ AddFails(r)
    BY <2>2 DEF Limited, BadRequest, Unauthorized, AddFails
  <2>3. CASE Admitted(r)
    BY <2>3, RoutesKnown DEF Admitted, FirstStep, SinceNow
  <2>4. CASE ReadBody(r)
    BY <2>4 DEF ReadBody, SinceNow
  <2>5. CASE LoadAuth(r) \/ Describe(r)
    BY <2>5 DEF LoadAuth, Describe
  <2>6. CASE Authorized(r)
    <3>1. CASE route[r] = "info"
      BY <2>6, <3>1 DEF Authorized
    <3>2. CASE route[r] # "info"
      <4>1. PICK m \in current[r] : token' = [token EXCEPT ![r] = m]
        BY <2>6, <3>2 DEF Authorized, AuthorOf, JudgedOK
      <4> QED
        BY <2>6, <4>1 DEF Authorized
    <3> QED
      BY <3>1, <3>2
  <2>7. CASE Lookup(r)
    BY <2>7 DEF Lookup, PageOf
  <2> QED
    BY <1>2, <2>1, <2>2, <2>3, <2>4, <2>5, <2>6, <2>7 DEF Quiet
<1>3. ASSUME NEW r \in Requests, Adding(r)
      PROVE  NamedOK' /\ AuthorIsAccount'
  <2>1. PICK i \in Ids, n \in Nat \ {0}, by \in Signers :
           /\ id' = [id EXCEPT ![r] = i]
           /\ UNCHANGED <<route, token, current>>
           /\ budget[i] = 0
           /\ budget' = [budget EXCEPT ![i] = n]
           /\ author' = [author EXCEPT ![i] = by]
           /\ route[r] = "apinew" => by = token[r]
    BY <1>3, AddingSigns
  <2>2. \A q \in Requests \ {r} :
           (pc[q] = "describe" \/ reply[q] = "created") =>
              budget'[id[q]] = budget[id[q]] /\ author'[id[q]] = author[id[q]]
    BY <2>1 DEF LinkOK, PlaceOK
  <2>3. budget'[i] = n /\ author'[i] = by
    BY <2>1 DEF LinkOK
  <2> QED
    BY <1>3, <2>1, <2>2, <2>3, AddingEffect
<1>4. ASSUME NEW r \in Requests, Claim(r) PROVE NamedOK' /\ AuthorIsAccount'
  <2>1. UNCHANGED <<budget, author>>
    BY <1>4 DEF Claim, Link!View
  <2> QED
    BY <1>4, <2>1, ClaimKeeps
<1>5. ASSUME NEW r \in Requests, Respond(r)
      PROVE  NamedOK' /\ AuthorIsAccount'
  <2>1. UNCHANGED <<budget, author>>
    BY <1>5 DEF Respond, linkVars
  <2> QED
    BY <1>5, <2>1, RespondEffect
<1>6. CASE Expire
  BY <1>6 DEF Expire, Link!Expire
<1>7. CASE Reload
  BY <1>7 DEF Reload, linkVars
<1> QED
  BY <1>1, <1>2, <1>3, <1>4, <1>5, <1>6, <1>7, Steps

LEMMA JudgesNext ==
    ASSUME LinkOK, RequestOK, PlaceOK, JudgesOK, [Next]_vars
    PROVE  JudgesOK'
  BY JudgedNext, AccountNext DEF JudgesOK

-----------------------------------------------------------------------------
(* What the views pay for *)

LEMMA CarryingFinite ==
    ASSUME NEW i \in Ids
    PROVE  IsFiniteSet(Carrying(i)) /\ Cardinality(Carrying(i)) \in Nat
<1>1. Carrying(i) \subseteq Requests
  BY DEF Carrying
<1> QED
  BY <1>1, FS_Subset, FS_CardinalityType, ServerAssumption

LEMMA QuietCarries ==
    ASSUME RequestOK, NEW r \in Requests, Quiet(r), NEW i \in Ids
    PROVE  Carrying(i)' = Carrying(i)
<1>1. /\ pc[r] # "respond"
      /\ \A q \in Requests \ {r} :
            pc'[q] = pc[q] /\ reply'[q] = reply[q] /\ id'[q] = id[q]
  BY DEF Quiet, Arrive, Limited, Admitted, BadRequest, ReadBody, LoadAuth,
         Authorized, Unauthorized, AddFails, Describe, Lookup, Goto, Answer,
         RequestOK
<1>2. pc'[r] # "respond" \/ reply'[r] # "secret"
  <2> USE DEF Goto, Answer, RequestOK
  <2>1. CASE Arrive(r) \/ ReadBody(r) \/ LoadAuth(r) \/ Authorized(r)
    BY <2>1 DEF Arrive, ReadBody, LoadAuth, Authorized
  <2>2. CASE Admitted(r)
    BY <2>2, RoutesKnown DEF Admitted, FirstStep
  <2>3. CASE Limited(r) \/ BadRequest(r) \/ Unauthorized(r) \/ AddFails(r)
    BY <2>3 DEF Limited, BadRequest, Unauthorized, AddFails
  <2>4. CASE Describe(r) \/ Lookup(r)
    BY <2>4 DEF Describe, Lookup, PageOf
  <2> QED
    BY <2>1, <2>2, <2>3, <2>4 DEF Quiet
<1> QED
  BY <1>1, <1>2 DEF Carrying

LEMMA AddingCarries ==
    ASSUME LinkOK, RequestOK, JudgesOK, NEW r \in Requests,
           Adding(r), NEW i \in Ids
    PROVE  Carrying(i)' = Carrying(i)
  BY AddingEffect, AddingKeeps DEF Carrying, RequestOK

LEMMA PaidNext ==
    ASSUME LinkOK, RequestOK, PlaceOK, JudgesOK, PaidReveals,
           [Next]_vars
    PROVE  PaidReveals'
<1> SUFFICES ASSUME NEW i \in Ids
             PROVE  /\ views'[i] = delivered'[i] + lost'[i]
                                        + Cardinality(Carrying(i)')
                    /\ views'[i] <= budget'[i]
  BY DEF PaidReveals
<1> DEFINE Paid == /\ views'[i] = delivered'[i] + lost'[i]
                                      + Cardinality(Carrying(i)')
                   /\ views'[i] <= budget'[i]
<1>0. /\ views[i] = delivered[i] + lost[i] + Cardinality(Carrying(i))
      /\ views[i] <= budget[i]
      /\ views[i] \in Nat /\ budget[i] \in Nat
      /\ delivered[i] \in Nat /\ lost[i] \in Nat
      /\ IsFiniteSet(Carrying(i)) /\ Cardinality(Carrying(i)) \in Nat
  BY CarryingFinite DEF PaidReveals, LinkOK
<1>1. CASE UNCHANGED vars
  <2>1. Carrying(i)' = Carrying(i)
    BY <1>1 DEF vars, Carrying
  <2> QED
    BY <1>0, <1>1, <2>1 DEF vars, linkVars, histVars
<1>2. ASSUME NEW r \in Requests, Quiet(r) PROVE Paid
  BY <1>0, <1>2, QuietCarries, QuietKeeps
<1>3. ASSUME NEW r \in Requests, Adding(r) PROVE Paid
  <2>1. PICK j \in Ids, n \in Nat \ {0} :
           /\ budget[j] = 0
           /\ budget' = [budget EXCEPT ![j] = n]
           /\ views' = [views EXCEPT ![j] = 0]
           /\ UNCHANGED <<told, delivered, lost>>
    BY <1>3, Additions DEF Adding
  <2>2. Carrying(i)' = Carrying(i)
    BY <1>3, AddingCarries
  <2>3. CASE i = j
    <3>1. views[i] = 0 /\ views'[i] = 0 /\ budget'[i] = n
      BY <1>0, <2>1, <2>3 DEF LinkOK
    <3> QED
      BY <1>0, <2>1, <2>2, <3>1
  <2>4. CASE i # j
    <3>1. views'[i] = views[i] /\ budget'[i] = budget[i]
      BY <2>1, <2>4 DEF LinkOK
    <3> QED
      BY <1>0, <2>1, <2>2, <3>1
  <2> QED
    BY <2>3, <2>4
<1>4. ASSUME NEW r \in Requests, Claim(r) PROVE Paid
  <2>1. CASE id[r] \in live /\ id[r] = i
    <3>1. /\ views[i] < budget[i] /\ views'[i] = views[i] + 1
          /\ UNCHANGED <<budget, delivered, lost>>
      BY <1>4, <2>1, ClaimEffect DEF LinkOK
    <3>2. Carrying(i)' = Carrying(i) \cup {r} /\ r \notin Carrying(i)
      BY <1>4, <2>1, ClaimKeeps DEF Carrying, RequestOK
    <3>3. Cardinality(Carrying(i)') = Cardinality(Carrying(i)) + 1
      BY <1>0, <3>2, FS_AddElement
    <3> QED
      BY <1>0, <3>1, <3>3
  <2>2. CASE id[r] \in live /\ id[r] # i
    <3>1. views'[i] = views[i] /\ UNCHANGED <<budget, delivered, lost>>
      BY <1>4, <2>2, ClaimEffect DEF LinkOK
    <3>2. Carrying(i)' = Carrying(i)
      BY <1>4, <2>2, ClaimKeeps DEF Carrying, RequestOK
    <3> QED
      BY <1>0, <3>1, <3>2
  <2>3. CASE id[r] \notin live
    <3>1. UNCHANGED <<views, budget, delivered, lost>>
      BY <1>4, <2>3 DEF Claim, histVars
    <3>2. Carrying(i)' = Carrying(i)
      BY <1>4, <2>3, ClaimKeeps DEF Carrying, RequestOK
    <3> QED
      BY <1>0, <3>1, <3>2
  <2> QED
    BY <2>1, <2>2, <2>3
<1>5. ASSUME NEW r \in Requests, Respond(r) PROVE Paid
  <2>1. UNCHANGED <<views, budget>>
    BY <1>5 DEF Respond, linkVars
  <2>2. CASE reply[r] = "secret" /\ id[r] = i
    <3>1. delivered'[i] + lost'[i] = delivered[i] + lost[i] + 1
      BY <1>0, <1>5, <2>2 DEF Respond, LinkOK
    <3>2. Carrying(i)' = Carrying(i) \ {r} /\ r \in Carrying(i)
      BY <1>5, <2>2, RespondEffect DEF Carrying, RequestOK
    <3>3. Cardinality(Carrying(i)') = Cardinality(Carrying(i)) - 1
      BY <1>0, <3>2, FS_RemoveElement
    <3>4. delivered'[i] \in Nat /\ lost'[i] \in Nat
      BY <1>0, <1>5, <2>2 DEF Respond, LinkOK
    <3> QED
      BY <1>0, <2>1, <3>1, <3>3, <3>4
  <2>3. CASE ~(reply[r] = "secret" /\ id[r] = i)
    <3>1. delivered'[i] = delivered[i] /\ lost'[i] = lost[i]
      BY <1>5, <2>3 DEF Respond, LinkOK, PlaceOK
    <3>2. Carrying(i)' = Carrying(i)
      BY <1>5, <2>3, RespondEffect DEF Carrying, RequestOK
    <3> QED
      BY <1>0, <2>1, <3>1, <3>2
  <2> QED
    BY <2>2, <2>3
<1>6. CASE Expire \/ Reload
  <2>1. UNCHANGED <<views, budget, delivered, lost>>
    BY <1>6 DEF Expire, Link!Expire, Reload, linkVars, histVars
  <2>2. Carrying(i)' = Carrying(i)
    BY <1>6 DEF Expire, Reload, Carrying
  <2> QED
    BY <1>0, <2>1, <2>2
<1> QED
  BY <1>1, <1>2, <1>3, <1>4, <1>5, <1>6, Steps

-----------------------------------------------------------------------------
(* The theorems *)

HandlersInv ==
    /\ LinkOK /\ RequestOK /\ PlaceOK /\ JudgesOK
    /\ PaidReveals /\ FormWithinLimits

LEMMA StoredNext ==
    ASSUME LinkOK, RequestOK, JudgesOK, FormWithinLimits, [Next]_vars
    PROVE  FormWithinLimits'
<1> USE DEF FormWithinLimits
<1>1. CASE UNCHANGED vars
  BY <1>1 DEF vars, linkVars
<1>2. ASSUME NEW r \in Requests, Quiet(r)
      PROVE  FormWithinLimits'
  BY <1>2, QuietKeeps
<1>3. ASSUME NEW r \in Requests, Adding(r)
      PROVE  FormWithinLimits'
  <2>1. PICK i \in Ids, n \in Nat \ {0}, d \in Nat \ {0},
             by \in Signers :
           /\ budget' = [budget EXCEPT ![i] = n]
           /\ days' = [days EXCEPT ![i] = d]
           /\ author' = [author EXCEPT ![i] = by]
           /\ by = Form => n \in 1..FormMaxClicks /\ d \in 1..FormMaxDays
    BY <1>3, Additions DEF Adding
  <2> QED
    BY <2>1 DEF LinkOK
<1>4. ASSUME NEW r \in Requests, Claim(r)
      PROVE  FormWithinLimits'
  BY <1>4 DEF Claim, Link!View
<1>5. ASSUME NEW r \in Requests, Respond(r)
      PROVE  FormWithinLimits'
  BY <1>5 DEF Respond, linkVars
<1>6. CASE Expire \/ Reload
  BY <1>6 DEF Expire, Link!Expire, Reload, linkVars
<1> QED
  BY <1>1, <1>2, <1>3, <1>4, <1>5, <1>6, Steps

LEMMA HandlersStart == Init => HandlersInv
<1> SUFFICES ASSUME Init PROVE HandlersInv
  OBVIOUS
<1>1. LinkOK
  BY DEF Init, Link!Init, LinkOK
<1>2. RequestOK /\ PlaceOK /\ JudgesOK
  BY RoutesKnown, LoadedType
  DEF Init, RequestOK, PlaceOK, JudgesOK, JudgedOK, NamedOK, OnlyAuthorized,
      AuthorIsAccount, Admits
<1>3. PaidReveals
  <2> SUFFICES ASSUME NEW i \in Ids
               PROVE  /\ views[i] = delivered[i] + lost[i]
                                        + Cardinality(Carrying(i))
                      /\ views[i] <= budget[i]
    BY DEF PaidReveals
  <2>1. Carrying(i) = {}
    BY DEF Carrying, Init
  <2>2. Cardinality(Carrying(i)) = 0
    BY <2>1, FS_EmptySet
  <2> QED
    BY <2>2 DEF Init, Link!Init
<1>4. FormWithinLimits
  BY DEF Init, Link!Init, FormWithinLimits
<1> QED
  BY <1>1, <1>2, <1>3, <1>4 DEF HandlersInv

LEMMA HandlersStep == HandlersInv /\ [Next]_vars => HandlersInv'
<1> SUFFICES ASSUME HandlersInv, [Next]_vars PROVE HandlersInv'
  OBVIOUS
<1> USE DEF HandlersInv
<1>1. LinkOK' /\ RequestOK'
  BY TypesNext
<1>2. PlaceOK' /\ JudgesOK'
  BY PlaceNext, JudgesNext
<1>3. PaidReveals'
  BY PaidNext
<1>4. FormWithinLimits'
  BY StoredNext
<1> QED
  BY <1>1, <1>2, <1>3, <1>4

LEMMA HandlersAlways == Spec => []HandlersInv
  BY HandlersStart, HandlersStep, PTL DEF Spec

\* Types, for every number of concurrent requests.
THEOREM TypeCorrect == Spec => []TypeOK
<1>1. HandlersInv => TypeOK
  BY TypeParts DEF HandlersInv
<1> QED
  BY <1>1, HandlersAlways, PTL

\* However many clients open, confirm and fetch a link at once, each response
\* that holds its secret has used a view of its own.
THEOREM RevealsArePaid == Spec => []PaidReveals
<1>1. HandlersInv => PaidReveals
  BY DEF HandlersInv
<1> QED
  BY <1>1, HandlersAlways, PTL

\* However the reloads of auth.db and the handlers interleave, a token that was
\* in no TokenDB since the request had come in opens nothing.
THEOREM AccessIsAuthorized == Spec => []OnlyAuthorized
<1>1. HandlersInv => OnlyAuthorized
  BY DEF HandlersInv, JudgesOK
<1> QED
  BY <1>1, HandlersAlways, PTL

\* However auth.db changes while an entry is made through the API, it is signed
\* with an address its token had meanwhile, never with the token.
THEOREM EntriesAreSigned == Spec => []AuthorIsAccount
<1>1. HandlersInv => AuthorIsAccount
  BY DEF HandlersInv, JudgesOK
<1> QED
  BY <1>1, HandlersAlways, PTL

\* Whatever the form is sent, an anonymous visitor leaves nothing beyond its
\* limits in the store.
THEOREM FormIsLimited == Spec => []FormWithinLimits
<1>1. HandlersInv => FormWithinLimits
  BY DEF HandlersInv
<1> QED
  BY <1>1, HandlersAlways, PTL

\* No step of a request but POST of HandleGet's and HandleApiGet's claim uses a
\* view or ends a link.
THEOREM OpeningIsFree == Spec => OnlyClaimsConsume
<1> DEFINE Taken(i) == views'[i] > views[i] \/ (i \in live \ live' /\ pc' # pc)
           Consumed(i) ==
        \E r \in Requests :
            id[r] = i /\ route[r] \in {"reveal", "apiget"} /\ pc'[r] # pc[r]
<1>1. HandlersInv /\ [Next]_vars
          => [\A i \in Ids : Taken(i) => Consumed(i)]_vars
  <2> SUFFICES ASSUME HandlersInv, [Next]_vars, NEW i \in Ids, Taken(i)
               PROVE  Consumed(i)
    OBVIOUS
  <2> USE DEF HandlersInv
  <2>0. views[i] \in Nat /\ budget[i] \in Nat /\ views[i] <= budget[i]
    BY DEF LinkOK, PaidReveals
  <2>1. CASE UNCHANGED vars
    BY <2>0, <2>1 DEF vars, linkVars
  <2>2. ASSUME NEW r \in Requests, Quiet(r) PROVE FALSE
    BY <2>0, <2>2, QuietKeeps
  <2>3. ASSUME NEW r \in Requests, Adding(r) PROVE FALSE
    <3>1. PICK j \in Ids : budget[j] = 0 /\ views' = [views EXCEPT ![j] = 0]
      BY <2>3, Additions DEF Adding
    <3>2. ~(views'[i] > views[i])
      BY <2>0, <3>1 DEF LinkOK
    <3>3. live \subseteq live'
      BY <2>3 DEF Adding, AddFromApi, AddFromForm, Add, Link!Create
    <3> QED
      BY <3>2, <3>3
  <2>4. ASSUME NEW r \in Requests, Claim(r) PROVE Consumed(i)
    <3>1. id[r] \in live
      BY <2>0, <2>4 DEF Claim
    <3>2. /\ views' = [views EXCEPT ![id[r]] = views[id[r]] + 1]
          /\ live \ live' \subseteq {id[r]}
      BY <2>4, <3>1, ClaimEffect
    <3>3. id[r] = i
      BY <2>0, <3>2 DEF LinkOK
    <3>4. pc[r] = "claim" /\ pc'[r] = "respond"
      BY <2>4, ClaimKeeps DEF RequestOK
    <3> QED
      BY <3>3, <3>4 DEF PlaceOK
  <2>5. ASSUME NEW r \in Requests, Respond(r) PROVE FALSE
    BY <2>0, <2>5 DEF Respond, linkVars
  <2>6. CASE Expire \/ Reload
    BY <2>0, <2>6 DEF Expire, Link!Expire, Reload, linkVars
  <2> QED
    BY <2>1, <2>2, <2>3, <2>4, <2>5, <2>6, Steps
<1> QED
  BY <1>1, HandlersAlways, PTL DEF Spec, OnlyClaimsConsume

-----------------------------------------------------------------------------
(* The links, through the handlers *)

\* Whatever a request asks for, the entry it adds has a positive budget.
LEMMA AddingCreates ==
    ASSUME NEW r \in Requests, Adding(r)
    PROVE  \E i \in Ids, n \in Nat \ {0} : Link!Create(i, n)
<1> USE ServerAssumption
<1>1. CASE AddFromApi(r)
  <2>1. PICK i \in Ids, clicks \in Numbers : Link!Create(i, Granted(clicks, 1))
    BY <1>1 DEF AddFromApi, Add
  <2>2. Granted(clicks, 1) \in Nat \ {0}
    BY GrantedType
  <2> QED
    BY <2>1, <2>2
<1>2. CASE AddFromForm(r)
  <2>1. PICK i \in Ids, clicks \in Numbers \cup {Garbage} :
           Link!Create(i, Granted(formInt(clicks, 1, 1, FormMaxClicks), 1))
    BY <1>2 DEF AddFromForm, Add
  <2>2. formInt(clicks, 1, 1, FormMaxClicks) \in Int
    BY FormIntBounds
  <2>3. Granted(formInt(clicks, 1, 1, FormMaxClicks), 1) \in Nat \ {0}
    BY <2>2, GrantedType
  <2> QED
    BY <2>1, <2>3
<1> QED
  BY <1>1, <1>2 DEF Adding

\* No handler does anything to a link but create, view and let it expire, with
\* a budget that AddEntry's defaults and formInt have made positive.
THEOREM HandlersKeepToTheStore == Spec => Link!Spec
<1>1. Init => Link!Init
  BY DEF Init
<1>2. LinkOK /\ RequestOK /\ [Next]_vars => [Link!Next]_Link!linkVars
  <2> SUFFICES ASSUME LinkOK, RequestOK, [Next]_vars
               PROVE  [Link!Next]_Link!linkVars
    OBVIOUS
  <2> USE DEF Link!linkVars
  <2>1. CASE UNCHANGED vars
    BY <2>1 DEF vars, linkVars
  <2>2. ASSUME NEW r \in Requests, Quiet(r) PROVE UNCHANGED Link!linkVars
    BY <2>2, QuietKeeps
  <2>3. ASSUME NEW r \in Requests, Adding(r) PROVE Link!Next
    BY <2>3, AddingCreates DEF Link!Next
  <2>4. ASSUME NEW r \in Requests, Claim(r) PROVE [Link!Next]_Link!linkVars
    BY <2>4 DEF Claim, Link!Next, LinkOK
  <2>5. ASSUME NEW r \in Requests, Respond(r) PROVE UNCHANGED Link!linkVars
    BY <2>5 DEF Respond, linkVars
  <2>6. CASE Expire
    BY <2>6 DEF Expire, Link!Next
  <2>7. CASE Reload
    BY <2>7 DEF Reload, linkVars
  <2> QED
    BY <2>1, <2>2, <2>3, <2>4, <2>5, <2>6, <2>7, Steps
<1> QED
  BY <1>1, <1>2, HandlersAlways, PTL DEF Spec, Link!Spec, HandlersInv

\* However requests of all routes overlap with each other and with the expiry,
\* a link that is gone is never viewed again, and never becomes another one.
THEOREM LinksStayGone == Spec => Link!GoneForGood
  BY HandlersKeepToTheStore, Link!GoneStaysGone, PTL
=============================================================================
