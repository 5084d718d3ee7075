----------------------------- MODULE SignInProofs -----------------------------
(***************************************************************************)
(* What SignIn promises for any number of codes, tokens, overlapping       *)
(* requests and checks.                                                    *)
(***************************************************************************)
EXTENDS SignIn, FiniteSetTheorems, TLAPS

(* Types.  Beyond TypeOK a request that looks a code up has one that was made, one that
   sends a code is a "send", and the token of an answer was given out.              *)

Given == {t \in Tokens : origin[t] # NoCode}

HoldSteps == {"consume", "findUser", "writeUser", "createSession"}

CallOK(q, made, given) ==
  /\ q \in Request
  /\ q.at \in {"find"} \cup HoldSteps => q.code \in made
  /\ q.at = "idle" => q = NoCall
  /\ q.at \in {"retire", "create"} => q.kind = "send"
  /\ q.at = "answered" /\ q.kind = "verify" => q.token \in given

TableOK ==
  /\ row \in [Codes -> Row] /\ user \in Users /\ sessions \subseteq Given
  /\ older \in [Codes -> SUBSET Codes] /\ raced \subseteq Codes
  /\ origin \in [Tokens -> Codes \cup {NoCode}]

CallsOK ==
  /\ request \in [Requests -> Request]
  /\ \A r \in Requests : CallOK(request[r], Existing, Given)

AppOK ==
  /\ token \in Given \cup {NoToken} /\ stored \in BOOLEAN
  /\ auth \in {"unknown", "yes", "no"} /\ loading \in BOOLEAN
  /\ form \in Requests \cup {NoRequest}
  /\ form # NoRequest => request[form].app /\ auth # "yes"
  /\ check \in [Checks -> Check]
  /\ \A k \in Checks : check[k].at # "idle" => check[k].token # NoToken
  /\ leaving \in Leaving /\ crossed \in BOOLEAN

TypeInv == TableOK /\ CallsOK /\ AppOK

LEMMA ConstantFacts ==
  /\ NoCode \notin Codes /\ NoToken \notin Tokens /\ NoRequest \notin Requests
  /\ NoCall \in Request /\ NoCall.at = "idle" /\ ~NoCall.app
  /\ NoCheck \in Check /\ NoCheck.at = "idle"
  /\ Staying \in Leaving /\ Staying.at = "no"
BY SignInAssumption DEF NoCall, Request, RequestSteps, NoCheck, Check, Staying, Leaving

LEMMA TypeFromInv == TypeInv => TypeOK
<1> SUFFICES ASSUME TypeInv
             PROVE  TypeOK
  OBVIOUS
<1> USE ConstantFacts
<1>1. \A r \in Requests :
        /\ request[r].at \in HoldSteps => request[r].code # NoCode /\ row[request[r].code] # "none"
        /\ request[r].at = "idle" => request[r] = NoCall
  BY DEF TypeInv, CallsOK, CallOK, Existing
<1> QED
  BY <1>1 DEF TypeInv, TableOK, CallsOK, AppOK, TypeOK, Given, HoldSteps

LEMMA InitTyped == Init => TypeInv
<1> SUFFICES ASSUME Init
             PROVE  TypeInv
  OBVIOUS
<1> USE ConstantFacts
<1>1. TableOK
  BY DEF Init, TableOK, Row, Users
<1>2. CallsOK
  BY DEF Init, CallsOK, CallOK, HoldSteps
<1>3. AppOK
  BY DEF Init, AppOK
<1> QED
  BY <1>1, <1>2, <1>3 DEF TypeInv

\* What a step of one request has to show for all of them.
LEMMA OneCallOK ==
  ASSUME CallsOK, NEW r \in Requests, request' = [request EXCEPT ![r] = request'[r]],
         CallOK(request'[r], Existing', Given'), Existing \subseteq Existing', Given \subseteq Given'
  PROVE  CallsOK'
BY DEF CallsOK, CallOK

LEMMA CallTypes ==
  ASSUME CallsOK, NEW r \in Requests
  PROVE  /\ request[r] \in Request /\ CallOK(request[r], Existing, Given)
         /\ request[r].at \in RequestSteps /\ request[r].kind \in {"send", "verify", "resolve"}
         /\ request[r].app \in BOOLEAN /\ request[r].code \in Codes \cup {NoCode}
         /\ request[r].seen \in SUBSET Codes /\ request[r].new \in BOOLEAN
         /\ request[r].token \in Tokens \cup {NoToken}
BY DEF CallsOK, Request

LEMMA EndsOK ==
  ASSUME CallsOK, NEW r \in Requests, NEW step \in {"answered", "failed"},
         NEW t \in Tokens \cup {NoToken}, EndAs(r, step, t),
         step = "answered" /\ request[r].kind = "verify" => t \in Given'
  PROVE  /\ request' = [request EXCEPT ![r] = request'[r]]
         /\ CallOK(request'[r], Existing', Given')
         /\ request'[r].app = request[r].app
         /\ request'[r].at \in {"idle", "answered", "failed"}
<1> USE ConstantFacts
<1>0. request \in [Requests -> Request] /\ request[r] \in Request
      /\ request[r].app \in BOOLEAN /\ request[r].kind \in {"send", "verify", "resolve"}
  BY CallTypes DEF CallsOK
<1> DEFINE q == [NoCall EXCEPT !.at = step, !.kind = request[r].kind, !.app = TRUE, !.token = t]
<1>1. request' = [request EXCEPT ![r] = IF request[r].app THEN q ELSE NoCall]
  BY DEF EndAs
<1>2. q \in Request /\ q.at = step /\ q.kind = request[r].kind /\ q.app /\ q.token = t
  BY <1>0 DEF NoCall, Request, RequestSteps
<1> HIDE DEF q
<1>3. request'[r] = IF request[r].app THEN q ELSE NoCall
  BY <1>0, <1>1
<1>4. CallOK(q, Existing', Given') /\ CallOK(NoCall, Existing', Given')
  BY <1>2 DEF CallOK, HoldSteps
<1>5. request' = [request EXCEPT ![r] = request'[r]]
  BY <1>1, <1>3
<1>6. CASE request[r].app
  BY <1>2, <1>3, <1>4, <1>5, <1>6
<1>7. CASE ~request[r].app
  <2>1. request[r].app = FALSE
    BY <1>0, <1>7, Zenon
  <2>2. NoCall.app = FALSE
    BY DEF NoCall
  <2> QED
    BY <1>3, <1>4, <1>5, <1>7, <2>1, <2>2
<1> QED
  BY <1>6, <1>7

\* The requests of the web app, statement by statement.
LEMMA RequestStepOK ==
  ASSUME TypeInv, NEW r \in Requests, RequestStep(r)
  PROVE  /\ request' = [request EXCEPT ![r] = request'[r]]
         /\ CallOK(request'[r], Existing', Given')
         /\ request'[r].app = request[r].app
         /\ TableOK' /\ Existing \subseteq Existing' /\ Given \subseteq Given'
         /\ UNCHANGED app
<1> USE ConstantFacts DEF TypeInv
<1>0. /\ request \in [Requests -> Request] /\ request[r] \in Request
      /\ CallOK(request[r], Existing, Given)
      /\ request[r].kind \in {"send", "verify", "resolve"} /\ request[r].app \in BOOLEAN
      /\ Existing \subseteq Codes /\ Given \subseteq Tokens
  BY CallTypes DEF CallsOK, Existing, Given
<1>1. CASE Retire(r)
  <2>1. row' \in [Codes -> Row] /\ Existing' = Existing
    BY <1>1 DEF TableOK, Retire, Working, Existing, Row
  <2>2. UNCHANGED <<user, sessions, app, history>>
    BY <1>1 DEF Retire
  <2> DEFINE q == [request[r] EXCEPT !.at = "create", !.seen = Existing]
  <2>3. request' = [request EXCEPT ![r] = q]
    BY <1>0, <1>1 DEF Retire
  <2>4. q \in Request /\ q.at = "create" /\ q.kind = request[r].kind /\ q.app = request[r].app
    BY <1>0 DEF Request, RequestSteps
  <2>5. request[r].kind = "send"
    BY <1>0, <1>1 DEF Retire, At, CallOK
  <2> HIDE DEF q
  <2>6. request'[r] = q
    BY <1>0, <2>3
  <2>7. CallOK(q, Existing', Given')
    BY <2>4, <2>5 DEF CallOK, HoldSteps
  <2> QED
    BY <2>1, <2>2, <2>3, <2>4, <2>6, <2>7 DEF TableOK, Given, history
<1>2. CASE Create(r)
  <2> PICK c \in Codes \ Existing : row' = [row EXCEPT ![c] = "working"]
                                    /\ older' = [older EXCEPT ![c] = request[r].seen]
    BY <1>2 DEF Create
  <2>1. row' \in [Codes -> Row] /\ older' \in [Codes -> SUBSET Codes]
    BY CallTypes DEF TableOK, Row
  <2>2. Existing \subseteq Existing'
    BY DEF TableOK, Existing
  <2>3. UNCHANGED <<user, sessions, app, raced, origin>>
    BY <1>2 DEF Create
  <2>4. PICK outcome \in {"answered", "failed"} : EndAs(r, outcome, NoToken)
    BY <1>2 DEF Create
  <2>5. request[r].kind = "send"
    BY <1>0, <1>2 DEF Create, At, CallOK
  <2>6. /\ request' = [request EXCEPT ![r] = request'[r]] /\ CallOK(request'[r], Existing', Given')
        /\ request'[r].app = request[r].app
    BY <2>4, <2>5, EndsOK
  <2> QED
    BY <2>1, <2>2, <2>3, <2>6 DEF TableOK, Given
<1>3. CASE Find(r)
  <2>1. UNCHANGED <<table, app, older, origin>>
    BY <1>3 DEF Find
  <2>2. raced' \subseteq Codes
    BY <1>0, <1>3 DEF Find, TableOK, At, CallOK
  <2>3. CASE EndAs(r, "failed", NoToken)
    BY <2>1, <2>2, <2>3, EndsOK DEF TableOK, Existing, Given, table
  <2>4. CASE Goto(r, "consume")
    <3> DEFINE q == [request[r] EXCEPT !.at = "consume"]
    <3>1. request' = [request EXCEPT ![r] = q]
      BY <1>0, <2>4 DEF Goto
    <3>2. /\ q \in Request /\ q.at = "consume" /\ q.kind = request[r].kind
          /\ q.app = request[r].app /\ q.code = request[r].code
      BY <1>0 DEF Request, RequestSteps
    <3>3. request[r].code \in Existing
      BY <1>0, <1>3 DEF Find, At, CallOK
    <3> HIDE DEF q
    <3>4. CallOK(q, Existing', Given')
      BY <2>1, <3>2, <3>3 DEF CallOK, HoldSteps, Existing, table
    <3> QED
      BY <1>0, <2>1, <2>2, <3>1, <3>2, <3>4 DEF TableOK, Existing, Given, table
  <2> QED
    BY <1>3, <2>3, <2>4 DEF Find
<1>4. CASE Consume(r)
  <2>0. request[r].code \in Existing
    BY <1>0, <1>4 DEF Consume, At, CallOK, HoldSteps
  <2>1. row' \in [Codes -> Row] /\ Existing' = Existing
    BY <1>0, <1>4, <2>0 DEF Consume, TableOK, Row, Existing
  <2>2. UNCHANGED <<user, sessions, app, history>>
    BY <1>4 DEF Consume
  <2>3. CASE request[r].kind # "verify"
    BY <1>4, <2>1, <2>2, <2>3, EndsOK DEF Consume, TableOK, Given, history
  <2>4. CASE request[r].kind = "verify"
    <3> DEFINE q == [request[r] EXCEPT !.at = "findUser"]
    <3>1. request' = [request EXCEPT ![r] = q]
      BY <1>0, <1>4, <2>4 DEF Consume, Goto
    <3>2. /\ q \in Request /\ q.at = "findUser" /\ q.kind = request[r].kind
          /\ q.app = request[r].app /\ q.code = request[r].code
      BY <1>0 DEF Request, RequestSteps
    <3> HIDE DEF q
    <3>4. CallOK(q, Existing', Given')
      BY <2>0, <2>1, <3>2 DEF CallOK
    <3> QED
      BY <1>0, <2>1, <2>2, <3>1, <3>2, <3>4 DEF TableOK, Given, history
  <2> QED
    BY <2>3, <2>4
<1>5. CASE FindUser(r)
  <2>0. request[r].code \in Existing
    BY <1>0, <1>5 DEF FindUser, At, CallOK, HoldSteps
  <2>2. UNCHANGED <<table, app, history>>
    BY <1>5 DEF FindUser
  <2> DEFINE step == IF user = "verified" THEN "createSession" ELSE "writeUser"
             q == [request[r] EXCEPT !.new = (user = "none"), !.at = step]
  <2>3. request' = [request EXCEPT ![r] = q]
    BY <1>0, <1>5 DEF FindUser
  <2>4. /\ q \in Request /\ q.at \in {"createSession", "writeUser"}
        /\ q.app = request[r].app /\ q.code = request[r].code
    BY <1>0 DEF Request, RequestSteps
  <2> HIDE DEF q
  <2>5. CallOK(q, Existing', Given')
    BY <2>0, <2>2, <2>4 DEF CallOK, Existing, table
  <2> QED
    BY <1>0, <2>2, <2>3, <2>4, <2>5 DEF TableOK, Existing, Given, table, history
<1>6. CASE WriteUser(r)
  <2>0. request[r].code \in Existing
    BY <1>0, <1>6 DEF WriteUser, At, CallOK, HoldSteps
  <2>2. UNCHANGED <<row, sessions, app, history>> /\ user' \in Users
    BY <1>6 DEF WriteUser, TableOK, Users
  <2>3. CASE EndAs(r, "failed", NoToken)
    BY <2>2, <2>3, EndsOK DEF TableOK, Existing, Given, history
  <2>4. CASE request' = [request EXCEPT ![r].at = "createSession", ![r].new = FALSE]
    <3> DEFINE q == [request[r] EXCEPT !.at = "createSession", !.new = FALSE]
    <3>1. request' = [request EXCEPT ![r] = q]
      BY <1>0, <2>4
    <3>2. /\ q \in Request /\ q.at = "createSession"
          /\ q.app = request[r].app /\ q.code = request[r].code
      BY <1>0 DEF Request, RequestSteps
    <3> HIDE DEF q
    <3>4. CallOK(q, Existing', Given')
      BY <2>0, <2>2, <3>2 DEF CallOK, Existing
    <3> QED
      BY <1>0, <2>2, <3>1, <3>2, <3>4 DEF TableOK, Existing, Given, history
  <2> QED
    BY <1>6, <2>3, <2>4 DEF WriteUser
<1>7. CASE CreateSession(r)
  <2> PICK t \in Tokens :
         /\ origin[t] = NoCode /\ sessions' = sessions \cup {t}
         /\ origin' = [origin EXCEPT ![t] = request[r].code] /\ EndAs(r, "answered", t)
    BY <1>7 DEF CreateSession
  <2>0. request[r].code \in Codes
    BY <1>0, <1>7 DEF CreateSession, At, CallOK, HoldSteps
  <2>1. origin' \in [Tokens -> Codes \cup {NoCode}] /\ Given' = Given \cup {t}
    BY <2>0 DEF TableOK, Given
  <2>2. UNCHANGED <<row, user, app, older, raced>>
    BY <1>7 DEF CreateSession
  <2> QED
    BY <2>1, <2>2, EndsOK DEF TableOK, Existing
<1>8. CASE RequestFails(r)
  BY <1>8, EndsOK DEF RequestFails, TableOK, Existing, Given, table, history
<1> QED
  BY <1>1, <1>2, <1>3, <1>4, <1>5, <1>6, <1>7, <1>8 DEF RequestStep

LEMMA RequestTyped ==
  ASSUME TypeInv, NEW r \in Requests, RequestStep(r)
  PROVE  TypeInv'
<1>1. /\ request' = [request EXCEPT ![r] = request'[r]]
      /\ CallOK(request'[r], Existing', Given')
      /\ request'[r].app = request[r].app
      /\ TableOK' /\ Existing \subseteq Existing' /\ Given \subseteq Given'
      /\ UNCHANGED <<token, stored, auth, loading, form, check, leaving, crossed>>
  BY RequestStepOK DEF app
<1>2. CallsOK'
  BY <1>1, OneCallOK DEF TypeInv
<1>3. \A d \in Requests : request'[d].app = request[d].app
  BY <1>1 DEF TypeInv, CallsOK
<1>4. AppOK'
  BY <1>1, <1>3, ConstantFacts DEF TypeInv, AppOK
<1> QED
  BY <1>1, <1>2, <1>4 DEF TypeInv

\* A request that begins.
LEMMA OpenOK ==
  ASSUME TypeInv, NEW r \in Requests, NEW mine \in BOOLEAN,
         \/ Open(r, SendCall(mine))
         \/ \E c \in Existing : Open(r, VerifyCall(c, mine)) \/ (~mine /\ Open(r, ResolveCall(c)))
  PROVE  TableOK' /\ CallsOK' /\ Given' = Given /\ request'[r].app = mine
         /\ At(r, "idle") /\ \A d \in Requests \ {r} : request'[d] = request[d]
<1> USE ConstantFacts
<1>0. request \in [Requests -> Request] /\ Existing \subseteq Codes
  BY DEF TypeInv, CallsOK, Existing
<1>1. PICK q \in {SendCall(mine)} \cup {VerifyCall(c, mine) : c \in Existing}
                 \cup (IF mine THEN {} ELSE {ResolveCall(c) : c \in Existing}) : Open(r, q)
  OBVIOUS
<1>2. q \in Request /\ q.app = mine /\ CallOK(q, Existing, Given)
  <2>1. CASE q = SendCall(mine)
    BY <2>1 DEF SendCall, NoCall, Request, RequestSteps, CallOK, HoldSteps
  <2>2. ASSUME NEW c \in Existing, q = VerifyCall(c, mine)
        PROVE  q \in Request /\ q.app = mine /\ CallOK(q, Existing, Given)
    BY <1>0, <2>2 DEF VerifyCall, NoCall, Request, RequestSteps, CallOK, HoldSteps
  <2>3. ASSUME NEW c \in Existing, q = ResolveCall(c), ~mine
        PROVE  q \in Request /\ q.app = mine /\ CallOK(q, Existing, Given)
    BY <1>0, <2>3 DEF ResolveCall, NoCall, Request, RequestSteps, CallOK, HoldSteps
  <2> QED
    BY <1>1, <2>1, <2>2, <2>3
<1>3. request' = [request EXCEPT ![r] = q] /\ UNCHANGED <<table, history>> /\ At(r, "idle")
  BY <1>1 DEF Open
<1>4. TableOK' /\ Given' = Given /\ Existing' = Existing
  BY <1>3 DEF TypeInv, TableOK, Given, Existing, table, history
<1>5. request'[r] = q /\ \A d \in Requests \ {r} : request'[d] = request[d]
  BY <1>0, <1>3
<1>6. CallsOK'
  BY <1>2, <1>3, <1>4, <1>5, OneCallOK DEF TypeInv
<1> QED
  BY <1>2, <1>3, <1>4, <1>5, <1>6

\* The app's checks, with a token that was given out.
LEMMA CheckAuthOK ==
  ASSUME TypeInv, NEW k \in Checks, NEW t \in Given \cup {NoToken}, NEW b \in BOOLEAN,
         CheckAuth(k, t, b), token' \in Given' \cup {NoToken}, stored' \in BOOLEAN,
         UNCHANGED leaving
  PROVE  AppOK'
<1> USE ConstantFacts
<1>1. crossed' \in BOOLEAN /\ form' = NoRequest
  BY DEF CheckAuth, InFlight
<1>2. CASE t = NoToken
  BY <1>1, <1>2 DEF CheckAuth, TypeInv, AppOK
<1>3. CASE t # NoToken
  <2> DEFINE q == [at |-> "sent", token |-> t, stored |-> b]
  <2>1. check' = [check EXCEPT ![k] = q] /\ loading' = TRUE /\ UNCHANGED auth
    BY <1>3 DEF CheckAuth
  <2>2. q \in Check /\ q.token # NoToken
    BY <1>3 DEF Check, Given
  <2> HIDE DEF q
  <2>3. check' \in [Checks -> Check] /\ \A l \in Checks : check'[l].at # "idle" => check'[l].token # NoToken
    BY <2>1, <2>2 DEF TypeInv, AppOK
  <2> QED
    BY <1>1, <2>1, <2>3 DEF TypeInv, AppOK
<1> QED
  BY <1>2, <1>3

LEMMA CloseOK ==
  ASSUME TypeInv, NEW r \in Requests, Close(r), Existing' = Existing, Given' = Given
  PROVE  CallsOK' /\ \A d \in Requests \ {r} : request'[d] = request[d]
<1>1. CallOK(NoCall, Existing', Given')
  BY ConstantFacts DEF CallOK, HoldSteps
<1>2. request'[r] = NoCall /\ request' = [request EXCEPT ![r] = NoCall]
  BY DEF Close, TypeInv, CallsOK
<1> QED
  BY <1>1, <1>2, OneCallOK DEF TypeInv, CallsOK

LEMMA FormTyped ==
  ASSUME TypeInv, NEW r \in Requests, Submit(r) \/ FormEnds(r)
  PROVE  TypeInv'
<1> USE ConstantFacts
<1>0. /\ request \in [Requests -> Request] /\ request[r] \in Request
      /\ CallOK(request[r], Existing, Given)
  BY CallTypes DEF TypeInv, CallsOK
<1>1. CASE Submit(r)
  <2>1. TableOK' /\ CallsOK' /\ Given' = Given /\ request'[r].app = TRUE
    BY <1>1, OpenOK DEF Submit
  <2>2. form' = r /\ UNCHANGED <<token, stored, auth, loading, check, leaving, crossed>> /\ auth # "yes"
    BY <1>1 DEF Submit, LoginShown
  <2>3. AppOK'
    BY <2>1, <2>2 DEF TypeInv, AppOK
  <2> QED
    BY <2>1, <2>3 DEF TypeInv
<1>2. CASE SignedIn(r)
  <2>1. UNCHANGED <<table, leaving, history>> /\ token' = request[r].token /\ stored' = TRUE
    BY <1>2 DEF SignedIn
  <2>2. TableOK' /\ Existing' = Existing /\ Given' = Given
    BY <2>1 DEF TypeInv, TableOK, Existing, Given, table, history
  <2>3. CallsOK'
    BY <1>2, <2>2, CloseOK DEF SignedIn
  <2>4. request[r].token \in Given
    BY <1>0, <1>2 DEF SignedIn, At, CallOK
  <2>5. PICK k \in Checks : CheckAuth(k, request[r].token, TRUE)
    BY <1>2, <2>1 DEF SignedIn
  <2>6. AppOK'
    BY <2>1, <2>2, <2>4, <2>5, CheckAuthOK
  <2> QED
    BY <2>2, <2>3, <2>6 DEF TypeInv
<1>3. CASE FormAnswered(r)
  <2>1. UNCHANGED <<table, token, stored, auth, loading, check, leaving, crossed, history>>
        /\ form' = (IF form = r THEN NoRequest ELSE form)
    BY <1>3 DEF FormAnswered
  <2>2. TableOK' /\ Existing' = Existing /\ Given' = Given
    BY <2>1 DEF TypeInv, TableOK, Existing, Given, table, history
  <2>3. CallsOK' /\ \A d \in Requests \ {r} : request'[d] = request[d]
    BY <1>3, <2>2, CloseOK DEF FormAnswered
  <2>4. AppOK'
    BY <2>1, <2>2, <2>3 DEF TypeInv, AppOK
  <2> QED
    BY <2>2, <2>3, <2>4 DEF TypeInv
<1>4. CASE FormLost(r)
  <2>1. UNCHANGED <<table, token, stored, auth, loading, check, leaving, crossed, history>>
        /\ form' = (IF form = r THEN NoRequest ELSE form)
    BY <1>4 DEF FormLost
  <2>2. TableOK' /\ Existing' = Existing /\ Given' = Given
    BY <2>1 DEF TypeInv, TableOK, Existing, Given, table, history
  <2> DEFINE q == [request[r] EXCEPT !.app = FALSE]
  <2>3. q \in Request /\ q.at = request[r].at /\ q.kind = request[r].kind
        /\ q.code = request[r].code /\ q.token = request[r].token
    BY <1>0 DEF Request
  <2>4. request' = [request EXCEPT ![r] = IF request[r].at \in {"answered", "failed"} THEN NoCall ELSE q]
    BY <1>4 DEF FormLost
  <2>5. request[r].at # "idle"
    BY <1>0, <1>4 DEF FormLost, CallOK
  <2> HIDE DEF q
  <2>6. CallOK(q, Existing, Given) /\ CallOK(NoCall, Existing, Given)
    BY <1>0, <2>3, <2>5 DEF CallOK, HoldSteps
  <2>7. CallOK(request'[r], Existing', Given') /\ request' = [request EXCEPT ![r] = request'[r]]
    BY <1>0, <2>2, <2>4, <2>6
  <2>8. CallsOK' /\ \A d \in Requests \ {r} : request'[d] = request[d]
    BY <1>0, <2>2, <2>7, OneCallOK DEF TypeInv
  <2>9. AppOK'
    BY <2>1, <2>2, <2>8 DEF TypeInv, AppOK
  <2> QED
    BY <2>2, <2>8, <2>9 DEF TypeInv
<1> QED
  BY <1>1, <1>2, <1>3, <1>4 DEF FormEnds

\* What the app does with its checks, and how it signs out.
LEMMA AppTyped ==
  ASSUME TypeInv,
         \/ \E k \in Checks : CheckStep(k)
         \/ SignOut \/ SignOutServed \/ SignOutHandled \/ DeepLink \/ FirstCheck
  PROVE  TypeInv'
<1> USE ConstantFacts
<1>1. /\ UNCHANGED <<row, user, request, history>> /\ sessions' \subseteq sessions
  <2>1. CASE \E k \in Checks : CheckStep(k)
    BY <2>1 DEF CheckStep, CheckServed, CheckHandled, CheckLost, table
  <2>2. CASE SignOut \/ SignOutServed \/ SignOutHandled
    BY <2>2 DEF SignOut, SignOutServed, SignOutHandled, table
  <2>3. CASE DeepLink \/ FirstCheck
    BY <2>3 DEF DeepLink, FirstCheck, table
  <2> QED
    BY <2>1, <2>2, <2>3
<1>2. TableOK' /\ Given' = Given /\ CallsOK'
  <2>1. Given' = Given /\ Existing' = Existing
    BY <1>1 DEF Given, Existing, history
  <2> QED
    BY <1>1, <2>1 DEF TypeInv, TableOK, CallsOK, history
<1>3. AppOK'
  <2>1. ASSUME NEW k \in Checks, CheckServed(k)
        PROVE  AppOK'
    <3> DEFINE q(step) == [check[k] EXCEPT !.at = step]
    <3>1. \A step \in {"valid", "refused"} : q(step) \in Check /\ q(step).token = check[k].token
      BY DEF TypeInv, AppOK, Check
    <3>2. check[k].token # NoToken
      BY <2>1 DEF TypeInv, AppOK, CheckServed
    <3>3. PICK step \in {"valid", "refused"} : check' = [check EXCEPT ![k] = q(step)]
      BY <2>1 DEF CheckServed, TypeInv, AppOK
    <3> HIDE DEF q
    <3>4. check' \in [Checks -> Check] /\ \A l \in Checks : check'[l].at # "idle" => check'[l].token # NoToken
      BY <3>1, <3>2, <3>3 DEF TypeInv, AppOK
    <3>5. UNCHANGED <<token, stored, auth, loading, form, leaving, crossed>>
      BY <2>1 DEF CheckServed
    <3> QED
      BY <1>1, <1>2, <3>4, <3>5 DEF TypeInv, AppOK
  <2>2. ASSUME NEW k \in Checks, CheckHandled(k) \/ CheckLost(k)
        PROVE  AppOK'
    <3>1. \E yes \in BOOLEAN : Signed(yes)
      <4>1. CASE CheckHandled(k)
        BY <4>1, Zenon DEF CheckHandled
      <4>2. CASE CheckLost(k)
        BY <4>2 DEF CheckLost, TypeInv, AppOK, Check
      <4> QED
        BY <2>2, <4>1, <4>2
    <3>2. auth' \in {"yes", "no"} /\ form' \in {form, NoRequest} /\ (auth' = "yes" => form' = NoRequest)
      BY <3>1 DEF Signed
    <3>3. check' \in [Checks -> Check] /\ \A l \in Checks : check'[l].at # "idle" => check'[l].token # NoToken
      BY <2>2 DEF CheckHandled, CheckLost, TypeInv, AppOK
    <3>4. token' \in {token, NoToken} /\ loading' = FALSE /\ UNCHANGED <<leaving, crossed>>
      BY <2>2 DEF CheckHandled, CheckLost
    <3>5. stored' \in BOOLEAN
      <4>1. CASE CheckHandled(k)
        BY <4>1, Zenon DEF CheckHandled
      <4>2. CASE CheckLost(k)
        BY <4>2 DEF CheckLost, TypeInv, AppOK
      <4> QED
        BY <2>2, <4>1, <4>2
    <3> QED
      BY <1>1, <1>2, <3>2, <3>3, <3>4, <3>5 DEF TypeInv, AppOK
  <2>3. CASE SignOut
    <3>1. leaving' \in Leaving
      BY <2>3 DEF SignOut, Leaving, TypeInv, AppOK, Given
    <3>2. crossed' \in BOOLEAN
      BY <2>3 DEF SignOut, InFlight, TypeInv, AppOK
    <3> QED
      BY <1>1, <1>2, <2>3, <3>1, <3>2 DEF SignOut, TypeInv, AppOK
  <2>4. CASE SignOutServed
    <3>1. leaving' \in Leaving
      BY <2>4 DEF SignOutServed, Leaving, TypeInv, AppOK
    <3> QED
      BY <1>1, <1>2, <2>4, <3>1 DEF SignOutServed, TypeInv, AppOK
  <2>5. CASE SignOutHandled
    BY <1>1, <1>2, <2>5 DEF SignOutHandled, Signed, TypeInv, AppOK
  <2>6. CASE DeepLink
    <3> PICK t \in Tokens, k \in Checks : origin[t] # NoCode /\ token' = t /\ CheckAuth(k, t, stored)
      BY <2>6 DEF DeepLink
    <3>1. t \in Given /\ UNCHANGED <<stored, leaving>> /\ stored \in BOOLEAN
      BY <2>6 DEF DeepLink, Given, TypeInv, AppOK
    <3> QED
      BY <1>2, <3>1, CheckAuthOK
  <2>7. CASE FirstCheck
    <3> PICK k \in Checks : CheckAuth(k, token, stored)
      BY <2>7 DEF FirstCheck
    <3>1. token \in Given \cup {NoToken} /\ UNCHANGED <<token, stored, leaving>> /\ stored \in BOOLEAN
      BY <2>7 DEF FirstCheck, TypeInv, AppOK
    <3> QED
      BY <1>2, <3>1, CheckAuthOK
  <2> QED
    BY <2>1, <2>2, <2>3, <2>4, <2>5, <2>6, <2>7 DEF CheckStep
<1> QED
  BY <1>2, <1>3 DEF TypeInv

LEMMA StartTyped == TypeInv /\ Start => TypeInv'
<1> SUFFICES ASSUME TypeInv, Start
             PROVE  TypeInv'
  OBVIOUS
<1> USE ConstantFacts
<1>1. TableOK' /\ Existing' = Existing /\ Given' = Given /\ UNCHANGED <<token, stored>>
  BY DEF Start, TypeInv, TableOK, Existing, Given, table, history
<1>2. ASSUME NEW r \in Requests
      PROVE  request'[r] \in Request /\ CallOK(request'[r], Existing', Given')
  <2>0. request[r] \in Request /\ CallOK(request[r], Existing, Given)
    BY CallTypes DEF TypeInv
  <2> DEFINE q == [request[r] EXCEPT !.app = FALSE]
  <2>1. q \in Request /\ q.at = request[r].at /\ q.kind = request[r].kind
        /\ q.code = request[r].code /\ q.token = request[r].token
    BY <2>0 DEF Request
  <2>2. request'[r] = IF ~request[r].app THEN request[r]
                      ELSE IF request[r].at \in {"answered", "failed"} THEN NoCall ELSE q
    BY DEF Start
  <2>3. request[r].app => request[r].at # "idle"
    BY <2>0 DEF CallOK
  <2> HIDE DEF q
  <2>4. CallOK(NoCall, Existing, Given) /\ (request[r].app => CallOK(q, Existing, Given))
    BY <2>0, <2>1, <2>3 DEF CallOK, HoldSteps
  <2> QED
    BY <1>1, <2>0, <2>1, <2>2, <2>4
<1>3. request' \in [Requests -> Request]
  <2>1. request' = [r \in Requests |-> request'[r]]
    BY DEF Start
  <2> QED
    BY <1>2, <2>1
<1>4. AppOK'
  BY <1>1 DEF Start, TypeInv, AppOK
<1> QED
  BY <1>1, <1>2, <1>3, <1>4 DEF TypeInv, CallsOK

LEMMA NextTyped == TypeInv /\ [Next]_vars => TypeInv'
<1> SUFFICES ASSUME TypeInv, [Next]_vars
             PROVE  TypeInv'
  OBVIOUS
<1> USE ConstantFacts
<1>1. ASSUME NEW r \in Requests, Elsewhere(r)
      PROVE  TypeInv'
  <2>1. TableOK' /\ CallsOK' /\ Given' = Given /\ At(r, "idle")
        /\ \A d \in Requests \ {r} : request'[d] = request[d]
    BY <1>1, OpenOK DEF Elsewhere
  <2>2. form # r
    BY <2>1 DEF TypeInv, CallsOK, CallOK, AppOK, At
  <2>3. UNCHANGED <<token, stored, auth, loading, form, check, leaving, crossed>>
    BY <1>1 DEF Elsewhere, app
  <2>4. AppOK'
    BY <2>1, <2>2, <2>3 DEF TypeInv, AppOK
  <2> QED
    BY <2>1, <2>4 DEF TypeInv
<1>2. CASE Expire
  <2>1. UNCHANGED <<user, request, app, history>> /\ sessions' \subseteq sessions
    BY <1>2 DEF Expire
  <2>2. row' \in [Codes -> Row] /\ Existing' = Existing
    BY <1>2 DEF Expire, Working, Existing, TypeInv, TableOK, Row
  <2> QED
    BY <2>1, <2>2 DEF TypeInv, TableOK, CallsOK, AppOK, Given, app, history
<1>3. CASE OtherSignIn
  BY <1>3 DEF OtherSignIn, TypeInv, TableOK, CallsOK, AppOK, Given, Existing, app, history, Users
<1>4. CASE UNCHANGED vars
  BY <1>4 DEF vars, TypeInv, TableOK, CallsOK, AppOK, Given, Existing, table, app, history
<1> QED
  BY <1>1, <1>2, <1>3, <1>4, RequestTyped, FormTyped, AppTyped, StartTyped DEF Next

(* Every reachable state of the sign-in has its types: who opened a session, what a
   request past its look-up holds, what the login screen waits for and which token a check
   carries (otp/verify/route.ts:101-155, hooks.ts:290-382).                        *)
THEOREM TypeCorrect == Spec => []TypeOK
<1>1. Spec => []TypeInv
  BY InitTyped, NextTyped, PTL DEF Spec
<1> QED
  BY <1>1, TypeFromInv, PTL

-----------------------------------------------------------------------------
(* Steps, as the properties of the web app tell them apart: those of one request, and the
   rest, which at most spend a code, make a user or drop a request.                 *)

Quiet ==
  /\ \A d \in Requests : request'[d].at \in {"create"} \cup HoldSteps =>
       /\ request'[d].at = request[d].at /\ request'[d].code = request[d].code
       /\ request'[d].seen = request[d].seen
  /\ UNCHANGED history
  /\ user' = user \/ user = "none"
  /\ \A c \in Codes : row'[c] = row[c] \/ (row[c] = "working" /\ row'[c] = "spent")

LEMMA OtherSteps ==
  ASSUME TypeInv, [Next]_vars
  PROVE  Quiet \/ \E r \in Requests : RequestStep(r)
<1> USE ConstantFacts
<1>0. request \in [Requests -> Request] /\ row \in [Codes -> Row]
  BY DEF TypeInv, CallsOK, TableOK
<1>1. ASSUME NEW r \in Requests, Elsewhere(r) \/ Submit(r)
      PROVE  Quiet
  <2>0. \A b : SendCall(b).at = "retire" /\ \A c : VerifyCall(c, b).at = "find" /\ ResolveCall(c).at = "find"
    BY DEF SendCall, VerifyCall, ResolveCall, NoCall
  <2>1. PICK q : Open(r, q) /\ q.at \in {"retire", "find"}
    <3>1. \/ \E b : Open(r, SendCall(b))
          \/ \E b, c : Open(r, VerifyCall(c, b)) \/ Open(r, ResolveCall(c))
      BY <1>1 DEF Elsewhere, Submit
    <3> QED
      BY <2>0, <3>1
  <2>2. request'[r] = q /\ \A d \in Requests \ {r} : request'[d] = request[d]
    BY <1>0, <2>1 DEF Open
  <2> QED
    BY <2>1, <2>2 DEF Open, Quiet, HoldSteps, table
<1>2. ASSUME NEW r \in Requests, FormEnds(r)
      PROVE  Quiet
  <2>1. UNCHANGED <<table, history>>
    BY <1>2 DEF FormEnds, SignedIn, FormAnswered, FormLost
  <2>2. \A d \in Requests \ {r} : request'[d] = request[d]
    BY <1>0, <1>2 DEF FormEnds, SignedIn, FormAnswered, FormLost, Close
  <2>3. request'[r] = NoCall \/ request'[r] = [request[r] EXCEPT !.app = FALSE]
    BY <1>0, <1>2 DEF FormEnds, SignedIn, FormAnswered, FormLost, Close
  <2>4. request'[r].at \in {"create"} \cup HoldSteps =>
          /\ request'[r].at = request[r].at /\ request'[r].code = request[r].code
          /\ request'[r].seen = request[r].seen
    BY <1>0, <2>3 DEF HoldSteps, Request
  <2> QED
    BY <2>1, <2>2, <2>4 DEF Quiet, table
<1>3. ASSUME NEW k \in Checks, CheckStep(k)
      PROVE  Quiet
  BY <1>3 DEF CheckStep, CheckServed, CheckHandled, CheckLost, Quiet, table, history
<1>4. CASE Expire
  BY <1>0, <1>4 DEF Expire, Quiet, Working, history
<1>5. CASE OtherSignIn
  BY <1>5 DEF OtherSignIn, Quiet, history
<1>6. CASE SignOut \/ SignOutServed \/ SignOutHandled \/ DeepLink \/ FirstCheck
  BY <1>6 DEF SignOut, SignOutServed, SignOutHandled, DeepLink, FirstCheck, Quiet, table, history
<1>7. CASE Start
  <2>1. ASSUME NEW d \in Requests
        PROVE  request'[d] \in {request[d], NoCall, [request[d] EXCEPT !.app = FALSE]}
    BY <1>7 DEF Start
  <2>2. ASSUME NEW d \in Requests, request'[d].at \in {"create"} \cup HoldSteps
        PROVE  /\ request'[d].at = request[d].at /\ request'[d].code = request[d].code
               /\ request'[d].seen = request[d].seen
    BY <1>0, <2>1, <2>2 DEF HoldSteps, Request
  <2> QED
    BY <1>7, <2>2 DEF Start, Quiet, table
<1>8. CASE UNCHANGED vars
  BY <1>8 DEF vars, Quiet, table, history
<1> QED
  BY <1>1, <1>2, <1>3, <1>4, <1>5, <1>6, <1>7, <1>8 DEF Next

LEMMA EndsAt ==
  ASSUME CallsOK, NEW r \in Requests, NEW step \in {"answered", "failed"}, NEW t, EndAs(r, step, t)
  PROVE  request'[r].at \in {"idle", step}
BY DEF CallsOK, EndAs, NoCall

\* Where a request goes from each of its steps.
LEMMA Moves ==
  ASSUME TypeInv, NEW r \in Requests, RequestStep(r)
  PROVE  /\ \A d \in Requests \ {r} : request'[d] = request[d]
         /\ Retire(r) => request'[r].at = "create" /\ request'[r].seen = Existing
         /\ Create(r) \/ CreateSession(r) \/ RequestFails(r) =>
              request'[r].at \in {"idle", "answered", "failed"}
         /\ Find(r) =>
              \/ request'[r].at \in {"idle", "failed"}
              \/ /\ request[r].code \in Working
                 /\ request'[r].at = "consume" /\ request'[r].code = request[r].code
         /\ Consume(r) =>
              \/ request'[r].at \in {"idle", "answered"}
              \/ request'[r].at = "findUser" /\ request'[r].code = request[r].code
         /\ FindUser(r) =>
              /\ request'[r].at = "writeUser" \/ (request'[r].at = "createSession" /\ user = "verified")
              /\ request'[r].code = request[r].code
         /\ WriteUser(r) =>
              \/ request'[r].at \in {"idle", "failed"}
              \/ /\ request'[r].at = "createSession" /\ user' = "verified"
                 /\ request'[r].code = request[r].code
<1>0. request \in [Requests -> Request] /\ request[r] \in Request /\ CallsOK
  BY DEF TypeInv, CallsOK
<1>1. \A d \in Requests \ {r} : request'[d] = request[d]
  BY <1>0, RequestStepOK
<1>2. Retire(r) => request'[r].at = "create" /\ request'[r].seen = Existing
  BY <1>0 DEF Retire, Request
<1>3. Create(r) \/ CreateSession(r) \/ RequestFails(r) =>
        request'[r].at \in {"idle", "answered", "failed"}
  BY <1>0, EndsAt DEF Create, CreateSession, RequestFails
<1>4. Find(r) =>
        \/ request'[r].at \in {"idle", "failed"}
        \/ /\ request[r].code \in Working
           /\ request'[r].at = "consume" /\ request'[r].code = request[r].code
  BY <1>0, EndsAt DEF Find, Goto, Request
<1>5. Consume(r) =>
        \/ request'[r].at \in {"idle", "answered"}
        \/ request'[r].at = "findUser" /\ request'[r].code = request[r].code
  BY <1>0, EndsAt DEF Consume, Goto, Request
<1>6. FindUser(r) =>
        /\ request'[r].at = "writeUser" \/ (request'[r].at = "createSession" /\ user = "verified")
        /\ request'[r].code = request[r].code
  BY <1>0 DEF FindUser, Request
<1>7. WriteUser(r) =>
        \/ request'[r].at \in {"idle", "failed"}
        \/ /\ request'[r].at = "createSession" /\ user' = "verified"
           /\ request'[r].code = request[r].code
  BY <1>0, EndsAt DEF WriteUser, Request
<1> QED
  BY <1>1, <1>2, <1>3, <1>4, <1>5, <1>6, <1>7

-----------------------------------------------------------------------------
(* Verified users: who is about to make a session has seen or made the user verified, and
   nothing makes a user less than that.                                             *)

VerifiedInv ==
  SessionsVerified /\ \A r \in Requests : At(r, "createSession") => user = "verified"

LEMMA NextVerified == TypeInv /\ VerifiedInv /\ [Next]_vars => VerifiedInv'
<1> SUFFICES ASSUME TypeInv, VerifiedInv, [Next]_vars
             PROVE  VerifiedInv'
  OBVIOUS
<1>1. CASE Quiet
  <2>1. user = "verified" => user' = "verified"
    BY <1>1 DEF Quiet
  <2>2. \A r \in Requests : At(r, "createSession")' => At(r, "createSession")
    BY <1>1 DEF Quiet, At, HoldSteps
  <2> QED
    BY <1>1, <2>1, <2>2 DEF Quiet, VerifiedInv, SessionsVerified, history
<1>2. ASSUME NEW r \in Requests, RequestStep(r)
      PROVE  VerifiedInv'
  <2>1. \A d \in Requests \ {r} : request'[d] = request[d]
    BY <1>2, Moves
  <2>2. user = "verified" => user' = "verified"
    BY <1>2 DEF RequestStep, Retire, Create, Find, Consume, FindUser, WriteUser, CreateSession,
                RequestFails, table
  <2>3. At(r, "createSession")' => user' = "verified"
    <3>1. CASE Retire(r) \/ Create(r) \/ Find(r) \/ Consume(r) \/ CreateSession(r) \/ RequestFails(r)
      BY <1>2, <3>1, Moves DEF At
    <3>2. CASE FindUser(r) \/ WriteUser(r)
      BY <1>2, <2>2, <3>2, Moves DEF At
    <3> QED
      BY <1>2, <3>1, <3>2 DEF RequestStep
  <2>4. SessionsVerified'
    <3>1. CASE CreateSession(r)
      BY <2>2, <3>1 DEF CreateSession, VerifiedInv, SessionsVerified
    <3>2. CASE ~CreateSession(r)
      <4>1. UNCHANGED origin
        BY <1>2, <3>2 DEF RequestStep, Retire, Create, Find, Consume, FindUser, WriteUser,
                          RequestFails, history
      <4> QED
        BY <2>2, <4>1 DEF VerifiedInv, SessionsVerified
    <3> QED
      BY <3>1, <3>2
  <2> QED
    BY <2>1, <2>2, <2>3, <2>4 DEF VerifiedInv, At
<1> QED
  BY <1>1, <1>2, OtherSteps

(* Nobody has a session opened with a code but a verified user, for any number of requests
   that create or verify users (otp/verify/route.ts:125-155).                      *)
THEOREM SessionsVerifiedEver == Spec => []SessionsVerified
<1>1. Init => VerifiedInv
  BY DEF Init, VerifiedInv, SessionsVerified, At, NoCall
<1>2. Spec => []TypeInv
  BY InitTyped, NextTyped, PTL DEF Spec
<1>3. VerifiedInv => SessionsVerified
  BY DEF VerifiedInv
<1> QED
  BY <1>1, <1>2, <1>3, NextVerified, PTL DEF Spec

-----------------------------------------------------------------------------
(* Earlier codes: a code that a request has retired is spent, and stays so.         *)

RetiredInv ==
  /\ \A c \in Codes : \A d \in older[c] : row[d] = "spent"
  /\ \A r \in Requests : At(r, "create") => \A d \in request[r].seen : row[d] = "spent"

LEMMA NextRetired == TypeInv /\ RetiredInv /\ [Next]_vars => RetiredInv'
<1> SUFFICES ASSUME TypeInv, RetiredInv, [Next]_vars
             PROVE  RetiredInv'
  OBVIOUS
<1>0. /\ row \in [Codes -> Row] /\ older \in [Codes -> SUBSET Codes]
      /\ \A r \in Requests : request[r].seen \subseteq Codes
  BY CallTypes DEF TypeInv, TableOK
<1>1. CASE Quiet
  <2>1. \A c \in Codes : row[c] = "spent" => row'[c] = "spent"
    BY <1>1 DEF Quiet
  <2> QED
    BY <1>0, <1>1, <2>1 DEF Quiet, RetiredInv, At, history
<1>2. ASSUME NEW r \in Requests, RequestStep(r)
      PROVE  RetiredInv'
  <2>1. \A d \in Requests \ {r} : request'[d] = request[d]
    BY <1>2, Moves
  <2>2. \A c \in Codes : row[c] = "spent" => row'[c] = "spent"
    BY <1>0, <1>2 DEF RequestStep, Retire, Create, Find, Consume, FindUser, WriteUser, CreateSession,
                RequestFails, table, Existing
  <2>3. CASE Retire(r)
    <3>1. request'[r].at = "create" /\ request'[r].seen = Existing /\ UNCHANGED older
      BY <1>2, <2>3, Moves DEF Retire, history
    <3>2. \A d \in Existing : row'[d] = "spent"
      BY <1>0, <2>3 DEF Retire, Existing, Working, Row
    <3> QED
      BY <1>0, <2>1, <2>2, <3>1, <3>2 DEF RetiredInv, At
  <2>4. CASE Create(r)
    <3> PICK c \in Codes \ Existing : older' = [older EXCEPT ![c] = request[r].seen]
      BY <2>4 DEF Create
    <3>1. \A d \in request[r].seen : row[d] = "spent"
      BY <2>4 DEF Create, RetiredInv
    <3>2. request'[r].at # "create"
      BY <1>2, <2>4, Moves
    <3> QED
      BY <1>0, <2>1, <2>2, <3>1, <3>2 DEF RetiredInv, At
  <2>5. CASE ~Retire(r) /\ ~Create(r)
    <3>1. request'[r].at # "create"
      BY <1>2, <2>5, Moves DEF RequestStep
    <3>2. UNCHANGED older
      BY <1>2, <2>5 DEF RequestStep, Find, Consume, FindUser, WriteUser, CreateSession,
                        RequestFails, history
    <3> QED
      BY <1>0, <2>1, <2>2, <3>1, <3>2 DEF RetiredInv, At
  <2> QED
    BY <2>3, <2>4, <2>5
<1> QED
  BY <1>1, <1>2, OtherSteps

(* Earlier codes stop working, for any number of overlapping senders: of two codes that
   both work, neither was there when the other's request retired what it saw
   (otp/send/route.ts:107-121, desktopCodes.ts:32-47).                             *)
THEOREM EarlierCodesRetiredEver == Spec => []EarlierCodesRetired
<1>1. Init => RetiredInv
  BY DEF Init, RetiredInv, At, NoCall
<1>2. Spec => []TypeInv
  BY InitTyped, NextTyped, PTL DEF Spec
<1>3. RetiredInv => EarlierCodesRetired
  BY DEF RetiredInv, EarlierCodesRetired, Working
<1> QED
  BY <1>1, <1>2, <1>3, NextRetired, PTL DEF Spec

-----------------------------------------------------------------------------
(* One session.  A code has one holder or one session: a request that found it, and then the
   session that this request opens; once either is past consuming it, it is spent.  *)

Holds(r, c) == request[r].at \in HoldSteps /\ request[r].code = c

Claimed(c) ==
  /\ \A r, s \in Requests : Holds(r, c) /\ Holds(s, c) => r = s
  /\ \A r \in Requests : Holds(r, c) /\ ~At(r, "consume") => row[c] = "spent"
  /\ \A t \in Tokens : origin[t] = c =>
       /\ row[c] = "spent"
       /\ \A r \in Requests : ~Holds(r, c)
       /\ \A v \in Tokens : origin[v] = c => v = t

ClaimInv == \A c \in Codes \ raced : Claimed(c)

LEMMA OneFromClaims == TypeInv /\ ClaimInv => OneSessionPerCode
<1> SUFFICES ASSUME TypeInv, ClaimInv, NEW c \in Codes \ raced
             PROVE  Cardinality({t \in Tokens : origin[t] = c}) <= 1
  BY DEF OneSessionPerCode
<1> DEFINE S == {t \in Tokens : origin[t] = c}
<1>1. CASE S = {}
  BY <1>1, FS_EmptySet
<1>2. CASE S # {}
  <2> PICK t \in S : TRUE
    BY <1>2
  <2>1. S = {t}
    BY DEF ClaimInv, Claimed
  <2> QED
    BY <2>1, FS_Singleton
<1> QED
  BY <1>1, <1>2

\* A step after which a code has no more holders and sessions, and is no less spent.
LEMMA ClaimStays ==
  ASSUME NEW c \in Codes, Claimed(c), UNCHANGED origin,
         row[c] = "spent" => row'[c] = "spent",
         \A r \in Requests : Holds(r, c)' => Holds(r, c),
         \A r \in Requests : Holds(r, c)' /\ ~At(r, "consume")' => row'[c] = "spent"
  PROVE  Claimed(c)'
BY DEF Claimed

LEMMA NextClaim == TypeInv /\ ClaimInv /\ [Next]_vars => ClaimInv'
<1> SUFFICES ASSUME TypeInv, ClaimInv, [Next]_vars, NEW c \in Codes, c \notin raced'
             PROVE  Claimed(c)'
  BY DEF ClaimInv
<1>0. row \in [Codes -> Row] /\ origin \in [Tokens -> Codes \cup {NoCode}]
  BY DEF TypeInv, TableOK
<1>1. CASE Quiet
  <2>1. Claimed(c) /\ UNCHANGED origin /\ (row[c] = "spent" => row'[c] = "spent")
    BY <1>1 DEF Quiet, ClaimInv, history
  <2>2. \A r \in Requests : Holds(r, c)' => Holds(r, c) /\ (At(r, "consume")' <=> At(r, "consume"))
    BY <1>1 DEF Quiet, Holds, At
  <2> QED
    BY <2>1, <2>2, ClaimStays DEF Claimed
<1>2. ASSUME NEW r \in Requests, RequestStep(r)
      PROVE  Claimed(c)'
  <2>m. \A d \in Requests \ {r} : request'[d] = request[d]
    BY <1>2, Moves
  <2>r. raced \subseteq raced'
    BY <1>2 DEF RequestStep, Retire, Create, Find, Consume, FindUser, WriteUser, CreateSession,
                RequestFails, history
  <2>c. Claimed(c)
    BY <2>r DEF ClaimInv
  <2>s. row[c] = "spent" => row'[c] = "spent"
    BY <1>0, <1>2 DEF RequestStep, Retire, Create, Find, Consume, FindUser, WriteUser, CreateSession,
                RequestFails, table, Existing
  <2>h. \A d \in Requests \ {r} : (Holds(d, c)' <=> Holds(d, c)) /\ (At(d, "consume")' <=> At(d, "consume"))
    BY <2>m DEF Holds, At
  <2>1. CASE Retire(r) \/ Create(r) \/ RequestFails(r)
    <3>1. ~Holds(r, c)'
      BY <1>2, <2>1, Moves DEF Holds, HoldSteps
    <3>2. UNCHANGED origin
      BY <2>1 DEF Retire, Create, RequestFails, history
    <3> QED
      BY <2>c, <2>s, <2>h, <3>1, <3>2, ClaimStays DEF Claimed
  <2>2. CASE Find(r)
    <3>1. UNCHANGED <<row, origin>>
      BY <2>2 DEF Find, table
    <3>2. CASE ~Holds(r, c)'
      BY <2>c, <2>s, <2>h, <3>1, <3>2, ClaimStays DEF Claimed
    <3>3. CASE Holds(r, c)'
      <4>1. request[r].code = c /\ c \in Working /\ At(r, "consume")'
        BY <1>2, <2>2, <3>3, Moves DEF Holds, HoldSteps, At
      <4>2. raced' = raced \cup
              (IF \E s \in Requests \ {r} : At(s, "consume") /\ request[s].code = c THEN {c} ELSE {})
        BY <2>2, <4>1 DEF Find
      <4>3. row[c] = "working"
        BY <4>1 DEF Working
      <4>4. \A s \in Requests \ {r} : ~Holds(s, c)
        BY <2>c, <4>2, <4>3 DEF Claimed, Holds
      <4>5. \A t \in Tokens : origin[t] # c
        BY <2>c, <4>3 DEF Claimed
      <4> QED
        BY <2>h, <3>1, <4>1, <4>4, <4>5 DEF Claimed
    <3> QED
      BY <3>2, <3>3
  <2>3. CASE Consume(r)
    <3>1. UNCHANGED origin /\ row' = [row EXCEPT ![request[r].code] = "spent"]
      BY <2>3 DEF Consume, history
    <3>2. Holds(r, c)' => Holds(r, c) /\ row'[c] = "spent"
      BY <1>0, <1>2, <2>3, <3>1, Moves DEF Holds, HoldSteps, Consume, At
    <3> QED
      BY <2>c, <2>s, <2>h, <3>1, <3>2, ClaimStays DEF Claimed
  <2>4. CASE FindUser(r) \/ WriteUser(r)
    <3>1. UNCHANGED <<row, origin>>
      BY <2>4 DEF FindUser, WriteUser, table, history
    <3>2. Holds(r, c)' => Holds(r, c) /\ ~At(r, "consume")
      BY <1>2, <2>4, Moves DEF Holds, HoldSteps, FindUser, WriteUser, At
    <3> QED
      BY <2>c, <2>s, <2>h, <3>1, <3>2, ClaimStays DEF Claimed
  <2>5. CASE CreateSession(r)
    <3>1. ~Holds(r, c)' /\ UNCHANGED row
      BY <1>2, <2>5, Moves DEF Holds, HoldSteps, CreateSession
    <3> PICK t \in Tokens : origin[t] = NoCode /\ origin' = [origin EXCEPT ![t] = request[r].code]
      BY <2>5 DEF CreateSession
    <3>2. CASE request[r].code = c
      <4>1. Holds(r, c) /\ row[c] = "spent" /\ \A s \in Requests \ {r} : ~Holds(s, c)
        BY <2>5, <2>c, <3>2 DEF CreateSession, Claimed, Holds, HoldSteps, At
      <4>2. \A v \in Tokens : origin[v] # c
        BY <2>c, <4>1 DEF Claimed
      <4>3. \A v \in Tokens : origin'[v] = c => v = t
        BY <1>0, <4>2
      <4> QED
        BY <2>h, <3>1, <4>1, <4>3 DEF Claimed
    <3>3. CASE request[r].code # c
      <4>1. \A v \in Tokens : origin'[v] = c => origin[v] = c
        BY <1>0, <3>3
      <4> QED
        BY <2>c, <2>h, <3>1, <4>1 DEF Claimed
    <3> QED
      BY <3>2, <3>3
  <2> QED
    BY <1>2, <2>1, <2>2, <2>3, <2>4, <2>5 DEF RequestStep
<1> QED
  BY <1>1, <1>2, OtherSteps

(* A code opens one session, for any number of overlapping requests, unless two found it
   before either consumed it (otp/verify/route.ts:101-155).                        *)
THEOREM OneSessionEver == Spec => []OneSessionPerCode
<1>1. Init => ClaimInv
  BY ConstantFacts DEF Init, ClaimInv, Claimed, Holds, HoldSteps
<1>2. Spec => []TypeInv
  BY InitTyped, NextTyped, PTL DEF Spec
<1> QED
  BY <1>1, <1>2, NextClaim, OneFromClaims, PTL DEF Spec

-----------------------------------------------------------------------------
(* The app.  As long as checks and sign-outs do not overlap, the one that goes on has a
   token stored under it; nothing is to be signed out before the first check.      *)

AppInv ==
  /\ SignedInWithToken /\ LoadingIsChecked
  /\ auth = "unknown" => leaving.at = "no"
  /\ ~crossed => \A k \in Checks : check[k].at # "idle" =>
       /\ token # NoToken /\ leaving.at = "no"
       /\ \A l \in Checks : check[l].at # "idle" => l = k

LEMMA CheckAuthKeeps ==
  ASSUME TypeInv, AppInv, NEW k \in Checks, NEW t \in Tokens \cup {NoToken}, NEW b,
         CheckAuth(k, t, b), token' = t, UNCHANGED leaving,
         auth = "unknown" => InFlight \/ leaving.at = "no"
  PROVE  AppInv'
<1> USE ConstantFacts
<1>0. check \in [Checks -> Check]
  BY DEF TypeInv, AppOK
<1>1. CASE t = NoToken
  <2>1. auth' = "no" /\ loading' = FALSE /\ UNCHANGED check
    BY <1>1 DEF CheckAuth
  <2>2. ~crossed' => \A l \in Checks : check[l].at = "idle"
    BY DEF CheckAuth, InFlight
  <2> QED
    BY <2>1, <2>2 DEF AppInv, SignedInWithToken, LoadingIsChecked
<1>2. CASE t # NoToken
  <2>1. check' = [check EXCEPT ![k] = [at |-> "sent", token |-> t, stored |-> b]] /\ UNCHANGED auth
    BY <1>2 DEF CheckAuth
  <2>2. check'[k].at = "sent" /\ \A l \in Checks \ {k} : check'[l] = check[l]
    BY <1>0, <2>1
  <2>3. ~crossed' => leaving.at = "no" /\ \A l \in Checks : check[l].at = "idle"
    BY DEF CheckAuth, InFlight
  <2> QED
    BY <1>2, <2>1, <2>2, <2>3 DEF AppInv, SignedInWithToken, LoadingIsChecked
<1> QED
  BY <1>1, <1>2

LEMMA NextApp == TypeInv /\ AppInv /\ [Next]_vars => AppInv'
<1> SUFFICES ASSUME TypeInv, AppInv, [Next]_vars
             PROVE  AppInv'
  OBVIOUS
<1> USE ConstantFacts
<1>0. check \in [Checks -> Check] /\ token \in Tokens \cup {NoToken} /\ crossed \in BOOLEAN
  BY DEF TypeInv, AppOK, Given
<1>1. ASSUME UNCHANGED <<token, auth, loading, check, leaving, crossed>>
      PROVE  AppInv'
  BY <1>1 DEF AppInv, SignedInWithToken, LoadingIsChecked
<1>2. ASSUME NEW r \in Requests, Elsewhere(r) \/ RequestStep(r)
      PROVE  AppInv'
  BY <1>1, <1>2, RequestStepOK DEF Elsewhere, app
<1>3. ASSUME NEW r \in Requests, Submit(r) \/ FormAnswered(r) \/ FormLost(r)
      PROVE  AppInv'
  BY <1>1, <1>3 DEF Submit, FormAnswered, FormLost
<1>4. ASSUME NEW r \in Requests, SignedIn(r)
      PROVE  AppInv'
  <2>1. request[r].token \in Tokens \cup {NoToken} /\ token' = request[r].token /\ UNCHANGED leaving
    BY <1>4, CallTypes DEF SignedIn, TypeInv
  <2>2. PICK k \in Checks : CheckAuth(k, request[r].token, TRUE)
    BY <1>4, <2>1 DEF SignedIn
  <2> QED
    BY <2>1, <2>2, CheckAuthKeeps DEF AppInv
<1>5. ASSUME NEW k \in Checks, CheckServed(k)
      PROVE  AppInv'
  <2>1. /\ check[k].at # "idle" /\ check'[k].at # "idle"
        /\ \A l \in Checks \ {k} : check'[l] = check[l]
    BY <1>0, <1>5 DEF CheckServed, Check
  <2>2. UNCHANGED <<token, auth, loading, leaving, crossed>>
    BY <1>5 DEF CheckServed
  <2> QED
    BY <2>1, <2>2 DEF AppInv, SignedInWithToken, LoadingIsChecked
<1>6. ASSUME NEW k \in Checks, CheckHandled(k) \/ CheckLost(k)
      PROVE  AppInv'
  <2>1. /\ check[k].at # "idle" /\ check'[k].at = "idle" /\ loading' = FALSE
        /\ \A l \in Checks \ {k} : check'[l] = check[l]
        /\ UNCHANGED <<leaving, crossed>>
    BY <1>0, <1>6 DEF CheckHandled, CheckLost
  <2>2. auth' \in {"yes", "no"} /\ (auth' = "yes" => token' = token)
    BY <1>6 DEF CheckHandled, CheckLost, Signed
  <2>3. ~crossed' => \A l \in Checks : check'[l].at = "idle"
    BY <2>1 DEF AppInv
  <2> QED
    BY <2>1, <2>2, <2>3 DEF AppInv, SignedInWithToken, LoadingIsChecked
<1>7. CASE SignOut
  <2>1. ~crossed' => ~crossed /\ \A k \in Checks : check[k].at = "idle"
    BY <1>7 DEF SignOut, InFlight
  <2> QED
    BY <1>7, <2>1 DEF SignOut, AppInv, SignedInWithToken, LoadingIsChecked
<1>8. CASE SignOutServed
  <2>1. leaving'.at = "answered" /\ leaving.at = "sent"
    BY <1>8 DEF SignOutServed, TypeInv, AppOK, Leaving
  <2> QED
    BY <1>8, <2>1 DEF SignOutServed, AppInv, SignedInWithToken, LoadingIsChecked
<1>9. CASE SignOutHandled
  <2>1. auth' = "no" /\ leaving' = Staying /\ leaving.at # "no" /\ UNCHANGED <<loading, check, crossed>>
    BY <1>9 DEF SignOutHandled, Signed
  <2>2. ~crossed => \A k \in Checks : check[k].at = "idle"
    BY <2>1 DEF AppInv
  <2> QED
    BY <2>1, <2>2 DEF AppInv, SignedInWithToken, LoadingIsChecked
<1>a. CASE DeepLink
  <2> PICK t \in Tokens, k \in Checks : token' = t /\ CheckAuth(k, t, stored)
    BY <1>a DEF DeepLink
  <2> QED
    BY <1>a, CheckAuthKeeps DEF DeepLink, AppInv
<1>b. CASE FirstCheck
  <2> PICK k \in Checks : CheckAuth(k, token, stored)
    BY <1>b DEF FirstCheck
  <2> QED
    BY <1>0, <1>b, CheckAuthKeeps DEF FirstCheck, AppInv
<1>c. CASE Start
  BY <1>c DEF Start, AppInv, SignedInWithToken, LoadingIsChecked
<1>d. CASE Expire \/ OtherSignIn
  BY <1>1, <1>d DEF Expire, OtherSignIn, app
<1>e. CASE UNCHANGED vars
  BY <1>1, <1>e DEF vars, app
<1> QED
  BY <1>2, <1>3, <1>4, <1>5, <1>6, <1>7, <1>8, <1>9, <1>a, <1>b, <1>c, <1>d, <1>e
  DEF Next, FormEnds, CheckStep

LEMMA AlwaysApp == Spec => []AppInv
<1>1. Init => AppInv
  BY ConstantFacts DEF Init, AppInv, SignedInWithToken, LoadingIsChecked
<1>2. Spec => []TypeInv
  BY InitTyped, NextTyped, PTL DEF Spec
<1> QED
  BY <1>1, <1>2, NextApp, PTL DEF Spec

(* The app shows itself signed in only with a token, whatever the order of answers, unless
   checks or sign-outs overlapped (hooks.ts:314-382, App.tsx:711-735).             *)
THEOREM SignedInWithTokenEver == Spec => []SignedInWithToken
<1>1. AppInv => SignedInWithToken
  BY DEF AppInv
<1> QED
  BY <1>1, AlwaysApp, PTL

(* The loading screen stays only while a check goes on that will take it away, however many
   checks overlap (hooks.ts:314-364).                                              *)
THEOREM LoadingIsCheckedEver == Spec => []LoadingIsChecked
<1>1. AppInv => LoadingIsChecked
  BY DEF AppInv
<1> QED
  BY <1>1, AlwaysApp, PTL
=============================================================================
