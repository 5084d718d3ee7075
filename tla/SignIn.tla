-------------------------------- MODULE SignIn --------------------------------
(***************************************************************************)
(* Signing in to the desktop app with a code sent by e-mail: the codes of  *)
(* one address (DesktopLoginCode), which two senders and two receivers of  *)
(* the web app share, the sessions they open, and the token that the app   *)
(* keeps, checks and gives up.                                             *)
(*                                                                         *)
(* A request of the web app is a sequence of database calls with no        *)
(* transaction around them; any of them may fail, which answers 500.  The  *)
(* rate limiters, in memory and per process, are left out: a refused       *)
(* request changes nothing else.  Codes are told apart by their rows, of   *)
(* which no two hold the same six digits.                                  *)
(***************************************************************************)
EXTENDS FiniteSets, Integers

CONSTANTS
  Codes,     \* rows of DesktopLoginCode
  Tokens,    \* session tokens
  Requests,  \* slots of the web app: how many requests overlap
  Checks,    \* slots of the app: how many calls of checkAuth overlap
  Busy,      \* bound: how many requests, checks and sign-outs overlap together
  NoCode, NoToken, NoRequest

ASSUME SignInAssumption ==
  /\ NoCode \notin Codes /\ NoToken \notin Tokens /\ NoRequest \notin Requests
  /\ IsFiniteSet(Tokens)
  /\ Busy \in Nat \ {0}

VARIABLES
  row,       \* by code: was it made, and does it still work?
  user,      \* the address's User row
  sessions,  \* the tokens of the Session rows that have not expired
  request,   \* the requests in progress
  token,     \* the app's stored session token
  stored,    \* does the app have a stored user?
  auth,      \* isAuthenticated
  loading,   \* isLoading of useAuth: the app shows its loading screen
  form,      \* the request that the login screen waits for
  check,     \* the calls of checkAuth in progress
  leaving,   \* the call of signOut in progress
  older,     \* history, by code: the codes that existed when its request retired them
  raced,     \* history: codes that two requests had found before either consumed them
  origin,    \* history, by token: the code that its session was opened with
  crossed    \* history: did a check or sign-out begin while another went on, with no
             \* check alone since?

table == <<row, user, sessions>>
app == <<token, stored, auth, loading, form, check, leaving, crossed>>
history == <<older, raced, origin>>
vars == <<table, request, app, history>>

Row == {"none", "working", "spent"}
Users == {"none", "unverified", "verified"}

RequestSteps ==
  {"idle", "retire", "create", "find", "consume", "findUser", "writeUser",
   "createSession", "answered", "failed"}

\* app: does the app's login screen await the answer?  new: no user was found.
Request ==
  [at: RequestSteps, kind: {"send", "verify", "resolve"}, app: BOOLEAN,
   code: Codes \cup {NoCode}, seen: SUBSET Codes, new: BOOLEAN, token: Tokens \cup {NoToken}]
NoCall ==
  [at |-> "idle", kind |-> "send", app |-> FALSE,
   code |-> NoCode, seen |-> {}, new |-> FALSE, token |-> NoToken]

\* stored: storedUser, read when the check began.
Check == [at: {"idle", "sent", "valid", "refused"}, token: Tokens \cup {NoToken}, stored: BOOLEAN]
NoCheck == [at |-> "idle", token |-> NoToken, stored |-> FALSE]

Leaving == [at: {"no", "sent", "answered"}, token: Tokens \cup {NoToken}]
Staying == [at |-> "no", token |-> NoToken]

(* A session has a code that opened it, a check its token, a request past its look-up a
   code, and what the app stored was given out (otp/verify/route.ts:101-155).        *)
TypeOK ==
  /\ row \in [Codes -> Row] /\ user \in Users /\ sessions \subseteq Tokens
  /\ request \in [Requests -> Request]
  /\ \A r \in Requests :
       /\ request[r].at \in {"consume", "findUser", "writeUser", "createSession"} =>
            request[r].code # NoCode /\ row[request[r].code] # "none"
       /\ request[r].at = "idle" => request[r] = NoCall
  /\ token \in Tokens \cup {NoToken} /\ stored \in BOOLEAN
  /\ auth \in {"unknown", "yes", "no"} /\ loading \in BOOLEAN
  /\ form \in Requests \cup {NoRequest}
  /\ form # NoRequest => request[form].app /\ auth # "yes"
  /\ check \in [Checks -> Check]
  /\ \A k \in Checks : check[k].at # "idle" => check[k].token # NoToken
  /\ leaving \in Leaving
  /\ older \in [Codes -> SUBSET Codes] /\ raced \subseteq Codes
  /\ origin \in [Tokens -> Codes \cup {NoCode}]
  /\ \A t \in sessions \cup ({token} \ {NoToken}) : origin[t] # NoCode
  /\ crossed \in BOOLEAN

At(r, step) == request[r].at = step
Goto(r, step) == request' = [request EXCEPT ![r].at = step]

\* An answer that nobody awaits is gone.
EndAs(r, step, t) ==
  request' = [request EXCEPT ![r] =
    IF request[r].app
      THEN [NoCall EXCEPT !.at = step, !.kind = request[r].kind, !.app = TRUE, !.token = t]
      ELSE NoCall]

Working == {c \in Codes : row[c] = "working"}
Existing == {c \in Codes : row[c] # "none"}

Going ==
  Cardinality({r \in Requests : request[r].at # "idle"})
    + Cardinality({k \in Checks : check[k].at # "idle"}) + IF leaving.at = "no" THEN 0 ELSE 1

-----------------------------------------------------------------------------
(* The web app: a request begins *)

Open(r, call) ==
  /\ At(r, "idle") /\ Going < Busy
  /\ request' = [request EXCEPT ![r] = call]
  /\ UNCHANGED <<table, history>>

\* otp/send, and sendVerificationRequest of a sign-in that leads to /desktop.
SendCall(mine) == [NoCall EXCEPT !.at = "retire", !.kind = "send", !.app = mine]

\* otp/verify, and desktop.resolveCode, with a code that was made.
VerifyCall(c, mine) == [NoCall EXCEPT !.at = "find", !.kind = "verify", !.code = c, !.app = mine]
ResolveCall(c) == [NoCall EXCEPT !.at = "find", !.kind = "resolve", !.code = c]

\* From a browser, or from another machine of the same person.
Elsewhere(r) ==
  /\ \/ Open(r, SendCall(FALSE))
     \/ \E c \in Existing : Open(r, VerifyCall(c, FALSE)) \/ Open(r, ResolveCall(c))
  /\ UNCHANGED app

-----------------------------------------------------------------------------
(* Sending a code *)

\* Mutant: earlier codes go on working.
RetireNone(r) ==
  /\ At(r, "retire")
  /\ request' = [request EXCEPT ![r].at = "create", ![r].seen = Existing]
  /\ UNCHANGED <<table, app, history>>

Retire(r) ==
  /\ At(r, "retire")
  /\ row' = [c \in Codes |-> IF c \in Working THEN "spent" ELSE row[c]]
  /\ request' = [request EXCEPT ![r].at = "create", ![r].seen = Existing]
  /\ UNCHANGED <<user, sessions, app, history>>

\* The e-mail is sent after that; when it cannot be, the row stays.
Create(r) ==
  /\ At(r, "create")
  /\ \E c \in Codes \ Existing :
       /\ row' = [row EXCEPT ![c] = "working"]
       /\ older' = [older EXCEPT ![c] = request[r].seen]
  /\ \E outcome \in {"answered", "failed"} : EndAs(r, outcome, NoToken)
  /\ UNCHANGED <<user, sessions, app, raced, origin>>

-----------------------------------------------------------------------------
(* Using a code *)

\* Mutant: only the code is looked for, not whether it was consumed.
FindAny(r) ==
  /\ At(r, "find")
  /\ Goto(r, "consume")
  /\ UNCHANGED <<table, app, history>>

Find(r) ==
  LET c == request[r].code IN
  /\ At(r, "find")
  /\ IF c \in Working
       THEN /\ Goto(r, "consume")
            /\ raced' = raced \cup
                 (IF \E s \in Requests \ {r} : At(s, "consume") /\ request[s].code = c THEN {c} ELSE {})
       ELSE EndAs(r, "failed", NoToken) /\ UNCHANGED raced
  /\ UNCHANGED <<table, app, older, origin>>

\* By its id, whether it is still unconsumed or not.
Consume(r) ==
  /\ At(r, "consume")
  /\ row' = [row EXCEPT ![request[r].code] = "spent"]
  /\ IF request[r].kind = "verify" THEN Goto(r, "findUser") ELSE EndAs(r, "answered", NoToken)
  /\ UNCHANGED <<user, sessions, app, history>>

FindUser(r) ==
  /\ At(r, "findUser")
  /\ request' = [request EXCEPT ![r].new = (user = "none"),
                                ![r].at = IF user = "verified" THEN "createSession" ELSE "writeUser"]
  /\ UNCHANGED <<table, app, history>>

\* Mutant: a user who is there already is left as it is.
WriteUserNew(r) ==
  /\ At(r, "writeUser")
  /\ IF request[r].new /\ user # "none"
       THEN EndAs(r, "failed", NoToken) /\ UNCHANGED user
       ELSE /\ user' = IF user = "none" THEN "verified" ELSE user
            /\ request' = [request EXCEPT ![r].at = "createSession", ![r].new = FALSE]
  /\ UNCHANGED <<row, sessions, app, history>>

\* A user is created, which fails if another request has created it since, or is marked
\* as verified.
WriteUser(r) ==
  /\ At(r, "writeUser")
  /\ IF request[r].new /\ user # "none"
       THEN EndAs(r, "failed", NoToken) /\ UNCHANGED user
       ELSE /\ user' = "verified"
            /\ request' = [request EXCEPT ![r].at = "createSession", ![r].new = FALSE]
  /\ UNCHANGED <<row, sessions, app, history>>

CreateSession(r) ==
  /\ At(r, "createSession")
  /\ \E t \in Tokens :
       /\ origin[t] = NoCode
       /\ sessions' = sessions \cup {t}
       /\ origin' = [origin EXCEPT ![t] = request[r].code]
       /\ EndAs(r, "answered", t)
  /\ UNCHANGED <<row, user, app, older, raced>>

RequestFails(r) ==
  /\ request[r].at \notin {"idle", "answered", "failed"}
  /\ EndAs(r, "failed", NoToken)
  /\ UNCHANGED <<table, app, history>>

-----------------------------------------------------------------------------
(* Time, and other ways to sign in (external) *)

Expire ==
  /\ \/ \E c \in Working : row' = [row EXCEPT ![c] = "spent"] /\ UNCHANGED sessions
     \/ \E t \in sessions : sessions' = sessions \ {t} /\ UNCHANGED row
  /\ UNCHANGED <<user, request, app, history>>

OtherSignIn ==
  /\ user = "none"
  /\ user' \in {"unverified", "verified"}
  /\ UNCHANGED <<row, sessions, request, app, history>>

-----------------------------------------------------------------------------
(* checkAuth *)

InFlight == leaving.at # "no" \/ \E k \in Checks : check[k].at # "idle"

\* With token t stored.  The loading screen takes the login screen away.
CheckAuth(k, t, user_) ==
  /\ check[k].at = "idle"
  /\ crossed' = InFlight
  /\ form' = NoRequest
  /\ IF t = NoToken
       THEN auth' = "no" /\ loading' = FALSE /\ UNCHANGED check
       ELSE /\ check' = [check EXCEPT ![k] = [at |-> "sent", token |-> t, stored |-> user_]]
            /\ loading' = TRUE /\ UNCHANGED auth

\* The web app looks the session up; an error of its own is no better than a refusal.
CheckServed(k) ==
  /\ check[k].at = "sent"
  /\ \/ check[k].token \in sessions /\ check' = [check EXCEPT ![k].at = "valid"]
     \/ check' = [check EXCEPT ![k].at = "refused"]
  /\ UNCHANGED <<table, request, token, stored, auth, loading, form, leaving, crossed, history>>

\* Mutant: the login screen goes on waiting behind the main one.
SignedKeepsForm(yes) ==
  /\ auth' = IF yes THEN "yes" ELSE "no"
  /\ UNCHANGED form

\* What the login screen awaited is not awaited any more once the app is signed in.
Signed(yes) ==
  /\ auth' = IF yes THEN "yes" ELSE "no"
  /\ form' = IF yes THEN NoRequest ELSE form

\* Mutant: a refusal clears what is stored, and goes on to show the user as signed in.
CheckRefusedShown(k) ==
  /\ check[k].at \in {"valid", "refused"}
  /\ Signed(TRUE)
  /\ stored' = (check[k].at = "valid")
  /\ token' = IF check[k].at = "valid" THEN token ELSE NoToken
  /\ loading' = FALSE
  /\ check' = [check EXCEPT ![k] = NoCheck]
  /\ UNCHANGED <<table, request, leaving, crossed, history>>

CheckHandled(k) ==
  /\ check[k].at \in {"valid", "refused"}
  /\ Signed(check[k].at = "valid")
  /\ stored' = (check[k].at = "valid")
  /\ token' = IF check[k].at = "valid" THEN token ELSE NoToken
  /\ loading' = FALSE
  /\ check' = [check EXCEPT ![k] = NoCheck]
  /\ UNCHANGED <<table, request, leaving, crossed, history>>

\* Mutant: the loading screen stays when the web app cannot be reached.
CheckLostLoading(k) ==
  /\ check[k].at # "idle"
  /\ Signed(check[k].stored)
  /\ check' = [check EXCEPT ![k] = NoCheck]
  /\ UNCHANGED <<table, request, token, stored, loading, leaving, crossed, history>>

\* Without an answer, the stored user of that time is trusted.
CheckLost(k) ==
  /\ check[k].at # "idle"
  /\ Signed(check[k].stored)
  /\ loading' = FALSE
  /\ check' = [check EXCEPT ![k] = NoCheck]
  /\ UNCHANGED <<table, request, token, stored, leaving, crossed, history>>

-----------------------------------------------------------------------------
(* The login screen *)

LoginShown == ~loading /\ auth = "no"

\* Send Code and Resend Code, and Sign In.
Submit(r) ==
  /\ LoginShown /\ form = NoRequest
  /\ Open(r, SendCall(TRUE)) \/ \E c \in Existing : Open(r, VerifyCall(c, TRUE))
  /\ form' = r
  /\ UNCHANGED <<token, stored, auth, loading, check, leaving, crossed>>

Close(r) == request' = [request EXCEPT ![r] = NoCall]

\* The handler of a login screen that was taken away goes on all the same.
SignedIn(r) ==
  /\ At(r, "answered") /\ request[r].kind = "verify"
  /\ Close(r)
  /\ token' = request[r].token /\ stored' = TRUE
  /\ \E k \in Checks : CheckAuth(k, token', TRUE)
  /\ UNCHANGED <<table, leaving, history>>

FormAnswered(r) ==
  /\ At(r, "failed") \/ (At(r, "answered") /\ request[r].kind = "send")
  /\ Close(r)
  /\ form' = IF form = r THEN NoRequest ELSE form
  /\ UNCHANGED <<table, token, stored, auth, loading, check, leaving, crossed, history>>

\* The answer is lost, perhaps before the request has done its work.
FormLost(r) ==
  /\ request[r].app
  /\ request' = [request EXCEPT ![r] =
       IF request[r].at \in {"answered", "failed"} THEN NoCall ELSE [request[r] EXCEPT !.app = FALSE]]
  /\ form' = IF form = r THEN NoRequest ELSE form
  /\ UNCHANGED <<table, token, stored, auth, loading, check, leaving, crossed, history>>

\* A link vpnvpn://auth?token=... brings a token that the web app gave out.
DeepLink ==
  /\ (auth # "unknown" \/ InFlight) /\ Going < Busy
  /\ \E t \in Tokens, k \in Checks :
       origin[t] # NoCode /\ token' = t /\ CheckAuth(k, t, stored)
  /\ UNCHANGED <<table, request, stored, leaving, history>>

-----------------------------------------------------------------------------
(* signOut *)

SignOut ==
  /\ ~loading /\ auth = "yes" /\ leaving = Staying /\ Going < Busy
  /\ leaving' = [at |-> "sent", token |-> token]
  /\ crossed' = (crossed \/ InFlight)
  /\ UNCHANGED <<table, request, token, stored, auth, loading, form, check, history>>

SignOutServed ==
  /\ leaving.at = "sent"
  /\ leaving' = [leaving EXCEPT !.at = "answered"]
  /\ sessions' = sessions \ {leaving.token}
  /\ UNCHANGED <<row, user, request, token, stored, auth, loading, form, check, crossed, history>>

\* Also when the call failed, which leaves the session.
SignOutHandled ==
  /\ leaving.at # "no"
  /\ token' = NoToken /\ stored' = FALSE
  /\ Signed(FALSE)
  /\ leaving' = Staying
  /\ UNCHANGED <<table, request, loading, check, crossed, history>>

\* The app is started, or quit and started again: what it stored is there.
Start ==
  /\ check' = [k \in Checks |-> NoCheck] /\ leaving' = Staying
  /\ auth' = "unknown" /\ loading' = TRUE /\ form' = NoRequest /\ crossed' = FALSE
  /\ request' = [r \in Requests |->
       IF ~request[r].app THEN request[r]
       ELSE IF request[r].at \in {"answered", "failed"} THEN NoCall ELSE [request[r] EXCEPT !.app = FALSE]]
  /\ UNCHANGED <<table, token, stored, history>>

FirstCheck ==
  /\ auth = "unknown" /\ ~InFlight /\ Going < Busy
  /\ \E k \in Checks : CheckAuth(k, token, stored)
  /\ UNCHANGED <<table, request, token, stored, leaving, history>>

-----------------------------------------------------------------------------
Init ==
  /\ row = [c \in Codes |-> "none"]
  /\ user = "none" /\ sessions = {}
  /\ request = [r \in Requests |-> NoCall]
  /\ token = NoToken /\ stored = FALSE
  /\ auth = "unknown" /\ loading = TRUE /\ form = NoRequest
  /\ check = [k \in Checks |-> NoCheck] /\ leaving = Staying
  /\ older = [c \in Codes |-> {}] /\ raced = {}
  /\ origin = [t \in Tokens |-> NoCode] /\ crossed = FALSE

RequestStep(r) ==
  \/ Retire(r) \/ Create(r) \/ Find(r) \/ Consume(r) \/ FindUser(r) \/ WriteUser(r)
  \/ CreateSession(r) \/ RequestFails(r)

FormEnds(r) == SignedIn(r) \/ FormAnswered(r) \/ FormLost(r)

CheckStep(k) == CheckServed(k) \/ CheckHandled(k) \/ CheckLost(k)

Next ==
  \/ \E r \in Requests : Elsewhere(r) \/ RequestStep(r) \/ Submit(r) \/ FormEnds(r)
  \/ \E k \in Checks : CheckStep(k)
  \/ Expire \/ OtherSignIn \/ DeepLink
  \/ SignOut \/ SignOutServed \/ SignOutHandled
  \/ Start \/ FirstCheck

Spec == Init /\ [][Next]_vars

-----------------------------------------------------------------------------
(* Properties *)

(* Of two codes of an address that both work, neither was there when the request that
   made the other retired the codes before it: only overlapping requests leave two codes
   that work (otp/send/route.ts:107-121, desktopCodes.ts:32-47).                    *)
EarlierCodesRetired ==
  \A c, d \in Working : c # d => c \notin older[d] /\ d \notin older[c]

(* A code opens one session, whatever fails and whoever else sends or uses codes, unless
   two requests found it before either had consumed it (otp/verify/route.ts:101-155). *)
OneSessionPerCode ==
  \A c \in Codes \ raced : Cardinality({t \in Tokens : origin[t] = c}) <= 1

(* Nobody has a session opened with a code whose address is not that of a verified user,
   though the user may be created, by this or by another sign-in, at any moment between
   the look-up and the write (otp/verify/route.ts:125-155).                          *)
SessionsVerified == (\E t \in Tokens : origin[t] # NoCode) => user = "verified"

(* The app shows itself signed in only with a token stored, unless checks or sign-outs
   overlapped: their answers are applied to whatever is stored by then
   (hooks.ts:314-382, App.tsx:111-117, 711-735).                                    *)
SignedInWithToken == auth = "yes" /\ ~crossed => token # NoToken

(* The loading screen stays only while a check goes on that will take it away, however the
   web app answers and whichever of several checks ends first (hooks.ts:314-364).     *)
LoadingIsChecked == loading => auth = "unknown" \/ \E k \in Checks : check[k].at # "idle"
=============================================================================
