-------------------------------- MODULE Billing --------------------------------
(***************************************************************************)
(* apps/web and Stripe: how an account gets its Stripe customer, checks    *)
(* out, and has its Subscription rows follow what Stripe reports           *)
(* (billing.ts, the createUser event, the Stripe webhook).                 *)
(*                                                                         *)
(* A handler is a sequence of awaits with no transaction around them; it   *)
(* may fail or be lost at each.  Stripe delivers an event until it is      *)
(* answered 200, in any order, perhaps twice at a time.  Accounts share    *)
(* nothing here: this is one of them.                                      *)
(***************************************************************************)
EXTENDS Integers, FiniteSets

CONSTANTS
  Customers,  \* customers at Stripe
  NoCustomer, \* stripeCustomerId = NULL
  Subs,       \* subscriptions at Stripe
  Calls,      \* slots for requests of the account: how many overlap
  Hooks,      \* slots for events in progress: how many overlap
  MaxVersion  \* bound: how often a subscription changes at Stripe

ASSUME BillingAssumption ==
  /\ NoCustomer \notin Customers
  /\ Calls # {} /\ IsFiniteSet(Customers)
  /\ MaxVersion \in Nat \ {0}

VARIABLES
  customer,  \* User.stripeCustomerId
  row,       \* the Subscription rows: the status that was written last
  keys,      \* the account's usable keys: none, some, or some that are to be withdrawn
  call,      \* createCheckoutSession and createUser in progress
  hook,      \* the webhook's events in progress
  made,      \* Stripe: the customers of this account
  offered,   \* Stripe: those with a checkout page
  sub,       \* Stripe: the subscriptions
  events,    \* Stripe: the events that were not answered 200
  newest,    \* history: the newest status ever written, by subscription
  replaced,  \* history: was a customer id overwritten by another?
  spared     \* history: did a revocation fail?

web == <<customer, row, keys>>
stripe == <<made, offered, sub, events>>
vars == <<web, call, hook, stripe, newest, replaced, spared>>

\* A subscription's status: active (or trialing), or not; the version tells two apart.
Status == [version: 0..MaxVersion, active: BOOLEAN]
Unknown == [version |-> 0, active |-> FALSE]

Sub == [customer: Customers \cup {NoCustomer}, status: Status]
Unpaid == [customer |-> NoCustomer, status |-> Unknown]

\* checkout: checkout.session.completed, which only names the subscription.
Event == [sub: Subs, checkout: BOOLEAN, status: Status]

Call == [at: {"idle", "find", "create", "link", "open"}, signUp: BOOLEAN,
         customer: Customers \cup {NoCustomer}]
NoCall == [at |-> "idle", signUp |-> FALSE, customer |-> NoCustomer]

Hook == [at: {"idle", "retrieve", "find", "upsert", "cutoff", "answer"}, event: Event]
NoHook == [at |-> "idle"]

(* A request past its customer has one, checkout pages are of customers that were made,
   and what is billed was paid on such a page (billing.ts:41-58, route.ts:36-150).  *)
TypeOK ==
  /\ customer \in made \cup {NoCustomer}
  /\ row \in [Subs -> Status]
  /\ keys \in {"none", "kept", "overdue"}
  /\ call \in [Calls -> Call]
  /\ \A c \in Calls : call[c].at \in {"link", "open"} => call[c].customer \in made
  /\ hook \in [Hooks -> Hook \cup {NoHook}]
  /\ offered \subseteq made /\ made \subseteq Customers
  /\ sub \in [Subs -> Sub]
  /\ \A s \in Subs : sub[s] = Unpaid \/ sub[s].customer \in offered
  /\ events \subseteq Event
  /\ newest \in [Subs -> 0..MaxVersion]
  /\ replaced \in BOOLEAN /\ spared \in BOOLEAN

-----------------------------------------------------------------------------
(* createCheckoutSession, and the createUser event of a new account *)

Begin(c) ==
  /\ call[c].at = "idle"
  /\ call' = [call EXCEPT ![c] = [NoCall EXCEPT !.at = "find"]]
  /\ UNCHANGED <<web, hook, stripe, newest, replaced, spared>>

End(c) == call' = [call EXCEPT ![c] = NoCall]

\* Mutant: a page is opened for a customer that was never made.
FindCustomerUnchecked(c) ==
  /\ call[c].at = "find"
  /\ call' = [call EXCEPT ![c].at = "open", ![c].customer = customer]
  /\ UNCHANGED <<web, hook, stripe, newest, replaced, spared>>

FindCustomer(c) ==
  /\ call[c].at = "find"
  /\ \/ customer = NoCustomer /\ call' = [call EXCEPT ![c].at = "create"]
     \/ /\ customer # NoCustomer
        /\ IF call[c].signUp
             THEN End(c)
             ELSE call' = [call EXCEPT ![c].at = "open", ![c].customer = customer]
  /\ UNCHANGED <<web, hook, stripe, newest, replaced, spared>>

\* Mutant: the customer is used and not remembered.
CreateCustomerUnsaved(c) ==
  /\ call[c].at = "create"
  /\ \E k \in Customers \ made :
       /\ made' = made \cup {k}
       /\ call' = [call EXCEPT ![c].at = "open", ![c].customer = k]
  /\ UNCHANGED <<web, hook, offered, sub, events, newest, replaced, spared>>

CreateCustomer(c) ==
  /\ call[c].at = "create"
  /\ \E k \in Customers \ made :
       /\ made' = made \cup {k}
       /\ call' = [call EXCEPT ![c].at = "link", ![c].customer = k]
  /\ UNCHANGED <<web, hook, offered, sub, events, newest, replaced, spared>>

\* Whatever id the row has by now.
LinkCustomer(c) ==
  /\ call[c].at = "link"
  /\ customer' = call[c].customer
  /\ replaced' = (replaced \/ customer # NoCustomer)
  /\ IF call[c].signUp THEN End(c) ELSE call' = [call EXCEPT ![c].at = "open"]
  /\ UNCHANGED <<row, keys, hook, stripe, newest, spared>>

OpenCheckout(c) ==
  /\ call[c].at = "open"
  /\ offered' = offered \cup {call[c].customer}
  /\ End(c)
  /\ UNCHANGED <<web, hook, made, sub, events, newest, replaced, spared>>

\* An error, or a restart of the web app.
CallFails(c) ==
  /\ call[c].at # "idle"
  /\ End(c)
  /\ UNCHANGED <<web, hook, stripe, newest, replaced, spared>>

-----------------------------------------------------------------------------
(* Stripe (external) *)

Report(s, status) == [sub |-> s, checkout |-> FALSE, status |-> status]

\* The page leads to a subscription, which is active from then on.
Pay(s, k) ==
  /\ sub[s] = Unpaid /\ k \in offered
  /\ LET started == [version |-> 1, active |-> TRUE] IN
       /\ sub' = [sub EXCEPT ![s] = [customer |-> k, status |-> started]]
       /\ events' = events \cup
            {Report(s, started), [sub |-> s, checkout |-> TRUE, status |-> Unknown]}
  /\ UNCHANGED <<web, call, hook, made, offered, newest, replaced, spared>>

\* A payment fails or succeeds, or the customer uses the billing portal.
Change(s) ==
  /\ sub[s] # Unpaid /\ sub[s].status.version < MaxVersion
  /\ LET changed == [version |-> sub[s].status.version + 1, active |-> ~sub[s].status.active] IN
       /\ sub' = [sub EXCEPT ![s].status = changed]
       /\ events' = events \cup {Report(s, changed)}
  /\ UNCHANGED <<web, call, hook, made, offered, newest, replaced, spared>>

-----------------------------------------------------------------------------
(* POST /api/webhooks/stripe *)

Goto(h, step) == hook' = [hook EXCEPT ![h].at = step]

Deliver(h, e) ==
  /\ hook[h] = NoHook /\ e \in events
  /\ hook' = [hook EXCEPT ![h] = [at |-> IF e.checkout THEN "retrieve" ELSE "find", event |-> e]]
  /\ UNCHANGED <<web, call, stripe, newest, replaced, spared>>

\* A completed checkout names the user, who is found.
Retrieve(h) ==
  /\ hook[h].at = "retrieve"
  /\ hook' = [hook EXCEPT ![h].at = "upsert", ![h].event.status = sub[hook[h].event.sub].status]
  /\ UNCHANGED <<web, call, stripe, newest, replaced, spared>>

\* Other events name the customer only; nothing is done for one that no user has.
FindUser(h) ==
  /\ hook[h].at = "find"
  /\ Goto(h, IF sub[hook[h].event.sub].customer = customer THEN "upsert" ELSE "answer")
  /\ UNCHANGED <<web, call, stripe, newest, replaced, spared>>

\* What a non-active status that was never stored before makes of the keys.
Due(e) == IF keys = "kept" /\ e.status.version > newest[e.sub] THEN "overdue" ELSE keys

\* Mutant: what the row says already is taken to have been dealt with.
UpsertOnce(h) ==
  LET e == hook[h].event IN
  /\ hook[h].at = "upsert"
  /\ row' = [row EXCEPT ![e.sub] = e.status]
  /\ newest' = [newest EXCEPT ![e.sub] = IF e.status.version > @ THEN e.status.version ELSE @]
  /\ IF e.status.active \/ row[e.sub] = e.status
       THEN Goto(h, "answer") /\ UNCHANGED keys
       ELSE Goto(h, "cutoff") /\ keys' = Due(e)
  /\ UNCHANGED <<customer, call, stripe, replaced, spared>>

\* Whichever status the row has by now.
Upsert(h) ==
  LET e == hook[h].event IN
  /\ hook[h].at = "upsert"
  /\ row' = [row EXCEPT ![e.sub] = e.status]
  /\ newest' = [newest EXCEPT ![e.sub] = IF e.status.version > @ THEN e.status.version ELSE @]
  /\ IF e.status.active
       THEN Goto(h, "answer") /\ UNCHANGED keys
       ELSE Goto(h, "cutoff") /\ keys' = Due(e)
  /\ UNCHANGED <<customer, call, stripe, replaced, spared>>

\* revokePeersForUser, whose error is logged.
Cutoff(h) ==
  /\ hook[h].at = "cutoff"
  /\ \/ keys' = "none" /\ UNCHANGED spared
     \/ spared' = TRUE /\ UNCHANGED keys
  /\ Goto(h, "answer")
  /\ UNCHANGED <<customer, row, call, stripe, newest, replaced>>

Delivered(e) == [e EXCEPT !.status = IF e.checkout THEN Unknown ELSE @]

Answer(h) ==
  /\ hook[h].at = "answer"
  /\ events' = events \ {Delivered(hook[h].event)}
  /\ hook' = [hook EXCEPT ![h] = NoHook]
  /\ UNCHANGED <<web, call, made, offered, sub, newest, replaced, spared>>

\* Mutant: an error is answered like success.
HookFailsAcknowledged(h) ==
  /\ hook[h] # NoHook
  /\ events' = events \ {Delivered(hook[h].event)}
  /\ hook' = [hook EXCEPT ![h] = NoHook]
  /\ UNCHANGED <<web, call, made, offered, sub, newest, replaced, spared>>

\* An error, of the e-mail's too, is answered 500; or no answer arrives.
HookFails(h) ==
  /\ hook[h] # NoHook
  /\ hook' = [hook EXCEPT ![h] = NoHook]
  /\ UNCHANGED <<web, call, stripe, newest, replaced, spared>>

\* The account registers a device (DeviceLifecycle.tla), which retires its earlier keys.
Register ==
  /\ keys' = "kept"
  /\ UNCHANGED <<customer, row, call, hook, stripe, newest, replaced, spared>>

-----------------------------------------------------------------------------
\* The account was just made by NextAuth, or by a code, which sends no createUser event.
Init ==
  /\ customer = NoCustomer /\ row = [s \in Subs |-> Unknown] /\ keys = "none"
  /\ \/ call = [c \in Calls |-> NoCall]
     \/ \E c \in Calls : call = [[d \in Calls |-> NoCall] EXCEPT ![c].at = "find", ![c].signUp = TRUE]
  /\ hook = [h \in Hooks |-> NoHook]
  /\ made = {} /\ offered = {} /\ sub = [s \in Subs |-> Unpaid] /\ events = {}
  /\ newest = [s \in Subs |-> 0] /\ replaced = FALSE /\ spared = FALSE

CallStep(c) ==
  \/ Begin(c) \/ FindCustomer(c) \/ CreateCustomer(c) \/ LinkCustomer(c) \/ OpenCheckout(c)
  \/ CallFails(c)

HookStep(h) ==
  \/ \E e \in events : Deliver(h, e)
  \/ Retrieve(h) \/ FindUser(h) \/ Upsert(h) \/ Cutoff(h) \/ Answer(h) \/ HookFails(h)

Next ==
  \/ \E c \in Calls : CallStep(c)
  \/ \E h \in Hooks : HookStep(h)
  \/ \E s \in Subs : Change(s) \/ \E k \in Customers : Pay(s, k)
  \/ Register

Spec == Init /\ [][Next]_vars

-----------------------------------------------------------------------------
(* Properties *)

(* A subscription that is billed is that of the customer the account has, or it could
   neither be ended in the billing portal nor be followed by the webhook; only requests
   that overlap, and each make a customer, break that (billing.ts:41-58, 88-100).   *)
BilledToAccount == \A s \in Subs : sub[s] = Unpaid \/ sub[s].customer = customer \/ replaced

(* Once Stripe has nothing to deliver about a subscription and no event of it is in
   progress, the newest of its statuses was written, whatever failed and however often an
   event was delivered: it may have been overwritten by an older one, but none is lost,
   while the account has one customer (route.ts:36-188).                            *)
StatusArrives ==
  \A s \in Subs :
    (\A e \in events : e.sub # s) /\ (\A h \in Hooks : hook[h] # NoHook => hook[h].event.sub # s)
      /\ ~replaced
    => newest[s] = sub[s].status.version

(* docs/API.md:640 and route.ts:152, "Immediate cutoff whenever Stripe marks a
   subscription as non-active": keys that were usable when that was first stored are
   withdrawn, or an event that will do so is still to be answered 200, after errors and
   restarts too; but a revocation that fails is not tried again.                    *)
CutoffFollows ==
  keys = "overdue" => spared \/ replaced \/ \E e \in events : ~e.checkout /\ ~e.status.active
=============================================================================
