----------------------------- MODULE BillingProofs -----------------------------
(***************************************************************************)
(* What Billing promises for any number of customers, subscriptions,       *)
(* overlapping requests and events in progress.                            *)
(***************************************************************************)
EXTENDS Billing, TLAPS

(* Types *)

LEMMA ConstantFacts ==
  /\ Unknown \in Status /\ Unpaid \in Sub
  /\ NoCall \in Call /\ NoCustomer \notin Customers
  /\ MaxVersion \in Nat /\ 1 \in 0..MaxVersion
BY BillingAssumption DEF Unknown, Status, Unpaid, Sub, NoCall, Call

LEMMA InitTyped == Init => TypeOK
<1> SUFFICES ASSUME Init
             PROVE  TypeOK
  OBVIOUS
<1> USE ConstantFacts
<1>1. call \in [Calls -> Call] /\ \A c \in Calls : call[c].at \notin {"link", "open"}
  <2>1. CASE call = [c \in Calls |-> NoCall]
    BY <2>1 DEF NoCall
  <2>2. CASE \E c \in Calls : call = [[d \in Calls |-> NoCall] EXCEPT ![c].at = "find", ![c].signUp = TRUE]
    <3> PICK c \in Calls : call = [[d \in Calls |-> NoCall] EXCEPT ![c].at = "find", ![c].signUp = TRUE]
      BY <2>2
    <3> DEFINE first == [NoCall EXCEPT !.at = "find", !.signUp = TRUE]
    <3>1. call = [[d \in Calls |-> NoCall] EXCEPT ![c] = first]
      OBVIOUS
    <3>2. first \in Call /\ first.at = "find"
      BY DEF NoCall, Call
    <3>3. NoCall.at = "idle"
      BY DEF NoCall
    <3> HIDE DEF first
    <3> QED
      BY <3>1, <3>2, <3>3
  <2> QED
    BY <2>1, <2>2 DEF Init
<1>2. hook \in [Hooks -> Hook \cup {NoHook}]
  BY DEF Init
<1>3. sub \in [Subs -> Sub] /\ \A s \in Subs : sub[s] = Unpaid
  BY DEF Init
<1>4. row \in [Subs -> Status] /\ newest \in [Subs -> 0..MaxVersion]
  BY DEF Init
<1> QED
  BY <1>1, <1>2, <1>3, <1>4 DEF Init, TypeOK

\* What a request holds, and what is left of it.
LEMMA EndTyped ==
  ASSUME TypeOK, NEW c \in Calls, End(c)
  PROVE  /\ call' \in [Calls -> Call]
         /\ \A d \in Calls : call'[d].at \in {"link", "open"} => call'[d].customer \in made
BY ConstantFacts DEF TypeOK, End, NoCall

LEMMA CallTyped ==
  ASSUME TypeOK, NEW c \in Calls, CallStep(c)
  PROVE  TypeOK'
<1> USE ConstantFacts
<1> call[c] \in Call /\ call \in [Calls -> Call]
  BY DEF TypeOK
<1>1. CASE Begin(c)
  <2>1. /\ call' \in [Calls -> Call]
        /\ \A d \in Calls : call'[d].at \in {"link", "open"} => call'[d].customer \in made
    BY <1>1 DEF TypeOK, Begin, Call, NoCall
  <2> QED
    BY <1>1, <2>1 DEF TypeOK, Begin, web, stripe
<1>2. CASE FindCustomer(c)
  <2>1. /\ call' \in [Calls -> Call]
        /\ \A d \in Calls : call'[d].at \in {"link", "open"} => call'[d].customer \in made
    <3>1. CASE customer = NoCustomer
      BY <1>2, <3>1 DEF TypeOK, FindCustomer, Call
    <3>2. CASE customer # NoCustomer /\ call[c].signUp
      BY <1>2, <3>2, EndTyped DEF FindCustomer
    <3>3. CASE customer # NoCustomer /\ ~call[c].signUp
      BY <1>2, <3>3 DEF TypeOK, FindCustomer, Call
    <3> QED
      BY <3>1, <3>2, <3>3
  <2> QED
    BY <1>2, <2>1 DEF TypeOK, FindCustomer, web, stripe
<1>3. CASE CreateCustomer(c)
  <2> PICK k \in Customers \ made :
        /\ made' = made \cup {k}
        /\ call' = [call EXCEPT ![c].at = "link", ![c].customer = k]
    BY <1>3 DEF CreateCustomer
  <2>1. /\ call' \in [Calls -> Call]
        /\ \A d \in Calls : call'[d].at \in {"link", "open"} => call'[d].customer \in made'
    BY DEF TypeOK, Call
  <2> QED
    BY <1>3, <2>1 DEF TypeOK, CreateCustomer, web
<1>4. CASE LinkCustomer(c)
  <2>1. /\ call' \in [Calls -> Call]
        /\ \A d \in Calls : call'[d].at \in {"link", "open"} => call'[d].customer \in made
    <3>1. CASE call[c].signUp
      BY <1>4, <3>1, EndTyped DEF LinkCustomer
    <3>2. CASE ~call[c].signUp
      BY <1>4, <3>2 DEF TypeOK, LinkCustomer, Call
    <3> QED
      BY <3>1, <3>2
  <2> QED
    BY <1>4, <2>1 DEF TypeOK, LinkCustomer, stripe
<1>5. CASE OpenCheckout(c)
  <2>1. /\ call' \in [Calls -> Call]
        /\ \A d \in Calls : call'[d].at \in {"link", "open"} => call'[d].customer \in made
    BY <1>5, EndTyped DEF OpenCheckout
  <2> QED
    BY <1>5, <2>1 DEF TypeOK, OpenCheckout, web
<1>6. CASE CallFails(c)
  <2>1. /\ call' \in [Calls -> Call]
        /\ \A d \in Calls : call'[d].at \in {"link", "open"} => call'[d].customer \in made
    BY <1>6, EndTyped DEF CallFails
  <2> QED
    BY <1>6, <2>1 DEF TypeOK, CallFails, web, stripe
<1> QED
  BY <1>1, <1>2, <1>3, <1>4, <1>5, <1>6 DEF CallStep

\* An event in progress, wherever its handler is.
LEMMA HookTypes ==
  ASSUME TypeOK, NEW h \in Hooks, hook[h] # NoHook
  PROVE  /\ hook[h] \in Hook
         /\ hook[h].event \in Event /\ hook[h].event.sub \in Subs
         /\ hook[h].event.checkout \in BOOLEAN
         /\ hook[h].event.status \in Status
         /\ hook[h].event.status.version \in 0..MaxVersion
         /\ hook[h].event.status.active \in BOOLEAN
BY DEF TypeOK, Hook, Event, Status

LEMMA GotoTyped ==
  ASSUME TypeOK, NEW h \in Hooks, hook[h] # NoHook,
         NEW step \in {"upsert", "cutoff", "answer"}, Goto(h, step)
  PROVE  hook' \in [Hooks -> Hook \cup {NoHook}]
<1>1. [hook[h] EXCEPT !.at = step] \in Hook
  BY HookTypes DEF Hook
<1> QED
  BY <1>1 DEF TypeOK, Goto

LEMMA HookTyped ==
  ASSUME TypeOK, NEW h \in Hooks, HookStep(h)
  PROVE  TypeOK'
<1> USE ConstantFacts
<1> hook \in [Hooks -> Hook \cup {NoHook}]
  BY DEF TypeOK
<1>1. ASSUME NEW e \in events, Deliver(h, e)
      PROVE  TypeOK'
  <2>1. [at |-> IF e.checkout THEN "retrieve" ELSE "find", event |-> e] \in Hook
    BY DEF TypeOK, Hook, Event
  <2>2. hook' \in [Hooks -> Hook \cup {NoHook}]
    BY <1>1, <2>1 DEF Deliver
  <2> QED
    BY <1>1, <2>2 DEF TypeOK, Deliver, web, stripe
<1>2. CASE Retrieve(h)
  <2>1. hook[h] # NoHook
    BY <1>2 DEF Retrieve, NoHook
  <2> DEFINE s == sub[hook[h].event.sub].status
  <2>2. s \in Status
    BY <2>1, HookTypes DEF TypeOK, Sub
  <2>3. [hook[h] EXCEPT !.at = "upsert", !.event.status = s] \in Hook
    BY <2>1, <2>2, HookTypes DEF Hook, Event
  <2>4. hook' = [hook EXCEPT ![h] = [hook[h] EXCEPT !.at = "upsert", !.event.status = s]]
    BY <1>2 DEF Retrieve
  <2>5. hook' \in [Hooks -> Hook \cup {NoHook}]
    BY <2>3, <2>4
  <2> QED
    BY <1>2, <2>5 DEF TypeOK, Retrieve, web, stripe
<1>3. CASE FindUser(h)
  <2>1. hook' \in [Hooks -> Hook \cup {NoHook}]
    BY <1>3, GotoTyped DEF FindUser, NoHook
  <2> QED
    BY <1>3, <2>1 DEF TypeOK, FindUser, web, stripe
<1>4. CASE Upsert(h)
  <2>1. hook[h] # NoHook
    BY <1>4 DEF Upsert, NoHook
  <2>2. hook' \in [Hooks -> Hook \cup {NoHook}]
    BY <1>4, <2>1, GotoTyped DEF Upsert
  <2>3. row' \in [Subs -> Status] /\ newest' \in [Subs -> 0..MaxVersion]
    BY <1>4, <2>1, HookTypes DEF TypeOK, Upsert
  <2>4. keys' \in {"none", "kept", "overdue"}
    BY <1>4 DEF TypeOK, Upsert, Due
  <2> QED
    BY <1>4, <2>2, <2>3, <2>4 DEF TypeOK, Upsert, stripe
<1>5. CASE Cutoff(h)
  <2>1. hook' \in [Hooks -> Hook \cup {NoHook}]
    BY <1>5, GotoTyped DEF Cutoff, NoHook
  <2> QED
    BY <1>5, <2>1 DEF TypeOK, Cutoff, stripe
<1>6. CASE Answer(h)
  BY <1>6 DEF TypeOK, Answer, web
<1>7. CASE HookFails(h)
  BY <1>7 DEF TypeOK, HookFails, web, stripe
<1> QED
  BY <1>1, <1>2, <1>3, <1>4, <1>5, <1>6, <1>7 DEF HookStep

LEMMA StripeTyped ==
  ASSUME TypeOK, NEW s \in Subs, Change(s) \/ \E k \in Customers : Pay(s, k)
  PROVE  TypeOK'
<1> USE ConstantFacts
<1>1. ASSUME NEW k \in Customers, Pay(s, k)
      PROVE  TypeOK'
  <2>1. [version |-> 1, active |-> TRUE] \in Status
    BY DEF Status
  <2> DEFINE started == [version |-> 1, active |-> TRUE]
             done == [sub |-> s, checkout |-> TRUE, status |-> Unknown]
  <2>r. Report(s, started) \in Event /\ done \in Event
    BY <2>1 DEF Report, Event
  <2>e. events' = events \cup {Report(s, started), done}
    BY <1>1 DEF Pay
  <2>2. events' \subseteq Event
    <3> HIDE DEF started, done
    <3> QED
      BY <2>r, <2>e DEF TypeOK
  <2>3. sub' \in [Subs -> Sub] /\ \A t \in Subs : sub'[t] = Unpaid \/ sub'[t].customer \in offered
    BY <1>1, <2>1 DEF TypeOK, Pay, Sub
  <2> QED
    BY <1>1, <2>2, <2>3 DEF TypeOK, Pay, web
<1>2. CASE Change(s)
  <2> DEFINE changed == [version |-> sub[s].status.version + 1, active |-> ~sub[s].status.active]
  <2>1. sub[s] \in Sub /\ sub[s].status.version \in 0..MaxVersion /\ sub[s].customer \in offered
    BY <1>2 DEF TypeOK, Sub, Status, Change
  <2>2. changed \in Status
    BY <1>2, <2>1 DEF Change, Status
  <2>3. events' = events \cup {Report(s, changed)} /\ sub' = [sub EXCEPT ![s].status = changed]
    BY <1>2 DEF Change
  <2> HIDE DEF changed
  <2>r. Report(s, changed) \in Event
    BY <2>2 DEF Report, Event
  <2>4. events' \subseteq Event
    BY <2>3, <2>r DEF TypeOK
  <2>5. sub' \in [Subs -> Sub] /\ \A t \in Subs : sub'[t] = Unpaid \/ sub'[t].customer \in offered
    BY <2>1, <2>2, <2>3 DEF TypeOK, Sub
  <2> QED
    BY <1>2, <2>4, <2>5 DEF TypeOK, Change, web
<1> QED
  BY <1>1, <1>2

LEMMA NextTyped == TypeOK /\ [Next]_vars => TypeOK'
<1> SUFFICES ASSUME TypeOK, [Next]_vars
             PROVE  TypeOK'
  OBVIOUS
<1>1. CASE Register
  BY <1>1 DEF TypeOK, Register, stripe
<1>2. CASE UNCHANGED vars
  BY <1>2 DEF TypeOK, vars, web, stripe
<1> QED
  BY <1>1, <1>2, CallTyped, HookTyped, StripeTyped DEF Next

(* Every reachable state of the billing has its types: requests past their customer have
   one that was made, and what is billed was paid on a page (billing.ts, route.ts). *)
THEOREM TypeCorrect == Spec => []TypeOK
BY InitTyped, NextTyped, PTL DEF Spec

-----------------------------------------------------------------------------
(* One customer.  BilledToAccount speaks of subscriptions; what keeps it so is that the
   pages, and the requests about to open one, are of the customer that the account has. *)

CustomerInv ==
  ~replaced =>
    /\ offered \subseteq {customer}
    /\ \A c \in Calls : call[c].at = "open" => call[c].customer = customer

LEMMA BilledFromPages == TypeOK /\ CustomerInv => BilledToAccount
BY DEF TypeOK, CustomerInv, BilledToAccount

LEMMA CustomerInit == Init => CustomerInv
<1> SUFFICES ASSUME Init
             PROVE  \A c \in Calls : call[c].at # "open"
  BY DEF Init, CustomerInv
<1>1. CASE call = [c \in Calls |-> NoCall]
  BY <1>1 DEF NoCall
<1>2. CASE \E c \in Calls : call = [[d \in Calls |-> NoCall] EXCEPT ![c].at = "find", ![c].signUp = TRUE]
  BY <1>2 DEF NoCall
<1> QED
  BY <1>1, <1>2 DEF Init

LEMMA CallKeepsCustomer ==
  ASSUME TypeOK, CustomerInv, NEW c \in Calls, CallStep(c)
  PROVE  CustomerInv'
<1> USE ConstantFacts
<1> call[c] \in Call /\ call \in [Calls -> Call]
  BY DEF TypeOK
<1>1. CASE Begin(c)
  BY <1>1 DEF CustomerInv, Begin, NoCall, web, stripe
<1>2. CASE FindCustomer(c)
  BY <1>2 DEF CustomerInv, FindCustomer, End, NoCall, Call, web, stripe
<1>3. CASE CreateCustomer(c)
  BY <1>3 DEF CustomerInv, CreateCustomer, Call, web
<1>4. CASE LinkCustomer(c)
  <2> SUFFICES ASSUME customer = NoCustomer, ~replaced
               PROVE  CustomerInv'
    BY <1>4 DEF CustomerInv, LinkCustomer
  <2>1. offered = {} /\ offered' = {}
    BY <1>4 DEF TypeOK, CustomerInv, LinkCustomer, stripe
  <2>2. \A d \in Calls : call[d].at # "open"
    BY DEF TypeOK, CustomerInv
  <2>3. \A d \in Calls : call'[d].at = "open" => d = c /\ call'[d].customer = call[c].customer
    BY <1>4, <2>2 DEF LinkCustomer, End, NoCall, Call
  <2> QED
    BY <1>4, <2>1, <2>3 DEF CustomerInv, LinkCustomer
<1>5. CASE OpenCheckout(c)
  BY <1>5 DEF CustomerInv, OpenCheckout, End, NoCall, Call, web
<1>6. CASE CallFails(c)
  BY <1>6 DEF CustomerInv, CallFails, End, NoCall, web, stripe
<1> QED
  BY <1>1, <1>2, <1>3, <1>4, <1>5, <1>6 DEF CallStep

LEMMA HookKeepsCustomer ==
  ASSUME NEW h \in Hooks, HookStep(h)
  PROVE  UNCHANGED <<customer, call, offered, made, sub, replaced>>
BY DEF HookStep, Deliver, Retrieve, FindUser, Upsert, Cutoff, Answer, HookFails, web, stripe

LEMMA NextCustomer == TypeOK /\ CustomerInv /\ [Next]_vars => CustomerInv'
<1> SUFFICES ASSUME TypeOK, CustomerInv, [Next]_vars
             PROVE  CustomerInv'
  OBVIOUS
<1>1. ASSUME NEW h \in Hooks, HookStep(h)
      PROVE  CustomerInv'
  BY <1>1, HookKeepsCustomer DEF CustomerInv
<1>2. ASSUME NEW s \in Subs, Change(s) \/ \E k \in Customers : Pay(s, k)
      PROVE  CustomerInv'
  BY <1>2 DEF CustomerInv, Change, Pay, web
<1>3. CASE Register
  BY <1>3 DEF CustomerInv, Register, stripe
<1>4. CASE UNCHANGED vars
  BY <1>4 DEF CustomerInv, vars, web, stripe
<1> QED
  BY <1>1, <1>2, <1>3, <1>4, CallKeepsCustomer DEF Next

(* What is billed is the account's customer, unless overlapping requests made one customer
   replace another, for any number of requests (billing.ts:41-58).                  *)
THEOREM BilledToAccountEver == Spec => []BilledToAccount
BY CustomerInit, NextCustomer, BilledFromPages, TypeCorrect, PTL DEF Spec

-----------------------------------------------------------------------------
(* Deliveries.  Why no status is lost: as long as the newest one was not written, its report
   was not answered.                                                                *)

ReportsOfPaid == \A e \in events : sub[e.sub] # Unpaid /\ e.status.version <= sub[e.sub].status.version

HookFollows(h) ==
  hook[h] # NoHook =>
    LET e == hook[h].event IN
      /\ sub[e.sub] # Unpaid /\ e.status.version <= sub[e.sub].status.version
      /\ hook[h].at \in {"cutoff", "answer"} => e.status.version <= newest[e.sub]
      /\ hook[h].at # "retrieve" /\ e.status.version > newest[e.sub]
           => Report(e.sub, e.status) \in events

NewestPending(s) ==
  /\ newest[s] <= sub[s].status.version
  /\ newest[s] # sub[s].status.version => Report(s, sub[s].status) \in events

DeliveryInv ==
  ~replaced => ReportsOfPaid /\ (\A h \in Hooks : HookFollows(h)) /\ \A s \in Subs : NewestPending(s)

LEMMA SubTypes ==
  ASSUME TypeOK, NEW s \in Subs
  PROVE  /\ sub[s] \in Sub /\ sub[s].status \in Status
         /\ sub[s].status.version \in Nat /\ newest[s] \in Nat
BY BillingAssumption DEF TypeOK, Sub, Status

LEMMA ArrivesFromDelivery == TypeOK /\ DeliveryInv => StatusArrives
BY SubTypes DEF TypeOK, DeliveryInv, NewestPending, StatusArrives, Report

LEMMA DeliveryInit == Init => DeliveryInv
BY BillingAssumption DEF Init, DeliveryInv, ReportsOfPaid, HookFollows, NewestPending, NoHook, Unpaid, Unknown

LEMMA ReportIsEvent ==
  ASSUME NEW e \in Event, ~e.checkout
  PROVE  Report(e.sub, e.status) = e /\ Delivered(e) = e
BY DEF Event, Report, Delivered

\* What the step of one event leaves to the others.
LEMMA OthersFollow ==
  ASSUME NEW h \in Hooks, NEW d \in Hooks, d # h, TypeOK, HookFollows(d),
         hook'[d] = hook[d], UNCHANGED sub, events \subseteq events',
         \A s \in Subs : newest'[s] \in Nat /\ newest'[s] >= newest[s]
  PROVE  HookFollows(d)'
<1> SUFFICES ASSUME hook[d] # NoHook
             PROVE  HookFollows(d)'
  BY DEF HookFollows
<1>1. hook[d].event.sub \in Subs /\ hook[d].event.status.version \in Nat
  BY HookTypes, BillingAssumption
<1> QED
  BY <1>1, SubTypes DEF HookFollows, Report

LEMMA HookKeepsDelivery ==
  ASSUME TypeOK, DeliveryInv, BilledToAccount, NEW h \in Hooks, HookStep(h)
  PROVE  DeliveryInv'
<1> SUFFICES ASSUME ~replaced
             PROVE  ReportsOfPaid' /\ (\A d \in Hooks : HookFollows(d)') /\ \A s \in Subs : NewestPending(s)'
  BY HookKeepsCustomer DEF DeliveryInv
<1> USE ConstantFacts
<1>0. ReportsOfPaid /\ (\A d \in Hooks : HookFollows(d)) /\ \A s \in Subs : NewestPending(s)
  BY DEF DeliveryInv
<1>t. /\ hook \in [Hooks -> Hook \cup {NoHook}]
      /\ \A s \in Subs : newest[s] \in Nat /\ sub[s].status.version \in Nat
  BY SubTypes DEF TypeOK
<1>u. \A d \in Hooks : hook[d] # NoHook =>
        /\ hook[d].event \in Event /\ hook[d].event.sub \in Subs
        /\ hook[d].event.status \in Status /\ hook[d].event.status.version \in Nat
  BY HookTypes, BillingAssumption
\* Steps after which the same is stored and still to be answered.
<1>q. ASSUME UNCHANGED <<stripe, newest>>, HookFollows(h)',
             \A d \in Hooks : d # h => hook'[d] = hook[d]
      PROVE  ReportsOfPaid' /\ (\A d \in Hooks : HookFollows(d)') /\ \A s \in Subs : NewestPending(s)'
  <2>1. \A d \in Hooks : d # h => HookFollows(d)'
    BY <1>q, <1>0, <1>t, OthersFollow DEF stripe
  <2> QED
    BY <1>q, <1>0, <2>1 DEF ReportsOfPaid, NewestPending, stripe
<1>1. ASSUME NEW e \in events, Deliver(h, e)
      PROVE  ReportsOfPaid' /\ (\A d \in Hooks : HookFollows(d)') /\ \A s \in Subs : NewestPending(s)'
  <2>1. hook'[h] = [at |-> IF e.checkout THEN "retrieve" ELSE "find", event |-> e]
    BY <1>1, <1>t DEF Deliver
  <2>2. e \in Event /\ e.checkout \in BOOLEAN
    BY DEF TypeOK, Event
  <2>3. ~e.checkout => Report(e.sub, e.status) = e
    BY <2>2, ReportIsEvent
  <2>5. hook'[h].event = e /\ hook'[h].at = (IF e.checkout THEN "retrieve" ELSE "find")
    BY <2>1
  <2>6. sub[e.sub] # Unpaid /\ e.status.version <= sub[e.sub].status.version
    BY <1>0 DEF ReportsOfPaid
  <2>7. Report(e.sub, e.status) \in events \/ e.checkout
    BY <2>2, <2>3
  <2>8. UNCHANGED <<sub, events, newest>>
    BY <1>1 DEF Deliver, stripe
  <2>9. Report(e.sub, e.status) = Report(hook'[h].event.sub, hook'[h].event.status)
    BY <2>5
  <2>a. hook'[h].at \notin {"cutoff", "answer"} /\ (e.checkout => hook'[h].at = "retrieve")
    BY <2>5
  <2>4. HookFollows(h)'
    BY <2>5, <2>6, <2>7, <2>8, <2>9, <2>a DEF HookFollows, Report
  <2> QED
    BY <1>1, <1>q, <1>t, <2>4 DEF Deliver
<1>2. CASE Retrieve(h)
  <2>1. hook[h] # NoHook
    BY <1>2 DEF Retrieve, NoHook
  <2> DEFINE e == hook[h].event
  <2>2. hook'[h].at = "upsert" /\ hook'[h].event.sub = e.sub /\ hook'[h].event.status = sub[e.sub].status
    <3>1. hook[h] \in Hook
      BY <2>1, HookTypes
    <3> QED
      BY <1>2, <1>t, <3>1 DEF Retrieve, Hook, Event
  <2>3. e.sub \in Subs
    BY <2>1, <1>u
  <2>4. NewestPending(e.sub) /\ sub[e.sub] # Unpaid
    BY <1>0, <2>1, <2>3 DEF HookFollows
  <2>5. HookFollows(h)'
    BY <1>2, <1>t, <2>2, <2>3, <2>4 DEF Retrieve, HookFollows, NewestPending, stripe, Report
  <2> QED
    BY <1>2, <1>q, <1>t, <2>5 DEF Retrieve
<1>3. CASE FindUser(h)
  <2>1. hook[h] # NoHook
    BY <1>3 DEF FindUser, NoHook
  <2>2. sub[hook[h].event.sub].customer = customer
    BY <1>0, <1>u, <2>1 DEF HookFollows, BilledToAccount
  <2>3. hook'[h] = [hook[h] EXCEPT !.at = "upsert"] /\ \A d \in Hooks : d # h => hook'[d] = hook[d]
    BY <1>3, <1>t, <2>2 DEF FindUser, Goto
  <2>4. hook'[h].at = "upsert" /\ hook'[h].event = hook[h].event
    BY <2>1, <2>3, HookTypes DEF Hook
  <2>5. HookFollows(h)'
    BY <1>0, <1>3, <2>1, <2>4 DEF FindUser, HookFollows, stripe, Report
  <2> QED
    BY <1>3, <1>q, <2>3, <2>5 DEF FindUser
<1>4. CASE Upsert(h)
  <2>1. hook[h] # NoHook
    BY <1>4 DEF Upsert, NoHook
  <2> DEFINE e == hook[h].event
  <2>2. e.sub \in Subs /\ e.status.version \in Nat /\ HookFollows(h)
    BY <1>0, <1>u, <2>1
  <2>3. newest' = [newest EXCEPT ![e.sub] = IF e.status.version > @ THEN e.status.version ELSE @]
    BY <1>4 DEF Upsert
  <2>4. /\ newest'[e.sub] \in {newest[e.sub], e.status.version}
        /\ newest'[e.sub] >= newest[e.sub] /\ newest'[e.sub] >= e.status.version
        /\ \A s \in Subs : s # e.sub => newest'[s] = newest[s]
    BY <1>t, <2>2, <2>3 DEF TypeOK
  <2>5. /\ \A s \in Subs : newest'[s] \in Nat /\ newest'[s] >= newest[s]
        /\ e.status.version <= sub[e.sub].status.version
    BY <1>t, <2>1, <2>2, <2>4 DEF HookFollows
  <2>6. UNCHANGED stripe
    BY <1>4 DEF Upsert
  <2>7. \E step \in {"answer", "cutoff"} : hook' = [hook EXCEPT ![h].at = step]
    BY <1>4 DEF Upsert, Goto
  <2>8. /\ hook'[h].at \in {"cutoff", "answer"} /\ hook'[h].event = e
        /\ \A d \in Hooks : d # h => hook'[d] = hook[d]
    BY <1>t, <2>1, <2>7, HookTypes DEF Hook
  <2>9. HookFollows(h)'
    <3> HIDE DEF e
    <3>1. sub[e.sub] # Unpaid
      BY <2>1, <2>2 DEF HookFollows, e
    <3> QED
      BY <1>t, <2>2, <2>4, <2>5, <2>6, <2>8, <3>1 DEF HookFollows, stripe
  <2>a. \A d \in Hooks : d # h => HookFollows(d)'
    BY <1>0, <2>5, <2>6, <2>8, OthersFollow DEF stripe
  <2>b. ASSUME NEW s \in Subs
        PROVE  NewestPending(s)'
    <3>1. NewestPending(s)
      BY <1>0
    <3> HIDE DEF e
    <3>2. CASE s = e.sub
      BY <1>t, <2>2, <2>4, <2>5, <2>6, <3>1, <3>2 DEF NewestPending, stripe, Report
    <3>3. CASE s # e.sub
      BY <2>4, <2>6, <3>1, <3>3 DEF NewestPending, stripe, Report
    <3> QED
      BY <3>2, <3>3
  <2> QED
    BY <1>0, <2>6, <2>9, <2>a, <2>b DEF ReportsOfPaid, stripe
<1>5. CASE Cutoff(h)
  <2>1. hook[h] # NoHook
    BY <1>5 DEF Cutoff, NoHook
  <2>2. hook'[h] = [hook[h] EXCEPT !.at = "answer"] /\ \A d \in Hooks : d # h => hook'[d] = hook[d]
    BY <1>5, <1>t DEF Cutoff, Goto
  <2>3. hook'[h].at = "answer" /\ hook'[h].event = hook[h].event /\ hook[h].at = "cutoff"
    BY <1>5, <2>1, <2>2, HookTypes DEF Hook, Cutoff
  <2>4. HookFollows(h)'
    BY <1>0, <1>5, <2>1, <2>3 DEF Cutoff, HookFollows, stripe, Report
  <2> QED
    BY <1>5, <1>q, <2>2, <2>4 DEF Cutoff
<1>6. CASE Answer(h)
  <2>1. hook[h] # NoHook /\ hook[h].at = "answer"
    BY <1>6 DEF Answer, NoHook
  <2> DEFINE e == hook[h].event
  <2>2. e \in Event /\ e.sub \in Subs /\ e.status.version <= newest[e.sub] /\ e.status.version \in Nat
    BY <1>0, <1>u, <2>1 DEF HookFollows
  <2>3. events' = events \ {Delivered(e)} /\ UNCHANGED <<sub, newest>>
    BY <1>6 DEF Answer
  <2>4. ASSUME NEW s \in Subs, NEW status, status.version > newest[s], Report(s, status) \in events
        PROVE  Report(s, status) \in events'
    <3>1. CASE ~e.checkout
      BY <1>t, <2>2, <2>3, <2>4, <3>1, ReportIsEvent DEF Report
    <3>2. CASE e.checkout
      <4>1. Delivered(e).checkout
        BY <2>2, <3>2 DEF Delivered, Event
      <4> QED
        BY <2>3, <2>4, <4>1 DEF Report
    <3> QED
      BY <3>1, <3>2
  <2>5. ASSUME NEW d \in Hooks
        PROVE  HookFollows(d)'
    <3>1. CASE d = h
      BY <1>6, <1>t, <3>1 DEF Answer, HookFollows
    <3>2. CASE d # h
      <4>1. hook'[d] = hook[d]
        BY <1>6, <1>t, <3>2 DEF Answer
      <4>2. SUFFICES ASSUME hook[d] # NoHook
                     PROVE  HookFollows(d)'
        BY <4>1 DEF HookFollows
      <4> DEFINE f == hook[d].event
      <4>3. HookFollows(d) /\ f.sub \in Subs
        BY <1>0, <1>u, <4>2
      <4>4. f.status.version > newest[f.sub] /\ Report(f.sub, f.status) \in events
              => Report(f.sub, f.status) \in events'
        BY <2>4, <4>3
      <4> QED
        BY <2>3, <4>1, <4>2, <4>3, <4>4 DEF HookFollows, Report
    <3> QED
      BY <3>1, <3>2
  <2>6. ASSUME NEW s \in Subs
        PROVE  NewestPending(s)'
    <3>1. NewestPending(s)
      BY <1>0
    <3>2. newest[s] # sub[s].status.version => sub[s].status.version > newest[s]
      BY <1>t, <3>1 DEF NewestPending
    <3>3. newest[s] # sub[s].status.version => Report(s, sub[s].status) \in events'
      BY <2>4, <3>1, <3>2 DEF NewestPending
    <3> QED
      BY <2>3, <3>1, <3>3 DEF NewestPending, Report
  <2> QED
    BY <1>0, <2>3, <2>5, <2>6 DEF ReportsOfPaid
<1>7. CASE HookFails(h)
  <2>1. hook'[h] = NoHook /\ \A d \in Hooks : d # h => hook'[d] = hook[d]
    BY <1>7, <1>t DEF HookFails
  <2>2. HookFollows(h)'
    BY <2>1 DEF HookFollows
  <2> QED
    BY <1>7, <1>q, <2>1, <2>2 DEF HookFails
<1> QED
  BY <1>1, <1>2, <1>3, <1>4, <1>5, <1>6, <1>7 DEF HookStep

LEMMA ChangeKeepsDelivery ==
  ASSUME TypeOK, DeliveryInv, NEW s \in Subs, Change(s) \/ \E k \in Customers : Pay(s, k)
  PROVE  DeliveryInv'
<1> SUFFICES ASSUME ~replaced
             PROVE  ReportsOfPaid' /\ (\A h \in Hooks : HookFollows(h)') /\ \A t \in Subs : NewestPending(t)'
  BY DEF DeliveryInv, Change, Pay
<1> USE ConstantFacts
<1>0. ReportsOfPaid /\ (\A h \in Hooks : HookFollows(h)) /\ \A t \in Subs : NewestPending(t)
  BY DEF DeliveryInv
\* Both report a status newer than any before.
<1>1. PICK status \in Status :
        /\ sub' = [sub EXCEPT ![s] = sub'[s]] /\ sub'[s] # Unpaid /\ sub'[s].status = status
        /\ status.version > sub[s].status.version
        /\ events \cup {Report(s, status)} \subseteq events'
        /\ \A e \in events' \ events : e.sub = s /\ e.status.version <= status.version
        /\ UNCHANGED <<hook, newest>>
  <2>t. sub[s].status.version \in Nat /\ sub[s] \in Sub /\ sub \in [Subs -> Sub]
    BY SubTypes DEF TypeOK
  <2>1. CASE Change(s)
    <3> DEFINE status == [version |-> sub[s].status.version + 1, active |-> ~sub[s].status.active]
    <3>1. status \in Status /\ status.version > sub[s].status.version
      BY <2>1, <2>t, SubTypes DEF TypeOK, Change, Status, Sub
    <3>2. events' = events \cup {Report(s, status)} /\ sub' = [sub EXCEPT ![s].status = status]
      BY <2>1 DEF Change
    <3> HIDE DEF status
    <3>3. sub'[s].status = status /\ sub' = [sub EXCEPT ![s] = sub'[s]]
      BY <2>t, <3>2 DEF Sub
    <3>4. sub'[s] # Unpaid
      BY <3>1, <3>3, <2>t DEF Unpaid, Unknown
    <3>5. status.version \in Nat
      BY <3>1, BillingAssumption DEF Status
    <3> QED
      BY <2>1, <3>1, <3>2, <3>3, <3>4, <3>5 DEF Change, Report
  <2>2. ASSUME NEW k \in Customers, Pay(s, k)
        PROVE  \E status \in Status :
                 /\ sub' = [sub EXCEPT ![s] = sub'[s]] /\ sub'[s] # Unpaid /\ sub'[s].status = status
                 /\ status.version > sub[s].status.version
                 /\ events \cup {Report(s, status)} \subseteq events'
                 /\ \A e \in events' \ events : e.sub = s /\ e.status.version <= status.version
                 /\ UNCHANGED <<hook, newest>>
    <3> DEFINE status == [version |-> 1, active |-> TRUE]
               done == [sub |-> s, checkout |-> TRUE, status |-> Unknown]
    <3>1. status \in Status /\ status.version = 1
      BY DEF Status
    <3>2. sub[s].status.version = 0 /\ Unpaid.status.version = 0
      BY <2>2 DEF Pay, Unpaid, Unknown
    <3>3. events' = events \cup {Report(s, status), done}
      BY <2>2 DEF Pay
    <3>4. done.sub = s /\ done.status.version = 0
      BY DEF Unknown
    <3>5. sub' = [sub EXCEPT ![s] = [customer |-> k, status |-> status]]
      BY <2>2 DEF Pay
    <3> HIDE DEF status, done
    <3>6. sub'[s].status = status /\ sub' = [sub EXCEPT ![s] = sub'[s]]
      BY <2>t, <3>5
    <3>7. sub'[s] # Unpaid
      BY <3>1, <3>2, <3>6
    <3>8. Report(s, status).sub = s /\ Report(s, status).status = status
      BY DEF Report
    <3>9. \A e \in events' \ events : e.sub = s /\ e.status.version <= status.version
      BY <3>1, <3>3, <3>4, <3>8
    <3>a. UNCHANGED <<hook, newest>>
      BY <2>2 DEF Pay
    <3> QED
      BY <3>1, <3>2, <3>3, <3>6, <3>7, <3>9, <3>a
  <2> QED
    BY <2>1, <2>2
<1>2. /\ sub \in [Subs -> Sub] /\ events \subseteq Event
      /\ \A t \in Subs : t # s => sub'[t] = sub[t]
      /\ \A t \in Subs : newest[t] \in Nat /\ sub[t].status.version \in Nat
      /\ status.version \in Nat
  BY <1>1, SubTypes, BillingAssumption DEF TypeOK, Status
\* A subscription that was paid stays so, and its version only grows.
<1>3. \A t \in Subs : sub[t] # Unpaid =>
        sub'[t] # Unpaid /\ sub[t].status.version <= sub'[t].status.version
  BY <1>1, <1>2
<1>4. ReportsOfPaid'
  <2> SUFFICES ASSUME NEW e \in events'
               PROVE  sub'[e.sub] # Unpaid /\ e.status.version <= sub'[e.sub].status.version
    BY DEF ReportsOfPaid
  <2>1. CASE e \in events
    <3>1. e.sub \in Subs /\ e.status.version \in Nat
      BY <1>2, <2>1, BillingAssumption DEF Event, Status
    <3>2. sub'[e.sub].status.version \in Nat
      BY <1>1, <1>2, <3>1
    <3> QED
      BY <1>0, <1>2, <1>3, <2>1, <3>1, <3>2 DEF ReportsOfPaid
  <2>2. CASE e \notin events
    BY <1>1, <2>2
  <2> QED
    BY <2>1, <2>2
<1>5. ASSUME NEW h \in Hooks
      PROVE  HookFollows(h)'
  <2> SUFFICES ASSUME hook[h] # NoHook
               PROVE  HookFollows(h)'
    BY <1>1 DEF HookFollows
  <2> DEFINE e == hook[h].event
  <2>1. e.sub \in Subs /\ e.status.version \in Nat
    BY HookTypes, BillingAssumption
  <2>2. HookFollows(h) /\ hook'[h] = hook[h] /\ sub'[e.sub].status.version \in Nat
    BY <1>0, <1>1, <1>2, <2>1
  <2> QED
    BY <1>1, <1>2, <1>3, <2>1, <2>2 DEF HookFollows, Report
<1>6. ASSUME NEW t \in Subs
      PROVE  NewestPending(t)'
  <2>1. NewestPending(t)
    BY <1>0
  <2>2. CASE t = s
    <3>1. newest'[s] = newest[s] /\ newest[s] <= sub'[s].status.version
      BY <1>1, <1>2, <2>1, <2>2 DEF NewestPending
    <3>2. Report(s, sub'[s].status) \in events'
      BY <1>1
    <3> QED
      BY <2>2, <3>1, <3>2 DEF NewestPending, Report
  <2>3. CASE t # s
    <3>1. newest' = newest /\ sub'[t] = sub[t] /\ events \subseteq events'
      BY <1>1, <1>2, <2>3
    <3> QED
      BY <2>1, <3>1 DEF NewestPending, Report
  <2> QED
    BY <2>2, <2>3
<1> QED
  BY <1>4, <1>5, <1>6

LEMMA NextDelivery == TypeOK /\ BilledToAccount /\ DeliveryInv /\ [Next]_vars => DeliveryInv'
<1> SUFFICES ASSUME TypeOK, BilledToAccount, DeliveryInv, [Next]_vars
             PROVE  DeliveryInv'
  OBVIOUS
<1>1. ASSUME (replaced => replaced'), UNCHANGED <<hook, sub, events, newest>>
      PROVE  DeliveryInv'
  BY <1>1 DEF TypeOK, DeliveryInv, ReportsOfPaid, HookFollows, NewestPending, Report
<1>2. ASSUME NEW c \in Calls, CallStep(c)
      PROVE  DeliveryInv'
  <2>1. UNCHANGED <<hook, sub, events, newest>>
    BY <1>2 DEF CallStep, Begin, FindCustomer, CreateCustomer, LinkCustomer, OpenCheckout, CallFails,
                web, stripe
  <2>2. replaced' = replaced \/ LinkCustomer(c)
    BY <1>2 DEF CallStep, Begin, FindCustomer, CreateCustomer, OpenCheckout, CallFails
  <2>3. LinkCustomer(c) => (replaced => replaced')
    BY DEF LinkCustomer
  <2> QED
    BY <1>1, <2>1, <2>2, <2>3
<1>3. CASE Register
  BY <1>1, <1>3 DEF Register, stripe
<1>4. CASE UNCHANGED vars
  BY <1>1, <1>4 DEF vars, stripe
<1> QED
  BY <1>2, <1>3, <1>4, HookKeepsDelivery, ChangeKeepsDelivery DEF Next

(* No status is lost, for any number of subscriptions, events in progress, errors and
   repeated deliveries: when none is left to deliver, the newest was written
   (route.ts:36-188).                                                               *)
THEOREM StatusArrivesEver == Spec => []StatusArrives
<1>1. Spec => []DeliveryInv
  BY DeliveryInit, NextDelivery, TypeCorrect, BilledToAccountEver, PTL DEF Spec
<1> QED
  BY <1>1, ArrivesFromDelivery, TypeCorrect, PTL

-----------------------------------------------------------------------------
(* The cutoff.  Why no key stays for good: the report that makes keys overdue is to be
   answered, and no event about to be answered is that report.                      *)

Withdraws(e) ==
  /\ e \in events /\ ~e.checkout /\ ~e.status.active
  /\ \A h \in Hooks : hook[h] # NoHook /\ hook[h].at = "answer" => hook[h].event # e

CutoffInv == keys = "overdue" /\ ~spared /\ ~replaced => \E e \in events : Withdraws(e)

LEMMA FollowsFromCutoff == CutoffInv => CutoffFollows
BY DEF CutoffInv, Withdraws, CutoffFollows

LEMMA HookKeepsCutoff ==
  ASSUME TypeOK, BilledToAccount, DeliveryInv, CutoffInv, NEW h \in Hooks, HookStep(h)
  PROVE  CutoffInv'
<1> USE ConstantFacts
<1> SUFFICES ASSUME keys' = "overdue", ~spared', ~replaced
             PROVE  \E e \in events' : Withdraws(e)'
  BY HookKeepsCustomer DEF CutoffInv
<1>t. /\ hook \in [Hooks -> Hook \cup {NoHook}] /\ NoHook.at = "idle"
      /\ \A s \in Subs : newest[s] \in Nat /\ sub[s].status.version \in Nat
  BY SubTypes DEF TypeOK, NoHook
<1>u. \A d \in Hooks : hook[d] # NoHook =>
        /\ hook[d] \in Hook /\ hook[d].event \in Event /\ hook[d].event.sub \in Subs
        /\ hook[d].event.status.version \in Nat
  BY HookTypes, BillingAssumption
<1>f. \A d \in Hooks : HookFollows(d)
  BY DEF DeliveryInv
\* Steps that neither change the keys nor answer an event.
<1>q. ASSUME UNCHANGED <<keys, events, spared>>,
             hook'[h] = NoHook \/ hook'[h].at # "answer",
             \A d \in Hooks : d # h => hook'[d] = hook[d]
      PROVE  \E e \in events' : Withdraws(e)'
  <2> PICK e \in events : Withdraws(e)
    BY <1>q DEF CutoffInv
  <2> QED
    BY <1>q DEF Withdraws
<1>1. ASSUME NEW e \in events, Deliver(h, e)
      PROVE  \E f \in events' : Withdraws(f)'
  <2>1. hook'[h].at # "answer" /\ \A d \in Hooks : d # h => hook'[d] = hook[d]
    BY <1>1, <1>t DEF Deliver
  <2> QED
    BY <1>1, <1>q, <2>1 DEF Deliver, web, stripe
<1>2. CASE Retrieve(h)
  <2>1. hook'[h].at # "answer" /\ \A d \in Hooks : d # h => hook'[d] = hook[d]
    BY <1>2, <1>t, <1>u DEF Retrieve, Hook
  <2> QED
    BY <1>2, <1>q, <2>1 DEF Retrieve, web, stripe
<1>3. CASE FindUser(h)
  <2>1. hook[h] # NoHook
    BY <1>3, <1>t DEF FindUser
  <2>2. sub[hook[h].event.sub].customer = customer
    BY <1>f, <1>u, <2>1 DEF HookFollows, BilledToAccount
  <2>3. hook' = [hook EXCEPT ![h].at = "upsert"]
    BY <1>3, <2>2 DEF FindUser, Goto
  <2>4. hook'[h].at # "answer" /\ \A d \in Hooks : d # h => hook'[d] = hook[d]
    BY <1>t, <1>u, <2>1, <2>3 DEF Hook
  <2> QED
    BY <1>3, <1>q, <2>4 DEF FindUser, web, stripe
<1>4. CASE Upsert(h)
  <2> DEFINE e == hook[h].event
  <2>1. hook[h] # NoHook /\ hook[h].at = "upsert"
    BY <1>4, <1>t DEF Upsert
  <2>2. e \in Event /\ e.sub \in Subs /\ e.status.version \in Nat /\ HookFollows(h)
    BY <1>f, <1>u, <2>1
  <2>3. UNCHANGED <<events, spared>> /\ \A d \in Hooks : d # h => hook'[d] = hook[d]
    BY <1>4, <1>t DEF Upsert, Goto, stripe
  <2>4. CASE keys = "overdue" /\ e.status.active
    <3> PICK f \in events : Withdraws(f)
      BY <2>3, <2>4 DEF CutoffInv
    <3>1. hook'[h].event = e
      BY <1>4, <1>t, <1>u, <2>1 DEF Upsert, Goto, Hook
    <3> QED
      BY <2>3, <2>4, <3>1 DEF Withdraws
  <2>5. CASE ~e.status.active
    <3>1. hook'[h].at = "cutoff" /\ hook'[h].event = e /\ keys' = Due(e)
      BY <1>4, <1>t, <1>u, <2>1, <2>5 DEF Upsert, Goto, Hook
    <3>2. CASE keys = "overdue"
      <4> PICK f \in events : Withdraws(f)
        BY <2>3, <3>2 DEF CutoffInv
      <4> QED
        BY <2>3, <3>1 DEF Withdraws
    <3>3. CASE keys # "overdue"
      <4> DEFINE f == Report(e.sub, e.status)
      <4>1. e.status.version > newest[e.sub]
        BY <3>1, <3>3 DEF Due
      <4>2. f \in events
        BY <2>1, <2>2, <4>1 DEF HookFollows
      <4>3. ~f.checkout /\ ~f.status.active /\ f.sub = e.sub /\ f.status = e.status
        BY <2>5 DEF Report
      <4>4. ASSUME NEW d \in Hooks, hook'[d] # NoHook, hook'[d].at = "answer", hook'[d].event = f
            PROVE  FALSE
        <5>1. d # h /\ hook[d] # NoHook /\ hook[d].at = "answer" /\ hook[d].event = f
          BY <2>3, <3>1, <4>4
        <5>2. f.status.version <= newest[f.sub]
          BY <1>f, <5>1 DEF HookFollows
        <5> HIDE DEF f
        <5> QED
          BY <1>t, <2>2, <4>1, <4>3, <5>2
      <4> HIDE DEF f
      <4> QED
        BY <2>3, <4>2, <4>3, <4>4 DEF Withdraws
    <3> QED
      BY <3>2, <3>3
  <2>6. e.status.active => keys = "overdue"
    BY <1>4 DEF Upsert
  <2> QED
    BY <2>4, <2>5, <2>6
<1>5. CASE Cutoff(h)
  BY <1>5 DEF Cutoff
<1>6. CASE Answer(h)
  <2>1. hook[h] # NoHook /\ hook[h].at = "answer" /\ hook[h].event \in Event
    BY <1>6, <1>t, <1>u DEF Answer
  <2>2. UNCHANGED <<keys, spared>> /\ events' = events \ {Delivered(hook[h].event)}
    BY <1>6 DEF Answer, web
  <2>3. hook'[h] = NoHook /\ \A d \in Hooks : d # h => hook'[d] = hook[d]
    BY <1>6, <1>t DEF Answer
  <2> PICK e \in events : Withdraws(e)
    BY <2>2 DEF CutoffInv
  <2>4. Delivered(hook[h].event) # e
    <3>1. CASE hook[h].event.checkout
      <4>1. Delivered(hook[h].event).checkout
        BY <2>1, <3>1 DEF Delivered, Event
      <4> QED
        BY <4>1 DEF Withdraws
    <3>2. CASE ~hook[h].event.checkout
      BY <2>1, <3>2, ReportIsEvent DEF Withdraws
    <3> QED
      BY <3>1, <3>2
  <2>5. \A d \in Hooks : hook'[d] # NoHook /\ hook'[d].at = "answer" => hook'[d].event # e
    BY <2>3 DEF Withdraws
  <2> QED
    BY <2>2, <2>4, <2>5 DEF Withdraws
<1>7. CASE HookFails(h)
  <2>1. hook'[h] = NoHook /\ \A d \in Hooks : d # h => hook'[d] = hook[d]
    BY <1>7, <1>t DEF HookFails
  <2> QED
    BY <1>7, <1>q, <2>1 DEF HookFails, web, stripe
<1> QED
  BY <1>1, <1>2, <1>3, <1>4, <1>5, <1>6, <1>7 DEF HookStep

LEMMA NextCutoff ==
  TypeOK /\ BilledToAccount /\ DeliveryInv /\ CutoffInv /\ [Next]_vars => CutoffInv'
<1> SUFFICES ASSUME TypeOK, BilledToAccount, DeliveryInv, CutoffInv, [Next]_vars
             PROVE  CutoffInv'
  OBVIOUS
<1>1. ASSUME (replaced => replaced'), UNCHANGED <<hook, keys, spared>>, events \subseteq events'
      PROVE  CutoffInv'
  <2> SUFFICES ASSUME keys = "overdue", ~spared, ~replaced
               PROVE  CutoffInv'
    BY <1>1 DEF CutoffInv
  <2> PICK e \in events : Withdraws(e)
    BY DEF CutoffInv
  <2> QED
    BY <1>1 DEF CutoffInv, Withdraws
<1>2. ASSUME NEW c \in Calls, CallStep(c)
      PROVE  CutoffInv'
  <2>1. UNCHANGED <<hook, keys, spared>> /\ events' = events
    BY <1>2 DEF CallStep, Begin, FindCustomer, CreateCustomer, LinkCustomer, OpenCheckout, CallFails,
                web, stripe
  <2>2. replaced' = replaced \/ LinkCustomer(c)
    BY <1>2 DEF CallStep, Begin, FindCustomer, CreateCustomer, OpenCheckout, CallFails
  <2>3. LinkCustomer(c) => (replaced => replaced')
    BY DEF LinkCustomer
  <2> QED
    BY <1>1, <2>1, <2>2, <2>3
<1>3. ASSUME NEW s \in Subs, Change(s) \/ \E k \in Customers : Pay(s, k)
      PROVE  CutoffInv'
  <2>1. UNCHANGED <<hook, keys, spared, replaced>> /\ events \subseteq events'
    BY <1>3 DEF Change, Pay, web
  <2> QED
    BY <1>1, <2>1
<1>4. CASE Register
  BY <1>4 DEF Register, CutoffInv
<1>5. CASE UNCHANGED vars
  BY <1>1, <1>5 DEF vars, web, stripe
<1> QED
  BY <1>2, <1>3, <1>4, <1>5, HookKeepsCutoff DEF Next

(* The immediate cutoff of docs/API.md:640, for any number of subscriptions and events in
   progress: keys that are to be withdrawn are withdrawn, or an event that will do so is
   still to be answered, whatever fails and restarts (route.ts:152-169).            *)
THEOREM CutoffFollowsEver == Spec => []CutoffFollows
<1>1. Init => CutoffInv
  BY DEF Init, CutoffInv
<1>2. Spec => []DeliveryInv
  BY DeliveryInit, NextDelivery, TypeCorrect, BilledToAccountEver, PTL DEF Spec
<1>3. Spec => []CutoffInv
  BY <1>1, <1>2, NextCutoff, TypeCorrect, BilledToAccountEver, PTL DEF Spec
<1> QED
  BY <1>3, FollowsFromCutoff, PTL
=============================================================================
