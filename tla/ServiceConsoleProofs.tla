------------------------- MODULE ServiceConsoleProofs -------------------------
(***************************************************************************)
(* Theorems about ServiceConsole, for any settings, any number of tries    *)
(* and any number of commands that wait: its types, the one set-up of the  *)
(* wizard that is shown, what it reports and records, the kill switch as   *)
(* the last switch asked, the settings as they are saved.                  *)
(***************************************************************************)
EXTENDS ServiceConsole, FiniteSetTheorems, TLAPS

-----------------------------------------------------------------------------
(* Commands and the queue they wait in *)

LEMMA CommandKinds ==
  /\ \A c \in Command :
       /\ c.do \in {"setup", "available", "verify"} => c.look \in Looks
       /\ c.do = "save" => c.value \in Values
       /\ c.do = "complete" => c.choices \in Choices /\ c.installed \in BOOLEAN
  /\ \A w \in Polls \cup Services \cup {"state", "load", "enable", "disable", "switchOn"} :
       Run(w) \in Command /\ Run(w).do = w
  /\ \A look \in Looks, w \in {"setup", "available", "verify"} :
       Look(w, look) \in Command /\ Look(w, look).do = w /\ Look(w, look).look = look
  /\ \A v \in Values : Save(v) \in Command /\ Save(v).do = "save" /\ Save(v).value = v
  BY DEF Command, Run, Look, Save, Polls, Services

LEMMA ChoicesKinds == \A choices \in Choices : choices.value \in Values
  BY ConsoleAssumption DEF Choices, ConsoleAssumption

LEMMA Joined ==
  ASSUME NEW S, NEW q \in Seq(S), NEW more \in Seq(S)
  PROVE  /\ q \o more \in Seq(S)
         /\ Len(q \o more) = Len(q) + Len(more)
         /\ \A i \in 1..(Len(q) + Len(more)) :
              (q \o more)[i] = IF i <= Len(q) THEN q[i] ELSE more[i - Len(q)]
  OBVIOUS

LEMMA Popped ==
  ASSUME NEW S, NEW q \in Seq(S), q # <<>>
  PROVE  /\ Head(q) = q[1] /\ Head(q) \in S
         /\ Len(q) \in Nat \ {0}
         /\ Tail(q) \in Seq(S) /\ Len(Tail(q)) = Len(q) - 1
         /\ \A i \in 1..(Len(q) - 1) : Tail(q)[i] = q[i + 1]
  OBVIOUS

LEMMA ShortSeqs ==
  ASSUME NEW S
  PROVE  /\ <<>> \in Seq(S) /\ Len(<<>>) = 0
         /\ \A c \in S : <<c>> \in Seq(S) /\ Len(<<c>>) = 1 /\ <<c>>[1] = c
  OBVIOUS

-----------------------------------------------------------------------------
(* The steps of a set-up, and those of a wizard that was taken away *)

LEMMA LookKinds ==
  /\ Orphaned \in Looks
  /\ \A b \in {"Install", "Retry"} : First(b) \in Looks /\ First(b).by = b /\ First(b) # Orphaned
  /\ \A look \in Looks : look # Orphaned => look \in [tries: 0..Tries - 1, by: {"Install", "Retry"}]
<1>1. 0 \in 0..Tries - 1
  BY ConsoleAssumption DEF ConsoleAssumption
<1>2. \A b \in {"Install", "Retry"} : First(b) \in [tries: 0..Tries - 1, by: {"Install", "Retry"}]
  BY <1>1 DEF First
<1>3. \A b \in {"Install", "Retry"} : First(b).by = b /\ Orphaned.by # b
  BY DEF First, Orphaned
<1> QED
  BY <1>2, <1>3 DEF Looks

\* The look that follows one that found nothing is for the same button.
LEMMA NextTryKinds ==
  ASSUME NEW look \in Looks, look # Orphaned
  PROVE  LET next == NextTry(look)
         IN /\ next \in Sleeper /\ Own(next) /\ next.look.by = look.by
            /\ next.do \in {"available", "report"}
<1> DEFINE again == [look EXCEPT !.tries = @ + 1]
<1>1. look \in [tries: 0..Tries - 1, by: {"Install", "Retry"}]
  BY LookKinds
<1>2. CASE look.tries + 1 < Tries
  <2>1. again \in [tries: 0..Tries - 1, by: {"Install", "Retry"}] /\ again.by = look.by
    BY <1>1, <1>2, ConsoleAssumption DEF ConsoleAssumption
  <2>2. again \in Looks /\ again # Orphaned
    BY <2>1 DEF Looks, Orphaned
  <2> HIDE DEF again
  <2>3. Look("available", again) \in Sleeper /\ Own(Look("available", again))
    BY <2>2 DEF Look, Sleeper, Own, SetupSteps
  <2>4. NextTry(look) = Look("available", again)
    BY <1>2 DEF NextTry, again
  <2> QED
    BY <2>1, <2>3, <2>4 DEF Look
<1>3. CASE ~(look.tries + 1 < Tries)
  <2>1. NextTry(look) = Look("report", look)
    BY <1>3 DEF NextTry
  <2> QED
    BY <2>1 DEF Look, Sleeper, Own, SetupSteps
<1> QED
  BY <1>2, <1>3

LEMMA OrphanKinds ==
  /\ \A c \in Command :
       /\ Orphan(c) \in Command /\ Orphan(c).do = c.do /\ ~Own(Orphan(c))
       /\ c.do \notin SetupSteps => Orphan(c) = c
  /\ \A s \in Sleeper : Orphan(s) \in Sleeper /\ Orphan(s).do = s.do /\ ~Own(Orphan(s))
<1>1. ASSUME NEW c \in Command \cup Sleeper
      PROVE  /\ Orphan(c).do = c.do /\ ~Own(Orphan(c))
             /\ ~Own(c) => Orphan(c) = c
             /\ Own(c) => Orphan(c) = [do |-> c.do, look |-> Orphaned]
  <2>1. CASE ~Own(c)
    BY <2>1 DEF Orphan
  <2>2. CASE Own(c)
    <3>1. c \in [do: {"setup", "available", "verify", "report"}, look: Looks]
      BY <2>2 DEF Own, SetupSteps, Command, Sleeper, Polls, Services
    <3>2. Orphan(c) = [do |-> c.do, look |-> Orphaned]
      BY <2>2, <3>1 DEF Orphan
    <3> QED
      BY <2>2, <3>2 DEF Own
  <2> QED
    BY <2>1, <2>2
<1>2. ASSUME NEW c \in Command
      PROVE  Orphan(c) \in Command
  <2>1. Own(c) => c.do \in {"setup", "available", "verify"}
    BY DEF Own, SetupSteps, Command, Polls, Services
  <2>2. \A w \in {"setup", "available", "verify"} : [do |-> w, look |-> Orphaned] \in Command
    BY LookKinds DEF Command
  <2> QED
    BY <1>1, <2>1, <2>2
<1>3. ASSUME NEW s \in Sleeper
      PROVE  Orphan(s) \in Sleeper
  <2>1. Own(s) => s.do \in {"available", "report"}
    BY DEF Own, SetupSteps, Sleeper
  <2>2. \A w \in {"available", "report"} : [do |-> w, look |-> Orphaned] \in Sleeper
    BY LookKinds DEF Sleeper
  <2> QED
    BY <1>1, <2>1, <2>2
<1>4. \A c \in Command : c.do \notin SetupSteps => ~Own(c)
  BY DEF Own
<1> QED
  BY <1>1, <1>2, <1>3, <1>4

LEMMA OrphansKinds ==
  ASSUME NEW q \in Seq(Command)
  PROVE  /\ Orphans(q) \in Seq(Command) /\ Len(Orphans(q)) = Len(q)
         /\ \A i \in 1..Len(q) : Orphans(q)[i] = Orphan(q[i])
<1>1. Len(q) \in Nat /\ DOMAIN q = 1..Len(q) /\ \A i \in 1..Len(q) : q[i] \in Command
  OBVIOUS
<1>2. \A i \in 1..Len(q) : Orphan(q[i]) \in Command
  <2>1. \A c \in Command : Orphan(c) \in Command
    BY OrphanKinds
  <2> QED
    BY <1>1, <2>1
<1>3. Orphans(q) = [i \in 1..Len(q) |-> Orphan(q[i])]
  BY <1>1 DEF Orphans
<1> DEFINE other(i) == Orphan(q[i])
<1>4. \A i \in 1..Len(q) : other(i) \in Command
  BY <1>2
<1>5. Orphans(q) = [i \in 1..Len(q) |-> other(i)]
  BY <1>3
<1> HIDE DEF other
<1>6. Orphans(q) \in [1..Len(q) -> Command] /\ \A i \in 1..Len(q) : Orphans(q)[i] = other(i)
  BY <1>4, <1>5
<1> QED
  BY <1>1, <1>6 DEF other

-----------------------------------------------------------------------------
(* What a step does to the commands of some kinds that wait: what the queue takes in is
   "more"; what was first in it may be gone.                                        *)

Adds(more) == queue' = queue \o more

Waiting == queue \in Seq(Command)

\* The commands of kinds K that wait stay in their order, d places further on.
Shifted(K, d) ==
  \A i \in Nat \ {0} :
    /\ i \in DOMAIN queue' /\ queue'[i].do \in K <=> i + d \in DOMAIN queue /\ queue[i + d].do \in K
    /\ i \in DOMAIN queue' /\ queue'[i].do \in K => queue'[i] = queue[i + d]

\* No command of kinds K has come or gone.
Unmoved(K) == Shifted(K, 0) \/ (Shifted(K, 1) /\ queue[1].do \notin K)

LEMMA AddsElements ==
  ASSUME Waiting, NEW more \in Seq(Command), Adds(more)
  PROVE  /\ queue' \in Seq(Command)
         /\ Len(queue) \in Nat /\ Len(more) \in Nat /\ Len(queue') = Len(queue) + Len(more)
         /\ DOMAIN queue = 1..Len(queue) /\ DOMAIN queue' = 1..Len(queue')
         /\ \A i \in 1..Len(queue) : queue'[i] = queue[i]
         /\ \A i \in 1..Len(queue') : i > Len(queue) =>
              queue'[i] = more[i - Len(queue)] /\ i - Len(queue) \in 1..Len(more)
<1>1. /\ queue' \in Seq(Command) /\ Len(queue') = Len(queue) + Len(more)
      /\ \A i \in 1..(Len(queue) + Len(more)) :
           queue'[i] = IF i <= Len(queue) THEN queue[i] ELSE more[i - Len(queue)]
  BY Joined DEF Adds, Waiting
<1>2. Len(queue) \in Nat /\ Len(more) \in Nat /\ DOMAIN queue = 1..Len(queue) /\ DOMAIN queue' = 1..Len(queue')
  BY <1>1 DEF Waiting
<1> QED
  BY <1>1, <1>2

LEMMA RanElements ==
  ASSUME Waiting, queue # <<>>, NEW more \in Seq(Command), Ran(more)
  PROVE  /\ queue' \in Seq(Command)
         /\ Len(queue) \in Nat \ {0} /\ Len(more) \in Nat /\ Len(queue') = Len(queue) - 1 + Len(more)
         /\ DOMAIN queue = 1..Len(queue) /\ DOMAIN queue' = 1..Len(queue')
         /\ \A i \in 1..(Len(queue) - 1) : queue'[i] = queue[i + 1]
         /\ \A i \in 1..Len(queue') : i >= Len(queue) =>
              queue'[i] = more[i - Len(queue) + 1] /\ i - Len(queue) + 1 \in 1..Len(more)
<1> DEFINE rest == Tail(queue)
<1>1. /\ rest \in Seq(Command) /\ Len(rest) = Len(queue) - 1 /\ Len(queue) \in Nat \ {0}
      /\ \A i \in 1..(Len(queue) - 1) : rest[i] = queue[i + 1]
  BY Popped DEF Waiting
<1>2. queue' = rest \o more
  BY DEF Ran
<1> HIDE DEF rest
<1>3. /\ queue' \in Seq(Command) /\ Len(queue') = Len(rest) + Len(more)
      /\ \A i \in 1..(Len(rest) + Len(more)) :
           queue'[i] = IF i <= Len(rest) THEN rest[i] ELSE more[i - Len(rest)]
  BY <1>1, <1>2, Joined
<1>4. Len(more) \in Nat /\ DOMAIN queue = 1..Len(queue) /\ DOMAIN queue' = 1..Len(queue')
  BY <1>3 DEF Waiting
<1>5. \A i \in 1..(Len(queue) - 1) : queue'[i] = queue[i + 1]
  BY <1>1, <1>3, <1>4
<1>6. \A i \in 1..Len(queue') : i >= Len(queue) =>
        queue'[i] = more[i - Len(queue) + 1] /\ i - Len(queue) + 1 \in 1..Len(more)
  <2> SUFFICES ASSUME NEW i \in 1..Len(queue'), i >= Len(queue)
               PROVE  queue'[i] = more[i - Len(queue) + 1] /\ i - Len(queue) + 1 \in 1..Len(more)
    OBVIOUS
  <2>1. i - Len(rest) = i - Len(queue) + 1 /\ ~(i <= Len(rest))
    BY <1>1, <1>3, <1>4
  <2> QED
    BY <2>1, <1>1, <1>3, <1>4
<1> QED
  BY <1>1, <1>3, <1>4, <1>5, <1>6

LEMMA AddsOthers ==
  ASSUME Waiting, NEW K, NEW more \in Seq(Command), \A i \in 1..Len(more) : more[i].do \notin K, Adds(more)
  PROVE  Shifted(K, 0)
<1>1. \A i \in 1..Len(queue') : i > Len(queue) => queue'[i].do \notin K
  BY AddsElements
<1> QED
  BY <1>1, AddsElements DEF Shifted

LEMMA RunsOthers ==
  ASSUME Waiting, NEW K, queue # <<>>,
         NEW more \in Seq(Command), \A i \in 1..Len(more) : more[i].do \notin K, Ran(more)
  PROVE  Shifted(K, 1)
<1>1. \A i \in 1..Len(queue') : i >= Len(queue) => queue'[i].do \notin K
  BY RanElements
<1>2. /\ Len(queue) \in Nat \ {0} /\ Len(queue') \in Nat /\ Len(queue') >= Len(queue) - 1
      /\ DOMAIN queue = 1..Len(queue) /\ DOMAIN queue' = 1..Len(queue')
      /\ \A i \in 1..(Len(queue) - 1) : queue'[i] = queue[i + 1]
  BY RanElements
<1> QED
  BY <1>1, <1>2 DEF Shifted

LEMMA StaysUnmoved ==
  ASSUME Waiting, NEW K, UNCHANGED queue
  PROVE  Unmoved(K)
<1>1. DOMAIN queue = 1..Len(queue) /\ Len(queue) \in Nat
  BY DEF Waiting
<1>2. Shifted(K, 0)
  BY <1>1 DEF Shifted
<1> QED
  BY <1>2 DEF Unmoved

LEMMA InvokesOther ==
  ASSUME Waiting, NEW K, NEW c \in Command, c.do \notin K, Invoke(c)
  PROVE  Unmoved(K)
<1>1. Adds(<<c>>)
  BY DEF Invoke, Adds, Waiting
<1>2. <<c>> \in Seq(Command) /\ \A i \in 1..Len(<<c>>) : <<c>>[i].do \notin K
  BY ShortSeqs
<1> QED
  BY <1>1, <1>2, AddsOthers DEF Unmoved

\* A command has run and its caller invokes nothing, or one command of another kind.
LEMMA RunsAlone ==
  ASSUME Waiting, NEW K, queue # <<>>, Ran(<<>>)
  PROVE  Shifted(K, 1) /\ (Head(queue).do \notin K => Unmoved(K))
<1>1. <<>> \in Seq(Command) /\ \A i \in 1..Len(<<>>) : <<>>[i].do \notin K
  BY ShortSeqs
<1>2. Shifted(K, 1)
  BY <1>1, RunsOthers
<1> QED
  BY <1>2, Popped DEF Unmoved, Waiting

LEMMA RunsOneMore ==
  ASSUME Waiting, NEW K, queue # <<>>, NEW c \in Command, c.do \notin K, Ran(<<c>>)
  PROVE  Shifted(K, 1) /\ (Head(queue).do \notin K => Unmoved(K))
<1>1. <<c>> \in Seq(Command) /\ \A i \in 1..Len(<<c>>) : <<c>>[i].do \notin K
  BY ShortSeqs
<1>2. Shifted(K, 1)
  BY <1>1, RunsOthers
<1> QED
  BY <1>2, Popped DEF Unmoved, Waiting

-----------------------------------------------------------------------------
(* Types.  That the wizard's flags exclude one another takes the invariant below. *)

ServiceTyped ==
  /\ service \in [running: BOOLEAN, killSwitch: BOOLEAN]
  /\ service.killSwitch => service.running
ShownTyped == status \in Status /\ wanted \in {"on", "off", "any"}
WizardTyped ==
  /\ asleep \subseteq Sleeper
  /\ page \in {"choices", "install", "complete"}
  /\ setup \in [installing: BOOLEAN, verifying: BOOLEAN, failed: BOOLEAN, success: BOOLEAN]
  /\ onboarded \in {"loading", "no", "yes"}
  /\ answers \in [kept: BOOLEAN, installed: BOOLEAN] /\ seen \in BOOLEAN
StoredTyped ==
  settings \in Values /\ loaded \in BOOLEAN /\ file \in Values \cup {Unreadable} /\ saved \in BOOLEAN

Typed == ServiceTyped /\ Waiting /\ ShownTyped /\ WizardTyped /\ StoredTyped

LEMMA InvokeTyped ==
  ASSUME Waiting, NEW c \in Command, Invoke(c)
  PROVE  Waiting'
  BY DEF Waiting, Invoke

LEMMA RanTyped ==
  ASSUME Waiting, queue # <<>>, NEW more \in Seq(Command), Ran(more)
  PROVE  Waiting'
  BY Popped, Joined DEF Waiting, Ran

LEMMA MountTyped == Mount \in Seq(Command)
  BY CommandKinds DEF Mount, Polls

LEMMA TurnFacts ==
  ASSUME Waiting, NEW K, Turn(K)
  PROVE  queue # <<>> /\ Head(queue) \in Command /\ Head(queue) = queue[1] /\ Head(queue).do \in K
  BY Popped DEF Turn, Waiting

LEMMA SavesTyped ==
  ASSUME NEW v \in Values
  PROVE  Saves(v) \in Seq(Command)
<1>1. Save(v) \in Command
  BY CommandKinds
<1> QED
  BY <1>1, ShortSeqs DEF Saves

LEMMA LeavesTyped ==
  ASSUME ServiceTyped, NEW w \in Services
  PROVE  \A s \in Leaves(w) \cup LeavesHalf(w) :
           /\ s \in [running: BOOLEAN, killSwitch: BOOLEAN]
           /\ s.killSwitch => s.running
<1> DEFINE Good(s) == /\ s \in [running: BOOLEAN, killSwitch: BOOLEAN]
                      /\ s.killSwitch => s.running
<1>1. Good(service) /\ Good(Down) /\ \A b \in BOOLEAN : Good(Up(b))
  BY DEF ServiceTyped, Up, Down
<1> HIDE DEF Good
<1>2. /\ w = "install" => Leaves(w) = {service, Up(TRUE), Up(FALSE), Down}
      /\ w \in {"stop", "uninstall"} => Leaves(w) = {service, Down}
      /\ w = "restart" => Leaves(w) \subseteq {service}
  BY DEF Leaves
<1>3. LeavesHalf(w) \subseteq {service, Down}
  BY DEF LeavesHalf
<1>4. \A s \in Leaves(w) : Good(s)
  BY <1>1, <1>2 DEF Services
<1>5. \A s \in LeavesHalf(w) : Good(s)
  BY <1>1, <1>3
<1> QED
  BY <1>4, <1>5 DEF Good

LEMMA InitTyped ==
  ASSUME Init, ConsoleAssumption
  PROVE  Typed
<1>1. Waiting
  BY MountTyped DEF Init, Waiting
<1>2. ServiceTyped /\ ShownTyped
  BY DEF Init, ServiceTyped, ShownTyped, Down, Unknown, Status
<1>3. WizardTyped
  BY DEF Init, WizardTyped, Idle, NoAnswers
<1>4. StoredTyped
  BY DEF Init, StoredTyped, ConsoleAssumption
<1> QED
  BY <1>1, <1>2, <1>3, <1>4 DEF Typed

\* The queue holds commands after every step.
LEMMA ShellWaiting ==
  ASSUME Typed, Shell
  PROVE  Waiting'
<1> USE DEF Typed
<1>0. \A w \in {"again", "refresh", "switchOn"} : <<Run(w)>> \in Seq(Command)
  BY CommandKinds, ShortSeqs DEF Polls
<1>1. <<>> \in Seq(Command)
  BY ShortSeqs
<1>2. CASE Refreshed \/ RefreshLost
  <2>1. Turn(Polls) /\ Ran(IF Head(queue).do = "refresh" THEN <<Run("again")>> ELSE <<>>)
    BY <1>2 DEF Refreshed, RefreshLost
  <2> QED
    BY <2>1, <1>0, <1>1, TurnFacts, RanTyped
<1>3. CASE ActionSucceeds
  <2>1. Turn(Services) /\ (Ran(<<>>) \/ Ran(<<Run("refresh")>>))
    BY <1>3 DEF ActionSucceeds
  <2> QED
    BY <2>1, <1>0, <1>1, TurnFacts, RanTyped
<1>4. CASE ActionFails
  <2>1. Turn(Services) /\ Ran(<<Run("again")>>)
    BY <1>4 DEF ActionFails
  <2> QED
    BY <2>1, <1>0, <1>1, TurnFacts, RanTyped
<1>5. CASE Switched \/ SwitchFails
  <2>1. Turn(Switches) /\ (Ran(<<>>) \/ Ran(<<Run("again")>>))
    BY <1>5 DEF Switched, SwitchFails
  <2> QED
    BY <2>1, <1>0, <1>1, TurnFacts, RanTyped
<1>6. CASE SetupSucceeds
  <2>1. Turn({"setup"}) /\ Ran(<<Look("available", Head(queue).look)>>)
    BY <1>6 DEF SetupSucceeds
  <2>2. Head(queue).look \in Looks
    BY <2>1, TurnFacts, CommandKinds
  <2>3. <<Look("available", Head(queue).look)>> \in Seq(Command)
    BY <2>2, CommandKinds, ShortSeqs
  <2> QED
    BY <2>1, <2>3, TurnFacts, RanTyped
<1>7. CASE SetupFails \/ Verified \/ NotVerified \/ StateLoaded \/ Saved \/ SaveFails
  <2>1. /\ Ran(<<>>)
        /\ \E K \in {{"setup"}, {"verify"}, {"available", "verify"}, {"state"}, {"save"}} : Turn(K)
    BY <1>7 DEF SetupFails, Verified, NotVerified, StateLoaded, Saved, SaveFails
  <2> QED
    BY <2>1, <1>1, TurnFacts, RanTyped
<1>8. CASE Reached
  <2>1. Turn({"available"}) /\ Ran(<<Look("verify", Head(queue).look)>>)
    BY <1>8 DEF Reached
  <2>2. Head(queue).look \in Looks
    BY <2>1, TurnFacts, CommandKinds
  <2>3. <<Look("verify", Head(queue).look)>> \in Seq(Command)
    BY <2>2, CommandKinds, ShortSeqs
  <2> QED
    BY <2>1, <2>3, TurnFacts, RanTyped
<1>9. CASE Completed
  <2> DEFINE given == Head(queue).choices
             switch == IF given.killSwitch THEN <<Run("switchOn")>> ELSE <<>>
             more == switch \o Saves(given.value)
  <2>1. Turn({"complete"}) /\ (Ran(more) \/ queue' = Orphans(Tail(queue)) \o more)
    BY <1>9 DEF Completed
  <2>2. given \in Choices
    BY <2>1, TurnFacts, CommandKinds
  <2>3. given.value \in Values
    BY <2>2, ChoicesKinds
  <2>4. switch \in Seq(Command) /\ Saves(given.value) \in Seq(Command)
    BY <2>3, <1>0, <1>1, SavesTyped
  <2> HIDE DEF switch, given
  <2>5. more \in Seq(Command)
    BY <2>4, Joined
  <2>6. Orphans(Tail(queue)) \in Seq(Command)
    BY <2>1, TurnFacts, Popped, OrphansKinds DEF Waiting
  <2> HIDE DEF more
  <2>7. CASE Ran(more)
    BY <2>1, <2>5, <2>7, TurnFacts, RanTyped
  <2>8. CASE queue' = Orphans(Tail(queue)) \o more
    BY <2>5, <2>6, <2>8, Joined DEF Waiting
  <2> QED
    BY <2>1, <2>7, <2>8
<1>10. CASE Loaded
  <2>1. Turn({"load"}) /\ Ran(<<Save(settings')>>) /\ settings' \in Values
    BY <1>10 DEF Loaded, StoredTyped
  <2>2. <<Save(settings')>> \in Seq(Command)
    BY <2>1, CommandKinds, ShortSeqs
  <2> QED
    BY <2>1, <2>2, TurnFacts, RanTyped
<1> QED
  BY <1>2, <1>3, <1>4, <1>5, <1>6, <1>7, <1>8, <1>9, <1>10 DEF Shell

LEMMA SleeperKinds ==
  \A s \in Sleeper : s.do = "available" => s \in Command /\ s.look \in Looks
  BY DEF Sleeper, Command, Looks

LEMMA FinishedTyped ==
  ASSUME Typed, NEW choices \in Choices
  PROVE  Finished(choices) \in Command
  BY DEF Typed, WizardTyped, Finished, Command

LEMMA SwitchKinds ==
  \A on \in BOOLEAN :
    Switch(on) \in Command /\ Switch(on).do \in Switches /\ (Target(Switch(on).do) <=> on)
  BY CommandKinds DEF Switch, Switches, Target

LEMMA OthersWaiting ==
  ASSUME Typed, Poll \/ User \/ Timers \/ CheckAuth \/ DaemonChanges \/ Quit \/ UNCHANGED vars
  PROVE  Waiting'
<1> USE DEF Typed
<1>1. CASE Poll
  BY <1>1, CommandKinds, InvokeTyped DEF Poll, Polls
<1>2. ASSUME NEW w \in Services, Press(w)
      PROVE  Waiting'
  BY <1>2, CommandKinds, InvokeTyped DEF Press
<1>3. ASSUME Toggle \/ \E shown \in BOOLEAN : ToggleFromStaleListener(shown)
      PROVE  Waiting'
  BY <1>3, SwitchKinds, InvokeTyped DEF Toggle, ToggleFromStaleListener
<1>4. CASE Install
  BY <1>4, LookKinds, CommandKinds, InvokeTyped DEF Install
<1>5. CASE Retry
  BY <1>5, LookKinds, CommandKinds, InvokeTyped DEF Retry
<1>6. ASSUME NEW v \in Values, Change(v)
      PROVE  Waiting'
  BY <1>6, SavesTyped, Joined DEF Change, Waiting
<1>7. ASSUME NEW choices \in Choices, Complete(choices)
      PROVE  Waiting'
  BY <1>7, FinishedTyped, InvokeTyped DEF Complete
<1>8. CASE Wake
  BY <1>8, CommandKinds, InvokeTyped DEF Wake, Polls
<1>9. CASE Built
  <2>1. UNCHANGED queue \/ Invoke(Run("again"))
    BY <1>9 DEF Built
  <2> QED
    BY <2>1, CommandKinds, InvokeTyped DEF Polls, Waiting
<1>10. CASE LookAgain
  <2>1. PICK s \in asleep : s.do = "available" /\ Invoke(s)
    BY <1>10 DEF LookAgain
  <2>2. s \in Command
    BY <2>1, SleeperKinds DEF WizardTyped
  <2> QED
    BY <2>1, <2>2, InvokeTyped
<1>11. CASE Quit
  BY <1>11, MountTyped DEF Quit, Waiting
<1>12. CASE PressUpdate \/ Browse \/ Skip \/ Report \/ Forward \/ DaemonChanges \/ UNCHANGED vars
  BY <1>12 DEF PressUpdate, Browse, Skip, Report, Forward, DaemonChanges, vars, Waiting
<1>13. CASE CheckAuth
  BY <1>13, OrphansKinds DEF CheckAuth, Waiting
<1> QED
  BY <1>1, <1>2, <1>3, <1>4, <1>5, <1>6, <1>7, <1>8, <1>9, <1>10, <1>11, <1>12, <1>13 DEF User, Timers

\* What the daemon is, and what is shown of it and asked of it.
LEMMA BecomesOne ==
  ASSUME Typed,
         \/ ActionSucceeds \/ ActionFails \/ SetupSucceeds \/ SetupFails \/ Built \/ DaemonChanges
  PROVE  /\ \E s : Becomes(s) /\ s \in [running: BOOLEAN, killSwitch: BOOLEAN]
                    /\ (s.killSwitch => s.running)
         /\ UNCHANGED status
<1> USE DEF Typed
<1>0. "install" \in Services
  BY DEF Services
<1>1. CASE ActionSucceeds \/ ActionFails
  <2>1. Turn(Services) /\ UNCHANGED status
    BY <1>1 DEF ActionSucceeds, ActionFails
  <2>2. PICK s \in Leaves(Head(queue).do) \cup LeavesHalf(Head(queue).do) : Becomes(s)
    BY <1>1 DEF ActionSucceeds, ActionFails
  <2> QED
    BY <2>1, <2>2, TurnFacts, LeavesTyped
<1>2. CASE SetupSucceeds \/ SetupFails \/ Built
  <2>1. PICK s \in Leaves("install") \cup LeavesHalf("install") : Becomes(s)
    BY <1>2 DEF SetupSucceeds, SetupFails, Built
  <2>2. UNCHANGED status
    BY <1>2 DEF SetupSucceeds, SetupFails, Built
  <2> QED
    BY <2>1, <2>2, <1>0, LeavesTyped
<1>3. CASE DaemonChanges
  <2>1. UNCHANGED status
    BY <1>3 DEF DaemonChanges
  <2> DEFINE Good(s) == /\ s \in [running: BOOLEAN, killSwitch: BOOLEAN]
                        /\ s.killSwitch => s.running
             turned == [service EXCEPT !.killSwitch = ~@]
  <2>2. \E s : Becomes(s) /\ Good(s)
    <3>1. CASE Starts
      <4>1. \A b \in BOOLEAN : Good(Up(b))
        BY DEF Up
      <4> QED
        BY <3>1, <4>1 DEF Starts
    <3>2. CASE Stops
      <4>1. Good(Down)
        BY DEF Down
      <4> QED
        BY <3>2, <4>1 DEF Stops
    <3>3. CASE Turns
      <4>1. Good(turned)
        BY <3>3 DEF Turns, ServiceTyped
      <4>2. Becomes(turned)
        BY <3>3 DEF Turns
      <4> QED
        BY <4>1, <4>2
    <3> QED
      BY <1>3, <3>1, <3>2, <3>3 DEF DaemonChanges
  <2> QED
    BY <2>1, <2>2
<1> QED
  BY <1>1, <1>2, <1>3

LEMMA NextServiceTyped ==
  ASSUME Typed, [Next]_vars
  PROVE  ServiceTyped' /\ ShownTyped'
<1> USE DEF Typed
<1>1. CASE ActionSucceeds \/ ActionFails \/ SetupSucceeds \/ SetupFails \/ Built \/ DaemonChanges
  BY <1>1, BecomesOne DEF Becomes, ServiceTyped, ShownTyped
<1>2. CASE Refreshed \/ RefreshLost
  <2>1. service.running \in BOOLEAN /\ service.killSwitch \in BOOLEAN
    BY DEF ServiceTyped
  <2>2. /\ \/ status' = [known |-> TRUE, running |-> service.running, killSwitch |-> service.killSwitch]
           \/ status' = Unknown
        /\ UNCHANGED <<service, wanted>>
    BY <1>2 DEF Refreshed, RefreshLost
  <2>3. status' \in Status
    <3>1. \A a, b \in BOOLEAN : [known |-> TRUE, running |-> a, killSwitch |-> b] \in Status
      BY DEF Status
    <3>2. Unknown \in Status
      BY DEF Status, Unknown
    <3> QED
      BY <2>1, <2>2, <3>1, <3>2
  <2> QED
    BY <2>2, <2>3 DEF ServiceTyped, ShownTyped
<1>3. CASE Switched \/ SwitchFails
  BY <1>3 DEF Switched, SwitchFails, ServiceTyped, ShownTyped, Target
<1>4. ASSUME Toggle \/ \E shown \in BOOLEAN : ToggleFromStaleListener(shown)
      PROVE  ServiceTyped' /\ ShownTyped'
  BY <1>4 DEF Toggle, ToggleFromStaleListener, Ask, ServiceTyped, ShownTyped
<1>5. CASE Completed
  BY <1>5 DEF Completed, Ask, ServiceTyped, ShownTyped
<1>6. CASE Quit
  BY <1>6 DEF Quit, ServiceTyped, ShownTyped, Unknown, Status
<1>7. UNCHANGED <<service, status, wanted>> => ServiceTyped' /\ ShownTyped'
  BY DEF ServiceTyped, ShownTyped
<1>8. CASE \/ Reached \/ Verified \/ NotVerified \/ StateLoaded \/ Loaded \/ Saved \/ SaveFails
           \/ Poll \/ Wake \/ LookAgain \/ Report \/ Forward \/ CheckAuth \/ UNCHANGED vars
  BY <1>7, <1>8 DEF Reached, Verified, NotVerified, StateLoaded, Loaded, Saved, SaveFails,
                    Poll, Wake, LookAgain, Report, Forward, CheckAuth, vars
<1>9. ASSUME User, ~(Toggle \/ \E shown \in BOOLEAN : ToggleFromStaleListener(shown))
      PROVE  UNCHANGED <<service, status, wanted>>
  BY <1>9 DEF User, Press, PressUpdate, Browse, Install, Retry, Skip, Change, Complete
<1> QED
  BY <1>1, <1>2, <1>3, <1>4, <1>5, <1>6, <1>7, <1>8, <1>9 DEF Next, Shell, Timers

\* What the wizard is at, and what sleeps.
LEMMA SleepersTyped ==
  /\ \A w \in {"refresh", "forward", "build"} : Run(w) \in Sleeper
  /\ \A look \in Looks, w \in {"available", "report"} : Look(w, look) \in Sleeper
  BY DEF Run, Look, Sleeper

LEMMA TakenAwayTyped ==
  ASSUME Typed, TakenAway
  PROVE  /\ asleep' \subseteq Sleeper /\ page' = "choices" /\ setup' = Idle
         /\ \A s \in asleep' : ~Own(s)
<1>1. \A t \in asleep : Orphan(t) \in Sleeper /\ ~Own(Orphan(t))
  BY OrphanKinds DEF Typed, WizardTyped
<1> QED
  BY <1>1 DEF TakenAway

LEMMA NextAsleepTyped ==
  ASSUME Typed, [Next]_vars
  PROVE  asleep' \subseteq Sleeper
<1> USE DEF Typed, WizardTyped
<1>1. CASE ActionSucceeds \/ Verified
  BY <1>1, SleepersTyped DEF ActionSucceeds, Verified
<1>2. CASE Built
  BY <1>2, SleepersTyped DEF Built
<1>3. CASE PressUpdate
  BY <1>3, SleepersTyped DEF PressUpdate
<1>4. CASE NotVerified
  <2>1. Turn({"available", "verify"})
    BY <1>4 DEF NotVerified
  <2>2. Head(queue).look \in Looks
    BY <2>1, TurnFacts, CommandKinds
  <2>3. Own(Head(queue)) => NextTry(Head(queue).look) \in Sleeper
    BY <2>2, NextTryKinds DEF Own
  <2>4. Look("available", Orphaned) \in Sleeper
    BY SleepersTyped, LookKinds
  <2> QED
    BY <1>4, <2>3, <2>4 DEF NotVerified
<1>5. CASE Wake \/ LookAgain \/ Report \/ Forward \/ Quit
  BY <1>5 DEF Wake, LookAgain, Report, Forward, Quit
<1>6. UNCHANGED asleep => asleep' \subseteq Sleeper
  OBVIOUS
<1>7. CASE \/ Refreshed \/ RefreshLost \/ ActionFails \/ Switched \/ SwitchFails
           \/ SetupSucceeds \/ SetupFails \/ Reached \/ StateLoaded
           \/ Loaded \/ Saved \/ SaveFails
  BY <1>6, <1>7 DEF Refreshed, RefreshLost, ActionFails, Switched, SwitchFails, SetupSucceeds,
                    SetupFails, Reached, StateLoaded, Loaded, Saved, SaveFails
<1>8. CASE Poll \/ DaemonChanges \/ UNCHANGED vars
  BY <1>6, <1>8 DEF Poll, DaemonChanges, vars
<1>9. ASSUME User, ~PressUpdate
      PROVE  UNCHANGED asleep
  BY <1>9 DEF User, Press, Toggle, ToggleFromStaleListener, Browse, Install, Retry, Skip, Change, Complete
<1>10. CASE Completed \/ CheckAuth
  BY <1>6, <1>10, TakenAwayTyped DEF Completed, CheckAuth
<1> QED
  BY <1>1, <1>2, <1>3, <1>4, <1>5, <1>6, <1>7, <1>8, <1>9, <1>10 DEF Next, Shell, Timers

LEMMA NextPageTyped ==
  ASSUME Typed, [Next]_vars
  PROVE  page' \in {"choices", "install", "complete"}
<1> USE DEF Typed, WizardTyped
<1>1. CASE Browse
  <2>1. /\ DOMAIN Pages = 1..3
        /\ Pages[1] = "choices" /\ Pages[2] = "install" /\ Pages[3] = "complete"
    BY DEF Pages
  <2>2. \E i \in 1..3 : Pages[i] = page
    BY <2>1
  <2>3. Index \in 1..3 /\ Pages[Index] = page
    BY <2>1, <2>2 DEF Index
  <2>4. (page # "complete" => Index + 1 \in 1..3) /\ (page # "choices" => Index - 1 \in 1..3)
    BY <2>1, <2>3
  <2>5. \A i \in 1..3 : Pages[i] \in {"choices", "install", "complete"}
    BY <2>1
  <2> QED
    BY <1>1, <2>4, <2>5 DEF Browse
<1>2. CASE Skip \/ Forward \/ Completed \/ CheckAuth \/ Quit
  BY <1>2 DEF Skip, Forward, Completed, CheckAuth, TakenAway, Quit
<1>3. CASE \/ Refreshed \/ RefreshLost \/ ActionSucceeds \/ ActionFails \/ Switched \/ SwitchFails
           \/ SetupSucceeds \/ SetupFails \/ Reached \/ Verified \/ NotVerified \/ StateLoaded
           \/ Loaded \/ Saved \/ SaveFails
  BY <1>3 DEF Refreshed, RefreshLost, ActionSucceeds, ActionFails, Switched, SwitchFails,
              SetupSucceeds, SetupFails, Reached, Verified, NotVerified, StateLoaded,
              Loaded, Saved, SaveFails, wizard
<1>4. CASE Poll \/ DaemonChanges \/ Wake \/ Built \/ LookAgain \/ Report \/ UNCHANGED vars
  BY <1>4 DEF Poll, DaemonChanges, Wake, Built, LookAgain, Report, vars, wizard
<1>5. ASSUME User, ~Browse, ~Skip
      PROVE  UNCHANGED page
  BY <1>5 DEF User, Press, PressUpdate, Toggle, ToggleFromStaleListener, Install, Retry, Change,
              Complete, wizard
<1> QED
  BY <1>1, <1>2, <1>3, <1>4, <1>5 DEF Next, Shell, Timers

LEMMA NextStoredTyped ==
  ASSUME Typed, [Next]_vars
  PROVE  StoredTyped'
<1> USE DEF Typed, StoredTyped
<1>1. CASE Completed
  <2>1. Turn({"complete"})
    BY <1>1 DEF Completed
  <2>2. Head(queue).choices.value \in Values
    BY <2>1, TurnFacts, CommandKinds, ChoicesKinds
  <2> QED
    BY <1>1, <2>2 DEF Completed
<1>2. CASE Saved
  <2>1. Turn({"save"})
    BY <1>2 DEF Saved
  <2>2. Head(queue).value \in Values
    BY <2>1, TurnFacts, CommandKinds
  <2> QED
    BY <1>2, <2>2 DEF Saved
<1>3. CASE Loaded
  BY <1>3 DEF Loaded
<1>4. CASE SaveFails
  BY <1>4 DEF SaveFails
<1>5. ASSUME NEW v \in Values, Change(v)
      PROVE  StoredTyped'
  BY <1>5 DEF Change
<1>6. CASE Quit
  BY <1>6, ConsoleAssumption DEF Quit, ConsoleAssumption
<1>7. CASE \/ Refreshed \/ RefreshLost \/ ActionSucceeds \/ ActionFails \/ Switched \/ SwitchFails
           \/ SetupSucceeds \/ SetupFails \/ Reached \/ Verified \/ NotVerified \/ StateLoaded
  BY <1>7 DEF Refreshed, RefreshLost, ActionSucceeds, ActionFails, Switched, SwitchFails,
              SetupSucceeds, SetupFails, Reached, Verified, NotVerified, StateLoaded, stored
<1>8. CASE Poll \/ DaemonChanges \/ Wake \/ Built \/ LookAgain \/ Report \/ Forward
           \/ CheckAuth \/ UNCHANGED vars
  BY <1>8 DEF Poll, DaemonChanges, Wake, Built, LookAgain, Report, Forward, CheckAuth, vars, stored
<1>9. ASSUME User, ~(\E v \in Values : Change(v))
      PROVE  UNCHANGED stored
  BY <1>9 DEF User, Press, PressUpdate, Toggle, ToggleFromStaleListener, Browse, Install, Retry, Skip,
              Complete
<1> QED
  BY <1>1, <1>2, <1>3, <1>4, <1>5, <1>6, <1>7, <1>8, <1>9 DEF Next, Shell, Timers, stored

LEMMA NextSetupTyped ==
  ASSUME Typed, [Next]_vars
  PROVE  /\ setup' \in [installing: BOOLEAN, verifying: BOOLEAN, failed: BOOLEAN, success: BOOLEAN]
         /\ onboarded' \in {"loading", "no", "yes"}
         /\ answers' \in [kept: BOOLEAN, installed: BOOLEAN] /\ seen' \in BOOLEAN
<1> DEFINE Flagged == [installing: BOOLEAN, verifying: BOOLEAN, failed: BOOLEAN, success: BOOLEAN]
           Answered == [kept: BOOLEAN, installed: BOOLEAN]
           Rest == onboarded' \in {"loading", "no", "yes"} /\ answers' \in Answered /\ seen' \in BOOLEAN
<1> USE DEF Typed, WizardTyped
<1>0. /\ Idle \in Flagged /\ NoAnswers \in Answered
      /\ \A a \in Answered : a.kept \in BOOLEAN /\ a.installed \in BOOLEAN
  BY DEF Idle, NoAnswers
<1>1. CASE Install \/ Retry \/ SetupSucceeds \/ SetupFails
  BY <1>1 DEF Install, Retry, SetupSucceeds, SetupFails, Tells
<1>3. CASE Verified \/ Report
  <2>1. Rest
    BY <1>3 DEF Verified, Report
  <2>2. PICK s : \/ UNCHANGED setup
                 \/ setup' = [setup EXCEPT !.verifying = FALSE, !.success = TRUE,
                                           !.installing = @ /\ s.look.by # "Install"]
                 \/ setup' = [setup EXCEPT !.verifying = FALSE, !.failed = TRUE,
                                           !.installing = @ /\ s.look.by # "Install"]
    BY <1>3 DEF Verified, Report, Tells
  <2>3. setup' \in Flagged
    <3>1. (setup.installing /\ s.look.by # "Install") \in BOOLEAN
      BY Zenon
    <3> QED
      BY <2>2, <3>1
  <2> QED
    BY <2>1, <2>3
<1>4. CASE Completed
  <2>1. Turn({"complete"})
    BY <1>4 DEF Completed
  <2>2. Head(queue).installed \in BOOLEAN
    BY <2>1, TurnFacts, CommandKinds
  <2>3. [kept |-> TRUE, installed |-> Head(queue).installed] \in Answered
    BY <2>2
  <2>4. setup' \in {setup, Idle} /\ onboarded' \in {onboarded, "yes"} /\ seen' = seen
        /\ answers' \in {answers, NoAnswers, [kept |-> TRUE, installed |-> Head(queue).installed]}
    BY <1>4 DEF Completed, TakenAway
  <2> QED
    BY <1>0, <2>3, <2>4
<1>5. CASE StateLoaded
  BY <1>0, <1>5 DEF StateLoaded
<1>6. CASE CheckAuth
  BY <1>0, <1>6 DEF CheckAuth, TakenAway
<1>7. CASE Quit
  <2>1. /\ setup' = Idle /\ onboarded' = "loading" /\ seen' = answers'.installed
        /\ answers' \in {answers, NoAnswers}
    BY <1>7 DEF Quit
  <2> QED
    BY <1>0, <2>1
<1>8. CASE \/ Refreshed \/ RefreshLost \/ ActionSucceeds \/ ActionFails \/ Switched \/ SwitchFails
           \/ Reached \/ NotVerified \/ Loaded \/ Saved \/ SaveFails
  BY <1>8 DEF Refreshed, RefreshLost, ActionSucceeds, ActionFails, Switched, SwitchFails,
              Reached, NotVerified, Loaded, Saved, SaveFails, wizard
<1>9. CASE Poll \/ DaemonChanges \/ Wake \/ Built \/ LookAgain \/ Forward \/ UNCHANGED vars
  BY <1>9 DEF Poll, DaemonChanges, Wake, Built, LookAgain, Forward, vars, wizard
<1>10. ASSUME User, ~Install, ~Retry
       PROVE  UNCHANGED <<setup, onboarded, answers, seen>>
  BY <1>10 DEF User, Press, PressUpdate, Toggle, ToggleFromStaleListener, Browse, Skip, Change,
               Complete, wizard
<1> QED
  BY <1>1, <1>3, <1>4, <1>5, <1>6, <1>7, <1>8, <1>9, <1>10 DEF Next, Shell, Timers

LEMMA NextTyped ==
  ASSUME Typed, [Next]_vars
  PROVE  Typed'
<1>1. Waiting'
  BY ShellWaiting, OthersWaiting DEF Next
<1>2. ServiceTyped' /\ ShownTyped'
  BY NextServiceTyped
<1>3. WizardTyped'
  BY NextAsleepTyped, NextPageTyped, NextSetupTyped DEF WizardTyped
<1>4. StoredTyped'
  BY NextStoredTyped
<1> QED
  BY <1>1, <1>2, <1>3, <1>4 DEF Typed

-----------------------------------------------------------------------------
(* Which commands a step leaves alone: a write, a switch or a step of the set-up comes and
   goes only in the actions that are about it.                                       *)

\* What the app begins with, and what the wizard ends with.
Ends == {"state", "complete"}

Kinds == {{"save"}, Switches, SetupSteps, Ends}

LEMMA PlainUnmoved ==
  ASSUME Typed, NEW K \in Kinds,
         \/ Refreshed \/ RefreshLost \/ ActionSucceeds \/ ActionFails
         \/ Poll \/ Wake \/ Built \/ Report \/ Forward \/ DaemonChanges \/ UNCHANGED vars
         \/ \E w \in Services : Press(w)
         \/ PressUpdate \/ Browse \/ Skip
  PROVE  Unmoved(K)
<1> USE DEF Typed
<1>0. K \cap (Polls \cup Services) = {}
  BY DEF Kinds, Switches, SetupSteps, Ends, Polls, Services
<1>1. \A w \in Polls \cup Services : Run(w) \in Command /\ Run(w).do \notin K
  BY <1>0, CommandKinds
<1>2. CASE Refreshed \/ RefreshLost
  <2>1. Turn(Polls) /\ (Ran(<<>>) \/ Ran(<<Run("again")>>))
    BY <1>2 DEF Refreshed, RefreshLost
  <2> QED
    BY <2>1, <1>0, <1>1, TurnFacts, RunsAlone, RunsOneMore DEF Polls
<1>3. CASE ActionSucceeds \/ ActionFails
  <2>1. Turn(Services) /\ (Ran(<<>>) \/ Ran(<<Run("refresh")>>) \/ Ran(<<Run("again")>>))
    BY <1>3 DEF ActionSucceeds, ActionFails
  <2> QED
    BY <2>1, <1>0, <1>1, TurnFacts, RunsAlone, RunsOneMore DEF Polls
<1>5. CASE Poll \/ Wake
  BY <1>5, <1>1, InvokesOther DEF Poll, Wake, Polls
<1>6. ASSUME NEW w \in Services, Press(w)
      PROVE  Unmoved(K)
  BY <1>6, <1>1, InvokesOther DEF Press
<1>8. CASE Built
  <2>1. UNCHANGED queue \/ Invoke(Run("again"))
    BY <1>8 DEF Built
  <2> QED
    BY <2>1, <1>1, InvokesOther, StaysUnmoved DEF Polls
<1>9. CASE Report \/ Forward \/ DaemonChanges \/ PressUpdate \/ Browse \/ Skip \/ UNCHANGED vars
  BY <1>9, StaysUnmoved DEF Report, Forward, DaemonChanges, PressUpdate, Browse, Skip, vars
<1> QED
  BY <1>2, <1>3, <1>5, <1>6, <1>8, <1>9

LEMMA EndsLeave ==
  ASSUME Typed, NEW K \in Kinds \ {Ends}, StateLoaded \/ \E choices \in Choices : Complete(choices)
  PROVE  Unmoved(K)
<1> USE DEF Typed
<1>0. K \cap Ends = {}
  BY DEF Kinds, Switches, SetupSteps, Ends
<1>1. CASE StateLoaded
  <2>1. Turn({"state"}) /\ Ran(<<>>)
    BY <1>1 DEF StateLoaded
  <2> QED
    BY <2>1, <1>0, TurnFacts, RunsAlone DEF Ends
<1>2. ASSUME NEW choices \in Choices, Complete(choices)
      PROVE  Unmoved(K)
  <2>1. Finished(choices) \in Command /\ Finished(choices).do \notin K
    BY <1>0, FinishedTyped DEF Finished, Ends
  <2> QED
    BY <1>2, <2>1, InvokesOther DEF Complete
<1> QED
  BY <1>1, <1>2

LEMMA SetupLeaves ==
  ASSUME Typed, NEW K \in {{"save"}, Switches, Ends},
         \/ SetupSucceeds \/ SetupFails \/ Reached \/ Verified \/ NotVerified
         \/ Install \/ Retry \/ LookAgain
  PROVE  Unmoved(K)
<1> USE DEF Typed
<1>0. "setup" \notin K /\ "available" \notin K /\ "verify" \notin K
  BY DEF Switches, Ends
<1>1. CASE SetupSucceeds
  <2>1. Turn({"setup"}) /\ Ran(<<Look("available", Head(queue).look)>>)
    BY <1>1 DEF SetupSucceeds
  <2>2. Look("available", Head(queue).look) \in Command
    BY <2>1, TurnFacts, CommandKinds
  <2>3. Look("available", Head(queue).look).do \notin K
    BY <1>0 DEF Look
  <2> QED
    BY <1>0, <2>1, <2>2, <2>3, TurnFacts, RunsOneMore
<1>2. CASE SetupFails \/ Verified \/ NotVerified
  <2>1. /\ Ran(<<>>)
        /\ Turn({"setup"}) \/ Turn({"verify"}) \/ Turn({"available", "verify"})
    BY <1>2 DEF SetupFails, Verified, NotVerified
  <2> QED
    BY <1>0, <2>1, TurnFacts, RunsAlone
<1>3. CASE Reached
  <2>1. Turn({"available"}) /\ Ran(<<Look("verify", Head(queue).look)>>)
    BY <1>3 DEF Reached
  <2>2. Look("verify", Head(queue).look) \in Command
    BY <2>1, TurnFacts, CommandKinds
  <2>3. Look("verify", Head(queue).look).do \notin K
    BY <1>0 DEF Look
  <2> QED
    BY <1>0, <2>1, <2>2, <2>3, TurnFacts, RunsOneMore
<1>4. CASE Install
  BY <1>0, <1>4, LookKinds, CommandKinds, InvokesOther DEF Install
<1>5. CASE Retry
  BY <1>0, <1>5, LookKinds, CommandKinds, InvokesOther DEF Retry
<1>6. CASE LookAgain
  <2>1. PICK s \in asleep : s.do = "available" /\ Invoke(s)
    BY <1>6 DEF LookAgain
  <2>2. s \in Command
    BY <2>1, SleeperKinds DEF WizardTyped
  <2> QED
    BY <1>0, <2>1, <2>2, InvokesOther
<1> QED
  BY <1>1, <1>2, <1>3, <1>4, <1>5, <1>6

LEMMA SwitchLeaves ==
  ASSUME Typed, NEW K \in {{"save"}, SetupSteps, Ends},
         \/ Toggle \/ \E shown \in BOOLEAN : ToggleFromStaleListener(shown)
         \/ Switched \/ SwitchFails
  PROVE  Unmoved(K)
<1> USE DEF Typed
<1>1. Run("again") \in Command /\ Run("again").do \notin K
  BY CommandKinds DEF SetupSteps, Ends, Polls
<1>2. \A w \in Switches : w \notin K
  BY DEF SetupSteps, Switches, Ends
<1>3. ASSUME Toggle \/ \E shown \in BOOLEAN : ToggleFromStaleListener(shown)
      PROVE  Unmoved(K)
  <2>1. PICK on \in BOOLEAN : Invoke(Switch(on))
    BY <1>3 DEF Toggle, ToggleFromStaleListener, ShownTyped, Status
  <2> QED
    BY <1>2, <2>1, SwitchKinds, InvokesOther
<1>4. CASE Switched \/ SwitchFails
  <2>1. Turn(Switches) /\ (Ran(<<>>) \/ Ran(<<Run("again")>>))
    BY <1>4 DEF Switched, SwitchFails
  <2> QED
    BY <2>1, <1>1, <1>2, TurnFacts, RunsAlone, RunsOneMore
<1> QED
  BY <1>3, <1>4

LEMMA SaveLeaves ==
  ASSUME Typed, NEW K \in {Switches, SetupSteps, Ends},
         Loaded \/ Saved \/ SaveFails \/ \E v \in Values : Change(v)
  PROVE  Unmoved(K)
<1> USE DEF Typed
<1>0. "save" \notin K /\ "load" \notin K
  BY DEF SetupSteps, Switches, Ends
<1>1. \A v \in Values : Save(v) \in Command /\ Save(v).do \notin K
  BY <1>0, CommandKinds
<1>2. CASE Loaded
  <2>1. Turn({"load"}) /\ Ran(<<Save(settings')>>) /\ settings' \in Values
    BY <1>2 DEF Loaded, StoredTyped
  <2> QED
    BY <1>0, <1>1, <2>1, TurnFacts, RunsOneMore
<1>3. CASE Saved \/ SaveFails
  <2>1. Turn({"save"}) /\ Ran(<<>>)
    BY <1>3 DEF Saved, SaveFails
  <2> QED
    BY <1>0, <2>1, TurnFacts, RunsAlone
<1>4. ASSUME NEW v \in Values, Change(v)
      PROVE  Unmoved(K)
  <2>1. Saves(v) \in Seq(Command) /\ \A i \in 1..Len(Saves(v)) : Saves(v)[i].do \notin K
    BY <1>1, ShortSeqs DEF Saves
  <2> QED
    BY <1>4, <2>1, AddsOthers DEF Change, Adds, Unmoved
<1> QED
  BY <1>2, <1>3, <1>4

\* The sign-in leaves alone what no wizard began.
LEMMA CheckAuthLeaves ==
  ASSUME Typed, NEW K \in {{"save"}, Switches, Ends}, CheckAuth
  PROVE  Unmoved(K)
<1> USE DEF Typed
<1>0. K \cap SetupSteps = {}
  BY DEF SetupSteps, Switches, Ends
<1>1. queue' = Orphans(queue)
  BY DEF CheckAuth
<1>2. /\ Len(queue) \in Nat /\ DOMAIN queue = 1..Len(queue) /\ DOMAIN queue' = 1..Len(queue)
      /\ \A i \in 1..Len(queue) : queue[i] \in Command /\ queue'[i] = Orphan(queue[i])
  BY <1>1, OrphansKinds DEF Waiting
<1>3. \A i \in 1..Len(queue) :
        queue'[i].do = queue[i].do /\ (queue[i].do \in K => queue'[i] = queue[i])
  BY <1>0, <1>2, OrphanKinds
<1>4. Shifted(K, 0)
  BY <1>2, <1>3 DEF Shifted
<1> QED
  BY <1>4 DEF Unmoved

\* What was chosen on the wizard's pages, and whether it is to be saved.
Given == Head(queue).choices
SavesGiven == loaded /\ Given.value # settings

\* What the end of the wizard invokes: the kill switch if it was chosen, then the write.
LEMMA CompletedElements ==
  ASSUME Typed, Completed
  PROVE  /\ queue # <<>> /\ queue[1].do = "complete" /\ queue[1] \in Command
         /\ Given \in Choices
         /\ Len(queue) \in Nat \ {0} /\ Len(queue') \in Nat /\ Len(queue') >= Len(queue) - 1
         /\ DOMAIN queue = 1..Len(queue) /\ DOMAIN queue' = 1..Len(queue')
         /\ \A i \in 1..(Len(queue) - 1) :
              queue'[i].do = queue[i + 1].do /\ (queue[i + 1].do \notin SetupSteps => queue'[i] = queue[i + 1])
         /\ \A i \in 1..Len(queue') : i >= Len(queue) =>
              \/ queue'[i] = Run("switchOn") /\ Given.killSwitch /\ i = Len(queue)
              \/ queue'[i] = Save(Given.value) /\ SavesGiven /\ i = Len(queue')
         /\ \/ /\ TakenAway /\ onboarded' = "yes"
               /\ \A i \in 1..(Len(queue) - 1) : ~Own(queue'[i])
            \/ /\ UNCHANGED <<asleep, onboarded, page, setup>>
               /\ \A i \in 1..(Len(queue) - 1) : queue'[i] = queue[i + 1]
         /\ Given.killSwitch => Len(queue') >= Len(queue) /\ queue'[Len(queue)] = Run("switchOn")
         /\ SavesGiven => Len(queue') >= Len(queue) /\ queue'[Len(queue')] = Save(Given.value)
<1> USE DEF Typed
<1> DEFINE first == IF Given.killSwitch THEN <<Run("switchOn")>> ELSE <<>>
           then == IF SavesGiven THEN <<Save(Given.value)>> ELSE <<>>
           more == first \o then
<1>1. /\ Turn({"complete"})
      /\ \/ TakenAway /\ onboarded' = "yes" /\ queue' = Orphans(Tail(queue)) \o more
         \/ UNCHANGED <<asleep, onboarded, page, setup>> /\ queue' = Tail(queue) \o more
  BY DEF Completed, Ran, Saves, Given, SavesGiven
<1>2. queue # <<>> /\ queue[1].do = "complete" /\ queue[1] \in Command /\ Given \in Choices
  BY <1>1, TurnFacts, CommandKinds DEF Given
<1>3. Run("switchOn") \in Command /\ Save(Given.value) \in Command
  BY <1>2, CommandKinds, ChoicesKinds
<1>4. first \in Seq(Command) /\ then \in Seq(Command)
  BY <1>3, ShortSeqs
<1>5. /\ Given.killSwitch => Len(first) = 1 /\ first[1] = Run("switchOn")
      /\ ~Given.killSwitch => Len(first) = 0
      /\ SavesGiven => Len(then) = 1 /\ then[1] = Save(Given.value)
      /\ ~SavesGiven => Len(then) = 0
  BY <1>3, ShortSeqs
<1> HIDE DEF first, then
<1>6. /\ more \in Seq(Command) /\ Len(more) = Len(first) + Len(then)
      /\ \A i \in 1..(Len(first) + Len(then)) :
           more[i] = IF i <= Len(first) THEN first[i] ELSE then[i - Len(first)]
  BY <1>4, Joined
<1>7. \A i \in 1..Len(more) :
        \/ more[i] = Run("switchOn") /\ Given.killSwitch /\ i = 1
        \/ more[i] = Save(Given.value) /\ SavesGiven /\ i = Len(more)
  BY <1>5, <1>6
<1>8. /\ Given.killSwitch => Len(more) >= 1 /\ more[1] = Run("switchOn")
      /\ SavesGiven => Len(more) >= 1 /\ more[Len(more)] = Save(Given.value)
  BY <1>5, <1>6
<1> HIDE DEF more
<1>16. /\ Tail(queue) \in Seq(Command) /\ Len(Tail(queue)) = Len(queue) - 1
       /\ \A i \in 1..(Len(queue) - 1) : Tail(queue)[i] = queue[i + 1] /\ queue[i + 1] \in Command
       /\ Len(queue) \in Nat \ {0} /\ DOMAIN queue = 1..Len(queue)
  <2>1. \A i \in 1..Len(queue) : queue[i] \in Command
    BY DEF Waiting
  <2> QED
    BY <1>2, <2>1, Popped DEF Waiting
<1>17. PICK rest \in Seq(Command) :
         /\ queue' = rest \o more /\ Len(rest) = Len(queue) - 1
         /\ \/ /\ TakenAway /\ onboarded' = "yes"
               /\ \A i \in 1..(Len(queue) - 1) : rest[i] = Orphan(queue[i + 1])
            \/ /\ UNCHANGED <<asleep, onboarded, page, setup>>
               /\ \A i \in 1..(Len(queue) - 1) : rest[i] = queue[i + 1]
  <2>1. CASE TakenAway /\ onboarded' = "yes" /\ queue' = Orphans(Tail(queue)) \o more
    <3>1. PICK t \in Seq(Command) : t = Tail(queue)
      BY <1>16
    <3>2. /\ Orphans(t) \in Seq(Command) /\ Len(Orphans(t)) = Len(queue) - 1
          /\ \A i \in 1..(Len(queue) - 1) : Orphans(t)[i] = Orphan(queue[i + 1])
      <4>1. Orphans(t) \in Seq(Command) /\ Len(Orphans(t)) = Len(t)
        BY OrphansKinds
      <4>2. \A i \in 1..Len(t) : Orphans(t)[i] = Orphan(t[i])
        BY OrphansKinds
      <4> QED
        BY <1>16, <3>1, <4>1, <4>2
    <3> QED
      BY <2>1, <3>1, <3>2
  <2>2. CASE UNCHANGED <<asleep, onboarded, page, setup>> /\ queue' = Tail(queue) \o more
    BY <1>16, <2>2
  <2> QED
    BY <1>1, <2>1, <2>2
<1>18. /\ queue' \in Seq(Command) /\ Len(queue') = Len(rest) + Len(more)
       /\ \A i \in 1..(Len(rest) + Len(more)) :
            queue'[i] = IF i <= Len(rest) THEN rest[i] ELSE more[i - Len(rest)]
  BY <1>6, <1>17, Joined
<1>19. \A i \in 1..(Len(queue) - 1) : queue'[i] = rest[i]
  <2>1. Len(more) \in Nat
    BY <1>6
  <2> QED
    BY <2>1, <1>16, <1>17, <1>18
<1>20. /\ \A i \in 1..(Len(queue) - 1) :
            queue'[i].do = queue[i + 1].do /\ (queue[i + 1].do \notin SetupSteps => queue'[i] = queue[i + 1])
       /\ \/ /\ TakenAway /\ onboarded' = "yes"
             /\ \A i \in 1..(Len(queue) - 1) : ~Own(queue'[i])
          \/ /\ UNCHANGED <<asleep, onboarded, page, setup>>
             /\ \A i \in 1..(Len(queue) - 1) : queue'[i] = queue[i + 1]
  <2>1. ASSUME NEW i \in 1..(Len(queue) - 1)
        PROVE  LET c == queue[i + 1]
               IN Orphan(c).do = c.do /\ ~Own(Orphan(c)) /\ (c.do \notin SetupSteps => Orphan(c) = c)
    BY <1>16, OrphanKinds
  <2> QED
    BY <1>17, <1>19, <2>1
<1>9. /\ Len(queue) \in Nat \ {0} /\ Len(more) \in Nat /\ Len(queue') = Len(queue) - 1 + Len(more)
      /\ DOMAIN queue = 1..Len(queue) /\ DOMAIN queue' = 1..Len(queue')
      /\ \A i \in 1..Len(queue') : i >= Len(queue) =>
           queue'[i] = more[i - Len(queue) + 1] /\ i - Len(queue) + 1 \in 1..Len(more)
  <2>1. /\ Len(more) \in Nat /\ Len(queue') = Len(queue) - 1 + Len(more)
        /\ DOMAIN queue' = 1..Len(queue')
    BY <1>6, <1>16, <1>17, <1>18
  <2>2. ASSUME NEW i \in 1..Len(queue'), i >= Len(queue)
        PROVE  queue'[i] = more[i - Len(queue) + 1] /\ i - Len(queue) + 1 \in 1..Len(more)
    <3>1. i - Len(rest) = i - Len(queue) + 1 /\ ~(i <= Len(rest)) /\ i \in 1..(Len(rest) + Len(more))
      BY <1>16, <1>17, <1>18, <2>1, <2>2
    <3>2. queue'[i] = more[i - Len(rest)]
      BY <1>18, <3>1
    <3>3. i - Len(queue) + 1 \in 1..Len(more)
      BY <1>16, <2>1, <2>2
    <3> QED
      BY <3>1, <3>2, <3>3
  <2> QED
    BY <1>16, <2>1, <2>2
<1>10. \A i \in 1..Len(queue') : i >= Len(queue) =>
         \/ queue'[i] = Run("switchOn") /\ Given.killSwitch /\ i = Len(queue)
         \/ queue'[i] = Save(Given.value) /\ SavesGiven /\ i = Len(queue')
  <2> SUFFICES ASSUME NEW i \in 1..Len(queue'), i >= Len(queue)
               PROVE  \/ queue'[i] = Run("switchOn") /\ Given.killSwitch /\ i = Len(queue)
                      \/ queue'[i] = Save(Given.value) /\ SavesGiven /\ i = Len(queue')
    OBVIOUS
  <2> DEFINE m == i - Len(queue) + 1
  <2>1. queue'[i] = more[m] /\ m \in 1..Len(more)
    BY <1>9
  <2>2. Len(queue) \in Nat /\ Len(more) \in Nat /\ Len(queue') = Len(queue) - 1 + Len(more) /\ i \in Nat
    BY <1>9
  <2>3. (m = 1 => i = Len(queue)) /\ (m = Len(more) => i = Len(queue'))
    BY <2>2
  <2> HIDE DEF m
  <2> QED
    BY <1>7, <2>1, <2>3
<1>11. Given.killSwitch => Len(queue') >= Len(queue) /\ queue'[Len(queue)] = Run("switchOn")
  BY <1>8, <1>9
<1>12. SavesGiven => Len(queue') >= Len(queue) /\ queue'[Len(queue')] = Save(Given.value)
  BY <1>8, <1>9
<1>13. Len(queue') \in Nat /\ Len(queue') >= Len(queue) - 1
  <2>1. Len(queue) \in Nat /\ Len(more) \in Nat /\ Len(queue') = Len(queue) - 1 + Len(more) /\ Len(queue) >= 1
    BY <1>9
  <2> QED
    BY <2>1
<1>14. Len(queue) \in Nat \ {0} /\ DOMAIN queue = 1..Len(queue) /\ DOMAIN queue' = 1..Len(queue')
  BY <1>9
<1> QED
  BY <1>2, <1>10, <1>11, <1>12, <1>13, <1>14, <1>20

-----------------------------------------------------------------------------
(* The last of the commands of some kinds *)

IsLast(i, K) ==
  /\ i \in DOMAIN queue /\ queue[i].do \in K
  /\ \A j \in DOMAIN queue : j > i => queue[j].do \notin K

LEMMA ShiftedWaits ==
  ASSUME Waiting, Waiting', NEW K, NEW d \in {0, 1}, Shifted(K, d)
  PROVE  /\ \A i : IsLast(i, K)' => IsLast(i + d, K) /\ queue'[i] = queue[i + d]
         /\ Waits(K)' => Waits(K)
         /\ \A i \in DOMAIN queue : i > d /\ queue[i].do \in K => Waits(K)'
<1>0. /\ DOMAIN queue = 1..Len(queue) /\ DOMAIN queue' = 1..Len(queue')
      /\ Len(queue) \in Nat /\ Len(queue') \in Nat
  BY DEF Waiting
<1>1. \A i \in DOMAIN queue' : queue'[i].do \in K =>
        i + d \in DOMAIN queue /\ queue[i + d].do \in K /\ queue'[i] = queue[i + d]
  BY <1>0 DEF Shifted
<1>2. \A i \in DOMAIN queue : i > d /\ queue[i].do \in K => i - d \in DOMAIN queue' /\ queue'[i - d].do \in K
  <2> SUFFICES ASSUME NEW i \in DOMAIN queue, i > d, queue[i].do \in K
               PROVE  i - d \in DOMAIN queue' /\ queue'[i - d].do \in K
    OBVIOUS
  <2>1. i - d \in Nat \ {0} /\ (i - d) + d = i
    BY <1>0
  <2> QED
    BY <2>1 DEF Shifted
<1>3. ASSUME NEW i, IsLast(i, K)'
      PROVE  IsLast(i + d, K) /\ queue'[i] = queue[i + d]
  <2>1. i \in DOMAIN queue' /\ queue'[i].do \in K /\ \A j \in DOMAIN queue' : j > i => queue'[j].do \notin K
    BY <1>3 DEF IsLast
  <2>2. \A j \in DOMAIN queue : j > i + d => queue[j].do \notin K
    <3> SUFFICES ASSUME NEW j \in DOMAIN queue, j > i + d, queue[j].do \in K
                 PROVE  FALSE
      OBVIOUS
    <3>1. j > d /\ j - d > i
      BY <1>0, <2>1
    <3> QED
      BY <1>2, <2>1, <3>1
  <2> QED
    BY <1>1, <2>1, <2>2 DEF IsLast
<1>4. Waits(K)' => Waits(K)
  BY <1>1 DEF Waits
<1>5. \A i \in DOMAIN queue : i > d /\ queue[i].do \in K => Waits(K)'
  BY <1>2 DEF Waits
<1> QED
  BY <1>3, <1>4, <1>5

LEMMA UnmovedWaits ==
  ASSUME Waiting, Waiting', NEW K, Unmoved(K)
  PROVE  /\ \A i : IsLast(i, K)' => \E j : IsLast(j, K) /\ queue'[i] = queue[j]
         /\ Waits(K)' <=> Waits(K)
<1>1. PICK d \in {0, 1} : Shifted(K, d) /\ (d = 1 => queue[1].do \notin K)
  BY DEF Unmoved
<1>2. \A i : IsLast(i, K)' => IsLast(i + d, K) /\ queue'[i] = queue[i + d]
  BY <1>1, ShiftedWaits
<1>3. Waits(K)' => Waits(K)
  BY <1>1, ShiftedWaits
<1>4. ASSUME Waits(K)
      PROVE  Waits(K)'
  <2>1. PICK i \in DOMAIN queue : queue[i].do \in K
    BY <1>4 DEF Waits
  <2>2. i > d
    BY <1>1, <2>1 DEF Waiting
  <2> QED
    BY <1>1, <2>1, <2>2, ShiftedWaits
<1> QED
  BY <1>2, <1>3, <1>4

-----------------------------------------------------------------------------
(* The settings *)

(* The write that waits last is of the settings in use, so that no other order of the
   writes or failure among them matters (hooks.ts:151-196).                      *)
LastWriteCurrent == loaded => \A i : IsLast(i, {"save"}) => queue[i].value = settings

SettingsInv == LastWriteCurrent /\ SettingsSaved

LEMMA NextSettings ==
  ASSUME Typed, Typed', SettingsInv, [Next]_vars
  PROVE  SettingsInv'
<1> USE DEF Typed
<1>1. ASSUME Unmoved({"save"}), UNCHANGED stored
      PROVE  SettingsInv'
  BY <1>1, UnmovedWaits DEF stored, SettingsInv, LastWriteCurrent, SettingsSaved
<1>2. CASE \/ Refreshed \/ RefreshLost \/ ActionSucceeds \/ ActionFails \/ StateLoaded
           \/ Poll \/ Wake \/ Built \/ Report \/ Forward \/ DaemonChanges \/ UNCHANGED vars
           \/ (\E w \in Services : Press(w)) \/ PressUpdate \/ Browse \/ Skip
           \/ (\E choices \in Choices : Complete(choices))
  <2>1. UNCHANGED stored
    BY <1>2 DEF Refreshed, RefreshLost, ActionSucceeds, ActionFails, StateLoaded, Poll, Wake, Built,
                Report, Forward, DaemonChanges, vars, Press, PressUpdate, Browse, Skip, Complete
  <2>2. {"save"} \in Kinds \ {Ends}
    BY DEF Kinds, Ends
  <2>3. Unmoved({"save"})
    BY <1>2, <2>2, PlainUnmoved, EndsLeave
  <2> QED
    BY <1>1, <2>1, <2>3
<1>3. CASE \/ SetupSucceeds \/ SetupFails \/ Reached \/ Verified \/ NotVerified
           \/ Install \/ Retry \/ LookAgain
  <2>1. UNCHANGED stored
    BY <1>3 DEF SetupSucceeds, SetupFails, Reached, Verified, NotVerified, Install, Retry, LookAgain
  <2> QED
    BY <1>1, <1>3, <2>1, SetupLeaves
<1>4. ASSUME \/ Toggle \/ \E shown \in BOOLEAN : ToggleFromStaleListener(shown)
             \/ Switched \/ SwitchFails
      PROVE  SettingsInv'
  <2>1. UNCHANGED stored
    BY <1>4 DEF Toggle, ToggleFromStaleListener, Switched, SwitchFails
  <2> QED
    BY <1>1, <1>4, <2>1, SwitchLeaves
<1>5. ASSUME NEW v \in Values, Change(v)
      PROVE  SettingsInv'
  <2>1. v # settings /\ settings' = v /\ UNCHANGED <<loaded, file, saved>> /\ queue' = queue \o Saves(v)
    BY <1>5 DEF Change, Offered
  <2>2. CASE loaded
    <3>1. Save(v) \in Command /\ Save(v).do = "save" /\ Save(v).value = v
      BY CommandKinds
    <3>2. Adds(<<Save(v)>>) /\ <<Save(v)>> \in Seq(Command) /\ Len(<<Save(v)>>) = 1 /\ <<Save(v)>>[1] = Save(v)
      BY <2>1, <2>2, <3>1, ShortSeqs DEF Saves, Adds
    <3>3. /\ DOMAIN queue' = 1..(Len(queue) + 1) /\ Len(queue) \in Nat
          /\ \A i \in DOMAIN queue' : i > Len(queue) => queue'[i] = <<Save(v)>>[i - Len(queue)]
      BY <3>2, AddsElements
    <3>4. queue'[Len(queue) + 1] = Save(v) /\ Len(queue) + 1 \in DOMAIN queue'
      BY <3>2, <3>3
    <3>5. \A i : IsLast(i, {"save"})' => i = Len(queue) + 1
      BY <3>1, <3>3, <3>4 DEF IsLast
    <3> QED
      BY <2>1, <3>1, <3>4, <3>5 DEF SettingsInv, LastWriteCurrent, SettingsSaved, Waits
  <2> QED
    BY <2>1, <2>2 DEF SettingsInv, LastWriteCurrent, SettingsSaved
<1>6. CASE Loaded
  <2>1. Turn({"load"}) /\ Ran(<<Save(settings')>>) /\ settings' \in Values
    BY <1>6 DEF Loaded, StoredTyped
  <2>2. Save(settings') \in Command /\ Save(settings').do = "save" /\ Save(settings').value = settings'
    BY <2>1, CommandKinds
  <2> DEFINE write == <<Save(settings')>>
  <2>3. write \in Seq(Command) /\ Len(write) = 1 /\ write[1] = Save(settings')
    BY <2>2, ShortSeqs
  <2> HIDE DEF write
  <2>4. /\ Len(queue) \in Nat \ {0} /\ DOMAIN queue' = 1..Len(queue') /\ Len(queue') = Len(queue) - 1 + Len(write)
        /\ \A i \in 1..Len(queue') : i >= Len(queue) => queue'[i] = write[i - Len(queue) + 1]
    BY <2>1, <2>3, TurnFacts, RanElements DEF write
  <2>5. queue'[Len(queue)] = Save(settings') /\ DOMAIN queue' = 1..Len(queue)
    BY <2>3, <2>4
  <2>6. \A i : IsLast(i, {"save"})' => i = Len(queue)
    BY <2>2, <2>4, <2>5 DEF IsLast
  <2> QED
    BY <2>2, <2>4, <2>5, <2>6 DEF SettingsInv, LastWriteCurrent, SettingsSaved, Waits
<1>7. CASE Saved \/ SaveFails
  <2>1. Turn({"save"}) /\ Ran(<<>>) /\ UNCHANGED <<settings, loaded>>
    BY <1>7 DEF Saved, SaveFails
  <2>2. Shifted({"save"}, 1) /\ queue # <<>> /\ queue[1].do = "save" /\ Head(queue) = queue[1]
    BY <2>1, TurnFacts, RunsAlone
  <2>3. LastWriteCurrent'
    BY <2>1, <2>2, ShiftedWaits DEF SettingsInv, LastWriteCurrent
  <2>4. ASSUME ~Waits({"save"})'
        PROVE  IsLast(1, {"save"})
    <3>1. DOMAIN queue = 1..Len(queue) /\ Len(queue) \in Nat \ {0}
      BY <2>2 DEF Waiting
    <3>2. \A j \in DOMAIN queue : j > 1 => queue[j].do \notin {"save"}
      BY <2>2, <2>4, ShiftedWaits
    <3> QED
      BY <2>2, <3>1, <3>2 DEF IsLast
  <2>5. SettingsSaved'
    BY <1>7, <2>1, <2>2, <2>4 DEF Saved, SaveFails, SettingsInv, LastWriteCurrent, SettingsSaved
  <2> QED
    BY <2>3, <2>5 DEF SettingsInv
<1>8. CASE Completed
  <2>1. settings' = Given.value /\ UNCHANGED <<loaded, file, saved>>
    BY <1>8 DEF Completed, Given
  <2>2. Given.value \in Values
    BY <1>8, CompletedElements, ChoicesKinds
  <2>3. Save(Given.value).do = "save" /\ Save(Given.value).value = Given.value /\ Run("switchOn").do # "save"
    BY <2>2, CommandKinds
  <2>4. CASE SavesGiven
    <3>1. /\ Len(queue) \in Nat \ {0} /\ Len(queue') \in Nat /\ Len(queue') >= Len(queue)
          /\ DOMAIN queue' = 1..Len(queue') /\ queue'[Len(queue')] = Save(Given.value)
      BY <1>8, <2>4, CompletedElements
    <3>2. Len(queue') \in DOMAIN queue'
      BY <3>1
    <3>3. \A i : IsLast(i, {"save"})' => i = Len(queue')
      BY <2>3, <3>1, <3>2 DEF IsLast
    <3> QED
      BY <2>1, <2>3, <3>1, <3>2, <3>3 DEF SettingsInv, LastWriteCurrent, SettingsSaved, Waits
  <2>5. CASE ~SavesGiven /\ loaded
    <3>1. settings' = settings
      BY <2>1, <2>5 DEF SavesGiven
    <3>2. \A i \in 1..Len(queue') : i >= Len(queue) => queue'[i].do # "save"
      BY <1>8, <2>3, <2>5, CompletedElements
    <3>3. /\ Len(queue) \in Nat \ {0} /\ Len(queue') \in Nat /\ Len(queue') >= Len(queue) - 1
          /\ DOMAIN queue = 1..Len(queue) /\ DOMAIN queue' = 1..Len(queue')
          /\ \A i \in 1..(Len(queue) - 1) :
               queue'[i].do = queue[i + 1].do /\ (queue[i + 1].do = "save" => queue'[i] = queue[i + 1])
          /\ queue[1].do \notin {"save"}
      BY <1>8, CompletedElements DEF SetupSteps
    <3>4. Shifted({"save"}, 1)
      BY <3>2, <3>3 DEF Shifted
    <3>5. Unmoved({"save"})
      BY <3>3, <3>4 DEF Unmoved
    <3> QED
      BY <1>1, <2>1, <3>1, <3>5 DEF stored
  <2> QED
    BY <2>1, <2>4, <2>5 DEF SettingsInv, LastWriteCurrent, SettingsSaved
<1>9. CASE CheckAuth
  <2>1. UNCHANGED stored
    BY <1>9 DEF CheckAuth
  <2> QED
    BY <1>1, <1>9, <2>1, CheckAuthLeaves
<1>10. CASE Quit
  BY <1>10 DEF Quit, SettingsInv, LastWriteCurrent, SettingsSaved
<1> QED
  BY <1>2, <1>3, <1>4, <1>5, <1>6, <1>7, <1>8, <1>9, <1>10 DEF Next, Shell, User, Timers

-----------------------------------------------------------------------------
(* The kill switch *)

AsAsked(c) == wanted \in {"any", IF Target(c.do) THEN "on" ELSE "off"}

(* The switch that waits last is the one last asked for, so that the toggles, the wizard and
   stale answers may overlap (SettingsView.tsx:952-965, App.tsx:683-698, 816-822).    *)
LastSwitchAsked == \A i : IsLast(i, Switches) => AsAsked(queue[i])

SwitchInv == LastSwitchAsked /\ KillSwitchAsAsked

\* The daemon changes, and no switch comes or goes.
LEMMA BecomesAsAsked ==
  ASSUME Typed, Typed', SwitchInv, NEW s, Becomes(s), Unmoved(Switches)
  PROVE  SwitchInv'
<1> USE DEF Typed
<1>1. /\ \A i : IsLast(i, Switches)' => \E j : IsLast(j, Switches) /\ queue'[i] = queue[j]
      /\ Waits(Switches)' <=> Waits(Switches)
  BY UnmovedWaits
<1>2. wanted' \in {wanted, "any"}
  BY DEF Becomes
<1>3. LastSwitchAsked'
  BY <1>1, <1>2 DEF SwitchInv, LastSwitchAsked, AsAsked
<1>4. CASE Waits(Switches)
  BY <1>1, <1>3, <1>4 DEF SwitchInv, KillSwitchAsAsked
<1>5. CASE ~Waits(Switches)
  <2>1. \/ service'.killSwitch = service.killSwitch /\ wanted' = wanted
        \/ wanted' = "any"
    BY <1>5 DEF Becomes
  <2> QED
    BY <1>1, <1>3, <1>5, <2>1 DEF SwitchInv, KillSwitchAsAsked
<1> QED
  BY <1>4, <1>5

\* Neither the daemon nor the request changes.
LEMMA StaysAsAsked ==
  ASSUME Typed, Typed', SwitchInv, UNCHANGED <<service, wanted>>, Unmoved(Switches)
  PROVE  SwitchInv'
<1>1. Becomes(service)
  BY DEF Becomes
<1> QED
  BY <1>1, BecomesAsAsked

LEMMA NextSwitch ==
  ASSUME Typed, Typed', SwitchInv, [Next]_vars
  PROVE  SwitchInv'
<1> USE DEF Typed
<1>1. CASE ActionSucceeds \/ ActionFails \/ Built \/ DaemonChanges
  <2>1. Unmoved(Switches)
    BY <1>1, PlainUnmoved DEF Kinds
  <2>2. PICK s : Becomes(s)
    BY <1>1, BecomesOne
  <2> QED
    BY <2>1, <2>2, BecomesAsAsked
<1>2. CASE SetupSucceeds \/ SetupFails
  <2>1. Unmoved(Switches)
    BY <1>2, SetupLeaves
  <2>2. PICK s : Becomes(s)
    BY <1>2, BecomesOne
  <2> QED
    BY <2>1, <2>2, BecomesAsAsked
<1>3. CASE \/ Refreshed \/ RefreshLost \/ StateLoaded \/ Poll \/ Wake \/ Report \/ Forward \/ UNCHANGED vars
           \/ (\E w \in Services : Press(w)) \/ PressUpdate \/ Browse \/ Skip
           \/ (\E choices \in Choices : Complete(choices))
  <2>1. UNCHANGED <<service, wanted>>
    BY <1>3 DEF Refreshed, RefreshLost, StateLoaded, Poll, Wake, Report, Forward, vars, Press, PressUpdate,
                Browse, Skip, Complete
  <2>2. Switches \in Kinds \ {Ends}
    BY DEF Kinds, Switches, Ends
  <2>3. Unmoved(Switches)
    BY <1>3, <2>2, PlainUnmoved, EndsLeave
  <2> QED
    BY <2>1, <2>3, StaysAsAsked
<1>4. CASE Reached \/ Verified \/ NotVerified \/ Install \/ Retry \/ LookAgain
  <2>1. UNCHANGED <<service, wanted>>
    BY <1>4 DEF Reached, Verified, NotVerified, Install, Retry, LookAgain
  <2> QED
    BY <1>4, <2>1, SetupLeaves, StaysAsAsked
<1>5. CASE Loaded \/ Saved \/ SaveFails \/ \E v \in Values : Change(v)
  <2>1. UNCHANGED <<service, wanted>>
    BY <1>5 DEF Loaded, Saved, SaveFails, Change
  <2> QED
    BY <1>5, <2>1, SaveLeaves, StaysAsAsked
<1>6. ASSUME Toggle \/ \E shown \in BOOLEAN : ToggleFromStaleListener(shown)
      PROVE  SwitchInv'
  <2>0. PICK on \in BOOLEAN : Invoke(Switch(on)) /\ Ask(on)
    BY <1>6 DEF Toggle, ToggleFromStaleListener, ShownTyped, Status
  <2>1. PICK c \in Command : c = Switch(on) /\ c.do \in Switches /\ (Target(c.do) <=> on)
    BY SwitchKinds
  <2>2. Adds(<<c>>) /\ wanted' = IF Target(c.do) THEN "on" ELSE "off"
    BY <2>0, <2>1 DEF Invoke, Adds, Ask, Waiting
  <2>3. <<c>> \in Seq(Command) /\ Len(<<c>>) = 1 /\ <<c>>[1] = c
    BY <2>1, ShortSeqs
  <2>4. /\ DOMAIN queue' = 1..(Len(queue) + 1) /\ Len(queue) \in Nat
        /\ \A i \in DOMAIN queue' : i > Len(queue) => queue'[i] = <<c>>[i - Len(queue)]
    BY <2>2, <2>3, AddsElements
  <2>5. queue'[Len(queue) + 1] = c /\ Len(queue) + 1 \in DOMAIN queue'
    BY <2>3, <2>4
  <2>6. \A i : IsLast(i, Switches)' => i = Len(queue) + 1
    BY <2>1, <2>4, <2>5 DEF IsLast
  <2>7. LastSwitchAsked'
    BY <2>1, <2>2, <2>5, <2>6 DEF LastSwitchAsked, AsAsked
  <2> QED
    BY <2>1, <2>5, <2>7 DEF SwitchInv, KillSwitchAsAsked, Waits
<1>7. CASE Switched \/ SwitchFails
  <2>1. Turn(Switches) /\ (Ran(<<>>) \/ Ran(<<Run("again")>>))
    BY <1>7 DEF Switched, SwitchFails
  <2>2. Run("again") \in Command /\ Run("again").do \notin Switches
    BY CommandKinds DEF Polls, Switches
  <2>3. Shifted(Switches, 1) /\ queue # <<>> /\ queue[1].do \in Switches /\ Head(queue) = queue[1]
    BY <2>1, <2>2, TurnFacts, RunsAlone, RunsOneMore
  <2>4. DOMAIN queue = 1..Len(queue) /\ Len(queue) \in Nat \ {0}
    BY <2>3 DEF Waiting
  <2>5. wanted' \in {wanted, "any"}
    BY <1>7 DEF Switched, SwitchFails
  <2>6. \A i : IsLast(i, Switches)' => IsLast(i + 1, Switches) /\ queue'[i] = queue[i + 1]
    BY <2>3, ShiftedWaits
  <2>7. LastSwitchAsked'
    BY <2>5, <2>6 DEF SwitchInv, LastSwitchAsked, AsAsked
  <2>8. ASSUME ~Waits(Switches)'
        PROVE  (\A j \in DOMAIN queue : j > 1 => queue[j].do \notin Switches) /\ IsLast(1, Switches)
    <3>1. \A j \in DOMAIN queue : j > 1 => queue[j].do \notin Switches
      BY <2>3, <2>8, ShiftedWaits
    <3> QED
      BY <2>3, <2>4, <3>1 DEF IsLast
  <2>9. CASE Switched
    <3>1. service'.killSwitch = Target(queue[1].do) /\ wanted' = wanted
      BY <2>3, <2>9 DEF Switched, ServiceTyped
    <3>2. KillSwitchAsAsked'
      BY <2>8, <3>1 DEF SwitchInv, LastSwitchAsked, AsAsked, KillSwitchAsAsked
    <3> QED
      BY <2>7, <3>2 DEF SwitchInv
  <2>10. CASE SwitchFails
    <3>1. ASSUME ~Waits(Switches)'
          PROVE  wanted' = "any"
      BY <2>4, <2>8, <2>10, <3>1 DEF SwitchFails
    <3> QED
      BY <2>7, <3>1 DEF SwitchInv, KillSwitchAsAsked
  <2> QED
    BY <1>7, <2>9, <2>10
<1>8. CASE Completed
  <2>1. wanted' = (IF Given.killSwitch THEN "on" ELSE wanted) /\ UNCHANGED service
    BY <1>8 DEF Completed, Given, Ask
  <2>2. Given.value \in Values
    BY <1>8, CompletedElements, ChoicesKinds
  <2>3. /\ Save(Given.value).do \notin Switches
        /\ Run("switchOn").do \in Switches /\ Target(Run("switchOn").do)
    BY <2>2, CommandKinds DEF Switches, Target
  <2>4. CASE Given.killSwitch
    <3>1. /\ Len(queue) \in Nat \ {0} /\ Len(queue') \in Nat /\ Len(queue') >= Len(queue)
          /\ DOMAIN queue' = 1..Len(queue') /\ queue'[Len(queue)] = Run("switchOn")
          /\ \A i \in 1..Len(queue') : i >= Len(queue) =>
               i = Len(queue) \/ queue'[i] = Save(Given.value)
      BY <1>8, <2>4, CompletedElements
    <3>2. Len(queue) \in DOMAIN queue'
      BY <3>1
    <3>3. \A i : IsLast(i, Switches)' => i = Len(queue)
      BY <2>3, <3>1, <3>2 DEF IsLast
    <3>4. LastSwitchAsked'
      BY <2>1, <2>3, <2>4, <3>1, <3>3 DEF LastSwitchAsked, AsAsked
    <3> QED
      BY <2>3, <3>1, <3>2, <3>4 DEF SwitchInv, KillSwitchAsAsked, Waits
  <2>5. CASE ~Given.killSwitch
    <3>1. \A i \in 1..Len(queue') : i >= Len(queue) => queue'[i].do \notin Switches
      BY <1>8, <2>3, <2>5, CompletedElements
    <3>2. /\ Len(queue) \in Nat \ {0} /\ Len(queue') \in Nat /\ Len(queue') >= Len(queue) - 1
          /\ DOMAIN queue = 1..Len(queue) /\ DOMAIN queue' = 1..Len(queue')
          /\ \A i \in 1..(Len(queue) - 1) :
               queue'[i].do = queue[i + 1].do /\ (queue[i + 1].do \in Switches => queue'[i] = queue[i + 1])
          /\ queue[1].do \notin Switches
      BY <1>8, CompletedElements DEF Switches, SetupSteps
    <3>3. Shifted(Switches, 1)
      BY <3>1, <3>2 DEF Shifted
    <3>4. Unmoved(Switches)
      BY <3>2, <3>3 DEF Unmoved
    <3> QED
      BY <2>1, <2>5, <3>4, StaysAsAsked
  <2> QED
    BY <2>4, <2>5
<1>9. CASE CheckAuth
  <2>1. UNCHANGED <<service, wanted>>
    BY <1>9 DEF CheckAuth
  <2> QED
    BY <1>9, <2>1, CheckAuthLeaves, StaysAsAsked
<1>10. CASE Quit
  <2>1. wanted' = "any"
    BY <1>10 DEF Quit
  <2> QED
    BY <2>1 DEF SwitchInv, LastSwitchAsked, AsAsked, KillSwitchAsAsked
<1> QED
  BY <1>1, <1>2, <1>3, <1>4, <1>5, <1>6, <1>7, <1>8, <1>9, <1>10 DEF Next, Shell, User, Timers

-----------------------------------------------------------------------------
(* The wizard *)

Busy == setup.installing \/ setup.verifying

\* The flags tell which step of the set-up waits, runs or sleeps.
Matches(c) ==
  IF c.do = "setup" THEN setup.installing /\ ~setup.verifying /\ c.look.by = "Install"
  ELSE setup.verifying /\ (setup.installing <=> c.look.by = "Install")

(* One step of the set-up that is the wizard's own goes on when the wizard is busy, and none
   when it is not (OnboardingView.tsx:103-205).                                        *)
OneGoing ==
  /\ \A i, j \in DOMAIN queue : Own(queue[i]) /\ Own(queue[j]) => i = j
  /\ \A s, t \in asleep : Own(s) /\ Own(t) => s = t
  /\ \A i \in DOMAIN queue, s \in asleep : ~(Own(queue[i]) /\ Own(s))
  /\ \A i \in DOMAIN queue : Own(queue[i]) => Matches(queue[i])
  /\ \A s \in asleep : Own(s) => Matches(s)
  /\ Busy => (\E i \in DOMAIN queue : Own(queue[i])) \/ (\E s \in asleep : Own(s))

(* The wizard reports a success when it saw the daemon and is done, and a failure when it
   looks no more; it is idle before it was asked for and once it was completed.        *)
WizardKept ==
  /\ setup.success => seen /\ ~Busy /\ ~setup.failed
  /\ setup.failed => ~setup.verifying
  /\ answers.installed => seen
  /\ onboarded # "no" => setup = Idle

(* The state is loaded before the wizard is shown, and once; what completes the wizard
   tells of a daemon that was seen (App.tsx:802-810).                                 *)
EndsReady ==
  \A i \in DOMAIN queue :
    /\ queue[i].do = "state" => i = 1 /\ onboarded = "loading"
    /\ queue[i].do = "complete" => (queue[i].installed => seen)

SetupInv == OneGoing /\ WizardKept /\ EndsReady

LEMMA MatchesBusy ==
  ASSUME NEW c, Matches(c)
  PROVE  Busy
  BY DEF Matches, Busy

LEMMA IdleFree ==
  ASSUME OneGoing, ~Busy
  PROVE  /\ \A i \in DOMAIN queue : ~Own(queue[i])
         /\ \A s \in asleep : ~Own(s)
  BY MatchesBusy DEF OneGoing

\* The wizard's step that is first in the queue is the only one.
LEMMA FirstStepAlone ==
  ASSUME Typed, OneGoing, queue # <<>>, Own(Head(queue))
  PROVE  /\ \A i \in DOMAIN queue : Own(queue[i]) => i = 1
         /\ \A s \in asleep : ~Own(s)
         /\ Own(queue[1]) /\ Matches(queue[1]) /\ 1 \in DOMAIN queue
         /\ Head(queue) = queue[1] /\ queue[1] \in Command
<1>1. Head(queue) = queue[1] /\ queue[1] \in Command /\ 1 \in DOMAIN queue
  BY Popped DEF Typed, Waiting
<1> QED
  BY <1>1 DEF OneGoing

\* The wizard's own steps that wait stay in their order, d places further on.
OwnShifted(d) ==
  \A i \in Nat \ {0} :
    /\ i \in DOMAIN queue' /\ Own(queue'[i]) <=> i + d \in DOMAIN queue /\ Own(queue[i + d])
    /\ i \in DOMAIN queue' /\ Own(queue'[i]) => queue'[i] = queue[i + d]

\* None of them has come or gone.
StaysOwn == \E d \in {0, 1} : OwnShifted(d) /\ (d = 1 => ~Own(queue[1]))

LEMMA UnmovedOwn ==
  ASSUME Unmoved(SetupSteps)
  PROVE  StaysOwn
<1>1. PICK d \in {0, 1} : Shifted(SetupSteps, d) /\ (d = 1 => queue[1].do \notin SetupSteps)
  BY DEF Unmoved
<1>2. OwnShifted(d)
  BY <1>1 DEF Shifted, OwnShifted, Own
<1> QED
  BY <1>1, <1>2 DEF StaysOwn, Own

\* What runs is not the wizard's own, nor is what its caller invokes.
LEMMA RunsOrphan ==
  ASSUME Waiting, queue # <<>>, ~Own(Head(queue)),
         NEW more \in Seq(Command), Ran(more), \A i \in 1..Len(more) : ~Own(more[i])
  PROVE  StaysOwn
<1>1. \A i \in 1..Len(queue') : i >= Len(queue) => ~Own(queue'[i])
  <2> SUFFICES ASSUME NEW i \in 1..Len(queue'), i >= Len(queue)
               PROVE  ~Own(queue'[i])
    OBVIOUS
  <2>1. PICK j \in 1..Len(more) : queue'[i] = more[j]
    BY RanElements
  <2> QED
    BY <2>1 DEF Own
<1>2. /\ Len(queue) \in Nat \ {0} /\ Len(queue') \in Nat /\ Len(queue') >= Len(queue) - 1
      /\ DOMAIN queue = 1..Len(queue) /\ DOMAIN queue' = 1..Len(queue')
      /\ \A i \in 1..(Len(queue) - 1) : queue'[i] = queue[i + 1]
  BY RanElements
<1>3. \A i \in 1..(Len(queue) - 1) : Own(queue'[i]) <=> Own(queue[i + 1])
  BY <1>2 DEF Own
<1>4. OwnShifted(1)
  <2> SUFFICES ASSUME NEW i \in Nat \ {0}
               PROVE  /\ i \in DOMAIN queue' /\ Own(queue'[i]) <=> i + 1 \in DOMAIN queue /\ Own(queue[i + 1])
                      /\ i \in DOMAIN queue' /\ Own(queue'[i]) => queue'[i] = queue[i + 1]
    BY DEF OwnShifted
  <2>1. CASE i <= Len(queue) - 1
    <3>1. i \in 1..(Len(queue) - 1) /\ i \in DOMAIN queue' /\ i + 1 \in DOMAIN queue
      BY <1>2, <2>1
    <3> QED
      BY <1>2, <1>3, <3>1
  <2>2. CASE ~(i <= Len(queue) - 1)
    <3>1. i >= Len(queue) /\ i + 1 \notin DOMAIN queue
      BY <1>2, <2>2
    <3> QED
      BY <1>1, <1>2, <3>1
  <2> QED
    BY <2>1, <2>2
<1>5. Head(queue) = queue[1]
  BY Popped DEF Waiting
<1> QED
  BY <1>4, <1>5 DEF StaysOwn

LEMMA InvokesOrphan ==
  ASSUME Waiting, NEW c \in Command, ~Own(c), Invoke(c)
  PROVE  StaysOwn
<1> DEFINE more == <<c>>
<1>1. Adds(more)
  BY DEF Invoke, Adds, Waiting
<1>2. more \in Seq(Command) /\ Len(more) = 1 /\ more[1] = c
  BY ShortSeqs
<1> HIDE DEF more
<1>3. /\ Len(queue) \in Nat /\ Len(queue') = Len(queue) + 1
      /\ DOMAIN queue = 1..Len(queue) /\ DOMAIN queue' = 1..Len(queue')
      /\ \A i \in 1..Len(queue) : queue'[i] = queue[i]
      /\ \A i \in 1..Len(queue') : i > Len(queue) => queue'[i] = more[i - Len(queue)]
  BY <1>1, <1>2, AddsElements
<1>4. queue'[Len(queue) + 1] = c
  BY <1>2, <1>3
<1>5. ~Own(queue'[Len(queue) + 1])
  BY <1>4 DEF Own
<1>6. \A i \in 1..Len(queue) : Own(queue'[i]) <=> Own(queue[i])
  BY <1>3 DEF Own
<1>7. OwnShifted(0)
  <2> SUFFICES ASSUME NEW i \in Nat \ {0}
               PROVE  /\ i \in DOMAIN queue' /\ Own(queue'[i]) <=> i + 0 \in DOMAIN queue /\ Own(queue[i + 0])
                      /\ i \in DOMAIN queue' /\ Own(queue'[i]) => queue'[i] = queue[i + 0]
    BY DEF OwnShifted
  <2>0. i + 0 = i
    OBVIOUS
  <2>1. i \in DOMAIN queue \/ i = Len(queue) + 1 \/ (i \notin DOMAIN queue /\ i \notin DOMAIN queue')
    BY <1>3
  <2>2. i \in DOMAIN queue => i \in DOMAIN queue'
    BY <1>3
  <2>3. Len(queue) + 1 \notin DOMAIN queue
    BY <1>3
  <2> QED
    BY <1>3, <1>5, <1>6, <2>0, <2>1, <2>2, <2>3
<1> QED
  BY <1>7 DEF StaysOwn

\* A step that leaves the set-up alone.
LEMMA GoingOn ==
  ASSUME Typed, Typed', OneGoing, StaysOwn,
         UNCHANGED <<setup.installing, setup.verifying>>,
         \A s : Own(s) => (s \in asleep' <=> s \in asleep)
  PROVE  OneGoing'
<1>1. PICK d \in {0, 1} : OwnShifted(d) /\ (d = 1 => ~Own(queue[1]))
  BY DEF StaysOwn
<1>2. /\ DOMAIN queue = 1..Len(queue) /\ DOMAIN queue' = 1..Len(queue')
      /\ Len(queue) \in Nat /\ Len(queue') \in Nat
  BY DEF Typed, Waiting
<1>3. \A i \in DOMAIN queue' : Own(queue'[i]) =>
        i + d \in DOMAIN queue /\ Own(queue[i + d]) /\ queue'[i] = queue[i + d]
  BY <1>1, <1>2 DEF OwnShifted
<1>4. \A i \in DOMAIN queue : Own(queue[i]) => \E j \in DOMAIN queue' : Own(queue'[j])
  <2> SUFFICES ASSUME NEW i \in DOMAIN queue, Own(queue[i])
               PROVE  \E j \in DOMAIN queue' : Own(queue'[j])
    OBVIOUS
  <2>1. i - d \in Nat \ {0} /\ (i - d) + d = i
    BY <1>1, <1>2
  <2> QED
    BY <1>1, <2>1 DEF OwnShifted
<1>6. \A i, j \in DOMAIN queue' : Own(queue'[i]) /\ Own(queue'[j]) => i = j
  BY <1>2, <1>3 DEF OneGoing
<1>7. \A i \in DOMAIN queue' : Own(queue'[i]) => Matches(queue[i])'
  <2> SUFFICES ASSUME NEW i \in DOMAIN queue', Own(queue'[i])
               PROVE  Matches(queue[i])'
    OBVIOUS
  <2>1. PICK c : c = queue'[i]
    OBVIOUS
  <2>2. Matches(c)
    BY <1>3, <2>1 DEF OneGoing
  <2>3. UNCHANGED <<setup.installing, setup.verifying>>
    OBVIOUS
  <2> QED
    BY <2>1, <2>2, <2>3 DEF Matches
<1>8. \A c : Matches(c) => Matches(c)'
  BY DEF Matches
<1> QED
  BY <1>3, <1>4, <1>6, <1>7, <1>8 DEF OneGoing, Busy, Own

LEMMA OneInQueue ==
  ASSUME NEW k, k \in DOMAIN queue', Own(queue'[k]), Matches(queue[k])',
         \A i \in DOMAIN queue' : Own(queue'[i]) => i = k,
         \A s \in asleep' : ~Own(s)
  PROVE  OneGoing'
  BY DEF OneGoing, Own

LEMMA OneAsleep ==
  ASSUME NEW z, z \in asleep', Own(z), Matches(z)',
         \A i \in DOMAIN queue' : ~Own(queue'[i]),
         \A s \in asleep' : Own(s) => s = z
  PROVE  OneGoing'
  BY DEF OneGoing, Own

LEMMA NoneGoing ==
  ASSUME ~Busy', \A i \in DOMAIN queue' : ~Own(queue'[i]), \A s \in asleep' : ~Own(s)
  PROVE  OneGoing'
  BY DEF OneGoing, Own

LEMMA InvokesStep ==
  ASSUME Waiting, NEW c \in Command, Own(c), Invoke(c), \A i \in DOMAIN queue : ~Own(queue[i])
  PROVE  LET k == Len(queue) + 1
         IN k \in DOMAIN queue' /\ queue'[k] = c /\ \A i \in DOMAIN queue' : Own(queue'[i]) => i = k
<1> DEFINE more == <<c>>
<1>1. Adds(more)
  BY DEF Invoke, Adds, Waiting
<1>2. more \in Seq(Command) /\ Len(more) = 1 /\ more[1] = c
  BY ShortSeqs
<1> HIDE DEF more
<1>3. /\ Len(queue) \in Nat /\ Len(queue') = Len(queue) + 1
      /\ DOMAIN queue = 1..Len(queue) /\ DOMAIN queue' = 1..Len(queue')
      /\ \A i \in 1..Len(queue) : queue'[i] = queue[i]
      /\ \A i \in 1..Len(queue') : i > Len(queue) => queue'[i] = more[i - Len(queue)]
  BY <1>1, <1>2, AddsElements
<1>4. Len(queue) + 1 \in DOMAIN queue' /\ queue'[Len(queue) + 1] = c
  BY <1>2, <1>3
<1>5. \A i \in DOMAIN queue' : Own(queue'[i]) => i = Len(queue) + 1
  BY <1>3
<1> QED
  BY <1>4, <1>5

LEMMA RunsIntoStep ==
  ASSUME Waiting, queue # <<>>, NEW c \in Command, Own(c), Ran(<<c>>),
         \A i \in DOMAIN queue : Own(queue[i]) => i = 1
  PROVE  LET k == Len(queue)
         IN k \in DOMAIN queue' /\ queue'[k] = c /\ \A i \in DOMAIN queue' : Own(queue'[i]) => i = k
<1> DEFINE more == <<c>>
<1>1. Ran(more)
  OBVIOUS
<1>2. more \in Seq(Command) /\ Len(more) = 1 /\ more[1] = c
  BY ShortSeqs
<1> HIDE DEF more
<1>3. /\ Len(queue) \in Nat \ {0} /\ Len(queue') = Len(queue) - 1 + Len(more)
      /\ DOMAIN queue = 1..Len(queue) /\ DOMAIN queue' = 1..Len(queue')
      /\ \A i \in 1..(Len(queue) - 1) : queue'[i] = queue[i + 1]
      /\ \A i \in 1..Len(queue') : i >= Len(queue) => queue'[i] = more[i - Len(queue) + 1]
  BY <1>1, <1>2, RanElements
<1>4. Len(queue) \in DOMAIN queue' /\ queue'[Len(queue)] = c
  BY <1>2, <1>3
<1>5. \A i \in DOMAIN queue' : Own(queue'[i]) => i = Len(queue)
  <2> SUFFICES ASSUME NEW i \in DOMAIN queue', Own(queue'[i]), i # Len(queue)
               PROVE  FALSE
    OBVIOUS
  <2>1. i \in 1..(Len(queue) - 1) /\ i + 1 \in DOMAIN queue /\ i + 1 # 1
    BY <1>2, <1>3
  <2> QED
    BY <1>3, <2>1
<1> QED
  BY <1>4, <1>5

LEMMA RunsNone ==
  ASSUME Waiting, queue # <<>>, Ran(<<>>), \A i \in DOMAIN queue : Own(queue[i]) => i = 1
  PROVE  \A i \in DOMAIN queue' : ~Own(queue'[i])
<1>1. Shifted(SetupSteps, 1)
  BY RunsAlone
<1>2. DOMAIN queue' = 1..Len(queue') /\ Len(queue') \in Nat
  BY ShortSeqs, RanElements
<1> QED
  BY <1>1, <1>2 DEF Shifted, Own

LEMMA CompletedUnmoved ==
  ASSUME Typed, Completed
  PROVE  /\ Shifted(Ends, 1)
         /\ \/ UNCHANGED <<asleep, onboarded, page, setup>> /\ StaysOwn
            \/ TakenAway /\ onboarded' = "yes" /\ \A i \in DOMAIN queue' : ~Own(queue'[i])
<1>1. Given.value \in Values
  BY CompletedElements, ChoicesKinds
<1>2. \A w \in {"switchOn", "save", "complete"} : w \notin SetupSteps /\ (w = "complete" \/ w \notin Ends)
  BY DEF SetupSteps, Ends
<1>3. Run("switchOn").do = "switchOn" /\ Save(Given.value).do = "save"
  BY <1>1, CommandKinds
<1>4. \A i \in 1..Len(queue') : i >= Len(queue) => queue'[i].do \notin Ends /\ queue'[i].do \notin SetupSteps
  BY <1>2, <1>3, CompletedElements
<1>5. /\ Len(queue) \in Nat \ {0} /\ Len(queue') \in Nat /\ Len(queue') >= Len(queue) - 1
      /\ DOMAIN queue = 1..Len(queue) /\ DOMAIN queue' = 1..Len(queue')
      /\ queue[1].do \notin SetupSteps
  BY <1>2, CompletedElements
<1>6. \A i \in 1..(Len(queue) - 1) :
        queue'[i].do = queue[i + 1].do /\ (queue[i + 1].do \in Ends => queue'[i] = queue[i + 1])
  BY CompletedElements DEF Ends, SetupSteps
<1>7. Shifted(Ends, 1)
  BY <1>4, <1>5, <1>6 DEF Shifted
<1>8. CASE /\ TakenAway /\ onboarded' = "yes"
           /\ \A i \in 1..(Len(queue) - 1) : ~Own(queue'[i])
  <2>1. \A i \in 1..Len(queue') : i \in 1..(Len(queue) - 1) \/ i >= Len(queue)
    BY <1>5
  <2>2. \A i \in DOMAIN queue' : ~Own(queue'[i])
    BY <1>4, <1>5, <1>8, <2>1 DEF Own
  <2> QED
    BY <1>7, <1>8, <2>2
<1>9. CASE /\ UNCHANGED <<asleep, onboarded, page, setup>>
           /\ \A i \in 1..(Len(queue) - 1) : queue'[i] = queue[i + 1]
  <2>1. Shifted(SetupSteps, 1)
    BY <1>4, <1>5, <1>9 DEF Shifted
  <2>2. StaysOwn
    BY <1>5, <2>1, UnmovedOwn DEF Unmoved
  <2> QED
    BY <1>7, <1>9, <2>2
<1> QED
  BY <1>8, <1>9, CompletedElements

LEMMA NextGoing ==
  ASSUME Typed, Typed', SetupInv, [Next]_vars
  PROVE  OneGoing'
<1> USE DEF Typed, SetupInv
<1>0. /\ ~Own(Run("refresh")) /\ ~Own(Run("build")) /\ ~Own(Run("forward"))
      /\ \A w : ~Own(Look(w, Orphaned))
  BY DEF Own, Run, Look, SetupSteps
<1>1. CASE \/ Refreshed \/ RefreshLost \/ ActionSucceeds \/ ActionFails
           \/ Poll \/ Wake \/ Built \/ Forward \/ DaemonChanges \/ UNCHANGED vars
           \/ (\E w \in Services : Press(w)) \/ PressUpdate \/ Browse \/ Skip
           \/ StateLoaded \/ (\E choices \in Choices : Complete(choices))
  <2>1. UNCHANGED setup
    BY <1>1 DEF Refreshed, RefreshLost, ActionSucceeds, ActionFails, Poll, Wake, Built, Forward,
                DaemonChanges, vars, Press, PressUpdate, Browse, Skip, StateLoaded, Complete, wizard
  <2>2. \A s : Own(s) => (s \in asleep' <=> s \in asleep)
    BY <1>0, <1>1 DEF Refreshed, RefreshLost, ActionSucceeds, ActionFails, Poll, Wake, Built, Forward,
                DaemonChanges, vars, Press, PressUpdate, Browse, Skip, StateLoaded, Complete
  <2>3. SetupSteps \in Kinds \ {Ends}
    BY DEF Kinds, SetupSteps, Ends
  <2>4. StaysOwn
    BY <1>1, <2>3, PlainUnmoved, EndsLeave, UnmovedOwn
  <2> QED
    BY <2>1, <2>2, <2>4, GoingOn
<1>2. CASE \/ Toggle \/ (\E shown \in BOOLEAN : ToggleFromStaleListener(shown))
           \/ Switched \/ SwitchFails
           \/ Loaded \/ Saved \/ SaveFails \/ (\E v \in Values : Change(v))
  <2>1. UNCHANGED <<setup, asleep>>
    BY <1>2 DEF Toggle, ToggleFromStaleListener, Switched, SwitchFails, Loaded, Saved, SaveFails,
                Change, wizard
  <2>2. StaysOwn
    BY <1>2, SwitchLeaves, SaveLeaves, UnmovedOwn
  <2> QED
    BY <2>1, <2>2, GoingOn
<1>3. CASE Install
  <2>1. PICK c : c = Look("setup", First("Install"))
    OBVIOUS
  <2>2. c \in Command /\ Own(c) /\ c.do = "setup" /\ c.look.by = "Install"
    BY <2>1, CommandKinds, LookKinds DEF Own, SetupSteps
  <2>3. ~Busy /\ Invoke(c) /\ UNCHANGED asleep /\ setup'.installing /\ ~setup'.verifying
    BY <1>3, <2>1 DEF Install, Free, Busy, WizardTyped
  <2>4. PICK k : k \in DOMAIN queue' /\ queue'[k] = c /\ \A i \in DOMAIN queue' : Own(queue'[i]) => i = k
    BY <2>2, <2>3, IdleFree, InvokesStep
  <2>5. Matches(queue[k])'
    BY <2>2, <2>3, <2>4 DEF Matches
  <2> QED
    BY <2>2, <2>3, <2>4, <2>5, IdleFree, OneInQueue
<1>4. CASE Retry
  <2>1. PICK c : c = Look("available", First("Retry"))
    OBVIOUS
  <2>2. c \in Command /\ Own(c) /\ c.do = "available" /\ c.look.by = "Retry"
    BY <2>1, CommandKinds, LookKinds DEF Own, SetupSteps
  <2>3. ~Busy /\ Invoke(c) /\ UNCHANGED asleep /\ ~setup'.installing /\ setup'.verifying
    BY <1>4, <2>1 DEF Retry, Free, Busy, WizardTyped
  <2>4. PICK k : k \in DOMAIN queue' /\ queue'[k] = c /\ \A i \in DOMAIN queue' : Own(queue'[i]) => i = k
    BY <2>2, <2>3, IdleFree, InvokesStep
  <2>5. Matches(queue[k])'
    BY <2>2, <2>3, <2>4 DEF Matches
  <2> QED
    BY <2>2, <2>3, <2>4, <2>5, IdleFree, OneInQueue
<1>5. CASE (SetupSucceeds \/ SetupFails \/ Reached \/ Verified \/ NotVerified) /\ ~Own(Head(queue))
  <2>1. queue # <<>> /\ Head(queue).do \in SetupSteps
    BY <1>5 DEF SetupSucceeds, SetupFails, Reached, Verified, NotVerified, Turn, SetupSteps
  <2>2. Head(queue).look = Orphaned
    BY <1>5, <2>1 DEF Own
  <2>3. Look("available", Orphaned) \in Command /\ Look("verify", Orphaned) \in Command
    BY CommandKinds, LookKinds
  <2>4. PICK more \in {<<>>, <<Look("available", Orphaned)>>, <<Look("verify", Orphaned)>>} : Ran(more)
    BY <1>5, <2>2 DEF SetupSucceeds, SetupFails, Reached, Verified, NotVerified
  <2>5. more \in Seq(Command) /\ \A i \in 1..Len(more) : ~Own(more[i])
    <3>1. ASSUME NEW c \in Command, ~Own(c)
          PROVE  <<c>> \in Seq(Command) /\ \A i \in 1..Len(<<c>>) : ~Own(<<c>>[i])
      BY <3>1, ShortSeqs
    <3>2. <<>> \in Seq(Command) /\ \A i \in 1..Len(<<>>) : ~Own(<<>>[i])
      BY ShortSeqs
    <3> QED
      BY <1>0, <2>3, <2>4, <3>1, <3>2
  <2>6. StaysOwn
    BY <1>5, <2>1, <2>4, <2>5, RunsOrphan
  <2>7. UNCHANGED setup
    BY <1>5 DEF SetupSucceeds, SetupFails, Reached, Verified, NotVerified, Tells, wizard
  <2>8. asleep' \in {asleep, asleep \cup {Look("available", Orphaned)}}
    BY <1>5 DEF SetupSucceeds, SetupFails, Reached, Verified, NotVerified
  <2> QED
    BY <1>0, <2>6, <2>7, <2>8, GoingOn
<1>6. CASE SetupSucceeds /\ Own(Head(queue))
  <2>1. PICK c : c = Look("available", Head(queue).look)
    OBVIOUS
  <2>2. Turn({"setup"}) /\ queue # <<>> /\ Ran(<<c>>) /\ UNCHANGED asleep
    BY <1>6, <2>1 DEF SetupSucceeds, Turn
  <2>3. /\ \A i \in DOMAIN queue : Own(queue[i]) => i = 1
        /\ \A s \in asleep : ~Own(s)
        /\ Matches(queue[1]) /\ Head(queue) = queue[1]
    BY <1>6, <2>2, FirstStepAlone
  <2>4. Head(queue).look \in Looks /\ Head(queue).do = "setup" /\ Head(queue).look # Orphaned
    BY <1>6, <2>2, TurnFacts, CommandKinds DEF Own
  <2>5. c \in Command /\ Own(c) /\ c.do = "available" /\ c.look.by = "Install"
    BY <2>1, <2>3, <2>4, CommandKinds DEF Own, SetupSteps, Matches
  <2>6. setup'.installing /\ setup'.verifying
    BY <1>6, <2>3, <2>4 DEF SetupSucceeds, Tells, Matches, WizardTyped
  <2>7. PICK k : k \in DOMAIN queue' /\ queue'[k] = c /\ \A i \in DOMAIN queue' : Own(queue'[i]) => i = k
    BY <2>2, <2>3, <2>5, RunsIntoStep
  <2>8. Matches(queue[k])'
    BY <2>5, <2>6, <2>7 DEF Matches
  <2> QED
    BY <2>2, <2>3, <2>5, <2>7, <2>8, OneInQueue
<1>7. CASE Reached /\ Own(Head(queue))
  <2>1. PICK c : c = Look("verify", Head(queue).look)
    OBVIOUS
  <2>2. Turn({"available"}) /\ queue # <<>> /\ Ran(<<c>>) /\ UNCHANGED <<asleep, setup>>
    BY <1>7, <2>1 DEF Reached, Turn, wizard
  <2>3. /\ \A i \in DOMAIN queue : Own(queue[i]) => i = 1
        /\ \A s \in asleep : ~Own(s)
        /\ Matches(queue[1]) /\ Head(queue) = queue[1]
    BY <1>7, <2>2, FirstStepAlone
  <2>4. Head(queue).look \in Looks /\ Head(queue).do = "available" /\ Head(queue).look # Orphaned
    BY <1>7, <2>2, TurnFacts, CommandKinds DEF Own
  <2>5. c \in Command /\ Own(c) /\ c.do = "verify" /\ c.look = Head(queue).look
    BY <2>1, <2>4, CommandKinds DEF Own, SetupSteps
  <2>6. setup.verifying /\ (setup.installing <=> c.look.by = "Install")
    BY <2>3, <2>4, <2>5 DEF Matches
  <2>7. PICK k : k \in DOMAIN queue' /\ queue'[k] = c /\ \A i \in DOMAIN queue' : Own(queue'[i]) => i = k
    BY <2>2, <2>3, <2>5, RunsIntoStep
  <2>8. Matches(queue[k])'
    BY <2>2, <2>5, <2>6, <2>7 DEF Matches
  <2> QED
    BY <2>2, <2>3, <2>5, <2>7, <2>8, OneInQueue
<1>8. CASE SetupFails /\ Own(Head(queue))
  <2>1. Turn({"setup"}) /\ queue # <<>> /\ Ran(<<>>) /\ UNCHANGED asleep
    BY <1>8 DEF SetupFails, Turn
  <2>2. /\ \A i \in DOMAIN queue : Own(queue[i]) => i = 1
        /\ \A s \in asleep : ~Own(s)
        /\ Matches(queue[1]) /\ Head(queue) = queue[1]
    BY <1>8, <2>1, FirstStepAlone
  <2>3. ~setup.verifying
    BY <2>1, <2>2, TurnFacts DEF Matches
  <2>4. ~Busy'
    BY <1>8, <2>3 DEF SetupFails, Tells, WizardTyped, Busy
  <2> QED
    BY <2>1, <2>2, <2>4, RunsNone, NoneGoing
<1>9. ASSUME NEW s, Own(s), s.do # "setup", Matches(s), setup'.verifying = FALSE,
             setup'.installing = (setup.installing /\ s.look.by # "Install")
      PROVE  ~Busy'
  <2>1. setup.installing <=> s.look.by = "Install"
    BY <1>9 DEF Matches
  <2> QED
    BY <1>9, <2>1, Zenon DEF Busy
<1>10. CASE (Verified \/ NotVerified) /\ Own(Head(queue))
  <2>1. PICK K \in SUBSET {"available", "verify"} : Turn(K)
    BY <1>10 DEF Verified, NotVerified
  <2>2. queue # <<>> /\ Ran(<<>>)
    BY <1>10, <2>1 DEF Verified, NotVerified, Turn
  <2>3. /\ \A i \in DOMAIN queue : Own(queue[i]) => i = 1
        /\ \A s \in asleep : ~Own(s)
        /\ Matches(queue[1]) /\ Head(queue) = queue[1]
    BY <1>10, <2>2, FirstStepAlone
  <2>4. /\ Head(queue).do \in {"available", "verify"}
        /\ Head(queue).look \in Looks /\ Head(queue).look # Orphaned
    BY <1>10, <2>1, TurnFacts, CommandKinds DEF Own
  <2>5. setup.verifying /\ (setup.installing <=> queue[1].look.by = "Install")
    BY <2>3, <2>4 DEF Matches
  <2>6. \A i \in DOMAIN queue' : ~Own(queue'[i])
    BY <2>2, <2>3, RunsNone
  <2>7. CASE Verified
    <3>1. asleep' = asleep \cup {Run("forward")}
      BY <1>10, <2>7 DEF Verified
    <3>2. /\ setup'.verifying = FALSE
          /\ setup'.installing = (setup.installing /\ Head(queue).look.by # "Install")
      BY <1>10, <2>7 DEF Verified, Tells, WizardTyped
    <3>3. ~Busy'
      BY <1>9, <1>10, <2>3, <2>4, <3>2
    <3> QED
      BY <1>0, <2>3, <2>6, <3>1, <3>3, NoneGoing
  <2>8. CASE NotVerified
    <3>1. PICK z : z = NextTry(Head(queue).look)
      OBVIOUS
    <3>2. asleep' = asleep \cup {z} /\ UNCHANGED setup
      BY <1>10, <2>8, <3>1 DEF NotVerified, wizard
    <3>3. Own(z) /\ z.do # "setup" /\ z.look.by = queue[1].look.by
      BY <2>3, <2>4, <3>1, NextTryKinds
    <3>4. Matches(z)'
      BY <2>5, <3>2, <3>3 DEF Matches
    <3> QED
      BY <2>3, <2>6, <3>2, <3>3, <3>4, OneAsleep
  <2> QED
    BY <1>10, <2>7, <2>8
<1>11. CASE LookAgain
  <2>1. PICK z \in asleep : z.do = "available" /\ asleep' = asleep \ {z} /\ Invoke(z)
    BY <1>11 DEF LookAgain
  <2>2. z \in Command /\ UNCHANGED setup
    BY <1>11, <2>1, SleeperKinds DEF LookAgain, WizardTyped, wizard
  <2>3. CASE Own(z)
    <3>1. (\A i \in DOMAIN queue : ~Own(queue[i])) /\ Matches(z) /\ \A s \in asleep' : ~Own(s)
      BY <2>1, <2>3 DEF OneGoing
    <3>2. PICK k : k \in DOMAIN queue' /\ queue'[k] = z /\ \A i \in DOMAIN queue' : Own(queue'[i]) => i = k
      BY <2>1, <2>2, <2>3, <3>1, InvokesStep
    <3>3. Matches(queue[k])'
      BY <2>2, <3>1, <3>2 DEF Matches
    <3> QED
      BY <2>3, <3>1, <3>2, <3>3, OneInQueue
  <2>4. CASE ~Own(z)
    <3>1. StaysOwn
      BY <2>1, <2>2, <2>4, InvokesOrphan
    <3> QED
      BY <2>1, <2>2, <2>4, <3>1, GoingOn
  <2> QED
    BY <2>3, <2>4
<1>12. CASE Report
  <2>1. PICK z \in asleep :
          /\ z.do = "report" /\ asleep' = asleep \ {z}
          /\ Tells(z, [setup EXCEPT !.verifying = FALSE, !.failed = TRUE,
                                    !.installing = @ /\ z.look.by # "Install"])
    BY <1>12 DEF Report
  <2>2. UNCHANGED queue
    BY <1>12 DEF Report
  <2>3. CASE Own(z)
    <3>1. (\A i \in DOMAIN queue : ~Own(queue[i])) /\ Matches(z) /\ \A s \in asleep' : ~Own(s)
      BY <2>1, <2>3 DEF OneGoing
    <3>2. /\ setup'.verifying = FALSE
          /\ setup'.installing = (setup.installing /\ z.look.by # "Install")
      BY <2>1, <2>3 DEF Tells, WizardTyped
    <3>3. ~Busy'
      BY <1>9, <2>1, <2>3, <3>1, <3>2
    <3>4. \A i \in DOMAIN queue' : ~Own(queue'[i])
      BY <2>2, <3>1 DEF Own
    <3> QED
      BY <3>1, <3>3, <3>4, NoneGoing
  <2>4. CASE ~Own(z)
    <3>1. UNCHANGED setup
      BY <2>1, <2>4 DEF Tells
    <3>2. StaysOwn
      BY <2>2, StaysUnmoved, UnmovedOwn
    <3> QED
      BY <2>1, <2>4, <3>1, <3>2, GoingOn
  <2> QED
    BY <2>3, <2>4
<1>13. CASE Completed
  <2>1. CASE UNCHANGED <<asleep, setup>> /\ StaysOwn
    BY <2>1, GoingOn
  <2>2. CASE TakenAway /\ \A i \in DOMAIN queue' : ~Own(queue'[i])
    BY <2>2, TakenAwayTyped, NoneGoing DEF Busy, Idle
  <2> QED
    BY <1>13, <2>1, <2>2, CompletedUnmoved
<1>14. CASE CheckAuth
  <2>1. TakenAway /\ queue' = Orphans(queue)
    BY <1>14 DEF CheckAuth
  <2>2. \A i \in DOMAIN queue' : ~Own(queue'[i])
    <3>1. DOMAIN queue' = 1..Len(queue) /\ \A i \in 1..Len(queue) : queue[i] \in Command
      BY <2>1, OrphansKinds DEF Waiting
    <3>2. \A i \in 1..Len(queue) : queue'[i] = Orphan(queue[i]) /\ ~Own(Orphan(queue[i]))
      BY <2>1, <3>1, OrphansKinds, OrphanKinds DEF Waiting
    <3> QED
      BY <3>1, <3>2 DEF Own
  <2>3. ~Busy' /\ \A s \in asleep' : ~Own(s)
    BY <2>1, TakenAwayTyped DEF Busy, Idle
  <2> QED
    BY <2>2, <2>3, NoneGoing
<1>15. CASE Quit
  <2>1. queue' = Mount /\ asleep' = {} /\ setup' = Idle
    BY <1>15 DEF Quit
  <2>2. \A i \in DOMAIN queue' : ~Own(queue'[i])
    BY <2>1 DEF Mount, Run, Own, SetupSteps
  <2>3. ~Busy'
    BY <2>1 DEF Busy, Idle
  <2> QED
    BY <2>1, <2>2, <2>3, NoneGoing
<1> QED
  BY <1>1, <1>2, <1>3, <1>4, <1>5, <1>6, <1>7, <1>8, <1>10, <1>11, <1>12, <1>13, <1>14, <1>15
     DEF Next, Shell, User, Timers

LEMMA ReadyKept ==
  ASSUME Typed, Typed', EndsReady, Unmoved(Ends), UNCHANGED onboarded, seen => seen'
  PROVE  EndsReady'
<1>1. PICK d \in {0, 1} : Shifted(Ends, d)
  BY DEF Unmoved
<1>2. /\ DOMAIN queue = 1..Len(queue) /\ DOMAIN queue' = 1..Len(queue')
      /\ Len(queue) \in Nat /\ Len(queue') \in Nat
  BY DEF Typed, Waiting
<1>3. \A i \in DOMAIN queue' : queue'[i].do \in Ends => i + d \in DOMAIN queue /\ queue'[i] = queue[i + d]
  BY <1>1, <1>2 DEF Shifted
<1>4. \A i \in DOMAIN queue' : queue'[i].do = "state" => i = 1 /\ onboarded' = "loading"
  BY <1>2, <1>3 DEF EndsReady, Ends
<1>5. \A i \in DOMAIN queue' : queue'[i].do = "complete" => (queue'[i].installed => seen)
  BY <1>2, <1>3 DEF EndsReady, Ends
<1> QED
  BY <1>4, <1>5 DEF EndsReady

LEMMA NextReady ==
  ASSUME Typed, Typed', SetupInv, [Next]_vars
  PROVE  EndsReady'
<1> USE DEF Typed, SetupInv
<1>1. CASE \/ Refreshed \/ RefreshLost \/ ActionSucceeds \/ ActionFails
           \/ Poll \/ Wake \/ Built \/ Report \/ Forward \/ DaemonChanges \/ UNCHANGED vars
           \/ (\E w \in Services : Press(w)) \/ PressUpdate \/ Browse \/ Skip
  <2>1. UNCHANGED <<onboarded, seen>>
    BY <1>1 DEF Refreshed, RefreshLost, ActionSucceeds, ActionFails, Poll, Wake, Built, Report, Forward,
                DaemonChanges, vars, Press, PressUpdate, Browse, Skip, wizard
  <2>2. Unmoved(Ends)
    BY <1>1, PlainUnmoved DEF Kinds
  <2> QED
    BY <2>1, <2>2, ReadyKept
<1>2. CASE \/ SetupSucceeds \/ SetupFails \/ Reached \/ Verified \/ NotVerified
           \/ Install \/ Retry \/ LookAgain
  <2>1. UNCHANGED onboarded /\ (seen => seen')
    BY <1>2 DEF SetupSucceeds, SetupFails, Reached, Verified, NotVerified, Install, Retry, LookAgain, wizard
  <2>2. Unmoved(Ends)
    BY <1>2, SetupLeaves
  <2> QED
    BY <2>1, <2>2, ReadyKept
<1>3. CASE \/ Toggle \/ (\E shown \in BOOLEAN : ToggleFromStaleListener(shown))
           \/ Switched \/ SwitchFails
           \/ Loaded \/ Saved \/ SaveFails \/ (\E v \in Values : Change(v))
  <2>1. UNCHANGED <<onboarded, seen>>
    BY <1>3 DEF Toggle, ToggleFromStaleListener, Switched, SwitchFails, Loaded, Saved, SaveFails,
                Change, wizard
  <2>2. Unmoved(Ends)
    BY <1>3, SwitchLeaves, SaveLeaves
  <2> QED
    BY <2>1, <2>2, ReadyKept
<1>4. CASE CheckAuth
  <2>1. UNCHANGED <<onboarded, seen>> /\ Unmoved(Ends)
    BY <1>4, CheckAuthLeaves DEF CheckAuth
  <2> QED
    BY <2>1, ReadyKept
<1>5. CASE StateLoaded \/ Completed
  <2>1. Shifted(Ends, 1) /\ UNCHANGED seen
    <3>1. CASE StateLoaded
      BY <3>1, TurnFacts, RunsAlone DEF StateLoaded
    <3>2. CASE Completed
      BY <3>2, CompletedUnmoved DEF Completed
    <3> QED
      BY <1>5, <3>1, <3>2
  <2>2. \A i \in DOMAIN queue' : queue'[i].do \in Ends =>
          i + 1 \in DOMAIN queue /\ i + 1 # 1 /\ queue'[i] = queue[i + 1]
    BY <2>1 DEF Shifted, Waiting
  <2> QED
    BY <2>1, <2>2 DEF EndsReady, Ends
<1>6. ASSUME NEW choices \in Choices, Complete(choices)
      PROVE  EndsReady'
  <2>1. PICK c \in Command : c = Finished(choices)
    BY FinishedTyped
  <2>2. c.do = "complete" /\ (c.installed => seen)
    BY <2>1 DEF Finished, WizardKept
  <2>3. Invoke(c) /\ UNCHANGED <<onboarded, seen>>
    BY <1>6, <2>1 DEF Complete, wizard
  <2> DEFINE more == <<c>>
  <2>4. more \in Seq(Command) /\ Len(more) = 1 /\ more[1] = c /\ Adds(more)
    BY <2>3, ShortSeqs DEF Invoke, Adds, Waiting
  <2> HIDE DEF more
  <2>5. /\ Len(queue) \in Nat /\ Len(queue') = Len(queue) + 1
        /\ DOMAIN queue = 1..Len(queue) /\ DOMAIN queue' = 1..Len(queue')
        /\ \A i \in 1..Len(queue) : queue'[i] = queue[i]
        /\ \A i \in 1..Len(queue') : i > Len(queue) => queue'[i] = more[i - Len(queue)]
    BY <2>4, AddsElements
  <2>6. \A i \in DOMAIN queue' : (i \in DOMAIN queue /\ queue'[i] = queue[i]) \/ queue'[i] = c
    BY <2>4, <2>5
  <2> QED
    BY <2>2, <2>3, <2>6 DEF EndsReady
<1>7. CASE Quit
  <2>1. queue' = Mount /\ onboarded' = "loading"
    BY <1>7 DEF Quit
  <2> QED
    BY <2>1 DEF EndsReady, Mount, Run
<1> QED
  BY <1>1, <1>2, <1>3, <1>4, <1>5, <1>6, <1>7 DEF Next, Shell, User, Timers

\* While the wizard's own step runs, it is shown and has not reported.
LEMMA OwnBusy ==
  ASSUME Typed, SetupInv, NEW c, Own(c), Matches(c)
  PROVE  Busy /\ ~setup.success /\ onboarded = "no"
<1>1. Busy
  BY MatchesBusy
<1>2. setup # Idle
  BY <1>1 DEF Busy, Idle
<1> QED
  BY <1>1, <1>2 DEF SetupInv, WizardKept

LEMMA NextWizard ==
  ASSUME Typed, Typed', SetupInv, [Next]_vars
  PROVE  WizardKept'
<1> USE DEF Typed, SetupInv
<1>1. ASSUME UNCHANGED <<setup, answers, onboarded, seen>>
      PROVE  WizardKept'
  BY <1>1 DEF WizardKept, Busy
<1>2. CASE \/ Refreshed \/ RefreshLost \/ ActionSucceeds \/ ActionFails \/ Switched \/ SwitchFails
           \/ Reached \/ NotVerified \/ Loaded \/ Saved \/ SaveFails
           \/ Poll \/ Wake \/ Built \/ LookAgain \/ Forward \/ DaemonChanges \/ UNCHANGED vars
  BY <1>1, <1>2 DEF Refreshed, RefreshLost, ActionSucceeds, ActionFails, Switched, SwitchFails,
                    Reached, NotVerified, Loaded, Saved, SaveFails,
                    Poll, Wake, Built, LookAgain, Forward, DaemonChanges, vars, wizard
<1>3. ASSUME User, ~Install, ~Retry
      PROVE  WizardKept'
  BY <1>1, <1>3 DEF User, Press, PressUpdate, Toggle, ToggleFromStaleListener, Browse, Skip, Change,
                    Complete, wizard
<1>4. CASE Install \/ Retry
  <2>1. /\ onboarded = "no" /\ UNCHANGED <<answers, onboarded, seen>>
        /\ ~setup'.success /\ ~setup'.failed
    BY <1>4 DEF Install, Retry, Asked, Free, WizardTyped
  <2> QED
    BY <2>1 DEF WizardKept
<1>5. CASE SetupSucceeds \/ SetupFails
  <2>1. Turn({"setup"}) /\ queue # <<>> /\ UNCHANGED <<answers, onboarded, seen>>
    BY <1>5 DEF SetupSucceeds, SetupFails, Turn
  <2>2. CASE Own(Head(queue))
    <3>1. Matches(Head(queue))
      BY <2>1, <2>2, FirstStepAlone
    <3>2. ~setup.success /\ onboarded = "no"
      BY <2>2, <3>1, OwnBusy
    <3>3. ~setup'.success /\ (setup'.failed => setup.failed /\ setup'.verifying = setup.verifying)
      BY <1>5, <2>2, <3>2 DEF SetupSucceeds, SetupFails, Tells, WizardTyped
    <3> QED
      BY <2>1, <3>2, <3>3 DEF WizardKept
  <2>3. CASE ~Own(Head(queue))
    BY <1>1, <1>5, <2>1, <2>3 DEF SetupSucceeds, SetupFails, Tells
  <2> QED
    BY <2>2, <2>3
<1>6. CASE Verified
  <2>1. Turn({"verify"}) /\ queue # <<>> /\ seen' = TRUE /\ UNCHANGED <<answers, onboarded>>
    BY <1>6 DEF Verified, Turn
  <2>2. CASE Own(Head(queue))
    <3>1. Matches(Head(queue)) /\ Head(queue).do = "verify"
      BY <2>1, <2>2, TurnFacts, FirstStepAlone
    <3>2. onboarded = "no"
      BY <2>2, <3>1, OwnBusy
    <3>3. setup.verifying /\ (setup.installing <=> Head(queue).look.by = "Install")
      BY <3>1 DEF Matches
    <3>4. /\ setup'.success /\ setup'.failed = setup.failed /\ setup'.verifying = FALSE
          /\ setup'.installing = (setup.installing /\ Head(queue).look.by # "Install")
      BY <1>6, <2>2 DEF Verified, Tells, WizardTyped
    <3>5. ~setup'.installing
      BY <3>3, <3>4, Zenon
    <3>6. ~Busy' /\ ~setup'.failed
      BY <3>3, <3>4, <3>5 DEF Busy, WizardKept
    <3> QED
      BY <2>1, <3>2, <3>4, <3>6 DEF WizardKept
  <2>3. CASE ~Own(Head(queue))
    <3>1. UNCHANGED setup
      BY <1>6, <2>3 DEF Verified, Tells
    <3> QED
      BY <2>1, <3>1 DEF WizardKept, Busy
  <2> QED
    BY <2>2, <2>3
<1>7. CASE Report
  <2>1. PICK z \in asleep :
          Tells(z, [setup EXCEPT !.verifying = FALSE, !.failed = TRUE,
                                 !.installing = @ /\ z.look.by # "Install"])
    BY <1>7 DEF Report
  <2>2. UNCHANGED <<answers, onboarded, seen>>
    BY <1>7 DEF Report
  <2>3. CASE Own(z)
    <3>1. ~setup.success /\ onboarded = "no"
      BY <2>3, OwnBusy DEF OneGoing
    <3>2. ~setup'.success /\ ~setup'.verifying
      BY <2>1, <2>3, <3>1 DEF Tells, WizardTyped
    <3> QED
      BY <2>2, <3>1, <3>2 DEF WizardKept
  <2>4. CASE ~Own(z)
    BY <1>1, <2>1, <2>2, <2>4 DEF Tells
  <2> QED
    BY <2>3, <2>4
<1>8. CASE Completed
  <2>1. Turn({"complete"}) /\ seen' = seen
    BY <1>8 DEF Completed
  <2>2. queue[1].do = "complete" /\ Head(queue) = queue[1] /\ 1 \in DOMAIN queue
    BY <2>1, TurnFacts DEF Waiting
  <2>3. queue[1].installed => seen
    BY <2>2 DEF EndsReady
  <2>4. CASE setup' = Idle /\ answers' = [kept |-> TRUE, installed |-> queue[1].installed]
    BY <2>1, <2>3, <2>4 DEF WizardKept, Busy, Idle
  <2>5. CASE UNCHANGED <<onboarded, setup>> /\ answers' \in {answers, NoAnswers}
    BY <2>1, <2>5 DEF WizardKept, Busy, NoAnswers
  <2> QED
    BY <1>8, <2>2, <2>4, <2>5 DEF Completed, TakenAway
<1>9. CASE StateLoaded
  <2>1. Turn({"state"}) /\ UNCHANGED <<setup, seen>> /\ answers' \in {answers, NoAnswers}
    BY <1>9 DEF StateLoaded
  <2>2. queue[1].do = "state" /\ 1 \in DOMAIN queue
    BY <2>1, TurnFacts DEF Waiting
  <2>3. onboarded = "loading"
    BY <2>2 DEF EndsReady
  <2> QED
    BY <2>1, <2>3 DEF WizardKept, Busy, Idle, NoAnswers
<1>10. CASE CheckAuth
  BY <1>10 DEF CheckAuth, TakenAway, WizardKept, Busy, Idle
<1>11. CASE Quit
  BY <1>11 DEF Quit, WizardKept, Busy, Idle
<1> QED
  BY <1>2, <1>3, <1>4, <1>5, <1>6, <1>7, <1>8, <1>9, <1>10, <1>11 DEF Next, Shell, Timers

-----------------------------------------------------------------------------
(* The invariants *)

ConsoleInv == Typed /\ SetupInv /\ SwitchInv /\ SettingsInv

LEMMA InitInv ==
  ASSUME Init
  PROVE  ConsoleInv
<1>1. Typed
  BY InitTyped, ConsoleAssumption
<1>2. queue = <<Run("state"), Run("poll"), Run("load")>>
  BY DEF Init, Mount
<1>3. /\ DOMAIN queue = 1..3
      /\ queue[1].do = "state" /\ queue[2].do = "poll" /\ queue[3].do = "load"
  BY <1>2 DEF Run
<1>4. \A i \in DOMAIN queue : queue[i].do \in {"state", "poll", "load"} /\ (queue[i].do = "state" => i = 1)
  BY <1>3
<1>5. asleep = {} /\ setup = Idle /\ onboarded = "loading" /\ page = "choices"
      /\ answers = NoAnswers /\ wanted = "any" /\ loaded = FALSE
  BY DEF Init
<1>6. OneGoing
  BY <1>4, <1>5 DEF OneGoing, Own, SetupSteps, Busy, Idle
<1>7. WizardKept
  BY <1>5 DEF WizardKept, Busy, Idle, NoAnswers
<1>8. EndsReady
  BY <1>4, <1>5 DEF EndsReady
<1>9. SwitchInv
  BY <1>5 DEF SwitchInv, LastSwitchAsked, AsAsked, KillSwitchAsAsked
<1>10. SettingsInv
  BY <1>5 DEF SettingsInv, LastWriteCurrent, SettingsSaved
<1> QED
  BY <1>1, <1>6, <1>7, <1>8, <1>9, <1>10 DEF ConsoleInv, SetupInv

LEMMA NextInv ==
  ASSUME ConsoleInv, [Next]_vars
  PROVE  ConsoleInv'
<1>1. Typed'
  BY NextTyped DEF ConsoleInv
<1>2. SetupInv'
  BY <1>1, NextGoing, NextWizard, NextReady DEF ConsoleInv, SetupInv
<1>3. SwitchInv' /\ SettingsInv'
  BY <1>1, NextSwitch, NextSettings DEF ConsoleInv
<1> QED
  BY <1>1, <1>2, <1>3 DEF ConsoleInv

LEMMA AlwaysInv == Spec => []ConsoleInv
<1>1. Init => ConsoleInv
  BY InitInv
<1>2. ConsoleInv /\ [Next]_vars => ConsoleInv'
  BY NextInv
<1> QED
  BY <1>1, <1>2, PTL DEF Spec

LEMMA OneIsOneSetup ==
  ASSUME Typed, OneGoing
  PROVE  OneSetup
<1> DEFINE turn == {i \in DOMAIN queue : Own(queue[i])}
           nap == {s \in asleep : Own(s)}
<1>1. \A x : Cardinality({x}) = 1
  BY FS_Singleton
<1>2. Cardinality({}) = 0
  BY FS_EmptySet
<1>3. CASE ~Busy
  <2>1. turn = {} /\ nap = {}
    BY <1>3, IdleFree
  <2>2. Cardinality(turn) = 0 /\ Cardinality(nap) = 0
    <3> HIDE DEF turn, nap
    <3> QED
      BY <1>2, <2>1
  <2>3. Cardinality(turn) + Cardinality(nap) = 0
    <3> HIDE DEF turn, nap
    <3> QED
      BY <2>2
  <2> QED
    BY <1>3, <2>3 DEF OneSetup, Busy
<1>4. CASE Busy
  <2>1. (turn = {} /\ \E s : nap = {s}) \/ (nap = {} /\ \E i : turn = {i})
    <3>1. CASE \E i \in DOMAIN queue : Own(queue[i])
      <4>1. PICK i \in DOMAIN queue : Own(queue[i])
        BY <3>1
      <4>2. turn = {i} /\ nap = {}
        BY <4>1 DEF OneGoing
      <4> QED
        BY <4>2
    <3>2. CASE \E s \in asleep : Own(s)
      <4>1. PICK s \in asleep : Own(s)
        BY <3>2
      <4>2. turn = {} /\ nap = {s}
        BY <4>1 DEF OneGoing
      <4> QED
        BY <4>2
    <3> QED
      BY <1>4, <3>1, <3>2 DEF OneGoing
  <2>2. \/ Cardinality(turn) = 0 /\ Cardinality(nap) = 1
        \/ Cardinality(turn) = 1 /\ Cardinality(nap) = 0
    <3> HIDE DEF turn, nap
    <3> QED
      BY <1>1, <1>2, <2>1
  <2>3. Cardinality(turn) + Cardinality(nap) = 1
    <3> HIDE DEF turn, nap
    <3> QED
      BY <2>2
  <2> QED
    BY <1>4, <2>3 DEF OneSetup, Busy
<1> QED
  BY <1>3, <1>4

(* The console's state is of its types in every reachable state, and the wizard's flags
   exclude one another (OnboardingView.tsx:103-205, hooks.ts:151-425).              *)
THEOREM TypeCorrect == Spec => []TypeOK
<1>1. ConsoleInv => TypeOK
  <2> SUFFICES ASSUME ConsoleInv
               PROVE  TypeOK
    OBVIOUS
  <2> USE DEF ConsoleInv, Typed
  <2>1. \A p \in {"choices", "install", "complete"} : p \in {Pages[i] : i \in DOMAIN Pages}
    <3>1. /\ DOMAIN Pages = 1..3
          /\ Pages[1] = "choices" /\ Pages[2] = "install" /\ Pages[3] = "complete"
      BY DEF Pages
    <3> QED
      BY <3>1
  <2>2. setup.failed => ~setup.verifying /\ ~setup.success
    BY DEF SetupInv, WizardKept
  <2>3. setup \in [{"installing", "verifying", "failed", "success"} -> BOOLEAN]
    BY DEF WizardTyped
  <2> QED
    BY <2>1, <2>2, <2>3 DEF TypeOK, ServiceTyped, Waiting, ShownTyped, WizardTyped, StoredTyped
<1> QED
  BY <1>1, AlwaysInv, PTL

(* Of the wizard that is shown at most one set-up goes on at a time, whatever the user
   presses while its steps wait, run or sleep, and its flags tell exactly whether one does,
   whatever set-ups of wizards that the sign-in took away still go on
   (OnboardingView.tsx:113-205, 497-553, App.tsx:789-827).                          *)
THEOREM OneSetupEver == Spec => []OneSetup
<1>1. ConsoleInv => OneSetup
  BY OneIsOneSetup DEF ConsoleInv, SetupInv
<1> QED
  BY <1>1, AlwaysInv, PTL

(* What the wizard reports, and what onboarding.json keeps through restarts, is a service
   that was seen to run (OnboardingView.tsx:163-217, App.tsx:802-810).              *)
THEOREM InstalledWasSeenEver == Spec => []InstalledWasSeen
<1>1. ConsoleInv => InstalledWasSeen
  BY DEF ConsoleInv, SetupInv, WizardKept, InstalledWasSeen
<1> QED
  BY <1>1, AlwaysInv, PTL

(* When no switch waits the kill switch is as the last one invoked asked, by a toggle, the
   wizard or a listener left over, unless that one failed or the daemon changed it
   (SettingsView.tsx:952-965, App.tsx:656-698, 816-822).                            *)
THEOREM KillSwitchAsAskedEver == Spec => []KillSwitchAsAsked
<1>1. ConsoleInv => KillSwitchAsAsked
  BY DEF ConsoleInv, SwitchInv
<1> QED
  BY <1>1, AlwaysInv, PTL

(* When no write waits and the last one succeeded, settings.json holds the settings in use
   (hooks.ts:151-196, main.rs:388-455).                                             *)
THEOREM SettingsSavedEver == Spec => []SettingsSaved
<1>1. ConsoleInv => SettingsSaved
  BY DEF ConsoleInv, SettingsInv
<1> QED
  BY <1>1, AlwaysInv, PTL
=============================================================================
