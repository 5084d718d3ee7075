----------------------------- MODULE ServiceConsole -----------------------------
(***************************************************************************)
(* How the desktop app sets up and controls the daemon's service: the      *)
(* status that it polls (useDaemonStatus), the buttons of the Service tab, *)
(* the kill-switch toggles of the settings and the tray, the wizard of the *)
(* first start (OnboardingView, useOnboarding) and the settings that are   *)
(* written whenever they change (useDesktopSettings).                      *)
(*                                                                         *)
(* The shell's commands are synchronous: they wait in a queue and run one  *)
(* at a time.  A command and what its caller does with the answer are one  *)
(* step here; whatever the caller waits for next is another.               *)
(***************************************************************************)
EXTENDS Integers, Sequences, FiniteSets

CONSTANTS
  Values,     \* what the settings can be, the protocol first of all
  Protocols,  \* those that the wizard offers
  Default,    \* what the app assumes until it has loaded them
  Tries,      \* how often the wizard looks for the daemon; 5 in the code
  Pending,    \* bound: what waits or sleeps when the user asks for more
  Unreadable  \* a file that was cut short

ASSUME ConsoleAssumption ==
  /\ Default \in Values /\ Protocols \subseteq Values /\ Unreadable \notin Values
  /\ Tries \in Nat \ {0}
  /\ Pending \in Nat \ {0}

VARIABLES
  service,    \* the daemon as the service manager has it
  queue,      \* the commands invoked that have not run
  asleep,     \* what waits for a timeout, or for a build
  status,     \* the daemon's status that the app shows
  page,       \* step: the page of the wizard
  setup,      \* the wizard's flags
  onboarded,  \* useOnboarding: "loading", or was the wizard completed?
  answers,    \* onboarding.json
  settings,   \* the settings that the app uses
  loaded,     \* isLoaded: were they loaded?
  file,       \* settings.json
  wanted,     \* history: what the last switch invoked asks for, if that should hold
  seen,       \* history: did the wizard see the daemon run, since this start or when it was kept?
  saved       \* history: did the last write of settings.json succeed?

wizard == <<page, setup, onboarded, answers, seen>>
stored == <<settings, loaded, file, saved>>
vars == <<service, queue, asleep, status, wanted, wizard, stored>>

\* The pages before the one that installs are one: the welcome and the choices.
Pages == <<"choices", "install", "complete">>
Polls == {"poll", "refresh", "again"}
Services == {"install", "stop", "restart", "uninstall"}

\* How often the wizard looked, and the button that it looks for.  Of a wizard that was
\* taken away neither is of any matter.
Orphaned == [tries |-> 0, by |-> "none"]
Looks == [tries: 0..Tries - 1, by: {"Install", "Retry"}] \cup {Orphaned}

\* What the wizard's pages let the user choose: a protocol and the kill switch.
Choices == [value: Protocols, killSwitch: BOOLEAN]

Command ==
  [do: Polls \cup Services \cup {"state", "load", "enable", "disable", "switchOn"}]
  \cup [do: {"setup", "available", "verify"}, look: Looks]
  \cup [do: {"save"}, value: Values]
  \cup [do: {"complete"}, choices: Choices, installed: BOOLEAN]

Sleeper == [do: {"refresh", "forward", "build"}] \cup [do: {"available", "report"}, look: Looks]

Status == [known: BOOLEAN, running: BOOLEAN, killSwitch: BOOLEAN]
Unknown == [known |-> FALSE, running |-> FALSE, killSwitch |-> FALSE]
Idle == [installing |-> FALSE, verifying |-> FALSE, failed |-> FALSE, success |-> FALSE]
\* There is no onboarding.json, or it was cut short: either way the wizard is shown.
NoAnswers == [kept |-> FALSE, installed |-> FALSE]

(* The wizard's flags exclude one another as its pages tell them apart: it does not report a
   failure while it looks for the daemon or once it found it (OnboardingView.tsx:103-205). *)
TypeOK ==
  /\ service \in [running: BOOLEAN, killSwitch: BOOLEAN]
  /\ service.killSwitch => service.running
  /\ queue \in Seq(Command) /\ asleep \subseteq Sleeper
  /\ status \in Status
  /\ page \in {Pages[i] : i \in DOMAIN Pages}
  /\ setup \in [{"installing", "verifying", "failed", "success"} -> BOOLEAN]
  /\ setup.failed => ~setup.verifying /\ ~setup.success
  /\ onboarded \in {"loading", "no", "yes"}
  /\ answers \in [kept: BOOLEAN, installed: BOOLEAN]
  /\ settings \in Values /\ loaded \in BOOLEAN /\ file \in Values \cup {Unreadable}
  /\ wanted \in {"on", "off", "any"} /\ seen \in BOOLEAN /\ saved \in BOOLEAN

-----------------------------------------------------------------------------
(* The queue of the shell *)

Run(command) == [do |-> command]
Look(command, look) == [do |-> command, look |-> look]
Save(v) == [do |-> "save", value |-> v]

\* Mutant: the last command invoked runs first.
InvokeFirst(command) == queue' = <<command>> \o queue

Invoke(command) == queue' = Append(queue, command)

\* The user can ask for something.
Room == Len(queue) + Cardinality(asleep) < Pending

Turn(commands) == queue # <<>> /\ Head(queue).do \in commands

\* The command has run, and its caller invokes more.
Ran(more) == queue' = Tail(queue) \o more

Waits(commands) == \E i \in DOMAIN queue : queue[i].do \in commands

Switches == {"enable", "disable", "switchOn"}
Target(command) == command # "disable"
Ask(on) == wanted' = IF on THEN "on" ELSE "off"

\* The daemon changes, the flag of its kill switch perhaps with it.
Becomes(s) ==
  /\ service' = s
  /\ wanted' = IF s.killSwitch = service.killSwitch \/ Waits(Switches) THEN wanted ELSE "any"

\* needsOnboarding: the wizard is shown and nothing else, but for the sign-in.
Asked == onboarded = "no"

Up(on) == [running |-> TRUE, killSwitch |-> on]
Down == [running |-> FALSE, killSwitch |-> FALSE]

-----------------------------------------------------------------------------
(* useDaemonStatus *)

\* Mutant: what runs is not polled any more.
PollStopped ==
  /\ ~status.running /\ ~Waits({"poll"})
  /\ Invoke(Run("poll"))
  /\ UNCHANGED <<service, asleep, status, wanted, wizard, stored>>

\* Every 10 s; one poll waits at a time.
Poll ==
  /\ ~Waits({"poll"})
  /\ Invoke(Run("poll"))
  /\ UNCHANGED <<service, asleep, status, wanted, wizard, stored>>

\* An action's own refresh is followed by that of handleAction.
Refreshed ==
  /\ Turn(Polls)
  /\ status' = [known |-> TRUE, running |-> service.running, killSwitch |-> service.killSwitch]
  /\ Ran(IF Head(queue).do = "refresh" THEN <<Run("again")>> ELSE <<>>)
  /\ UNCHANGED <<service, asleep, wanted, wizard, stored>>

\* The daemon is there and does not answer within 10 s.
RefreshLost ==
  /\ Turn(Polls) /\ service.running
  /\ status' = Unknown
  /\ Ran(IF Head(queue).do = "refresh" THEN <<Run("again")>> ELSE <<>>)
  /\ UNCHANGED <<service, asleep, wanted, wizard, stored>>

-----------------------------------------------------------------------------
(* ServiceTab.  Its actionLoading is forgotten when the tab is left, so that it does not
   keep one action from beginning while another goes on. *)

\* "install" is Start and Grant Permissions.
Press(command) ==
  /\ Room /\ ~Asked
  /\ command \in {"stop", "restart"} => status.running
  /\ Invoke(Run(command))
  /\ UNCHANGED <<service, asleep, status, wanted, wizard, stored>>

\* The build is the only command that does not take its turn.
PressUpdate ==
  /\ Room /\ ~Asked
  /\ asleep' = asleep \cup {Run("build")}
  /\ UNCHANGED <<service, queue, status, wanted, wizard, stored>>

\* What a command that succeeds leaves.  A restart is carried out later, by the daemon, and
\* the success of a script is what the script said: it may have had no lasting effect.
Leaves(command) ==
  CASE command = "install" -> {service, Up(TRUE), Up(FALSE), Down}
    [] command \in {"stop", "uninstall"} -> {service, Down}
    [] command = "restart" -> IF service.running THEN {service} ELSE {}

\* A script that fails may have stopped the daemon.
LeavesHalf(command) == IF command \in {"install", "uninstall"} THEN {service, Down} ELSE {service}

ActionSucceeds ==
  /\ Turn(Services)
  /\ \E s \in Leaves(Head(queue).do) : Becomes(s)
  /\ \/ /\ Head(queue).do = "restart"
        /\ Ran(<<>>) /\ asleep' = asleep \cup {Run("refresh")}
     \/ /\ Head(queue).do # "restart"
        /\ Ran(<<Run("refresh")>>) /\ UNCHANGED asleep
  /\ UNCHANGED <<status, wizard, stored>>

ActionFails ==
  /\ Turn(Services)
  /\ \E s \in LeavesHalf(Head(queue).do) : Becomes(s)
  /\ Ran(<<Run("again")>>)
  /\ UNCHANGED <<asleep, status, wizard, stored>>

\* Three seconds after a restart, two after an update.
Wake ==
  /\ Run("refresh") \in asleep
  /\ asleep' = asleep \ {Run("refresh")}
  /\ Invoke(Run("refresh"))
  /\ UNCHANGED <<service, status, wanted, wizard, stored>>

Built ==
  /\ Run("build") \in asleep
  /\ \/ /\ \E s \in Leaves("install") : Becomes(s)
        /\ asleep' = (asleep \ {Run("build")}) \cup {Run("refresh")}
        /\ UNCHANGED queue
     \/ /\ \E s \in LeavesHalf("install") : Becomes(s)
        /\ asleep' = asleep \ {Run("build")}
        /\ Invoke(Run("again"))
  /\ UNCHANGED <<status, wizard, stored>>

-----------------------------------------------------------------------------
(* The kill switch: SettingsView, the tray *)

Switch(on) == Run(IF on THEN "enable" ELSE "disable")

\* The opposite of what is shown.
Toggle ==
  /\ Room
  /\ Invoke(Switch(~status.killSwitch))
  /\ Ask(~status.killSwitch)
  /\ UNCHANGED <<service, asleep, status, wizard, stored>>

\* A listener of the tray that was still being set up when the status changed was never
\* removed: it obeys a click too, before or after the listener that is up to date, or
\* before there is one, and asks for the opposite of what was shown then.
ToggleFromStaleListener(shown) ==
  /\ Room
  /\ Invoke(Switch(~shown))
  /\ Ask(~shown)
  /\ UNCHANGED <<service, asleep, status, wizard, stored>>

Switched ==
  /\ Turn(Switches) /\ service.running
  /\ service' = [service EXCEPT !.killSwitch = Target(Head(queue).do)]
  /\ Ran(IF Head(queue).do = "switchOn" THEN <<>> ELSE <<Run("again")>>)
  /\ UNCHANGED <<asleep, status, wanted, wizard, stored>>

\* No daemon, an error, or no answer in time though it was done.
SwitchFails ==
  /\ Turn(Switches)
  /\ \/ UNCHANGED service
     \/ service.running /\ service' = [service EXCEPT !.killSwitch = Target(Head(queue).do)]
  /\ Ran(<<>>)
  /\ wanted' = IF \E i \in 2..Len(queue) : queue[i].do \in Switches THEN wanted ELSE "any"
  /\ UNCHANGED <<asleep, status, wizard, stored>>

-----------------------------------------------------------------------------
(* OnboardingView *)

Free == page = "install" /\ ~setup.installing /\ ~setup.verifying /\ ~setup.success

Index == CHOOSE i \in DOMAIN Pages : Pages[i] = page

\* Continue is not offered on the page that installs, Back not on the first and the last.
Browse ==
  /\ Asked /\ page # "complete"
  /\ \/ page # "install" /\ page' = Pages[Index + 1]
     \/ page # "choices" /\ page' = Pages[Index - 1]
  /\ UNCHANGED <<service, queue, asleep, status, wanted, setup, onboarded, answers, seen, stored>>

First(button) == [tries |-> 0, by |-> button]

\* What installs or looks for the daemon, and what of it the wizard that is shown began.
SetupSteps == {"setup", "available", "verify", "report"}
Own(step) == step.do \in SetupSteps /\ step.look # Orphaned

\* What a step ends by telling the wizard, if that is still there.
Tells(step, flags) == setup' = IF Own(step) THEN flags ELSE setup

\* Mutant: Reinstall is offered while the wizard still looks for the daemon.
InstallAnyTime ==
  /\ Asked /\ Room /\ page = "install" /\ ~setup.success
  /\ setup' = [setup EXCEPT !.installing = TRUE, !.failed = FALSE]
  /\ Invoke(Look("setup", First("Install")))
  /\ UNCHANGED <<service, asleep, status, wanted, page, onboarded, answers, seen, stored>>

Install ==
  /\ Asked /\ Room /\ Free
  /\ setup' = [setup EXCEPT !.installing = TRUE, !.failed = FALSE]
  /\ Invoke(Look("setup", First("Install")))
  /\ UNCHANGED <<service, asleep, status, wanted, page, onboarded, answers, seen, stored>>

\* Mutant: a failed look for the daemon is still reported during the next.
RetryReported ==
  /\ Asked /\ Room /\ Free /\ setup.failed
  /\ setup' = [setup EXCEPT !.verifying = TRUE]
  /\ Invoke(Look("available", First("Retry")))
  /\ UNCHANGED <<service, asleep, status, wanted, page, onboarded, answers, seen, stored>>

Retry ==
  /\ Asked /\ Room /\ Free /\ setup.failed
  /\ setup' = [setup EXCEPT !.verifying = TRUE, !.failed = FALSE]
  /\ Invoke(Look("available", First("Retry")))
  /\ UNCHANGED <<service, asleep, status, wanted, page, onboarded, answers, seen, stored>>

\* Mutant: what was installed is taken to run.
SetupTrusts ==
  /\ Turn({"setup"})
  /\ \E s \in Leaves("install") : Becomes(s)
  /\ Tells(Head(queue), [setup EXCEPT !.installing = FALSE, !.success = TRUE])
  /\ Ran(<<>>)
  /\ asleep' = IF Own(Head(queue)) THEN asleep \cup {Run("forward")} ELSE asleep
  /\ UNCHANGED <<status, page, onboarded, answers, seen, stored>>

SetupSucceeds ==
  /\ Turn({"setup"})
  /\ \E s \in Leaves("install") : Becomes(s)
  /\ Tells(Head(queue), [setup EXCEPT !.verifying = TRUE, !.failed = FALSE])
  /\ Ran(<<Look("available", Head(queue).look)>>)
  /\ UNCHANGED <<asleep, status, page, onboarded, answers, seen, stored>>

SetupFails ==
  /\ Turn({"setup"})
  /\ \E s \in LeavesHalf("install") : Becomes(s)
  /\ Tells(Head(queue), [setup EXCEPT !.installing = FALSE])
  /\ Ran(<<>>)
  /\ UNCHANGED <<asleep, status, page, onboarded, answers, seen, stored>>

\* verifyDaemonConnection: the socket first, then the status.
Reached ==
  /\ Turn({"available"}) /\ service.running
  /\ Ran(<<Look("verify", Head(queue).look)>>)
  /\ UNCHANGED <<service, asleep, status, wanted, wizard, stored>>

\* After 1.5 s the wizard shows its last page.
Verified ==
  /\ Turn({"verify"}) /\ service.running
  /\ Tells(Head(queue), [setup EXCEPT !.verifying = FALSE, !.success = TRUE,
                                      !.installing = @ /\ Head(queue).look.by # "Install"])
  /\ seen' = TRUE
  /\ Ran(<<>>)
  /\ asleep' = IF Own(Head(queue)) THEN asleep \cup {Run("forward")} ELSE asleep
  /\ UNCHANGED <<service, status, wanted, page, onboarded, answers, stored>>

\* It sleeps after every try, the last one too.
NextTry(look) ==
  IF look.tries + 1 < Tries THEN Look("available", [look EXCEPT !.tries = @ + 1])
  ELSE Look("report", look)

NotVerified ==
  /\ Turn({"available", "verify"})
  /\ \/ Own(Head(queue)) /\ asleep' = asleep \cup {NextTry(Head(queue).look)}
     \/ /\ ~Own(Head(queue))
        /\ asleep' \in {asleep, asleep \cup {Look("available", Orphaned)}}
  /\ Ran(<<>>)
  /\ UNCHANGED <<service, status, wanted, wizard, stored>>

LookAgain ==
  /\ \E s \in asleep : s.do = "available" /\ asleep' = asleep \ {s} /\ Invoke(s)
  /\ UNCHANGED <<service, status, wanted, wizard, stored>>

Report ==
  /\ \E s \in asleep :
       /\ s.do = "report" /\ asleep' = asleep \ {s}
       /\ Tells(s, [setup EXCEPT !.verifying = FALSE, !.failed = TRUE,
                                 !.installing = @ /\ s.look.by # "Install"])
  /\ UNCHANGED <<service, queue, status, wanted, page, onboarded, answers, seen, stored>>

\* Whatever page the user went back to meanwhile.
Forward ==
  /\ Run("forward") \in asleep
  /\ asleep' = asleep \ {Run("forward")}
  /\ page' = "complete"
  /\ UNCHANGED <<service, queue, status, wanted, setup, onboarded, answers, seen, stored>>

Orphan(step) == IF Own(step) THEN [step EXCEPT !.look = Orphaned] ELSE step
Orphans(commands) == [i \in DOMAIN commands |-> Orphan(commands[i])]

\* The wizard is taken away, with its page and its flags.  What it invoked and the looks that
\* follow go on; what it would only have shown is left out.
TakenAway ==
  /\ page' = "choices" /\ setup' = Idle
  /\ asleep' = {Orphan(s) : s \in {t \in asleep : t.do \notin {"report", "forward"}}}

\* checkAuth, after a deep link: until it has ended and the user has signed in, the app shows
\* nothing that could be asked for.  The wizard that it shows then is a new one.
CheckAuth ==
  /\ Asked
  /\ TakenAway /\ queue' = Orphans(queue)
  /\ UNCHANGED <<service, status, wanted, onboarded, answers, seen, stored>>

Skip ==
  /\ Asked /\ Free
  /\ page' = "complete"
  /\ UNCHANGED <<service, queue, asleep, status, wanted, setup, onboarded, answers, seen, stored>>

Finished(choices) == [do |-> "complete", choices |-> choices, installed |-> setup.success]

\* With what was chosen on the pages before.
Complete(choices) ==
  /\ Asked /\ Room /\ page = "complete"
  /\ Invoke(Finished(choices))
  /\ UNCHANGED <<service, asleep, status, wanted, wizard, stored>>

\* Mutant: what settings.json holds is not saved again, though a write waits.
SavesUnlessHeld(v) == IF loaded /\ v # file THEN <<Save(v)>> ELSE <<>>

\* What is saved when the settings become v: they are loaded, and it is a change.
Saves(v) == IF loaded /\ v # settings THEN <<Save(v)>> ELSE <<>>

\* A write that fails is logged; the choices are applied all the same.
Completed ==
  /\ Turn({"complete"})
  /\ LET given == Head(queue).choices
            more == (IF given.killSwitch THEN <<Run("switchOn")>> ELSE <<>>) \o Saves(given.value)
       IN
       /\ \/ /\ answers' = [kept |-> TRUE, installed |-> Head(queue).installed]
             /\ onboarded' = "yes"
             /\ TakenAway /\ queue' = Orphans(Tail(queue)) \o more
          \/ /\ answers' \in {answers, NoAnswers}
             /\ Ran(more)
             /\ UNCHANGED <<asleep, onboarded, page, setup>>
       /\ settings' = given.value
       /\ IF given.killSwitch THEN Ask(TRUE) ELSE UNCHANGED wanted
  /\ UNCHANGED <<service, status, seen, loaded, file, saved>>

\* A file that cannot be read is as good as none.
StateLoaded ==
  /\ Turn({"state"})
  /\ answers' \in {answers, NoAnswers}
  /\ onboarded' = IF answers'.kept THEN "yes" ELSE "no"
  /\ Ran(<<>>)
  /\ UNCHANGED <<service, asleep, status, wanted, page, setup, seen, stored>>

-----------------------------------------------------------------------------
(* useDesktopSettings *)

\* What the fields of the settings' pages can be changed to.
Offered == Values \ {settings}

Change(v) ==
  /\ Room /\ v \in Offered
  /\ settings' = v
  /\ queue' = queue \o Saves(v)
  /\ UNCHANGED <<service, asleep, status, wanted, wizard, loaded, file, saved>>

\* Once they are loaded they are saved, whether they could be read or not.
Loaded ==
  /\ Turn({"load"})
  /\ settings' \in IF file = Unreadable THEN {settings} ELSE {settings, file}
  /\ loaded' = TRUE
  /\ Ran(<<Save(settings')>>)
  /\ UNCHANGED <<service, asleep, status, wanted, wizard, file, saved>>

Saved ==
  /\ Turn({"save"}) /\ file # Unreadable
  /\ file' = Head(queue).value /\ saved' = TRUE
  /\ Ran(<<>>)
  /\ UNCHANGED <<service, asleep, status, wanted, wizard, settings, loaded>>

\* A write fails before it touches the file, or in place and has cut the file short; one
\* that was is not written again, because it is read first.  The app does not hear of it.
SaveFails ==
  /\ Turn({"save"})
  /\ file' \in {file, Unreadable} /\ saved' = FALSE
  /\ Ran(<<>>)
  /\ UNCHANGED <<service, asleep, status, wanted, wizard, settings, loaded>>

-----------------------------------------------------------------------------
(* The service manager and the daemon *)

\* It is started and stopped by the service manager, which need not know of it, and by the
\* scripts that nobody waits for on Windows; a connection brings the kill switch with it.
Starts == ~service.running /\ \E on \in BOOLEAN : Becomes(Up(on))
Stops == service.running /\ Becomes(Down)
Turns == service.running /\ Becomes([service EXCEPT !.killSwitch = ~@])

DaemonChanges ==
  /\ Starts \/ Stops \/ Turns
  /\ UNCHANGED <<queue, asleep, status, wizard, stored>>

\* What the mounted app invokes first.
Mount == <<Run("state"), Run("poll"), Run("load")>>

\* The app is quit or killed, perhaps in the middle of a write, and started again.
Quit ==
  /\ queue' = Mount /\ asleep' = {}
  /\ status' = Unknown /\ wanted' = "any"
  /\ page' = "choices" /\ setup' = Idle /\ onboarded' = "loading"
  /\ answers' \in IF Turn({"complete"}) THEN {answers, NoAnswers} ELSE {answers}
  /\ settings' = Default /\ loaded' = FALSE /\ saved' = TRUE
  /\ file' \in IF Turn({"save"}) THEN {file, Unreadable} ELSE {file}
  /\ seen' = answers'.installed
  /\ UNCHANGED service

-----------------------------------------------------------------------------
Init ==
  /\ service = Down
  /\ queue = Mount /\ asleep = {}
  /\ status = Unknown /\ wanted = "any"
  /\ page = "choices" /\ setup = Idle /\ onboarded = "loading"
  /\ answers = NoAnswers /\ seen = FALSE
  /\ settings = Default /\ loaded = FALSE /\ file = Default /\ saved = TRUE

\* What the shell does next.
Shell ==
  \/ Refreshed \/ RefreshLost
  \/ ActionSucceeds \/ ActionFails
  \/ Switched \/ SwitchFails
  \/ SetupSucceeds \/ SetupFails \/ Reached \/ Verified \/ NotVerified
  \/ Completed \/ StateLoaded
  \/ Loaded \/ Saved \/ SaveFails

User ==
  \/ \E command \in Services : Press(command)
  \/ PressUpdate
  \/ Toggle \/ \E shown \in BOOLEAN : ToggleFromStaleListener(shown)
  \/ Browse \/ Install \/ Retry \/ Skip
  \/ \E v \in Values : Change(v)
  \/ \E choices \in Choices : Complete(choices)

Timers == Wake \/ Built \/ LookAgain \/ Report \/ Forward

Next == Poll \/ Shell \/ User \/ Timers \/ CheckAuth \/ DaemonChanges \/ Quit

\* Commands end and take their turn, the interval fires.
Spec == Init /\ [][Next]_vars /\ WF_vars(Poll) /\ WF_vars(Shell)

-----------------------------------------------------------------------------
(* Properties *)

(* The wizard that is shown installs or looks for the daemon at most once at a time, and its
   flags tell exactly whether it does: no button begins a second installation or look while
   one waits, runs or sleeps after a try, and what a wizard that the sign-in took away began,
   which goes on, neither ends nor hides it (OnboardingView.tsx:113-205, 497-553,
   App.tsx:789-827).                                                             *)
OneSetup ==
  LET going == Cardinality({i \in DOMAIN queue : Own(queue[i])})
                 + Cardinality({s \in asleep : Own(s)})
  IN going = IF setup.installing \/ setup.verifying THEN 1 ELSE 0

(* The wizard reports, and onboarding.json records, an installed service only if the
   daemon was seen to run (OnboardingView.tsx:163-217, App.tsx:802-810).          *)
InstalledWasSeen == setup.success \/ answers.installed => seen

(* However the toggles, the wizard and stale answers overlap, the kill switch ends as the
   last switch that was invoked asks, unless that one failed or the daemon changed it by
   itself.  A click in the tray that a listener left over obeys too invokes several, so that
   the last of them may ask for what is shown (SettingsView.tsx:952-965, App.tsx:683-698,
   816-822).                                                                     *)
KillSwitchAsAsked ==
  ~Waits(Switches) => wanted \in {"any", IF service.killSwitch THEN "on" ELSE "off"}

(* When no write waits and the last one succeeded, settings.json holds the settings in use:
   what the file had when it was loaded, what was changed since, by the wizard or in quick
   succession, all of it was written, the last change last (hooks.ts:151-196,
   main.rs:430-455).                                                             *)
SettingsSaved == loaded /\ saved /\ ~Waits({"save"}) => file = settings

\* The status card, the banner and the toggles tell what is so.
Shown == status.known /\ status.running = service.running /\ status.killSwitch = service.killSwitch
Steady == UNCHANGED service /\ ~RefreshLost /\ ~Quit

(* Once the daemon stays as it is and answers, an app that is not quit comes to show it
   and does not show anything else any more, whatever actions and refreshes were in
   progress (hooks.ts:388-425, main.rs:979-1027).                               *)
ShownInTheEnd == <>[][Steady]_vars => <>[]Shown
=============================================================================
