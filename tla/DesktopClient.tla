----------------------------- MODULE DesktopClient -----------------------------
(***************************************************************************)
(* The desktop app: what its screen shows (App.tsx), the attempts to       *)
(* connect that are in progress behind it, the shell that carries its      *)
(* commands to the daemon (src-tauri), the daemon as DaemonService         *)
(* promises it, and the device that the web app keeps for this machine.    *)
(*                                                                         *)
(* An attempt is one call of handleConnect; it goes on after the screen    *)
(* has left "connecting", so that another can begin meanwhile.  The        *)
(* shell's commands are synchronous: one runs at a time, in the order they *)
(* were invoked, and gives up on the daemon after 10 s, while the daemon   *)
(* goes on.  A call to the web app is one step here; DeviceLifecycle.tla   *)
(* takes it apart.                                                         *)
(***************************************************************************)
EXTENDS DaemonService, Integers

CONSTANTS
  Attempts,   \* slots for attempts in progress: how many overlap
  Imported,   \* IKEv2 configurations, which may need to be imported by hand
  Ids,        \* device ids
  Retries,    \* how often the status is checked before an attempt gives up; 6 in the code
  NoDevice,
  NoLine

ASSUME ClientAssumption ==
  /\ Imported \subseteq Configs \ Exclusive
  /\ Retries \in Nat \ {0}
  /\ NoDevice \notin Ids /\ NoLine \notin Clients
  /\ {"free", "teardown"} \cap Attempts = {}

VARIABLES
  ui,         \* status: what the screen shows
  watch,      \* previousStatus of the interval that watches a shown connection
  attempt,    \* by slot: the call of handleConnect in progress
  shell,      \* whose command the shell runs: an attempt's, a teardown's or none
  line,       \* the connection to the daemon that it waits on
  teardown,   \* has a disconnect_vpn been invoked that has not begun?
  device,     \* this machine's Device row
  usable,     \* the account's usable keys in the directory
  shown,      \* history: the device and configuration verified for the screen
  forgotten,  \* history: did the daemon lose the shown connection by itself?
  crossed     \* history: did the last attempt begin before an earlier one had ended?

screen == <<ui, watch, shown, forgotten>>
commands == <<shell, line, teardown>>
account == <<device, usable>>
vars == <<service, screen, commands, account, attempt, crossed>>

\* active: the row's status is "active", not "pending".
Device == [id: Ids \cup {NoDevice}, config: Configs \cup {NoConfig}, active: BOOLEAN]
Unregistered == [id |-> NoDevice, config |-> NoConfig, active |-> FALSE]

Connection == [id: Ids \cup {NoDevice}, config: Configs \cup {NoConfig}]
NoConnection == [id |-> NoDevice, config |-> NoConfig]

AttemptSteps ==
  {"idle", "register", "apply", "applying", "early", "verify", "confirm", "cancel"}

Attempt == [at: AttemptSteps, id: Ids \cup {NoDevice}, config: Configs \cup {NoConfig}, tries: 0..Retries]
NoAttempt == [at |-> "idle", id |-> NoDevice, config |-> NoConfig, tries |-> 0]

(* The shell waits on a line exactly while it runs a command for somebody, and an attempt
   that is past registering knows its device (App.tsx:471-630, daemon_client.rs:143-218). *)
TypeOK ==
  /\ ServiceTypeOK
  /\ ui \in {"disconnected", "connecting", "connected"}
  /\ watch \in {"unknown", "up", "down"} /\ (watch # "unknown" => ui = "connected")
  /\ attempt \in [Attempts -> Attempt]
  /\ \A a \in Attempts : (attempt[a].id = NoDevice) <=> (attempt[a].at \in {"idle", "register"})
  /\ shell \in Attempts \cup {"free", "teardown"}
  /\ line \in Clients \cup {NoLine} /\ (shell = "free" <=> line = NoLine)
  /\ shell \in Attempts => attempt[shell].at = "applying"
  /\ teardown \in BOOLEAN
  /\ device \in Device /\ usable \subseteq Configs
  /\ shown \in Connection /\ (shown = NoConnection <=> ui # "connected")
  /\ forgotten \in BOOLEAN /\ crossed \in BOOLEAN

At(a, step) == attempt[a].at = step
Goto(a, step) == attempt' = [attempt EXCEPT ![a].at = step]
End(a) == attempt' = [attempt EXCEPT ![a] = NoAttempt]

\* The screen shows something else, and another interval watches it.
Show(status, connection) ==
  /\ ui' = status /\ watch' = "unknown"
  /\ shown' = connection
  /\ forgotten' = (status = "connected" /\ ~recorded.connected)

Leave(status) == Show(status, NoConnection)

\* Mutant: commands do not keep the order in which they were invoked.
TurnUnordered == shell = "free"

\* The shell's turn has come: nothing runs, and nothing was invoked before.
Turn == shell = "free" /\ ~teardown

\* What check_vpn_status answers: the daemon's record, or what is on the machine when
\* the daemon does not answer.
Sees(up) == up = recorded.connected \/ up = (running \ Imported # {})

\* A WireGuard key pair, or another configuration, that is found nowhere any more.
Fresh(k) ==
  /\ k \notin usable \cup running \cup {device.config, recorded.config, shown.config}
  /\ \A a \in Attempts : attempt[a].config # k
  /\ \A c \in Clients : asked[c] # k

FreshId(d) == device.id # d /\ shown.id # d /\ \A a \in Attempts : attempt[a].id # d

\* The machine's device with configuration k, or a device that is created for it.
Registered(k, d) ==
  /\ Fresh(k)
  /\ IF device = Unregistered THEN FreshId(d) ELSE d = device.id

Row(k, d) == [id |-> d, config |-> k, active |-> FALSE]

-----------------------------------------------------------------------------
(* handleConnect *)

Begin(a) ==
  /\ At(a, "idle")
  /\ Leave("connecting")
  /\ Goto(a, "register")
  /\ crossed' = (\E b \in Attempts : ~At(b, "idle"))
  /\ UNCHANGED <<service, commands, account>>

\* By a button or the tray.
Connect(a) ==
  /\ ui = "disconnected"
  /\ Begin(a)

\* The tray offers Connect while the app is connecting.  A listener that was still being
\* set up when the status left "disconnected" was never removed, and obeys.
ConnectFromStaleListener(a) ==
  /\ ui = "connecting"
  /\ Begin(a)

\* Mutant: the keys of earlier registrations stay usable.
RegisterKeepsKeys(a) ==
  /\ At(a, "register")
  /\ \E k \in Configs, d \in Ids :
       /\ Registered(k, d)
       /\ device' = Row(k, d)
       /\ usable' = usable \cup {k}
       /\ attempt' = [attempt EXCEPT ![a].at = "apply", ![a].id = d, ![a].config = k]
  /\ UNCHANGED <<service, screen, commands, crossed>>

\* What an attempt does next with the configuration of its protocol, if the server is known
\* well enough to build that; the address, certificates and so on are left out.
Built == {"apply", "cancel"}

\* An answer without the configuration that was wanted is an error.
Register(a) ==
  /\ At(a, "register")
  /\ \E k \in Configs, d \in Ids, next \in Built :
       /\ Registered(k, d)
       /\ device' = Row(k, d)
       /\ usable' = {k}
       /\ attempt' = [attempt EXCEPT ![a].at = next, ![a].id = d, ![a].config = k]
       /\ IF next = "cancel" THEN Leave("disconnected") ELSE UNCHANGED screen
  /\ UNCHANGED <<service, commands, crossed>>

\* An error, after the handler has done any part of its work.
RegisterFails(a) ==
  /\ At(a, "register")
  /\ \/ UNCHANGED account
     \/ usable' = {} /\ UNCHANGED device
     \/ \E k \in Configs, d \in Ids :
          /\ Registered(k, d)
          /\ device' \in {device, Row(k, d)}
          /\ usable' \in {usable, {}, {k}}
  /\ Leave("disconnected")
  /\ End(a)
  /\ UNCHANGED <<service, commands, crossed>>

Apply(a) ==
  /\ At(a, "apply") /\ Turn
  /\ \E c \in Clients : Ask(c, attempt[a].config) /\ line' = c
  /\ shell' = a
  /\ Goto(a, "applying")
  /\ UNCHANGED <<screen, teardown, account, crossed>>

\* Mutant: an error leaves the screen as it is.
ApplyFailsSilently(a) ==
  /\ \/ At(a, "apply") /\ Turn
     \/ At(a, "applying") /\ asked[line] # "recorded"
  /\ Goto(a, "cancel")
  /\ shell' = "free" /\ line' = NoLine
  /\ UNCHANGED <<service, screen, teardown, account, crossed>>

\* Mutant: the command that was given up keeps the shell.
ApplyFailsHoldsShell(a) ==
  /\ \/ At(a, "apply") /\ Turn
     \/ At(a, "applying") /\ asked[line] # "recorded"
  /\ Leave("disconnected")
  /\ Goto(a, "cancel")
  /\ UNCHANGED <<service, commands, account, crossed>>

\* The daemon is not there, answers with an error, is stopped, or takes longer than 10 s.
ApplyFails(a) ==
  /\ \/ At(a, "apply") /\ Turn
     \/ At(a, "applying") /\ asked[line] # "recorded"
  /\ Leave("disconnected")
  /\ Goto(a, "cancel")
  /\ shell' = "free" /\ line' = NoLine
  /\ UNCHANGED <<service, teardown, account, crossed>>

ApplySucceeds(a) ==
  /\ At(a, "applying") /\ asked[line] = "recorded"
  /\ Answer(line)
  /\ Goto(a, IF attempt[a].config \in Imported THEN "early" ELSE "verify")
  /\ shell' = "free" /\ line' = NoLine
  /\ UNCHANGED <<screen, teardown, account, crossed>>

\* An IKEv2 configuration that did not connect is left to the user to import.
CheckEarly(a) ==
  /\ At(a, "early") /\ Turn
  /\ \/ Sees(TRUE) /\ Goto(a, "verify") /\ UNCHANGED screen
     \/ Sees(FALSE) /\ Goto(a, "cancel") /\ Leave("disconnected")
  /\ UNCHANGED <<service, commands, account, crossed>>

VerifySucceeds(a) ==
  /\ At(a, "verify") /\ Turn
  /\ Sees(TRUE)
  /\ Show("connected", [id |-> attempt[a].id, config |-> attempt[a].config])
  /\ Goto(a, "confirm")
  /\ UNCHANGED <<service, commands, account, crossed>>

\* After the last check the device is left pending, and the daemon as it is.
VerifyFails(a) ==
  /\ At(a, "verify") /\ Turn
  /\ Sees(FALSE)
  /\ IF attempt[a].tries + 1 < Retries
       THEN attempt' = [attempt EXCEPT ![a].tries = @ + 1] /\ UNCHANGED screen
       ELSE End(a) /\ Leave("disconnected")
  /\ UNCHANGED <<service, commands, account, crossed>>

\* confirmConnection and cancelConnection never throw: they may have done nothing.
Confirm(a) ==
  /\ At(a, "confirm")
  /\ \/ UNCHANGED device
     \/ device.id = attempt[a].id /\ device' = [device EXCEPT !.active = TRUE]
  /\ End(a)
  /\ UNCHANGED <<service, screen, commands, usable, crossed>>

\* Of a pending device, its key and its row may each be left.
Cancel(a) ==
  /\ At(a, "cancel")
  /\ \/ UNCHANGED account
     \/ /\ device.id = attempt[a].id /\ ~device.active
        /\ device' \in {device, Unregistered}
        /\ usable' \in {usable, usable \ {device.config}}
  /\ End(a)
  /\ UNCHANGED <<service, screen, commands, crossed>>

-----------------------------------------------------------------------------
(* handleDisconnect: the screen first, the command when its turn comes *)

Disconnect ==
  /\ ui = "connected"
  /\ Leave("disconnected")
  /\ teardown' = TRUE
  /\ UNCHANGED <<service, shell, line, account, attempt, crossed>>

Teardown ==
  /\ teardown /\ shell = "free"
  /\ teardown' = FALSE
  /\ \E c \in Clients : Ask(c, "disconnect") /\ line' = c
  /\ shell' = "teardown"
  /\ UNCHANGED <<screen, account, attempt, crossed>>

\* Answered, or given up after 10 s or without a daemon; what is then tried without the
\* daemon needs rights the app does not have.
TeardownEnds ==
  /\ \/ shell = "teardown" /\ shell' = "free" /\ line' = NoLine /\ UNCHANGED teardown
     \/ teardown /\ shell = "free" /\ teardown' = FALSE /\ UNCHANGED <<shell, line>>
  /\ UNCHANGED <<service, screen, account, attempt, crossed>>

-----------------------------------------------------------------------------
(* The interval that watches a shown connection *)

Watch ==
  /\ ui = "connected" /\ Turn
  /\ \/ Sees(FALSE) /\ watch = "up" /\ Leave("disconnected")
     \/ Sees(FALSE) /\ watch # "up" /\ watch' = "down" /\ UNCHANGED <<ui, shown, forgotten>>
     \/ Sees(TRUE) /\ watch' = "up" /\ UNCHANGED <<ui, shown, forgotten>>
  /\ UNCHANGED <<service, commands, account, attempt, crossed>>

\* Each render makes another `warning`, on which the effect depends: the interval is
\* replaced.  A poll of the status renders the app every 5 s.
Render ==
  /\ ui = "connected" /\ watch # "unknown"
  /\ watch' = "unknown"
  /\ UNCHANGED <<service, ui, shown, forgotten, commands, account, attempt, crossed>>

\* The app is quit or killed, and started again: it does not ask the daemon what is up.
Quit ==
  /\ Leave("disconnected")
  /\ attempt' = [a \in Attempts |-> NoAttempt]
  /\ shell' = "free" /\ line' = NoLine /\ teardown' = FALSE
  /\ crossed' = FALSE
  /\ UNCHANGED <<service, account>>

-----------------------------------------------------------------------------
(* The daemon, DaemonService *)

Waits(c) == c = line
client == <<commands, account, attempt, crossed, ui, watch, shown>>

\* A Connect or a Disconnect takes effect, perhaps after the app has given up on it.
ServeRecord(c) ==
  /\ \/ Remember(c) /\ (Waits(c) => asked'[c] = "recorded")
     \/ Disconnected(c)
  /\ forgotten' = (forgotten \/ (ui = "connected" /\ ~Waits(c)))
  /\ UNCHANGED client

Serve(c) ==
  /\ Raise(c) \/ GiveUp(c) \/ (Answer(c) /\ ~Waits(c))
  /\ UNCHANGED <<client, forgotten>>

\* Nothing in the app depends on whether a backend has a tunnel: Tunnel is left out.
Backends ==
  /\ \E p \in Configs : Lower(p)
  /\ UNCHANGED <<client, forgotten>>

DaemonForgets ==
  /\ Forget \/ Restarted
  /\ forgotten' = (ui = "connected")
  /\ UNCHANGED client

-----------------------------------------------------------------------------
Init ==
  /\ ServiceInit
  /\ ui = "disconnected" /\ watch = "unknown"
  /\ shown = NoConnection /\ forgotten = FALSE
  /\ attempt = [a \in Attempts |-> NoAttempt]
  /\ shell = "free" /\ line = NoLine /\ teardown = FALSE
  /\ device = Unregistered /\ usable = {}
  /\ crossed = FALSE

\* What an attempt does until the screen shows how it ended, and after that.
AttemptStep(a) ==
  \/ Register(a) \/ RegisterFails(a)
  \/ Apply(a) \/ ApplyFails(a) \/ ApplySucceeds(a)
  \/ CheckEarly(a) \/ VerifySucceeds(a) \/ VerifyFails(a)

AttemptEnd(a) == Confirm(a) \/ Cancel(a)

Next ==
  \/ \E a \in Attempts :
       Connect(a) \/ ConnectFromStaleListener(a) \/ AttemptStep(a) \/ AttemptEnd(a)
  \/ Disconnect \/ Teardown \/ TeardownEnds
  \/ Watch \/ Render \/ Quit
  \/ \E c \in Clients : ServeRecord(c) \/ Serve(c)
  \/ Backends \/ DaemonForgets

Spec == Init /\ [][Next]_vars

\* Calls return or fail, commands give up after 10 s and run in order, timers fire.
Fairness ==
  /\ \A a \in Attempts : WF_vars(AttemptStep(a)) /\ WF_vars(AttemptEnd(a))
  /\ WF_vars(Teardown \/ TeardownEnds)
  /\ WF_vars(Watch) /\ WF_vars(Render)

FairSpec == Spec /\ Fairness

-----------------------------------------------------------------------------
(* Properties *)

(* The screen does not show a connection that a Disconnect of the app's own has ended:
   of an attempt that no other crossed, the daemon still remembers it, unless it lost it by
   itself or served late what the app had given up on.  A Disconnect that was asked for
   before reconnecting never reaches the new tunnel (App.tsx:632-639, main.rs:603-636,
   928-943).                                                                     *)
ShownIsRecorded == ui = "connected" /\ ~crossed => recorded.connected \/ forgotten

(* A connection that is shown, verified by an attempt that no other crossed, is that of
   this machine's device, whose key is the only one of the account that is usable,
   whatever earlier attempts left behind (App.tsx:471-600, device.ts:351-406, 498-526). *)
ShownIsRegistered ==
  ui = "connected" /\ ~crossed =>
    /\ device.id = shown.id /\ device.config = shown.config
    /\ usable = {shown.config}

(* The screen never stays "connecting", where no button works: while it shows that, an
   attempt goes on that will show how it ended, and the shell, if it is busy, works for
   an attempt that gives up or for a teardown (App.tsx:471-630, daemon_client.rs:143-218). *)
ConnectingIsAttempted ==
  ui = "connecting" => \E a \in Attempts : attempt[a].at \notin {"idle", "confirm", "cancel"}

(* App.tsx:444, "Monitor VPN status and detect auto-disconnect due to lost internet": a
   connection that was seen up and is no longer there does not stay on the screen.  *)
LossShown ==
  watch = "up" /\ ~recorded.connected ~> ui # "connected" \/ recorded.connected
=============================================================================
