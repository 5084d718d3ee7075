-------------------------------- MODULE Daemon --------------------------------
(***************************************************************************)
(* apps/desktop/daemon: the privileged process on the user's machine.  It  *)
(* serves the desktop app over a local socket, runs the VPN backends and   *)
(* the kill switch, and disconnects by itself when the internet is lost.   *)
(*                                                                         *)
(* Each client connection is a task of its own, next to the connectivity   *)
(* monitor and the shutdown handler; tokio runs them in parallel.  What    *)
(* they share is a DaemonState behind an RwLock, and the machine itself,   *)
(* which no lock protects: Connect, EnableKillSwitch and DisableKillSwitch *)
(* run commands while they hold nothing.  A step is what a task does       *)
(* between two lock operations, or one command.                            *)
(*                                                                         *)
(* A write lock held over several steps is `lock`; a lock that is taken    *)
(* and released within a step only asks that `lock` be free.               *)
(***************************************************************************)
CONSTANTS
  Clients,    \* connections of the desktop app: how many requests overlap
  Kinds,      \* the requests the app sends
  Backends,   \* the protocols the app asks for
  Faulty,     \* may a backend fail to go down?
  Stops       \* may the process be killed and started again?

AllKinds == {"connect", "disconnect", "enable", "disable", "settings"}
Protocols == {"wireguard", "openvpn", "ikev2"}

ASSUME DaemonAssumption ==
  /\ {"monitor", "shutdown", "free"} \cap Clients = {}
  /\ Kinds \subseteq AllKinds
  /\ Backends \subseteq Protocols
  /\ Faulty \in BOOLEAN
  /\ Stops \in BOOLEAN

VARIABLES
  connection,   \* DaemonState.connection
  active,       \* DaemonState.kill_switch_active
  enabled,      \* DaemonState.settings.kill_switch_enabled
  lock,         \* the task that holds the write lock, or "free"
  task,         \* what each task is at: its next step, and what it carries there
  running,      \* the backends that are up on the machine
  established,  \* those whose tunnel check_status finds established
  rules,        \* are the kill switch's firewall rules loaded?
  leftover      \* history: did a teardown or a stop leave WireGuard running?

state == <<connection, active, enabled, lock>>
machine == <<running, established, rules>>
vars == <<state, task, machine, leftover>>

NoProtocol == "none"
Target == Backends \cup {NoProtocol}

\* ConnectionStatus; connected: whether its state is Connected, rather than any
\* other; iface: interface_name is known.
Status == [connected: BOOLEAN, protocol: Target, iface: BOOLEAN]

DefaultStatus == [connected |-> FALSE, protocol |-> NoProtocol, iface |-> FALSE]

Tasks == Clients \cup {"monitor", "shutdown"}

Steps == AllKinds \cup
  {"idle", "bringUp", "verify", "rollBack", "record", "recordFlag",
   "takeDown", "dropRules", "forget", "enableRules", "enableFlag", "disableFlag",
   "autoLock", "autoRules", "autoRelease", "autoDown", "autoForget",
   "cleanup", "cleanRules", "cleanFlag", "ended"}

\* protocol: the one the task is about; found: the status it is about to record.
Task == [at: Steps, protocol: Target, found: Status]
IdleTask == [at |-> "idle", protocol |-> NoProtocol, found |-> DefaultStatus]

(* Every task is at a step of its handler, a tunnel is established only while its
   backend runs, and `leftover` speaks of an interface that is there
   (handler.rs:108-497, vpn/wireguard.rs:149-210).                                *)
TypeOK ==
  /\ connection \in Status
  /\ active \in BOOLEAN /\ enabled \in BOOLEAN
  /\ lock \in Tasks \cup {"free"}
  /\ task \in [Tasks -> Task]
  /\ running \subseteq Backends /\ established \subseteq running
  /\ rules \in BOOLEAN
  /\ leftover \in BOOLEAN
  /\ leftover => "wireguard" \in running

Free == lock = "free"
At(t, step) == task[t].at = step
Goto(t, step) == task' = [task EXCEPT ![t].at = step]
Carry(t, step, status) == task' = [task EXCEPT ![t].at = step, ![t].found = status]
Done(t) == task' = [task EXCEPT ![t] = IdleTask]
Lock(t) == Free /\ lock' = t
Unlock == lock' = "free"

-----------------------------------------------------------------------------
(* The backends *)

\* Mutant: the tunnel's status outlives the tunnel.
DownKeepsStatus(p) ==
  /\ running' = running \ {p}
  /\ leftover' = (leftover /\ p # "wireguard")
  /\ UNCHANGED established

\* Backend p goes down; or stays, which its disconnect does not notice.
Down(p) ==
  \/ /\ running' = running \ {p}
     /\ established' = established \ {p}
     /\ leftover' = (leftover /\ p # "wireguard")
  \/ /\ Faulty
     /\ leftover' = (leftover \/ "wireguard" \in {p} \cap running)
     /\ UNCHANGED <<running, established>>

\* disconnect of backend p returns an error: wg-quick is not to be found.
DownFails(p) ==
  /\ Faulty /\ p = "wireguard"
  /\ leftover' = ("wireguard" \in running)
  /\ UNCHANGED <<running, established>>

\* What check_status answers for backend p, as Connect records it.
Checked(p) ==
  [connected |-> p \in established, protocol |-> p, iface |-> p # "ikev2"]

-----------------------------------------------------------------------------
(* Connect *)

\* A line arrives on an idle connection.
Accept(c, kind, p) ==
  /\ c \in Clients
  /\ At(c, "idle")
  /\ (kind = "connect") <=> (p # NoProtocol)
  /\ task' = [task EXCEPT ![c].at = kind, ![c].protocol = p]
  /\ UNCHANGED <<state, machine, leftover>>

\* Reads the tools' paths.
ConnectBegin(c) ==
  /\ At(c, "connect") /\ Free
  /\ Goto(c, "bringUp")
  /\ UNCHANGED <<state, machine, leftover>>

\* A connect fails before anything came up: a tool is missing, or a file or a command fails.
ConnectRefused(c) ==
  /\ At(c, "bringUp")
  /\ Done(c)
  /\ UNCHANGED <<state, machine, leftover>>

BringUp(c, p) ==
  /\ At(c, "bringUp") /\ task[c].protocol = p
  /\ running' = running \cup {p}
  /\ Goto(c, "verify")
  /\ UNCHANGED <<state, established, rules, leftover>>

\* wg-quick refuses an interface that exists.
BringUpWireGuard(c) == "wireguard" \notin running /\ BringUp(c, "wireguard")

\* Another openvpn process may be there already.
BringUpOpenVpn(c) == BringUp(c, "openvpn")

\* That `ipsec up` fails is only a warning; without strongSwan a profile is handed to
\* the user to import.
BringUpIkev2(c) ==
  \/ BringUp(c, "ikev2")
  \/ /\ At(c, "bringUp") /\ task[c].protocol = "ikev2"
     /\ Goto(c, "verify")
     /\ UNCHANGED <<state, machine, leftover>>

\* Mutant: what is found after the last retry is returned, connected or not.
ConnectVerifyUnchecked(c) ==
  /\ At(c, "verify")
  /\ Carry(c, "record", Checked(task[c].protocol))
  /\ UNCHANGED <<state, machine, leftover>>

\* Mutant: the interface is left up when it could not be verified.
ConnectVerifyNoRollBack(c) ==
  LET p == task[c].protocol IN
  /\ At(c, "verify")
  /\ IF p = "wireguard" /\ p \notin established
       THEN Done(c)
       ELSE Carry(c, "record", Checked(p))
  /\ UNCHANGED <<state, machine, leftover>>

\* WireGuard must have had a handshake in the end; the others record what they find.
ConnectVerify(c) ==
  LET p == task[c].protocol IN
  /\ At(c, "verify")
  /\ IF p = "wireguard" /\ p \notin established
       THEN Goto(c, "rollBack")
       ELSE Carry(c, "record", Checked(p))
  /\ UNCHANGED <<state, machine, leftover>>

\* The interface is torn down, errors ignored, and the request answered with an error.
ConnectRollBack(c) ==
  /\ At(c, "rollBack")
  /\ Down("wireguard") \/ DownFails("wireguard")
  /\ Done(c)
  /\ UNCHANGED <<state, rules>>

\* Mutant: the lock is released before the rules are loaded.
ConnectRecordUnlocked(c) ==
  /\ At(c, "record") /\ Free
  /\ connection' = task[c].found
  /\ \/ /\ enabled /\ task[c].found.iface
        /\ rules' = TRUE
        /\ Goto(c, "recordFlag")
     \/ Done(c) /\ UNCHANGED rules
  /\ UNCHANGED <<active, enabled, lock, running, established, leftover>>

\* Under the write lock: the status, and the kill switch if it is wanted and the
\* interface is known; if the rules cannot be loaded, this is only logged.
ConnectRecord(c) ==
  /\ At(c, "record") /\ Free
  /\ connection' = task[c].found
  /\ \/ /\ enabled /\ task[c].found.iface
        /\ rules' = TRUE
        /\ Lock(c)
        /\ Goto(c, "recordFlag")
     \/ Done(c) /\ UNCHANGED <<rules, lock>>
  /\ UNCHANGED <<active, enabled, running, established, leftover>>

ConnectRecordFlag(c) ==
  /\ At(c, "recordFlag")
  /\ active' = TRUE
  /\ Unlock
  /\ Done(c)
  /\ UNCHANGED <<connection, enabled, machine, leftover>>

-----------------------------------------------------------------------------
(* Disconnect: the write lock is held from the first step to the last *)

DisconnectLock(c) ==
  /\ At(c, "disconnect") /\ Lock(c)
  /\ Goto(c, "takeDown")
  /\ UNCHANGED <<connection, active, enabled, machine, leftover>>

\* Nothing to do when no protocol is recorded; after an error the status is kept.
DisconnectTakeDown(c) ==
  /\ At(c, "takeDown")
  /\ \/ Down(connection.protocol) /\ Carry(c, "dropRules", DefaultStatus)
     \/ DownFails(connection.protocol) /\ Carry(c, "dropRules", connection)
  /\ UNCHANGED <<state, rules>>

DisconnectDropRules(c) ==
  /\ At(c, "dropRules")
  /\ rules' = (rules /\ ~active)
  /\ Goto(c, "forget")
  /\ UNCHANGED <<state, running, established, leftover>>

\* Mutant: an error returns before the lock is released.
DisconnectForgetKeepsLock(c) ==
  /\ At(c, "forget")
  /\ active' = FALSE
  /\ connection' = task[c].found
  /\ lock' = IF task[c].found = DefaultStatus THEN "free" ELSE lock
  /\ Done(c)
  /\ UNCHANGED <<enabled, machine, leftover>>

DisconnectForget(c) ==
  /\ At(c, "forget")
  /\ active' = FALSE
  /\ connection' = task[c].found
  /\ Unlock
  /\ Done(c)
  /\ UNCHANGED <<enabled, machine, leftover>>

-----------------------------------------------------------------------------
(* EnableKillSwitch and DisableKillSwitch: the rules change outside the lock *)

\* Without an interface the answer is an error.
EnableBegin(c) ==
  /\ At(c, "enable") /\ Free
  /\ Goto(c, IF connection.iface THEN "enableRules" ELSE "idle")
  /\ UNCHANGED <<state, machine, leftover>>

EnableRules(c) ==
  /\ At(c, "enableRules")
  /\ \/ rules' = TRUE /\ Goto(c, "enableFlag")
     \/ UNCHANGED rules /\ Done(c)
  /\ UNCHANGED <<state, running, established, leftover>>

EnableFlag(c) ==
  /\ At(c, "enableFlag") /\ Free
  /\ active' = TRUE
  /\ Done(c)
  /\ UNCHANGED <<connection, enabled, lock, machine, leftover>>

\* Disabling ignores what its commands return and always answers Ok; that they do
\* remove the rules is assumed here and in the other places that disable.
DisableRules(c) ==
  /\ At(c, "disable")
  /\ rules' = FALSE
  /\ Goto(c, "disableFlag")
  /\ UNCHANGED <<state, running, established, leftover>>

DisableFlag(c) ==
  /\ At(c, "disableFlag") /\ Free
  /\ active' = FALSE
  /\ Done(c)
  /\ UNCHANGED <<connection, enabled, lock, machine, leftover>>

-----------------------------------------------------------------------------
(* UpdateSettings, and UpdateBinaryPaths, which leaves the setting as it is.  What
   becomes of daemon.json is left to Stop.                                     *)
UpdateSettings(c) ==
  /\ At(c, "settings") /\ Free
  /\ enabled' \in BOOLEAN
  /\ Done(c)
  /\ UNCHANGED <<connection, active, lock, machine, leftover>>

-----------------------------------------------------------------------------
(* monitor_connectivity and auto_disconnect_vpn *)

\* A tick finds the VPN connected, by the record or on the machine, and then no
\* answer from the internet.
MonitorTick ==
  LET p == connection.protocol IN
  /\ At("monitor", "idle") /\ Free
  /\ connection.connected \/ p \in established \ {"ikev2"}
  /\ Goto("monitor", "autoLock")
  /\ UNCHANGED <<state, machine, leftover>>

AutoLock ==
  /\ At("monitor", "autoLock")
  /\ IF connection.connected
       THEN Lock("monitor") /\ Goto("monitor", "autoRules")
       ELSE Free /\ UNCHANGED lock /\ Done("monitor")
  /\ UNCHANGED <<connection, active, enabled, machine, leftover>>

AutoRules ==
  /\ At("monitor", "autoRules")
  /\ rules' = (rules /\ ~active)
  /\ Goto("monitor", "autoRelease")
  /\ UNCHANGED <<state, running, established, leftover>>

\* The lock is released before the backend is called.
AutoRelease ==
  /\ At("monitor", "autoRelease")
  /\ active' = FALSE
  /\ Unlock
  /\ task' = [task EXCEPT !["monitor"].at = "autoDown", !["monitor"].protocol = connection.protocol]
  /\ UNCHANGED <<connection, enabled, machine, leftover>>

\* Mutant: an error of the backend ends the attempt.
AutoDownStops ==
  /\ At("monitor", "autoDown")
  /\ \/ Down(task["monitor"].protocol) /\ Goto("monitor", "autoForget")
     \/ DownFails(task["monitor"].protocol) /\ Done("monitor")
  /\ UNCHANGED <<state, rules>>

AutoDown ==
  /\ At("monitor", "autoDown")
  /\ Down(task["monitor"].protocol) \/ DownFails(task["monitor"].protocol)
  /\ Goto("monitor", "autoForget")
  /\ UNCHANGED <<state, rules>>

\* Whatever the backend answered, and whatever was recorded meanwhile.
AutoForget ==
  /\ At("monitor", "autoForget") /\ Free
  /\ connection' = DefaultStatus
  /\ Done("monitor")
  /\ UNCHANGED <<active, enabled, lock, machine, leftover>>

-----------------------------------------------------------------------------
(* Shutdown, stop and start *)

\* SIGTERM or SIGINT: the handler cleans up, once; the process goes on serving.
Signal ==
  /\ At("shutdown", "idle")
  /\ Goto("shutdown", "cleanup")
  /\ UNCHANGED <<state, machine, leftover>>

CleanupLock ==
  /\ At("shutdown", "cleanup") /\ Lock("shutdown")
  /\ Goto("shutdown", "cleanRules")
  /\ UNCHANGED <<connection, active, enabled, machine, leftover>>

\* The kill switch is disabled if active; the VPN is left as it is.
CleanupRules ==
  /\ At("shutdown", "cleanRules")
  /\ rules' = (rules /\ ~active)
  /\ Goto("shutdown", "cleanFlag")
  /\ UNCHANGED <<state, running, established, leftover>>

CleanupFlag ==
  /\ At("shutdown", "cleanFlag")
  /\ active' = FALSE
  /\ Unlock
  /\ Goto("shutdown", "ended")
  /\ UNCHANGED <<connection, enabled, machine, leftover>>

\* The process is killed, by a crash, RestartService or the service manager, and
\* started again (Restart=always).  The machine stays as it is, but for an OpenVPN
\* process, which the service manager may take down too.  The setting is the last
\* one or, if that could not be saved, an earlier one or the default, which is off.
Stop ==
  /\ Stops
  /\ connection' = DefaultStatus /\ active' = FALSE /\ lock' = "free"
  /\ enabled' \in BOOLEAN
  /\ task' = [t \in Tasks |-> IdleTask]
  /\ running' \in {running, running \ {"openvpn"}}
  /\ established' = established \cap running'
  /\ leftover' = ("wireguard" \in running)
  /\ UNCHANGED <<rules>>

-----------------------------------------------------------------------------
(* The network and the machine *)

Establish(p) ==
  /\ p \in running \ established
  /\ established' = established \cup {p}
  /\ UNCHANGED <<state, task, running, rules, leftover>>

\* A WireGuard interface goes on showing its last handshake.
Drop(p) ==
  /\ p \in established \ {"wireguard"}
  /\ established' = established \ {p}
  /\ UNCHANGED <<state, task, running, rules, leftover>>

\* A backend ends by itself, or is ended by hand.
Exit(p) ==
  /\ p \in running
  /\ running' = running \ {p}
  /\ established' = established \ {p}
  /\ leftover' = (leftover /\ p # "wireguard")
  /\ UNCHANGED <<state, task, rules>>

-----------------------------------------------------------------------------
Init ==
  /\ connection = DefaultStatus /\ active = FALSE /\ lock = "free"
  /\ enabled \in BOOLEAN
  /\ task = [t \in Tasks |-> IdleTask]
  /\ running = {} /\ established = {} /\ rules = FALSE
  /\ leftover = FALSE

ClientStep(c) ==
  \/ ConnectBegin(c) \/ ConnectRefused(c)
  \/ BringUpWireGuard(c) \/ BringUpOpenVpn(c) \/ BringUpIkev2(c)
  \/ ConnectVerify(c) \/ ConnectRollBack(c)
  \/ ConnectRecord(c) \/ ConnectRecordFlag(c)
  \/ DisconnectLock(c) \/ DisconnectTakeDown(c) \/ DisconnectDropRules(c) \/ DisconnectForget(c)
  \/ EnableBegin(c) \/ EnableRules(c) \/ EnableFlag(c)
  \/ DisableRules(c) \/ DisableFlag(c)
  \/ UpdateSettings(c)

MonitorStep == AutoLock \/ AutoRules \/ AutoRelease \/ AutoDown \/ AutoForget

ShutdownStep == CleanupLock \/ CleanupRules \/ CleanupFlag

Environment ==
  \/ MonitorTick \/ Signal \/ Stop
  \/ \E p \in Backends : Establish(p) \/ Drop(p) \/ Exit(p)

Next ==
  \/ \E c \in Clients :
       \/ \E kind \in Kinds, p \in Target : Accept(c, kind, p)
       \/ ClientStep(c)
  \/ MonitorStep \/ ShutdownStep \/ Environment

Spec == Init /\ [][Next]_vars

\* Every command returns, and tokio's lock is fair: a task that waits for it gets it.
Fairness ==
  /\ \A c \in Clients : SF_vars(ClientStep(c))
  /\ SF_vars(MonitorStep)
  /\ SF_vars(ShutdownStep)

FairSpec == Spec /\ Fairness

-----------------------------------------------------------------------------
(* Properties *)

(* Whenever GetStatus can be answered, the flag it answers agrees with the firewall.
   Connect, Disconnect, auto-disconnect and shutdown keep it so, whatever they
   overlap with and whatever fails, because they change both under the lock
   (handler.rs:137-151, 165-186).                                               *)
KillSwitchReported == Free => (active <=> rules)

(* daemon/src/state.rs:21, "Whether kill-switch is active": once no request and no
   auto-disconnect is in progress, the flag agrees with the firewall.            *)
KillSwitchSettled ==
  (\A t \in Tasks : task[t].at \in {"idle", "ended"}) => (active <=> rules)

(* An interface of WireGuard that never had a handshake takes all traffic to
   nowhere (vpn/wireguard.rs:117-126): there is none but while a Connect is at
   work on it, or after a failed teardown or a stop of the daemon.               *)
NoBlackhole ==
  "wireguard" \in running \ established =>
    \/ leftover
    \/ \E c \in Clients : task[c].at \in {"verify", "rollBack"} /\ task[c].protocol = "wireguard"

\* The daemon as the app sees it: what each connection waits for, and the record.
Asked(k) ==
  CASE k.at \in {"connect", "bringUp", "verify", "rollBack", "record"} -> k.protocol
    [] k.at = "recordFlag" -> "recorded"
    [] k.at \in {"disconnect", "takeDown", "dropRules", "forget"} -> "disconnect"
    [] k.at = "idle" -> "nothing"
    [] OTHER -> "other"

asked == [c \in Clients |-> Asked(task[c])]

recorded == [connected |-> connection.connected, config |-> connection.protocol]

Service == INSTANCE DaemonService WITH
  Configs <- Backends, Exclusive <- Backends \cap {"wireguard"}, NoConfig <- NoProtocol

(* The daemon keeps its promise to the app, DaemonService: whatever overlaps, fails or
   is stopped, a tunnel comes up only for a Connect in progress, only such a Connect
   records a connection, and a WireGuard one only after a handshake
   (handler.rs:108-160, 445-497; vpn/wireguard.rs:57-132).                        *)
ServesApp == Service!ServiceSpec

(* Every request is answered in the end or lost with the process: no path keeps
   the lock (handler.rs:108-244, 445-497).                                      *)
RequestAnswered == \A c \in Clients : ~At(c, "idle") ~> At(c, "idle")

(* Once the monitor has found the internet gone, the VPN does not stay recorded as
   connected: it is given up even when the backend cannot (handler.rs:483-496).   *)
AutoDisconnects == At("monitor", "autoLock") ~> ~connection.connected
=============================================================================
