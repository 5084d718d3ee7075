# TLA+ models of vpnVPN

vpnVPN is a VPN service: a web app where users sign in, subscribe and register devices; a
control plane that keeps the directory of WireGuard keys and the registry of VPN nodes; an
agent on each node that copies the directory into WireGuard, OpenVPN and IKEv2; and a
desktop app with a privileged daemon that brings the tunnel up and guards it with a kill
switch. This directory holds TLA+ modules of the parts whose correctness depends on order,
overlap and failure, the TLC runs that check them on small instances, and theorems that
TLAPS checks for every instance.

Paths are relative to the repository's root. `server.ts` is
`services/control-plane/src/server.ts`, `handler.rs` is
`apps/desktop/daemon/src/ipc/handler.rs`, `device.ts` is
`apps/web/lib/trpc/routers/device.ts`, `App.tsx` and `hooks.ts` are those of
`apps/desktop/src`, `src-tauri/main.rs` is `apps/desktop/src-tauri/src/main.rs`.

## 1. Inventory

| Component | State it keeps | Operations | Modules |
|---|---|---|---|
| Control plane: peer directory (`server.ts:236-292, 393-472`) | table `VpnPeer` | `POST /peers`, `POST /peers/revoke-for-user`, `DELETE /peers/:publicKey`, `GET /server/peers` | `PeerDirectory`, `ControlPlane` |
| Control plane: registry, tokens, metrics (`server.ts:46-69, 134-230, 361-391, 474-569`) | tables `VpnServer`, `VpnToken`, `VpnMetric` | `POST /server/register`, `DELETE /servers/:id`, `POST /metrics/vpn`, `POST`/`DELETE /tokens`, bootstrap token | `ControlPlane` |
| VPN node agent (`apps/vpn-server/src`) | `wg0.conf`, `secrets.txt`, `ipsec.secrets`, the WireGuard interface, strongSwan's credentials | start, register, heartbeat, peer sync | `VpnNode`, with the control plane `Network` |
| Desktop daemon (`apps/desktop/daemon/src`) | `DaemonState` behind a lock, firewall rules, tunnels, `daemon.json` | `Connect`, `Disconnect`, `EnableKillSwitch`, `DisableKillSwitch`, settings, connectivity monitor, shutdown | `Daemon`, `DaemonService` |
| Desktop app: connection (`App.tsx`, `src-tauri/main.rs`, `daemon_client.rs`) | what the screen shows, attempts in progress, the shell's queue | connect by button or tray, verify, confirm or cancel, disconnect, watch, restart | `DesktopClient` |
| Desktop app: service, wizard, settings (`ServiceTab.tsx`, `OnboardingView.tsx`, `SettingsView.tsx`, `hooks.ts`) | `onboarding.json`, `settings.json`, the daemon's status as shown | install, start, stop, restart, update, uninstall, kill-switch toggles, wizard, save | `ServiceConsole` |
| Web app: devices (`device.ts`) | table `Device`, and through the control plane `VpnPeer` | register, confirm, cancel, revoke | `DeviceLifecycle` |
| Web app: billing (`billing.ts`, `api/webhooks/stripe/route.ts`) | `User.stripeCustomerId`, table `Subscription` | checkout, the event of a new account, Stripe's events | `Billing`; its effect on devices in `DeviceLifecycle` |
| Web app: codes and sessions (`lib/desktopCodes.ts`, `api/auth/otp`, `api/desktop`) with the app's login (`hooks.ts:290-382`, `App.tsx`) | tables `DesktopLoginCode`, `User`, `Session`; the app's stored token | send, verify, resolve, session check, sign-in, sign-out, deep link | `SignIn` |
| Daemon: credentials, updates, tools | the system's key store, staged files | one call per request | not modelled |
| Pages, account, proxies, admin views, analytics, e-mail, provisioning scripts | none that another part tests | reads, rendering, single statements, shell | not modelled |

How they interact. The web app calls the control plane over HTTP with an API key; those
calls may fail, and some callers ignore that. Nodes register with a bearer token, send a
heartbeat, and poll `GET /server/peers` two seconds after the end of each sync. Nothing is
pushed to a node: a revoked key leaves it because a later answer lacks it. The desktop app
asks the web app for a device and a key, then asks the daemon over a local socket to
connect; its commands go through the shell's queue, one at a time. The handshake succeeds
only once the node has synced. The database is the only state that services share.

What makes each part hard, and what it must nevertheless guarantee:

* **Control plane.** Handlers are `async` and no statement sequence is in a transaction:
  they interleave between any two `await prisma...`, a failed statement leaves what the
  earlier ones did, a restart loses the rest. A key must never come back to life or change
  its owner; the keys a user can use at once must be bounded; a deleted server must leave
  no reference; a revoked token must stop working; a node's address must survive
  heartbeats that do not carry it.
* **Node agent.** A sync writes three backends one after the other and ends at the first
  error; each writes a file and loads it, which can fail separately; the process, the
  container or the host may stop between any two steps. Only keys the directory had for the
  node may be accepted; a pass without errors must leave nothing of an earlier one; a
  revoked key must leave, for good, in the end.
* **Daemon.** Requests on several connections, the connectivity monitor and the shutdown
  handler run in parallel; they share a state under an `RwLock`, and a firewall and tunnels
  under no lock. What the daemon says of the kill switch must be true; a WireGuard
  interface that leads nowhere must not stay; every request must be answered.
* **Devices.** One click is a sequence of calls to two services. A usable key must be held
  by a device, or nobody could withdraw it.
* **Billing.** Stripe's events are late, repeated and out of order, and two requests may
  each make a customer. No status may be lost; a subscription that ends must cut the
  account off.
* **Sign-in.** A code is looked up, then consumed, then turned into a user and a session,
  in separate statements; answers reach an app that has moved on. A code opens one session,
  older codes stop working, the app is signed in only with a token.
* **Desktop app.** The daemon may take longer than the app waits, answers arrive for
  attempts the screen has left, timers sleep across page changes. The screen must not show
  a connection that is not there, nor stay "connecting".

`PROJECT.json` lists the hazards at their lines, with the properties that cover them.

## 2. How the modules compose

`PeerDirectory` is the abstract table of keys: `ControlPlane` implements it
(`DirectorySpec`), `VpnNode` and `DeviceLifecycle` are built on it. `Network` puts the
control plane itself in the place of the directory that `VpnNode` reads. `DaemonService` is the
abstract daemon: `Daemon` implements it (`ServesApp`), `DesktopClient` is built on it.
`DeviceLifecycle` has the statements of `POST /peers` as `ControlPlane` does, and what
`Billing` decides as two actions of the webhook; `DesktopClient` takes a call of the web app as
one step with the outcomes that `DeviceLifecycle` shows it can have. `SignIn` and
`ServiceConsole` share no state with the others.

What is left for later: the app and the daemon in one module, as `Network` has the control
plane and the nodes, and a `DeviceLifecycle` with several servers, where the web app's
write-back of a server (`device.ts:289`) meets `DELETE /servers/:id`.

## 3. Modules

### PeerDirectory

The table `VpnPeer` and what may happen to it: a key is admitted once (`Admit`), withdrawn
for good (`Withdraw`), and loses its server affinity when the server goes (`Unpin`). A row
keeps its owner, its affinity, whether it has an OpenVPN/IKEv2 login, and whether it is
active. `LifeCycle` states the promise key by key; `PeerDirectoryProofs` proves it, with
the lemmas on the table that other proof modules use.

### ControlPlane

One step per SQL statement (`AddPeerRevoke` then `AddPeerCreate`; `DeleteServerFind`,
`DeleteServerClearPins`, `DeleteServerRow`; `RegisterCheckToken`, `RegisterCountUsage`,
`RegisterUpsertServer`), and one step for requests of one statement. `handler` holds the
requests in progress, each with its next statement and its arguments; the set `Handlers` is
how many overlap. Foreign keys act as in `schema.prisma` (`ON DELETE SET NULL` for peers,
`CASCADE` for metrics). `StatementFails` ends a request between two statements; `Restart`
loses all of them and reactivates the bootstrap token. Of a server's row the model keeps
whether the address is known and which metadata keys are stored; `late` is a history
variable about registrations stored since a token was revoked.

Abstracted: bodies that fail validation change nothing and are not steps; timestamps,
endpoints, IP lists and countries, which no statement tests. No code deletes a `VpnPeer`
row or a user, so neither does the model. A repeated username or a missing user fails the
INSERT: that is `StatementFails`.

### VpnNode

An agent per node: `Start` (backends come up from their files; the static peer, if
configured, is applied as a pass of its own), `SetupIkev2`,
`RegisterSucceeds`/`RegisterFails` (after `MaxAttempts` the process exits), then the loop
`FetchPeers` and one step per backend of `VpnNode::apply_peers`. Per backend the model has
the `file` and what is loaded (`live`), both overwritten by `Put`; OpenVPN reads its file at each login, so
`Accepts` takes the file there. Every way `apply_peers` can fail is an action with the
state it leaves: for WireGuard the file and the interface may each be old or new, a
credentials file may be cut short, a strongSwan reload may fail unnoticed. `Crash` loses
nothing (the process), what was loaded (the host), or the files too (a replaced
container). The directory changes between any two of these steps.

Abstracted: key and certificate generation, NAT, the admin server and metrics; the
heartbeat is one of `ControlPlane`'s registrations. Keys and logins with a malformed
format, which the backends skip, are not in the directory's key set.

### Network

`ControlPlane` and `VpnNode` over one peer table: a step is a statement of the control plane
or a step of an agent. An agent's `RegisterSucceeds` and `FetchPeers` are not tied to the
requests that carry them: a token check only refuses, so this leaves out no behaviour; what a
fetch answered is applied in later steps, when the table may have changed.
`AcceptsItsOwn` needs both halves: what a node holds may be older than the table, and a pin
meets the registry's row only through the foreign key. No run checks `Network`, whose state
space is the product of two that have runs; what is said of it is proved, in section 6.

### Daemon and DaemonService

The tasks are the client connections (`ipc/unix.rs` spawns one task each and serves its
requests in sequence), the monitor and the shutdown handler. A step is what a task does
between two operations on the lock, or one command. `lock` names the task that holds the
write lock over several steps. `Connect` reads the tools' paths, brings the backend up and
verifies it without the lock, then records the status and loads the rules under it;
`Disconnect` holds the lock throughout; `EnableKillSwitch` and `DisableKillSwitch` change
the rules without it. The machine is `running` (backends up), `established` (what
`check_status` finds) and `rules`. `leftover` is a history variable: the WireGuard
interface was left by a failed teardown or a stop of the daemon.

`DaemonService` says what the app can rely on whatever happens inside: a tunnel comes up
only while a Connect with its configuration is in progress, a connection is recorded by such a Connect
alone, a WireGuard one only if it was seen connected, requests of one connection
are answered in turn. `Daemon` implements it, its configurations told apart by protocol.

Abstracted: a connection status is connected or not, its protocol, and whether it has an
interface name; the rules are loaded or not (a rule set is loaded atomically; `allow_lan` is
left out); `daemon.json` is any setting after a stop; removing the rules succeeds (the code
ignores its failure and answers Ok), loading them may fail.

### DesktopClient

An attempt is one call of `handleConnect`: `Register`, `Apply`, `CheckEarly`, the checks of
`VerifySucceeds`/`VerifyFails`, then `Confirm` or `Cancel`. It goes on after the screen has left
"connecting", so a second can begin meanwhile; the tray's listeners may start one during
another (`ConnectFromStaleListener`). The shell runs one command at a time (`shell`,
`line`, `Turn`) and gives up after 10 s, while the daemon goes on with the request.
`Disconnect` shows the screen first; its command waits for its turn. `Watch` is the interval
that looks for a lost connection and `Render` the renders that replace it; `Quit` is any end of the app.
`crossed` and `forgotten` are history variables naming what a property excepts.

Abstracted: calls in flight are lost when the app ends; the fallback disconnect without a
daemon needs rights the app lacks and changes nothing; auto-connect is a `Connect`; of
configurations only whether they need the WireGuard interface or may need an import by hand
(`Built` stands for a server known well enough). Sign-out stops the session and leaves the
connection alone.

### ServiceConsole

The commands invoked and not yet run are `queue`, the timeouts and the asynchronous
`update_daemon_dev` are `asleep`. A command and what its caller does with the answer are
one step; whatever the caller waits for next is another. `Poll` is the 10 s poll of
`useDaemonStatus`, `Press` the buttons of the Service tab, `Toggle` the kill switch in the
settings and the tray, `Install` to `Complete` the wizard, `Change` the settings. The
service manager and the daemon change by themselves (`DaemonChanges`); a script that fails may have
done half its work (`LeavesHalf`), one that succeeds may have had no effect (`Leaves`).

* A deep link's session check (`CheckAuth`) shows the loading or the sign-in screen instead of
  the wizard, which loses its page and its flags; the command or the look for the daemon that it
  had begun goes on as an orphan (`Orphaned`), and the new wizard offers to install again.
  Completing the wizard takes it away likewise (`TakenAway`).
* The tray's listeners are set up by an effect that awaits, so that some are never removed:
  `ToggleFromStaleListener` is what one of them does with a click, besides or instead of
  `Toggle`. It may have seen the kill switch on or off, whatever is shown now, which allows more
  than any one history of renders does.
* A write of `settings.json` fails before it touches the file, which stays as it was, or has cut
  it short (`SaveFails`); the app hears of neither. Loading may fail too, and what was not read
  is then overwritten by what the app assumes.

Abstracted: `actionLoading` is forgotten when the tab is left, so it excludes nothing; one
poll waits at a time; what the wizard's pages offer is chosen when it is completed, so the
pages before the one that installs are one; how long a look has gone on does not matter once
its wizard is gone; the log viewer and the tools tab.

### DeviceLifecycle

One step per await of `device.register` (find the machine's device, revoke its peer,
update, or count, expire, create, revoke, then the two statements of `POST /peers`),
`confirmConnection`, `cancelConnection`, `revoke`, and of the webhook's cutoff. A call to
the control plane may fail before or after it is served, when `Faulty`. `disturbed` is a
history variable: accounts with overlapping requests or a failed call.

Abstracted: one server; addresses; `paidProcedure`'s read and the server's look-up are part
of `RegisterBegin`; Stripe's events set a limit in any order (`Billing` has the rest).

### Billing

An account's requests (`createCheckoutSession`, the `createUser` event) find, make and
remember a Stripe customer in separate steps; Stripe (external) has customers, pages,
subscriptions and the events it delivers until they are answered 200, in any order and
perhaps twice at a time; the webhook retrieves, finds the user, writes the row, revokes the
keys and answers. A status is active or not, with a version that tells two apart.
`newest`, `replaced` and `spared` are history variables; `keys` is "overdue" when keys were
usable as a non-active status was first written.

Abstracted: one account, because accounts share nothing here; tiers, prices, e-mails.

### SignIn

The codes of one address with the two senders and two receivers of the web app, statement by
statement (`Retire`, `Create`, `Find`, `Consume`, `FindUser`, `WriteUser`,
`CreateSession`), and the app: `CheckAuth` with its three ends, the login screen (`Submit`, `SignedIn`,
`FormAnswered`, `FormLost`), `DeepLink`, `SignOut`, `Start`. `older`, `raced`, `origin` and
`crossed` are history variables.

Abstracted: the rate limiters, which refuse and change nothing else; the digits of a code,
different for every row; expiry is a step at any moment; NextAuth's own sign-ins only make
a user.

### MC modules and proofs

The `MC` modules add symmetry sets and, for `VpnNode`, the deployed order of protocols.
`ServiceConsole` has liveness and no symmetry. The theorems are in the modules named `...Proofs`.

## 4. Runs

States are distinct states found by TLC; constants are in the `.cfg` files.

| Run | Instance | Checks | Result |
|---|---|---|---|
| `cp` | 1 user, 3 keys, 1 server, 2 tokens, 2 overlapping requests, the bodies nodes send, failures | `TypeOK`, `ActivePeersBounded`, `LateRegistrationsBounded`, `ReferencesResolve`, `DirectorySpec`, `AddressSticky` | holds, 830 789 |
| `node` | 1 key, 2 servers, 1 node, a static peer, 3 backends, 2 crashes, fairness | `NodeTypeOK`, `OnlyGranted`, `PassSettles`, `RevokedLeaves`, `GrantedArrives` | holds, 11 830 |
| `daemon_locked` | 2 clients sending Connect, Disconnect and settings, 2 backends that may not go down | `TypeOK`, `KillSwitchReported`, `NoBlackhole`, `ServesApp` | holds, 700 692 |
| `daemon_liveness` | 1 client, all requests, stops and restarts, fairness | `RequestAnswered`, `AutoDisconnects` | holds, 179 040 |
| `daemon_kill_switch` | 2 clients sending Connect, EnableKillSwitch, DisableKillSwitch | `KillSwitchSettled` | violated: finding 1 |
| `device_keys` | 2 accounts, 3 keys, 3 devices, 1 machine and web clients, 2 overlapping requests, failures | `TypeOK`, `KeysHeld`, `MachineDevicesBounded` | holds, 508 872 |
| `device_limit` | 1 account, 2 devices, 1 request at a time, no failures | `DeviceLimit` | violated: finding 2 |
| `billing` | 2 customers, 1 subscription that changes twice, 2 requests, 2 events at a time | `TypeOK`, `BilledToAccount`, `StatusArrives`, `CutoffFollows` | holds, 449 802 |
| `codes` | 2 codes, 2 tokens, 2 requests, 2 checks | `TypeOK`, `EarlierCodesRetired`, `OneSessionPerCode`, `SessionsVerified`, `SignedInWithToken`, `LoadingIsChecked` | holds, 423 404 |
| `client` | 2 attempts, 2 WireGuard and 1 IKEv2 configuration, 2 device ids, 2 connections | `TypeOK`, `ShownIsRecorded`, `ShownIsRegistered`, `ConnectingIsAttempted` | holds, 1 207 072 |
| `client_loss` | 1 attempt, 2 configurations, 1 connection, fairness | `LossShown` | violated: finding 3 |
| `service` | 2 settings, one of them offered by the wizard, 2 tries, 2 commands waiting, fairness | `TypeOK`, `OneSetup`, `InstalledWasSeen`, `KillSwitchAsAsked`, `SettingsSaved`, `ShownInTheEnd` | holds, 1 124 227 |

No run needs `CHECK_DEADLOCK FALSE`. Each property of a passing run has a mutant: an
operator marked "Mutant" in the module, a plausible bug, with which TLC finds the property
violated.

What the properties say of each part, beyond the words above:

* Where overlap does break a promise, the property says how far. `ActivePeersBounded`
  bounds a user's keys by the requests that overlap, `MachineDevicesBounded` a machine's
  devices; `EarlierCodesRetired` and `OneSessionPerCode` except codes that two requests
  found before either consumed them; `KeysHeld` excepts accounts that disturbed themselves;
  `BilledToAccount` and `StatusArrives` accounts whose customer was replaced.
* `ShownIsRecorded` and `ShownIsRegistered` tie the screen, the daemon, the device row and
  the directory together across attempts, timeouts and restarts.
* `CutoffFollows` is `docs/API.md:640` with what is true of it: a revocation that fails is
  logged and not tried again (`spared`).

### Why the instances are large enough

* Two overlapping requests give every pair of handlers and every interleaving of their
  statements, in `cp`, `device_keys`, `billing` and `codes`; three keys let two requests
  insert while a third is in use; two tokens tell the bootstrap token from another.
* `IdsLeft` (devices): a registration begins while there is an id and a key for it and for
  the requests in progress, so none fails for want of one. `Busy` 2 (codes): two of
  requests, checks and sign-outs overlap; a third adds no statement between two others that
  the second could not be. `Pending` 2 (service): the user asks for something while fewer
  than two things wait; the app itself invokes more without bound by it. The wizard offers one
  protocol, which is not the default: its choice is a change the first time, none after that.
* `Retries` is 6, `Tries` 5 and `MaxAttempts` 12 in the code; 2 has a failure that is
  retried and one that ends the attempts.
* `MaxVersion` 2: a subscription that starts and ends, with reports out of order. With 3
  (it revives) the same properties were checked once, in 3.27 million states.
* One node suffices because agents share only the directory, which changes in every way a
  second node's presence could matter for. `MaxCrashes` 2: a restarted agent stops again
  before its first sync; the bound also says that stops end, as liveness needs.
* In the daemon two clients, the monitor and the shutdown handler are four tasks on one
  lock. One backend has a handshake check, one has not. The liveness run has one client,
  because a client waits only for whoever holds the lock, and the others are there to hold it.
* Two attempts are a first that was given up and the one that crosses it; two WireGuard
  configurations are the old and the new key, the IKEv2 one takes the other path.

## 5. Fairness

`VpnNode.FairSpec`: a stopped agent is started again (`--restart unless-stopped` in
`scripts/setup-vpn-node.sh:73`) and its loops never end, hence weak fairness on `Start`,
`SetupIkev2` and `FetchPeers`; no failure is permanent, hence strong fairness on
`RegisterSucceeds` and on the successful `apply_peers` of each backend. A node whose token
is revoked, or whose WireGuard fails for ever, keeps its peers: that is excluded by this
assumption, not by the model.

`Daemon.FairSpec`: every command returns and tokio's `RwLock` is fair (its documentation
promises a write-preferring queue), hence strong fairness on each task: one that waits for
the lock is enabled only while it is free. Clients need not send anything.

`ServiceConsole.Spec`: the interval fires and commands end in their turn, hence weak
fairness on `Poll` and `Shell`; users, timers and the daemon owe nothing. `ShownInTheEnd`
assumes besides that the daemon settles, answers, and the app is not quit.

`DesktopClient.FairSpec` (for `client_loss`): calls of the web app return or fail, commands
give up after 10 s, timers fire, a shown status is rendered.

The other modules have safety properties only.

## 6. What is proved

`tlapm` checks every theorem to the last leaf. They hold for all sets of users, keys,
servers, tokens, nodes, clients, customers, subscriptions and every number of overlapping requests;
those about nodes for every list of backends without repetition. The assumptions are those
named in the modules (`SentinelsAssumption`, `ControlPlaneAssumption`, `VpnNodeAssumption`,
`DaemonAssumption`, `ServiceAssumption`, `ClientAssumption`, `DeviceAssumption`, `BillingAssumption`,
`SignInAssumption`, `ConsoleAssumption`): values for "none" are not
values of the set, and the sets that are counted are finite. TLC evaluates them in the runs.

In `NetworkProofs`, of `ControlPlane`, the last row over `DirectoryKeepsLifeCycle` of `PeerDirectoryProofs`:

| Theorem | Says | Argument |
|---|---|---|
| `TypeCorrect` | `Spec => []TypeOK` | one step per action; lemmas on what each statement does to the table |
| `PeersBounded` | `Spec => []ActivePeersBounded` | the bound alone is not inductive: an INSERT adds a key. `PeersAccounted` counts a user's keys together with the requests about to insert: a revoke trades all keys for one request, an insert one request for one key, everything else only lowers the sum |
| `RevokedTokenStops` | `Spec => []LateRegistrationsBounded` | `RegistrationsAccounted` likewise: registrations stored since the revocation plus those past the check |
| `NothingDangles` | `Spec => []ReferencesResolve` | the foreign keys: an insert needs the server, a delete unpins and drops in the same statement |
| `AddressNeverForgotten` | `Spec => AddressSticky` | only the upsert writes a row, and it keeps a known address |
| `ImplementsDirectory` | `Spec => DirectorySpec` | every step is `Admit`, `Withdraw`, `Unpin` or leaves the table alone |
| `KeysLiveOnce` | `Spec => LifeCycle` | proved of `DirectorySpec`, then carried over by the refinement |

In `NetworkProofs`, of `VpnNode`, whose operators carry `Node` in their names where
`ControlPlane` has the same:

| Theorem | Says | Argument |
|---|---|---|
| `NodeTypeCorrect` | `NodeSpec => []NodeTypeOK` | not inductive alone: `RegisterFails` counts an attempt, so `AttemptsLeft` is needed, an agent that runs has one left |
| `NodeServesOnlyGranted` | `NodeSpec => []OnlyGranted` | `OnlyGrantedStored`: what a node accepts after a restart is what it stored, which is what it was handed, which the directory had for it. A login stays a login because the directory never changes a row's `auth`; that is where the node relies on `PeerDirectory` |
| `PassLeavesNothing` | `NodeSpec => []PassSettles` | `PassInProgress`: during a pass the backends before `at` hold what is wanted. `SetupIkev2` runs after the static pass and wipes the IKEv2 file: nothing is lost there, because the static peer has no login |

In `NetworkProofs`, of both together:

| Theorem | Says | Argument |
|---|---|---|
| `NetworkRunsControlPlane` | `NetworkSpec => Spec` | an agent's step leaves the tables and the requests alone, so all that is proved of `ControlPlane` holds in the network |
| `NetworkRunsNodes` | `NetworkSpec => NodeSpec` | by `StepRefinesDirectory` a statement is a step of the directory or leaves the table alone; in the second case it grants nothing, because what the directory has for a node was granted (`OnlyGrantedStored`): the invariants of both halves are carried along with the step. With it `OnlyGranted` and `PassSettles` hold for nodes that read the tables of a control plane whose handlers overlap, fail and restart |
| `NodesAcceptTheirOwn` | `NetworkSpec => []AcceptsItsOwn` | `GrantedPins`, inductive because a pin is kept or dropped, never moved; then `OnlyGrantedStored`, and `ReferencesResolve` for the registry's row |

In `DaemonProofs`:

| Theorem | Says | Argument |
|---|---|---|
| `TypeCorrect` | `Spec => []TypeOK` | one lemma per handler, over the parts of `TypeOK` (machine, tasks) |
| `NoBlackholeEver` | `Spec => []NoBlackhole` | inductive together with the types: the interface goes up only in a Connect that verifies it next and takes it down when no handshake came |
| `KillSwitchIsReported` | if no client sends EnableKillSwitch or DisableKillSwitch and the daemon is not stopped, `Spec => []KillSwitchReported` | `KillSwitchInv`: flag and rules differ only between two steps of the task that holds the lock. Finding 1 is why the premise is needed |
| `DaemonServesApp` | `Spec => ServesApp` | `PromiseInv`: a Connect past its verification was seen connected if it is WireGuard's; each step maps to one of `DaemonService` or a stutter |

In `DeviceLifecycleProofs`:

| Theorem | Says | Argument |
|---|---|---|
| `TypeCorrect` | `Spec => []TypeOK` | inductive; one step per statement |
| `KeysHeldEver` | `Spec => []KeysHeld` | `HeldInv`: what a request names is its account's, a key about to be added is no other request's, and of an account that is not disturbed one request at most changes keys, which finds the tables as it left them: `StepHeld` for all steps that add no key, `NewKeyHeld` and `InsertHeld` for the others |
| `MachineDevicesBoundedEver` | `Spec => []MachineDevicesBounded` | `MachinesAccounted`: a request comes to create a device only when there is none, and then trades its place among those for the device |
| `DevicesUseDirectory` | `Spec => DirectorySpec /\ LifeCycle` | every call is `Admit`, `Withdraw` or nothing: the web app's handlers, whose requests the control plane takes one by one, cannot do what nodes do not expect |

In `BillingProofs`:

| Theorem | Says | Argument |
|---|---|---|
| `TypeCorrect` | `Spec => []TypeOK` | one step per action |
| `BilledToAccountEver` | `Spec => []BilledToAccount` | `CustomerInv`: until one customer replaces another, every page, and every request about to open one, is of the account's customer |
| `StatusArrivesEver` | `Spec => []StatusArrives` | `DeliveryInv`: while the newest status of a subscription was not written, its report was not answered; an event about to be answered was written; and no event of a subscription is skipped, by `BilledToAccount` |
| `CutoffFollowsEver` | `Spec => []CutoffFollows` | `CutoffInv`: the report that is due is of no event about to be answered; by `DeliveryInv` nobody else can have answered it |

In `SignInProofs`:

| Theorem | Says | Argument |
|---|---|---|
| `TypeCorrect` | `Spec => []TypeOK` | beyond the types: a code a request looks up was made, and the token of an answer was given out |
| `SessionsVerifiedEver` | `Spec => []SessionsVerified` | `VerifiedInv`: a request about to open a session has seen its user verified or has verified it, and nothing takes that back |
| `EarlierCodesRetiredEver` | `Spec => []EarlierCodesRetired` | `RetiredInv`: what a sender retired stays spent, and its code is made afterwards |
| `OneSessionEver` | `Spec => []OneSessionPerCode` | `ClaimInv`: until two requests hold one code, a code has one holder or one session, and is spent once its holder is past consuming it |
| `SignedInWithTokenEver`, `LoadingIsCheckedEver` | `Spec => []SignedInWithToken`, `Spec => []LoadingIsChecked` | `AppInv`: until checks or sign-outs overlap, the one in flight has the stored token under it |

In `DesktopClientProofs`:

| Theorem | Says | Argument |
|---|---|---|
| `TypeCorrect` | `Spec => []TypeOK` | the shell works for the one attempt that is "applying", and an attempt past registering has a configuration |
| `ShownIsRecordedEver`, `ShownIsRegisteredEver` | `Spec => []ShownIsRecorded`, `Spec => []ShownIsRegistered` | `AppInv`: until attempts cross there is one at most, the account has its device and key while it is under way, and when its connection is shown the shell is free, no teardown waits and only its confirmation is left |
| `ConnectingIsAttemptedEver` | `Spec => []ConnectingIsAttempted` | inductive with the types: whoever ends an attempt leaves the screen |
| `AsksTheService` | `Spec => ServiceSpec` | with `DaemonServesApp` the two halves of the desktop fit: the daemon does what the app's model lets it do, and the app asks as the daemon's model expects |

In `ServiceConsoleProofs`, all from `ConsoleInv`, whose parts are about the commands that wait in
the shell's queue or sleep, wherever they are in it. Every step takes the first command off or
appends some (`Unmoved`, `Shifted`), so what is known of a command stays known as others come and go:

| Theorem | Says | Argument |
|---|---|---|
| `TypeCorrect` | `Spec => []TypeOK` | that the wizard does not show a failure while it verifies needs `WizardKept` |
| `OneSetupEver` | `Spec => []OneSetup` | `OneGoing`: of the steps that the wizard shown began, waiting or asleep, there is one when it is busy, none otherwise, and it is the one that its flags announce. Each step ends the set-up or puts its successor in its place; taking the wizard away makes orphans of them all, and an orphan's successor is an orphan, which touches no flag |
| `InstalledWasSeenEver` | `Spec => []InstalledWasSeen` | `WizardKept`, `EndsReady`: success is shown only after a look that saw the daemon, the last page is reached by it or after the set-up has ended, and the write that completes the wizard tells of what was seen by then. A new wizard starts with no success to show |
| `KillSwitchAsAskedEver` | `Spec => []KillSwitchAsAsked` | the invariant says nothing while a switch waits; `LastSwitchAsked` does: the last one that waits is what `wanted` says, whoever invoked it, and when it is the only one its end settles the kill switch or is a failure |
| `SettingsSavedEver` | `Spec => []SettingsSaved` | `LastWriteCurrent` likewise: the last write that waits has the settings in use, and whether the last one succeeded matters only when none waits |

TLC checked the strengthenings of `VpnNode`, `DeviceLifecycle`, `Billing`, `SignIn`,
`DesktopClient` and `ServiceConsole` as invariants before they were proved; those of `Network`,
with its two refinements, on one node with WireGuard, one key, two servers and two overlapping requests.

Only model-checked: all liveness (`RevokedLeaves`, `GrantedArrives`, `RequestAnswered`,
`AutoDisconnects`, `ShownInTheEnd`), because `tlapm` does not prove liveness under fairness.

## 7. Findings

1. **The kill switch flag and the firewall disagree.** `state.rs:21` calls the flag "whether
   kill-switch is active". `handler.rs:230-236` removes the rules before it takes the lock
   for the flag: a Connect in between loads the rules and sets the flag, which is then
   cleared. The firewall blocks, `GetStatus` says it does not, and `Disconnect` does not
   lift the block. `KillSwitchReported` holds when these two requests are not sent.
2. **More active devices than the tier allows.** `lib/tiers.ts:20` promises "1 device".
   `device.ts:442-455` counts active devices when one is registered; a new device is
   pending until `confirmConnection` (`device.ts:562-613`), which does not count again. Two
   devices registered before either is confirmed both become active.
3. **A lost connection stays on the screen.** `App.tsx:444` says the app detects an
   auto-disconnect. The effect depends on `warning`, made anew by every render, and the
   status poll renders the app every 5 s: the interval and its `previousStatus` are reset
   before a second look can see the change.

Behaviour the models show that is no finding here, because no run states it or no
statement of the repository contradicts it:

* Directory and nodes. `docs/API.md:242` says that creating a peer revokes the user's
  active peers; `server.ts:401-418` does that in two statements, so two requests that overlap leave
  two keys (`ActivePeersBounded` is what holds). `server.ts:184-211` says it persists `listenPort` and
  does not. A backend that fails ends a sync, so a revoked peer may survive the next
  (`docs/PROJECT_SPEC.md:203` against `vpn/mod.rs:243`); `RevokedLeaves` is what holds. A
  revoked bootstrap token is active again after a restart. The first sync removes the static peer.
* Devices. A known machine is answered a login that was never sent with its new peer
  (`device.ts:388-393`): OpenVPN and IKEv2 refuse it. The configurations are built after the peer was
  added, and may throw. `device.ts:289` brings a deleted server back. An address is one
  of 241 by a hash (`apps/web/lib/networking.ts:7`): two devices may get the same.
* Billing. The end of one subscription withdraws the keys even if another is active; a
  completed checkout may overwrite a newer status by one fetched earlier; events of a customer
  that was replaced find no user and are answered 200.
* Daemon. Stopped with the kill switch on, it starts with the flag off and the rules loaded.
  After SIGTERM it cleans up and goes on serving until it is killed.
* Desktop app. Any 500 of the session endpoint clears the token. After a restart the app
  shows disconnected while the tunnel is up. A `settings.json` cut short is never written
  again (`src-tauri/main.rs:388-455`); a write that fails before that leaves the old file while
  the app uses other settings, and nobody is told (`tauri.ts:241-243`). Settings changed before
  they were loaded are overwritten by the file (`hooks.ts:160-176`), and if loading fails the
  defaults are written over it. An `onboarding.json` that cannot be read at a start shows the
  wizard again. The wizard's kill switch is lost if switching it on fails (`App.tsx:816-822`);
  Back after its install jumps ahead 1.5 s later (`OnboardingView.tsx:172-174`).
* Desktop app, while something is under way. A deep link during a set-up takes the wizard away
  (`App.tsx:716-727, 789-827`); the new one can begin a second set-up while the first goes on:
  `OneSetup` is what holds of each wizard. A click in the tray that a listener left over obeys
  too (`App.tsx:656-753`) can invoke both kill switches, and the last decides:
  `KillSwitchAsAsked` says that and no more.

## 8. Not modelled

Cryptography, parsing of configuration files, the contents of firewall rules and of VPN
configurations, logging, pages and e-mail: pure functions or I/O without state that the
properties speak of. Time is not modelled: a timeout is a step that may happen at any
moment, so a property that holds does so for all timings, and no property speaks of
seconds. The daemon's `Authenticate`, tool detection, staged updates and the key store are
one call each and touch nothing else. The account, proxy, server and admin routers
are single statements or reads; what they delete by cascade no other part tests.
NextAuth, Prisma, Stripe, strongSwan and the service managers are external: they appear as
the steps that the code here makes them take or has to expect of them.

## Running

    tlc -workers 2 -config cp.cfg MCControlPlane
    tlc -workers 2 -config node.cfg MCVpnNode
    tlc -workers 2 -config daemon_locked.cfg MCDaemon
    tlc -workers 2 -config device_keys.cfg MCDeviceLifecycle
    tlc -workers 2 -config billing.cfg MCBilling
    tlc -workers 2 -config codes.cfg MCSignIn
    tlc -workers 2 -config client.cfg MCDesktopClient
    tlc -workers 2 -config service.cfg MCServiceConsole
    tlapm NetworkProofs.tla
    tlapm DaemonProofs.tla
    tlapm DeviceLifecycleProofs.tla
    tlapm BillingProofs.tla
    tlapm SignInProofs.tla
    tlapm DesktopClientProofs.tla
    tlapm ServiceConsoleProofs.tla
