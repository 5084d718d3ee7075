----------------------------- MODULE DaemonService -----------------------------
(***************************************************************************)
(* What the desktop daemon promises the app, whatever happens inside it:   *)
(* a tunnel comes up only while a Connect with its configuration is in     *)
(* progress; a connection is recorded by such a Connect and by nothing     *)
(* else, a WireGuard one only when it was seen connected; one request is   *)
(* answered at a time on each connection of the app.  Tunnels may end at   *)
(* any time, the monitor and a restart may forget the record at any time.  *)
(*                                                                         *)
(* Daemon.tla implements this with its configurations told apart by their  *)
(* protocol; DesktopClient.tla builds on it.                               *)
(***************************************************************************)
CONSTANTS
  Clients,    \* connections of the app
  Configs,    \* configurations the app asks for
  Exclusive,  \* those that share the WireGuard interface
  NoConfig

ASSUME ServiceAssumption ==
  /\ Exclusive \subseteq Configs
  /\ NoConfig \notin Configs
  /\ {"nothing", "disconnect", "other", "recorded"} \cap Configs = {}

VARIABLES
  asked,      \* by connection: the configuration of the Connect in progress, another
              \* request, or "nothing"; "recorded" once a Connect can only succeed
  recorded,   \* the connection that the daemon remembers
  running,    \* the configurations that are up on the machine
  established \* those with a tunnel

service == <<asked, recorded, running, established>>

Record == [connected: BOOLEAN, config: Configs \cup {NoConfig}]
Nothing == [connected |-> FALSE, config |-> NoConfig]

ServiceTypeOK ==
  /\ asked \in [Clients -> Configs \cup {"nothing", "disconnect", "other", "recorded"}]
  /\ recorded \in Record
  /\ running \subseteq Configs /\ established \subseteq running

ServiceInit ==
  /\ asked = [c \in Clients |-> "nothing"]
  /\ recorded = Nothing
  /\ running = {} /\ established = {}

Connecting(c) == asked[c] \in Configs
Answered(c) == asked' = [asked EXCEPT ![c] = "nothing"]
UpExcept(gone) == running' = running \ gone /\ established' = established \ gone

-----------------------------------------------------------------------------
Ask(c, request) ==
  /\ asked[c] = "nothing"
  /\ asked' = [asked EXCEPT ![c] = request]
  /\ UNCHANGED <<recorded, running, established>>

\* The backend comes up; the WireGuard interface only if it is not there.
Raise(c) ==
  /\ Connecting(c)
  /\ asked[c] \in Exclusive => running \cap Exclusive = {}
  /\ running' = running \cup {asked[c]}
  /\ UNCHANGED <<asked, recorded, established>>

Remember(c) ==
  /\ Connecting(c)
  /\ recorded' \in {r \in Record : r.config = asked[c] /\ (asked[c] \in Exclusive => r.connected)}
  /\ Answered(c) \/ asked' = [asked EXCEPT ![c] = "recorded"]
  /\ UNCHANGED <<running, established>>

\* A Connect fails; the WireGuard interface may be taken down with it.
GiveUp(c) ==
  /\ Connecting(c)
  /\ Answered(c)
  /\ UNCHANGED <<running, established>> \/ (asked[c] \in Exclusive /\ UpExcept(Exclusive))
  /\ UNCHANGED recorded

\* The record is kept when the backend could not be taken down.
Disconnected(c) ==
  /\ asked[c] = "disconnect"
  /\ recorded' \in {Nothing, recorded}
  /\ Answered(c)
  /\ UNCHANGED <<running, established>>

Answer(c) ==
  /\ asked[c] \in {"other", "recorded"}
  /\ Answered(c)
  /\ UNCHANGED <<recorded, running, established>>

-----------------------------------------------------------------------------
(* At any time *)

Lower(p) ==
  /\ p \in running
  /\ UpExcept({p})
  /\ UNCHANGED <<asked, recorded>>

Tunnel(p) ==
  /\ p \in running
  /\ established' \in {established \cup {p}, established \ {p}}
  /\ UNCHANGED <<asked, recorded, running>>

\* The monitor found no internet.
Forget ==
  /\ recorded' = Nothing
  /\ UNCHANGED <<asked, running, established>>

\* The process is killed and started again; its OpenVPN may go with it.
Restarted ==
  /\ asked' = [c \in Clients |-> "nothing"]
  /\ recorded' = Nothing
  /\ \E gone \in SUBSET (Configs \ Exclusive) : UpExcept(gone)

-----------------------------------------------------------------------------
ServiceStep ==
  \/ \E c \in Clients :
       \/ \E request \in Configs \cup {"disconnect", "other"} : Ask(c, request)
       \/ Raise(c) \/ Remember(c) \/ GiveUp(c) \/ Disconnected(c) \/ Answer(c)
  \/ \E p \in Configs : Lower(p) \/ Tunnel(p)
  \/ Forget \/ Restarted

ServiceSpec == ServiceInit /\ [][ServiceStep]_service
=============================================================================
