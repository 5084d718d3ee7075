----------------------------- MODULE DaemonProofs -----------------------------
(***************************************************************************)
(* Proofs about the desktop daemon, for any number of overlapping requests *)
(* and any backends: types, the kill switch's flag, the tunnel that leads  *)
(* nowhere, and the promise to the app.                                    *)
(***************************************************************************)
EXTENDS Daemon, TLAPS

-----------------------------------------------------------------------------
(* Every step of a handler does one of a few things to the task it belongs to. *)

LEMMA ConstantFacts ==
  /\ "monitor" \in Tasks /\ "shutdown" \in Tasks /\ Clients \subseteq Tasks
  /\ "monitor" \notin Clients /\ "shutdown" \notin Clients /\ "free" \notin Tasks
  /\ NoProtocol \notin Backends
  BY DaemonAssumption DEF Tasks, NoProtocol, Protocols

LEMMA GotoTyped ==
  ASSUME task \in [Tasks -> Task], NEW t \in Tasks, NEW step \in Steps, Goto(t, step)
  PROVE  task' \in [Tasks -> Task]
  BY DEF Goto, Task

LEMMA CarryTyped ==
  ASSUME task \in [Tasks -> Task], NEW t \in Tasks, NEW step \in Steps, NEW status \in Status,
         Carry(t, step, status)
  PROVE  task' \in [Tasks -> Task]
  BY DEF Carry, Task

LEMMA DefaultTyped == DefaultStatus \in Status /\ IdleTask \in Task
  BY DEF DefaultStatus, Status, IdleTask, Task, Target, Steps

LEMMA DoneTyped ==
  ASSUME task \in [Tasks -> Task], NEW t \in Tasks, Done(t)
  PROVE  task' \in [Tasks -> Task]
  BY DefaultTyped DEF Done

LEMMA InitTyped == Init => TypeOK
  BY DefaultTyped DEF Init, TypeOK

MachineOK ==
  /\ running \subseteq Backends /\ established \subseteq running
  /\ leftover \in BOOLEAN /\ (leftover => "wireguard" \in running)

LEMMA DownTyped ==
  ASSUME MachineOK, NEW p, Down(p) \/ DownFails(p)
  PROVE  MachineOK'
<1>1. running' \subseteq Backends /\ established' \subseteq running'
  BY DEF MachineOK, Down, DownFails
<1>2. leftover' \in BOOLEAN
  <2>1. CASE leftover' = (leftover /\ p # "wireguard")
    BY <2>1
  <2>2. CASE leftover' = (leftover \/ "wireguard" \in {p} \cap running)
    BY <2>2
  <2>3. CASE leftover' = ("wireguard" \in running)
    BY <2>3
  <2> QED
    BY <2>1, <2>2, <2>3 DEF Down, DownFails
<1>3. ASSUME leftover' PROVE "wireguard" \in running'
  <2>1. CASE leftover /\ p # "wireguard" /\ running' = running \ {p}
    BY <2>1 DEF MachineOK
  <2>2. CASE running' = running /\ (leftover \/ "wireguard" \in running)
    BY <2>2 DEF MachineOK
  <2> QED
    BY <1>3, <2>1, <2>2 DEF Down, DownFails
<1> QED
  BY <1>1, <1>2, <1>3 DEF MachineOK

StateOK ==
  /\ connection \in Status
  /\ active \in BOOLEAN
  /\ enabled \in BOOLEAN
  /\ lock \in Tasks \cup {"free"}
  /\ rules \in BOOLEAN

TaskOK == task \in [Tasks -> Task]

LEMMA TypeParts == TypeOK <=> StateOK /\ MachineOK /\ TaskOK
  BY Zenon DEF TypeOK, StateOK, MachineOK, TaskOK

LEMMA TypePartsNext == TypeOK' <=> StateOK' /\ MachineOK' /\ TaskOK'
  BY TypeParts, PTL

LEMMA StateStays ==
  ASSUME StateOK, UNCHANGED <<state, rules>>
  PROVE  StateOK'
  BY DEF StateOK, state

LEMMA MachineStays ==
  ASSUME MachineOK, UNCHANGED <<running, established, leftover>>
  PROVE  MachineOK'
  BY DEF MachineOK

LEMMA CheckedTyped ==
  ASSUME NEW p \in Target
  PROVE  Checked(p) \in Status
  BY DEF Checked, Status

LEMMA BringUpMachine ==
  ASSUME MachineOK, NEW c \in Clients, task[c].protocol \in Target,
         NEW p \in Protocols, BringUp(c, p)
  PROVE  MachineOK'
<1>1. p \in Backends
  BY DEF BringUp, Target, Protocols, NoProtocol
<1>2. running' \subseteq Backends /\ established' \subseteq running' /\ running \subseteq running'
  BY <1>1 DEF BringUp, MachineOK
<1> QED
  BY <1>2 DEF BringUp, MachineOK

LEMMA ClientTyped ==
  ASSUME TypeOK, NEW c \in Clients, ClientStep(c)
  PROVE  TypeOK'
<1>0. c \in Tasks /\ task[c].protocol \in Target /\ task[c].found \in Status
  BY ConstantFacts DEF TypeOK, Task
<1> USE <1>0
<1>a. StateOK /\ MachineOK /\ TaskOK
  BY TypeParts
<1>1. CASE ConnectBegin(c)
  <2>1. TaskOK'
    BY <1>1, <1>a, GotoTyped DEF ConnectBegin, TaskOK, StateOK, Steps, AllKinds
  <2>2. StateOK'
    BY <1>1, <1>a, StateStays DEF ConnectBegin, StateOK, state, machine
  <2>3. MachineOK'
    BY <1>1, <1>a, MachineStays DEF ConnectBegin, machine
  <2> QED
    BY <2>1, <2>2, <2>3, TypePartsNext
<1>2. CASE ConnectRefused(c)
  <2>1. TaskOK'
    BY <1>2, <1>a, DoneTyped DEF ConnectRefused, TaskOK, StateOK, Steps, AllKinds
  <2>2. StateOK'
    BY <1>2, <1>a, StateStays DEF ConnectRefused, StateOK, state, machine
  <2>3. MachineOK'
    BY <1>2, <1>a, MachineStays DEF ConnectRefused, machine
  <2> QED
    BY <2>1, <2>2, <2>3, TypePartsNext
<1>3. CASE BringUpWireGuard(c)
  <2>1. TaskOK'
    BY <1>3, <1>a, GotoTyped DEF BringUpWireGuard, Protocols, BringUp, TaskOK, StateOK, Steps, AllKinds
  <2>2. StateOK'
    BY <1>3, <1>a, StateStays DEF BringUpWireGuard, Protocols, BringUp, StateOK, state, machine
  <2>3. MachineOK'
    BY <1>3, <1>a, MachineStays, BringUpMachine DEF BringUpWireGuard, Protocols, machine
  <2> QED
    BY <2>1, <2>2, <2>3, TypePartsNext
<1>4. CASE BringUpOpenVpn(c)
  <2>1. TaskOK'
    BY <1>4, <1>a, GotoTyped DEF BringUpOpenVpn, Protocols, BringUp, TaskOK, StateOK, Steps, AllKinds
  <2>2. StateOK'
    BY <1>4, <1>a, StateStays DEF BringUpOpenVpn, Protocols, BringUp, StateOK, state, machine
  <2>3. MachineOK'
    BY <1>4, <1>a, MachineStays, BringUpMachine DEF BringUpOpenVpn, Protocols, machine
  <2> QED
    BY <2>1, <2>2, <2>3, TypePartsNext
<1>5. CASE BringUpIkev2(c)
  <2>1. TaskOK'
    BY <1>5, <1>a, GotoTyped DEF BringUpIkev2, Protocols, BringUp, TaskOK, StateOK, Steps, AllKinds
  <2>2. StateOK'
    BY <1>5, <1>a, StateStays DEF BringUpIkev2, Protocols, BringUp, StateOK, state, machine
  <2>3. MachineOK'
    BY <1>5, <1>a, MachineStays, BringUpMachine DEF BringUpIkev2, Protocols, machine
  <2> QED
    BY <2>1, <2>2, <2>3, TypePartsNext
<1>6. CASE ConnectVerify(c)
  <2>1. TaskOK'
    BY <1>6, <1>a, GotoTyped, CarryTyped, CheckedTyped DEF ConnectVerify, TaskOK, StateOK, Steps, AllKinds
  <2>2. StateOK'
    BY <1>6, <1>a, StateStays DEF ConnectVerify, StateOK, state, machine
  <2>3. MachineOK'
    BY <1>6, <1>a, MachineStays DEF ConnectVerify, machine
  <2> QED
    BY <2>1, <2>2, <2>3, TypePartsNext
<1>7. CASE ConnectRollBack(c)
  <2>1. TaskOK'
    BY <1>7, <1>a, DoneTyped DEF ConnectRollBack, TaskOK, StateOK, Steps, AllKinds
  <2>2. StateOK'
    BY <1>7, <1>a, StateStays DEF ConnectRollBack, StateOK, state, machine
  <2>3. MachineOK'
    BY <1>7, <1>a, DownTyped DEF ConnectRollBack, machine
  <2> QED
    BY <2>1, <2>2, <2>3, TypePartsNext
<1>8. CASE ConnectRecord(c)
  <2>1. TaskOK'
    BY <1>8, <1>a, GotoTyped, DoneTyped DEF ConnectRecord, Lock, TaskOK, StateOK, Steps, AllKinds
  <2>2. StateOK'
    BY <1>8, <1>a, StateStays DEF ConnectRecord, Lock, StateOK, state, machine
  <2>3. MachineOK'
    BY <1>8, <1>a, MachineStays DEF ConnectRecord, Lock, machine
  <2> QED
    BY <2>1, <2>2, <2>3, TypePartsNext
<1>9. CASE ConnectRecordFlag(c)
  <2>1. TaskOK'
    BY <1>9, <1>a, DoneTyped DEF ConnectRecordFlag, Unlock, TaskOK, StateOK, Steps, AllKinds
  <2>2. StateOK'
    BY <1>9, <1>a, StateStays DEF ConnectRecordFlag, Unlock, StateOK, state, machine
  <2>3. MachineOK'
    BY <1>9, <1>a, MachineStays DEF ConnectRecordFlag, Unlock, machine
  <2> QED
    BY <2>1, <2>2, <2>3, TypePartsNext
<1>10. CASE DisconnectLock(c)
  <2>1. TaskOK'
    BY <1>10, <1>a, GotoTyped DEF DisconnectLock, Lock, TaskOK, StateOK, Steps, AllKinds
  <2>2. StateOK'
    BY <1>10, <1>a, StateStays DEF DisconnectLock, Lock, StateOK, state, machine
  <2>3. MachineOK'
    BY <1>10, <1>a, MachineStays DEF DisconnectLock, Lock, machine
  <2> QED
    BY <2>1, <2>2, <2>3, TypePartsNext
<1>11. CASE DisconnectTakeDown(c)
  <2>1. TaskOK'
    BY <1>11, <1>a, CarryTyped, DefaultTyped DEF DisconnectTakeDown, TaskOK, StateOK, Steps, AllKinds
  <2>2. StateOK'
    BY <1>11, <1>a, StateStays DEF DisconnectTakeDown, StateOK, state, machine
  <2>3. MachineOK'
    BY <1>11, <1>a, DownTyped DEF DisconnectTakeDown, machine
  <2> QED
    BY <2>1, <2>2, <2>3, TypePartsNext
<1>12. CASE DisconnectDropRules(c)
  <2>1. TaskOK'
    BY <1>12, <1>a, GotoTyped DEF DisconnectDropRules, TaskOK, StateOK, Steps, AllKinds
  <2>2. StateOK'
    BY <1>12, <1>a, StateStays DEF DisconnectDropRules, StateOK, state, machine
  <2>3. MachineOK'
    BY <1>12, <1>a, MachineStays DEF DisconnectDropRules, machine
  <2> QED
    BY <2>1, <2>2, <2>3, TypePartsNext
<1>13. CASE DisconnectForget(c)
  <2>1. TaskOK'
    BY <1>13, <1>a, DoneTyped DEF DisconnectForget, Unlock, TaskOK, StateOK, Steps, AllKinds
  <2>2. StateOK'
    BY <1>13, <1>a, StateStays DEF DisconnectForget, Unlock, StateOK, state, machine
  <2>3. MachineOK'
    BY <1>13, <1>a, MachineStays DEF DisconnectForget, Unlock, machine
  <2> QED
    BY <2>1, <2>2, <2>3, TypePartsNext
<1>14. CASE EnableBegin(c)
  <2>1. TaskOK'
    BY <1>14, <1>a, GotoTyped DEF EnableBegin, TaskOK, StateOK, Steps, AllKinds
  <2>2. StateOK'
    BY <1>14, <1>a, StateStays DEF EnableBegin, StateOK, state, machine
  <2>3. MachineOK'
    BY <1>14, <1>a, MachineStays DEF EnableBegin, machine
  <2> QED
    BY <2>1, <2>2, <2>3, TypePartsNext
<1>15. CASE EnableRules(c)
  <2>1. TaskOK'
    BY <1>15, <1>a, GotoTyped, DoneTyped DEF EnableRules, TaskOK, StateOK, Steps, AllKinds
  <2>2. StateOK'
    BY <1>15, <1>a, StateStays DEF EnableRules, StateOK, state, machine
  <2>3. MachineOK'
    BY <1>15, <1>a, MachineStays DEF EnableRules, machine
  <2> QED
    BY <2>1, <2>2, <2>3, TypePartsNext
<1>16. CASE EnableFlag(c)
  <2>1. TaskOK'
    BY <1>16, <1>a, DoneTyped DEF EnableFlag, TaskOK, StateOK, Steps, AllKinds
  <2>2. StateOK'
    BY <1>16, <1>a, StateStays DEF EnableFlag, StateOK, state, machine
  <2>3. MachineOK'
    BY <1>16, <1>a, MachineStays DEF EnableFlag, machine
  <2> QED
    BY <2>1, <2>2, <2>3, TypePartsNext
<1>17. CASE DisableRules(c)
  <2>1. TaskOK'
    BY <1>17, <1>a, GotoTyped DEF DisableRules, TaskOK, StateOK, Steps, AllKinds
  <2>2. StateOK'
    BY <1>17, <1>a, StateStays DEF DisableRules, StateOK, state, machine
  <2>3. MachineOK'
    BY <1>17, <1>a, MachineStays DEF DisableRules, machine
  <2> QED
    BY <2>1, <2>2, <2>3, TypePartsNext
<1>18. CASE DisableFlag(c)
  <2>1. TaskOK'
    BY <1>18, <1>a, DoneTyped DEF DisableFlag, TaskOK, StateOK, Steps, AllKinds
  <2>2. StateOK'
    BY <1>18, <1>a, StateStays DEF DisableFlag, StateOK, state, machine
  <2>3. MachineOK'
    BY <1>18, <1>a, MachineStays DEF DisableFlag, machine
  <2> QED
    BY <2>1, <2>2, <2>3, TypePartsNext
<1>19. CASE UpdateSettings(c)
  <2>1. TaskOK'
    BY <1>19, <1>a, DoneTyped DEF UpdateSettings, TaskOK, StateOK, Steps, AllKinds
  <2>2. StateOK'
    BY <1>19, <1>a, StateStays DEF UpdateSettings, StateOK, state, machine
  <2>3. MachineOK'
    BY <1>19, <1>a, MachineStays DEF UpdateSettings, machine
  <2> QED
    BY <2>1, <2>2, <2>3, TypePartsNext
<1> QED
  BY <1>1, <1>2, <1>3, <1>4, <1>5, <1>6, <1>7, <1>8, <1>9, <1>10, <1>11, <1>12, <1>13, <1>14, <1>15, <1>16, <1>17, <1>18, <1>19 DEF ClientStep

LEMMA DirectTyped ==
  ASSUME TaskOK, NEW t \in Tasks, NEW step \in Steps, NEW p \in Target,
         task' = [task EXCEPT ![t].at = step, ![t].protocol = p]
  PROVE  TaskOK'
  BY DEF TaskOK, Task

(* The steps of the monitor, the shutdown handler and the machine. *)

LEMMA AcceptTyped ==
  ASSUME TypeOK, NEW c \in Clients, NEW kind \in Kinds, NEW p \in Target, Accept(c, kind, p)
  PROVE  TypeOK'
<1>a. StateOK /\ MachineOK /\ TaskOK
  BY TypeParts
<1>1. TaskOK'
  BY <1>a, ConstantFacts, DaemonAssumption DEF Accept, TaskOK, Task, Steps
<1>2. StateOK' /\ MachineOK'
  BY <1>a, StateStays, MachineStays DEF Accept, state, machine
<1> QED
  BY <1>1, <1>2, TypePartsNext

LEMMA HandlersTyped ==
  ASSUME TypeOK, MonitorStep \/ ShutdownStep \/ MonitorTick \/ Signal
  PROVE  TypeOK'
<1>0. "monitor" \in Tasks /\ "shutdown" \in Tasks
  BY ConstantFacts
<1> USE <1>0
<1>a. StateOK /\ MachineOK /\ TaskOK
  BY TypeParts
<1>1. CASE MonitorTick
  <2>1. TaskOK'
    BY <1>1, <1>a, GotoTyped DEF MonitorTick, TaskOK, StateOK, Steps, AllKinds
  <2>2. StateOK'
    BY <1>1, <1>a, StateStays DEF MonitorTick, StateOK, state, machine
  <2>3. MachineOK'
    BY <1>1, <1>a, MachineStays DEF MonitorTick, machine
  <2> QED
    BY <2>1, <2>2, <2>3, TypePartsNext
<1>2. CASE AutoLock
  <2>1. TaskOK'
    BY <1>2, <1>a, GotoTyped, DoneTyped DEF AutoLock, Lock, TaskOK, StateOK, Steps, AllKinds
  <2>2. StateOK'
    BY <1>2, <1>a, StateStays DEF AutoLock, Lock, StateOK, state, machine
  <2>3. MachineOK'
    BY <1>2, <1>a, MachineStays DEF AutoLock, Lock, machine
  <2> QED
    BY <2>1, <2>2, <2>3, TypePartsNext
<1>3. CASE AutoRules
  <2>1. TaskOK'
    BY <1>3, <1>a, GotoTyped DEF AutoRules, TaskOK, StateOK, Steps, AllKinds
  <2>2. StateOK'
    BY <1>3, <1>a, StateStays DEF AutoRules, StateOK, state, machine
  <2>3. MachineOK'
    BY <1>3, <1>a, MachineStays DEF AutoRules, machine
  <2> QED
    BY <2>1, <2>2, <2>3, TypePartsNext
<1>4. CASE AutoRelease
  <2>1. TaskOK'
    BY <1>4, <1>a, DirectTyped DEF AutoRelease, Unlock, Status, TaskOK, StateOK, Steps, AllKinds
  <2>2. StateOK'
    BY <1>4, <1>a, StateStays DEF AutoRelease, Unlock, Status, StateOK, state, machine
  <2>3. MachineOK'
    BY <1>4, <1>a, MachineStays DEF AutoRelease, Unlock, Status, machine
  <2> QED
    BY <2>1, <2>2, <2>3, TypePartsNext
<1>5. CASE AutoDown
  <2>1. TaskOK'
    BY <1>5, <1>a, GotoTyped DEF AutoDown, TaskOK, StateOK, Steps, AllKinds
  <2>2. StateOK'
    BY <1>5, <1>a, StateStays DEF AutoDown, StateOK, state, machine
  <2>3. MachineOK'
    BY <1>5, <1>a, DownTyped DEF AutoDown, machine
  <2> QED
    BY <2>1, <2>2, <2>3, TypePartsNext
<1>6. CASE AutoForget
  <2>1. TaskOK'
    BY <1>6, <1>a, DoneTyped DEF AutoForget, TaskOK, StateOK, Steps, AllKinds
  <2>2. StateOK'
    BY <1>6, <1>a, DefaultTyped, StateStays DEF AutoForget, StateOK, state, machine
  <2>3. MachineOK'
    BY <1>6, <1>a, MachineStays DEF AutoForget, machine
  <2> QED
    BY <2>1, <2>2, <2>3, TypePartsNext
<1>7. CASE Signal
  <2>1. TaskOK'
    BY <1>7, <1>a, GotoTyped DEF Signal, TaskOK, StateOK, Steps, AllKinds
  <2>2. StateOK'
    BY <1>7, <1>a, StateStays DEF Signal, StateOK, state, machine
  <2>3. MachineOK'
    BY <1>7, <1>a, MachineStays DEF Signal, machine
  <2> QED
    BY <2>1, <2>2, <2>3, TypePartsNext
<1>8. CASE CleanupLock
  <2>1. TaskOK'
    BY <1>8, <1>a, GotoTyped DEF CleanupLock, Lock, TaskOK, StateOK, Steps, AllKinds
  <2>2. StateOK'
    BY <1>8, <1>a, StateStays DEF CleanupLock, Lock, StateOK, state, machine
  <2>3. MachineOK'
    BY <1>8, <1>a, MachineStays DEF CleanupLock, Lock, machine
  <2> QED
    BY <2>1, <2>2, <2>3, TypePartsNext
<1>9. CASE CleanupRules
  <2>1. TaskOK'
    BY <1>9, <1>a, GotoTyped DEF CleanupRules, TaskOK, StateOK, Steps, AllKinds
  <2>2. StateOK'
    BY <1>9, <1>a, StateStays DEF CleanupRules, StateOK, state, machine
  <2>3. MachineOK'
    BY <1>9, <1>a, MachineStays DEF CleanupRules, machine
  <2> QED
    BY <2>1, <2>2, <2>3, TypePartsNext
<1>10. CASE CleanupFlag
  <2>1. TaskOK'
    BY <1>10, <1>a, GotoTyped DEF CleanupFlag, Unlock, TaskOK, StateOK, Steps, AllKinds
  <2>2. StateOK'
    BY <1>10, <1>a, StateStays DEF CleanupFlag, Unlock, StateOK, state, machine
  <2>3. MachineOK'
    BY <1>10, <1>a, MachineStays DEF CleanupFlag, Unlock, machine
  <2> QED
    BY <2>1, <2>2, <2>3, TypePartsNext
<1> QED
  BY <1>1, <1>2, <1>3, <1>4, <1>5, <1>6, <1>7, <1>8, <1>9, <1>10 DEF MonitorStep, ShutdownStep

LEMMA StopTyped ==
  ASSUME TypeOK, Stop
  PROVE  TypeOK'
<1>a. StateOK /\ MachineOK /\ TaskOK
  BY TypeParts
<1>1. TaskOK'
  BY DefaultTyped DEF Stop, TaskOK
<1>2. StateOK'
  BY <1>a, DefaultTyped DEF Stop, StateOK
<1>3. MachineOK'
  <2>1. running' \subseteq running /\ established' \subseteq running'
    BY <1>a DEF Stop, MachineOK
  <2>2. ("wireguard" \in running) => ("wireguard" \in running')
    BY DEF Stop
  <2>3. leftover' = ("wireguard" \in running)
    BY DEF Stop
  <2>4. leftover' \in BOOLEAN
    BY <2>3
  <2>5. leftover' => "wireguard" \in running'
    BY <2>2, <2>3
  <2> QED
    BY <1>a, <2>1, <2>4, <2>5 DEF MachineOK
<1> QED
  BY <1>1, <1>2, <1>3, TypePartsNext

LEMMA NetworkTyped ==
  ASSUME TypeOK, NEW p \in Backends, Establish(p) \/ Drop(p) \/ Exit(p)
  PROVE  TypeOK'
<1>a. StateOK /\ MachineOK /\ TaskOK
  BY TypeParts
<1>1. TaskOK' /\ StateOK'
  BY <1>a, StateStays DEF Establish, Drop, Exit, TaskOK, state
<1>2. MachineOK'
  <2>1. CASE Establish(p) \/ Drop(p)
    BY <1>a, <2>1 DEF Establish, Drop, MachineOK
  <2>2. CASE Exit(p)
    BY <1>a, <2>2, DownTyped DEF Exit, Down
  <2> QED
    BY <2>1, <2>2
<1> QED
  BY <1>1, <1>2, TypePartsNext

LEMMA NextTyped ==
  ASSUME TypeOK, [Next]_vars
  PROVE  TypeOK'
<1>1. CASE UNCHANGED vars
  <2>1. StateOK' /\ MachineOK' /\ TaskOK'
    BY <1>1, TypeParts, StateStays, MachineStays DEF vars, machine, TaskOK
  <2> QED
    BY <2>1, TypePartsNext
<1>2. CASE Next
  BY <1>2, AcceptTyped, ClientTyped, HandlersTyped, StopTyped, NetworkTyped DEF Next, Environment
<1> QED
  BY <1>1, <1>2

(* TypeOK for any clients, requests and backends, whatever fails or is stopped: no
   step of a handler leaves the daemon's record, a task or the tunnels in a form
   that another step does not expect (handler.rs:108-497).                        *)
THEOREM TypeCorrect == Spec => []TypeOK
  BY InitTyped, NextTyped, PTL DEF Spec

-----------------------------------------------------------------------------
(* The tunnel that leads nowhere.  NoBlackhole is inductive by itself: a dark
   interface has a Connect that answers for it until that Connect sees a handshake
   or tears it down.                                                             *)

Dark == "wireguard" \in running \ established
AnswersFor(c) == task[c].at \in {"verify", "rollBack"} /\ task[c].protocol = "wireguard"

LEMMA BlackholeParts == NoBlackhole <=> (Dark => leftover \/ \E c \in Clients : AnswersFor(c))
  BY Zenon DEF NoBlackhole, Dark, AnswersFor

LEMMA BlackholePartsNext == NoBlackhole' <=> (Dark' => leftover' \/ \E c \in Clients : AnswersFor(c)')
  BY Zenon DEF NoBlackhole, Dark, AnswersFor

LEMMA OneTaskMoves ==
  ASSUME TaskOK, NEW t \in Tasks,
         \/ Done(t)
         \/ \E step \in Steps : Goto(t, step)
         \/ \E step \in Steps, found \in Status : Carry(t, step, found)
  PROVE  \A c \in Tasks \ {t} : task'[c] = task[c]
  BY DEF TaskOK, Done, Goto, Carry

LEMMA StillAnswered ==
  ASSUME NoBlackhole, NEW t, \A c \in Clients \ {t} : task'[c] = task[c], ~AnswersFor(t),
         Dark' => leftover' \/ (Dark /\ (leftover => leftover'))
  PROVE  NoBlackhole'
<1> SUFFICES ASSUME Dark', ~leftover'
             PROVE  \E c \in Clients : AnswersFor(c)'
  BY BlackholePartsNext
<1>1. PICK c \in Clients : AnswersFor(c)
  BY BlackholeParts
<1>2. c # t
  BY <1>1
<1>3. task'[c] = task[c]
  BY <1>2
<1>4. AnswersFor(c)'
  BY <1>1, <1>3 DEF AnswersFor
<1> QED
  BY <1>4

LEMMA DownDark ==
  ASSUME NEW p, Down(p) \/ DownFails(p), Dark'
  PROVE  leftover' \/ (p # "wireguard" /\ Dark /\ (leftover => leftover'))
<1>1. CASE /\ running' = running \ {p}
           /\ established' = established \ {p}
           /\ leftover' = (leftover /\ p # "wireguard")
  BY <1>1 DEF Dark
<1>2. CASE /\ leftover' = (leftover \/ "wireguard" \in {p} \cap running)
           /\ running' = running
           /\ established' = established
  BY <1>2 DEF Dark
<1>3. CASE DownFails(p)
  BY <1>3 DEF DownFails, Dark
<1> QED
  BY <1>1, <1>2, <1>3 DEF Down

LEMMA ClientBlackhole ==
  ASSUME TypeOK, NoBlackhole, NEW c \in Clients, ClientStep(c)
  PROVE  NoBlackhole'
<1>0. c \in Tasks /\ TaskOK /\ task[c].protocol \in Target /\ task[c].found \in Status
  BY ConstantFacts, TypeParts DEF TypeOK, Task
<1>a. StateOK
  BY TypeParts
<1> USE <1>0
<1>1. CASE ConnectBegin(c)
  <2>1. \A d \in Tasks \ {c} : task'[d] = task[d]
    BY <1>1, OneTaskMoves DEF ConnectBegin, Steps, AllKinds
  <2>2. ~AnswersFor(c)
    BY <1>1 DEF ConnectBegin, At, AnswersFor
  <2>3. Dark' => Dark /\ (leftover => leftover')
    BY <1>1 DEF ConnectBegin, Dark, machine
  <2> QED
    BY <2>1, <2>2, <2>3, StillAnswered, ConstantFacts
<1>2. CASE ConnectRefused(c)
  <2>1. \A d \in Tasks \ {c} : task'[d] = task[d]
    BY <1>2, OneTaskMoves DEF ConnectRefused, Steps, AllKinds
  <2>2. ~AnswersFor(c)
    BY <1>2 DEF ConnectRefused, At, AnswersFor
  <2>3. Dark' => Dark /\ (leftover => leftover')
    BY <1>2 DEF ConnectRefused, Dark, machine
  <2> QED
    BY <2>1, <2>2, <2>3, StillAnswered, ConstantFacts
<1>3. CASE ConnectRecord(c)
  <2>1. \A d \in Tasks \ {c} : task'[d] = task[d]
    BY <1>3, OneTaskMoves DEF ConnectRecord, Steps, AllKinds
  <2>2. ~AnswersFor(c)
    BY <1>3 DEF ConnectRecord, At, AnswersFor
  <2>3. Dark' => Dark /\ (leftover => leftover')
    BY <1>3 DEF ConnectRecord, Dark, machine
  <2> QED
    BY <2>1, <2>2, <2>3, StillAnswered, ConstantFacts
<1>4. CASE ConnectRecordFlag(c)
  <2>1. \A d \in Tasks \ {c} : task'[d] = task[d]
    BY <1>4, OneTaskMoves DEF ConnectRecordFlag, Steps, AllKinds
  <2>2. ~AnswersFor(c)
    BY <1>4 DEF ConnectRecordFlag, At, AnswersFor
  <2>3. Dark' => Dark /\ (leftover => leftover')
    BY <1>4 DEF ConnectRecordFlag, Dark, machine
  <2> QED
    BY <2>1, <2>2, <2>3, StillAnswered, ConstantFacts
<1>5. CASE DisconnectLock(c)
  <2>1. \A d \in Tasks \ {c} : task'[d] = task[d]
    BY <1>5, OneTaskMoves DEF DisconnectLock, Steps, AllKinds
  <2>2. ~AnswersFor(c)
    BY <1>5 DEF DisconnectLock, At, AnswersFor
  <2>3. Dark' => Dark /\ (leftover => leftover')
    BY <1>5 DEF DisconnectLock, Dark, machine
  <2> QED
    BY <2>1, <2>2, <2>3, StillAnswered, ConstantFacts
<1>6. CASE DisconnectDropRules(c)
  <2>1. \A d \in Tasks \ {c} : task'[d] = task[d]
    BY <1>6, OneTaskMoves DEF DisconnectDropRules, Steps, AllKinds
  <2>2. ~AnswersFor(c)
    BY <1>6 DEF DisconnectDropRules, At, AnswersFor
  <2>3. Dark' => Dark /\ (leftover => leftover')
    BY <1>6 DEF DisconnectDropRules, Dark, machine
  <2> QED
    BY <2>1, <2>2, <2>3, StillAnswered, ConstantFacts
<1>7. CASE DisconnectForget(c)
  <2>1. \A d \in Tasks \ {c} : task'[d] = task[d]
    BY <1>7, OneTaskMoves DEF DisconnectForget, Steps, AllKinds
  <2>2. ~AnswersFor(c)
    BY <1>7 DEF DisconnectForget, At, AnswersFor
  <2>3. Dark' => Dark /\ (leftover => leftover')
    BY <1>7 DEF DisconnectForget, Dark, machine
  <2> QED
    BY <2>1, <2>2, <2>3, StillAnswered, ConstantFacts
<1>8. CASE EnableBegin(c)
  <2>1. \A d \in Tasks \ {c} : task'[d] = task[d]
    BY <1>8, OneTaskMoves DEF EnableBegin, Steps, AllKinds
  <2>2. ~AnswersFor(c)
    BY <1>8 DEF EnableBegin, At, AnswersFor
  <2>3. Dark' => Dark /\ (leftover => leftover')
    BY <1>8 DEF EnableBegin, Dark, machine
  <2> QED
    BY <2>1, <2>2, <2>3, StillAnswered, ConstantFacts
<1>9. CASE EnableRules(c)
  <2>1. \A d \in Tasks \ {c} : task'[d] = task[d]
    BY <1>9, OneTaskMoves DEF EnableRules, Steps, AllKinds
  <2>2. ~AnswersFor(c)
    BY <1>9 DEF EnableRules, At, AnswersFor
  <2>3. Dark' => Dark /\ (leftover => leftover')
    BY <1>9 DEF EnableRules, Dark, machine
  <2> QED
    BY <2>1, <2>2, <2>3, StillAnswered, ConstantFacts
<1>10. CASE EnableFlag(c)
  <2>1. \A d \in Tasks \ {c} : task'[d] = task[d]
    BY <1>10, OneTaskMoves DEF EnableFlag, Steps, AllKinds
  <2>2. ~AnswersFor(c)
    BY <1>10 DEF EnableFlag, At, AnswersFor
  <2>3. Dark' => Dark /\ (leftover => leftover')
    BY <1>10 DEF EnableFlag, Dark, machine
  <2> QED
    BY <2>1, <2>2, <2>3, StillAnswered, ConstantFacts
<1>11. CASE DisableRules(c)
  <2>1. \A d \in Tasks \ {c} : task'[d] = task[d]
    BY <1>11, OneTaskMoves DEF DisableRules, Steps, AllKinds
  <2>2. ~AnswersFor(c)
    BY <1>11 DEF DisableRules, At, AnswersFor
  <2>3. Dark' => Dark /\ (leftover => leftover')
    BY <1>11 DEF DisableRules, Dark, machine
  <2> QED
    BY <2>1, <2>2, <2>3, StillAnswered, ConstantFacts
<1>12. CASE DisableFlag(c)
  <2>1. \A d \in Tasks \ {c} : task'[d] = task[d]
    BY <1>12, OneTaskMoves DEF DisableFlag, Steps, AllKinds
  <2>2. ~AnswersFor(c)
    BY <1>12 DEF DisableFlag, At, AnswersFor
  <2>3. Dark' => Dark /\ (leftover => leftover')
    BY <1>12 DEF DisableFlag, Dark, machine
  <2> QED
    BY <2>1, <2>2, <2>3, StillAnswered, ConstantFacts
<1>13. CASE UpdateSettings(c)
  <2>1. \A d \in Tasks \ {c} : task'[d] = task[d]
    BY <1>13, OneTaskMoves DEF UpdateSettings, Steps, AllKinds
  <2>2. ~AnswersFor(c)
    BY <1>13 DEF UpdateSettings, At, AnswersFor
  <2>3. Dark' => Dark /\ (leftover => leftover')
    BY <1>13 DEF UpdateSettings, Dark, machine
  <2> QED
    BY <2>1, <2>2, <2>3, StillAnswered, ConstantFacts
<1>20. CASE BringUpWireGuard(c)
  <2>1. AnswersFor(c)'
    BY <1>20 DEF BringUpWireGuard, BringUp, Goto, At, AnswersFor, TaskOK, Task
  <2> QED
    BY <2>1, BlackholePartsNext
<1>21. CASE BringUpOpenVpn(c) \/ BringUpIkev2(c)
  <2>1. \A d \in Tasks \ {c} : task'[d] = task[d]
    BY <1>21, OneTaskMoves DEF BringUpOpenVpn, BringUpIkev2, BringUp, Steps, AllKinds
  <2>2. ~AnswersFor(c)
    BY <1>21 DEF BringUpOpenVpn, BringUpIkev2, BringUp, At, AnswersFor
  <2>3. Dark' => Dark /\ (leftover => leftover')
    BY <1>21 DEF BringUpOpenVpn, BringUpIkev2, BringUp, Dark, machine
  <2> QED
    BY <2>1, <2>2, <2>3, StillAnswered, ConstantFacts
<1>22. CASE ConnectVerify(c)
  <2>1. \A d \in Tasks \ {c} : task'[d] = task[d]
    BY <1>22, OneTaskMoves, CheckedTyped DEF ConnectVerify, Steps, AllKinds
  <2>2. Dark' => Dark /\ (leftover => leftover')
    BY <1>22 DEF ConnectVerify, Dark, machine
  <2>3. CASE task[c].protocol = "wireguard" /\ "wireguard" \notin established
    <3>1. AnswersFor(c)'
      BY <1>22, <2>3 DEF ConnectVerify, Goto, AnswersFor, TaskOK, Task
    <3> QED
      BY <3>1, BlackholePartsNext
  <2>4. CASE task[c].protocol # "wireguard"
    BY <2>1, <2>2, <2>4, StillAnswered, ConstantFacts DEF AnswersFor
  <2>5. CASE "wireguard" \in established
    BY <2>2, <2>5, BlackholePartsNext DEF Dark
  <2> QED
    BY <2>3, <2>4, <2>5
<1>23. CASE ConnectRollBack(c)
  BY <1>23, DownDark, BlackholePartsNext DEF ConnectRollBack
<1>24. CASE DisconnectTakeDown(c)
  <2>1. \A d \in Tasks \ {c} : task'[d] = task[d]
    BY <1>24, <1>a, OneTaskMoves, DefaultTyped DEF DisconnectTakeDown, StateOK, Steps, AllKinds
  <2>2. ~AnswersFor(c)
    BY <1>24 DEF DisconnectTakeDown, At, AnswersFor
  <2>3. Dark' => leftover' \/ (Dark /\ (leftover => leftover'))
    BY <1>24, DownDark DEF DisconnectTakeDown
  <2> QED
    BY <2>1, <2>2, <2>3, StillAnswered, ConstantFacts
<1> QED
  BY <1>1, <1>2, <1>3, <1>4, <1>5, <1>6, <1>7, <1>8, <1>9, <1>10, <1>11, <1>12, <1>13, <1>20, <1>21, <1>22, <1>23, <1>24 DEF ClientStep

LEMMA AcceptBlackhole ==
  ASSUME TypeOK, NoBlackhole, NEW c \in Clients, NEW kind \in Kinds, NEW p \in Target, Accept(c, kind, p)
  PROVE  NoBlackhole'
<1>1. \A d \in Clients \ {c} : task'[d] = task[d]
  BY ConstantFacts DEF Accept, TypeOK
<1>2. ~AnswersFor(c)
  BY DEF Accept, At, AnswersFor
<1>3. Dark' => Dark /\ (leftover => leftover')
  BY DEF Accept, Dark, machine
<1> QED
  BY <1>1, <1>2, <1>3, StillAnswered

LEMMA HandlersBlackhole ==
  ASSUME TypeOK, NoBlackhole, MonitorStep \/ ShutdownStep \/ MonitorTick \/ Signal
  PROVE  NoBlackhole'
<1>1. \A c \in Clients : task'[c] = task[c]
  <2>1. TaskOK /\ "monitor" \in Tasks \ Clients /\ "shutdown" \in Tasks \ Clients /\ Clients \subseteq Tasks
    BY TypeParts, ConstantFacts
  <2>2. CASE MonitorStep \/ MonitorTick
    BY <2>1, <2>2 DEF TaskOK, MonitorStep, MonitorTick, AutoLock, AutoRules, AutoRelease, AutoDown, AutoForget, Goto, Done
  <2>3. CASE ShutdownStep \/ Signal
    BY <2>1, <2>3 DEF TaskOK, ShutdownStep, Signal, CleanupLock, CleanupRules, CleanupFlag, Goto, Done
  <2> QED
    BY <2>2, <2>3
<1>2. Dark' => leftover' \/ (Dark /\ (leftover => leftover'))
  <2>1. CASE AutoDown
    BY <2>1, DownDark DEF AutoDown
  <2>2. CASE UNCHANGED <<running, established, leftover>>
    BY <2>2 DEF Dark
  <2> QED
    BY <2>1, <2>2 DEF MonitorStep, ShutdownStep, MonitorTick, Signal, AutoLock, AutoRules, AutoRelease,
      AutoForget, CleanupLock, CleanupRules, CleanupFlag, machine
<1>3. \A c \in Clients : AnswersFor(c) => AnswersFor(c)'
  BY <1>1 DEF AnswersFor
<1> QED
  BY <1>2, <1>3, BlackholeParts, BlackholePartsNext

LEMMA MachineBlackhole ==
  ASSUME TypeOK, NoBlackhole, Stop \/ \E p \in Backends : Establish(p) \/ Drop(p) \/ Exit(p)
  PROVE  NoBlackhole'
<1>1. CASE Stop
  <2>1. Dark' => leftover'
    BY <1>1 DEF Stop, Dark
  <2> QED
    BY <2>1, BlackholePartsNext
<1>2. ASSUME NEW p \in Backends, Establish(p) \/ Drop(p) \/ Exit(p)
      PROVE  NoBlackhole'
  <2>1. task' = task
    BY <1>2 DEF Establish, Drop, Exit
  <2>2. Dark' => Dark /\ (leftover => leftover')
    <3>1. CASE Establish(p) \/ Drop(p)
      BY <3>1 DEF Establish, Drop, Dark
    <3>2. CASE Exit(p)
      BY <3>2 DEF Exit, Dark
    <3> QED
      BY <1>2, <3>1, <3>2
  <2>3. \A c \in Clients : AnswersFor(c) => AnswersFor(c)'
    BY <2>1 DEF AnswersFor
  <2> QED
    BY <2>2, <2>3, BlackholeParts, BlackholePartsNext
<1> QED
  BY <1>1, <1>2

LEMMA NextBlackhole ==
  ASSUME TypeOK, NoBlackhole, [Next]_vars
  PROVE  NoBlackhole'
<1>1. CASE UNCHANGED vars
  <2>1. task' = task /\ running' = running /\ established' = established /\ (leftover => leftover')
    BY <1>1 DEF vars, machine
  <2>2. (Dark' => Dark) /\ \A c \in Clients : AnswersFor(c) => AnswersFor(c)'
    BY <2>1 DEF Dark, AnswersFor
  <2> QED
    BY <2>1, <2>2, BlackholeParts, BlackholePartsNext
<1>2. CASE Next
  BY <1>2, AcceptBlackhole, ClientBlackhole, HandlersBlackhole, MachineBlackhole DEF Next, Environment
<1> QED
  BY <1>1, <1>2

(* NoBlackhole for any overlapping requests, faults and stops: the interface of a
   Connect whose handshake never came is torn down by that Connect
   (vpn/wireguard.rs:93-132).                                                    *)
THEOREM NoBlackholeEver == Spec => []NoBlackhole
<1>1. Init => NoBlackhole
  BY DEF Init, NoBlackhole
<1> QED
  BY <1>1, TypeCorrect, NextBlackhole, PTL DEF Spec

-----------------------------------------------------------------------------
(* The kill switch.  KillSwitchReported is not inductive: while a task holds the
   lock the flag and the rules may differ, and what it does next must bring them
   together.  FlagAt says what each locked step may rely on; Holds that exactly the
   task at such a step has the lock, so that no other changes either meanwhile.  Requests
   that toggle the kill switch, and a stop, are left out: daemon_kill_switch refutes
   the property for the former, and a start finds the rules as they are.          *)

LockedSteps ==
  {"recordFlag", "takeDown", "dropRules", "forget", "autoRules", "autoRelease", "cleanRules", "cleanFlag"}
ToggleSteps == {"enable", "enableRules", "enableFlag", "disable", "disableFlag"}

Holds(t) == task[t].at \in LockedSteps <=> lock = t
FlagAt(t) ==
  /\ At(t, "recordFlag") => rules
  /\ task[t].at \in {"takeDown", "dropRules", "autoRules", "cleanRules"} => (active <=> rules)
  /\ task[t].at \in {"forget", "autoRelease", "cleanFlag"} => ~rules
NoToggle(t) == task[t].at \notin ToggleSteps

KillSwitchInv ==
  /\ KillSwitchReported
  /\ \A t \in Tasks : Holds(t) /\ FlagAt(t) /\ NoToggle(t)

\* A step of task t, seen from the others.
LEMMA OneTaskSwitches ==
  ASSUME KillSwitchInv, NEW t \in Tasks, \A d \in Tasks \ {t} : task'[d] = task[d],
         Holds(t)', FlagAt(t)', NoToggle(t)', KillSwitchReported',
         \A d \in Tasks \ {t} : (lock' = d) <=> (lock = d),
         UNCHANGED <<active, rules>> \/ lock \in {t, "free"}
  PROVE  KillSwitchInv'
<1> SUFFICES ASSUME NEW d \in Tasks \ {t}
             PROVE  Holds(d)' /\ FlagAt(d)' /\ NoToggle(d)'
  BY DEF KillSwitchInv
<1>0. Holds(d) /\ FlagAt(d) /\ NoToggle(d) /\ task'[d] = task[d] /\ d # "free"
  BY ConstantFacts DEF KillSwitchInv
<1>1. Holds(d)' /\ NoToggle(d)'
  BY <1>0 DEF Holds, NoToggle
<1>2. CASE UNCHANGED <<active, rules>>
  BY <1>0, <1>1, <1>2 DEF FlagAt, At
<1>3. CASE lock \in {t, "free"}
  <2>1. task'[d].at \notin LockedSteps
    BY <1>0, <1>3 DEF Holds
  <2> QED
    BY <1>1, <2>1 DEF FlagAt, At, LockedSteps
<1> QED
  BY <1>2, <1>3

\* A step that touches neither lock, flag nor rules and goes to no locked step.
LEMMA QuietStep ==
  ASSUME KillSwitchInv, NEW t \in Tasks, \A d \in Tasks \ {t} : task'[d] = task[d],
         task[t].at \notin LockedSteps, task'[t].at \notin LockedSteps \cup ToggleSteps,
         UNCHANGED <<lock, active, rules>>
  PROVE  KillSwitchInv'
<1>1. Holds(t)'
  BY DEF KillSwitchInv, Holds
<1>2. FlagAt(t)' /\ NoToggle(t)'
  BY DEF FlagAt, NoToggle, At, LockedSteps
<1>3. KillSwitchReported'
  BY DEF KillSwitchInv, KillSwitchReported, Free
<1> QED
  BY <1>1, <1>2, <1>3, OneTaskSwitches

\* A step that takes the lock.
LEMMA LockStep ==
  ASSUME KillSwitchInv, NEW t \in Tasks, \A d \in Tasks \ {t} : task'[d] = task[d],
         Lock(t), task'[t].at \in LockedSteps, FlagAt(t)'
  PROVE  KillSwitchInv'
<1>1. Holds(t)' /\ NoToggle(t)'
  BY DEF Lock, Holds, NoToggle, LockedSteps, ToggleSteps
<1>2. KillSwitchReported' /\ lock = "free" /\ \A d \in Tasks \ {t} : (lock' = d) <=> (lock = d)
  BY ConstantFacts DEF Lock, KillSwitchReported, Free
<1> QED
  BY <1>1, <1>2, OneTaskSwitches

\* A step of the task that holds the lock.
LEMMA HoldStep ==
  ASSUME KillSwitchInv, NEW t \in Tasks, \A d \in Tasks \ {t} : task'[d] = task[d],
         task[t].at \in LockedSteps, task'[t].at \in LockedSteps, UNCHANGED lock, FlagAt(t)'
  PROVE  KillSwitchInv'
<1>1. lock = t /\ t # "free"
  BY ConstantFacts DEF KillSwitchInv, Holds
<1>2. Holds(t)' /\ NoToggle(t)' /\ KillSwitchReported'
  BY <1>1 DEF Holds, NoToggle, KillSwitchReported, Free, LockedSteps, ToggleSteps
<1> QED
  BY <1>1, <1>2, OneTaskSwitches

\* The step that releases it.
LEMMA UnlockStep ==
  ASSUME KillSwitchInv, NEW t \in Tasks, \A d \in Tasks \ {t} : task'[d] = task[d],
         task[t].at \in LockedSteps, task'[t].at \notin LockedSteps \cup ToggleSteps, Unlock,
         active' <=> rules'
  PROVE  KillSwitchInv'
<1>1. lock = t /\ \A d \in Tasks \ {t} : (lock' = d) <=> (lock = d)
  BY ConstantFacts DEF KillSwitchInv, Holds, Unlock
<1>2. Holds(t)' /\ FlagAt(t)' /\ NoToggle(t)' /\ KillSwitchReported'
  BY ConstantFacts DEF Holds, FlagAt, At, NoToggle, KillSwitchReported, Unlock, LockedSteps
<1> QED
  BY <1>1, <1>2, OneTaskSwitches

\* Where a step of task t goes.
LEMMA Arrives ==
  ASSUME TaskOK, NEW t \in Tasks
  PROVE  /\ Done(t) => task'[t].at = "idle"
         /\ \A step \in Steps : Goto(t, step) => task'[t].at = step
         /\ \A step \in Steps, found \in Status : Carry(t, step, found) => task'[t].at = step
  BY DEF TaskOK, Task, Done, Goto, Carry, IdleTask

LEMMA DropsRules ==
  ASSUME active \in BOOLEAN, rules \in BOOLEAN, active <=> rules, rules' = (rules /\ ~active)
  PROVE  ~rules'
  OBVIOUS

LEMMA ClientSwitch ==
  ASSUME TypeOK, KillSwitchInv, NEW c \in Clients, ClientStep(c)
  PROVE  KillSwitchInv'
<1>0. c \in Tasks /\ TaskOK /\ StateOK /\ task[c].protocol \in Target /\ task[c].found \in Status
  BY ConstantFacts, TypeParts DEF TypeOK, Task
<1>a. KillSwitchReported /\ FlagAt(c) /\ NoToggle(c)
  BY <1>0 DEF KillSwitchInv
<1> USE <1>0
<1>1. CASE ConnectBegin(c)
  <2>1. \A d \in Tasks \ {c} : task'[d] = task[d]
    BY <1>1, OneTaskMoves DEF ConnectBegin, Steps, AllKinds
  <2>2. task[c].at \notin LockedSteps /\ task'[c].at \notin LockedSteps \cup ToggleSteps
    BY <1>1, Arrives DEF ConnectBegin, At, Steps, AllKinds, LockedSteps, ToggleSteps
  <2>3. UNCHANGED <<lock, active, rules>>
    BY <1>1 DEF ConnectBegin, state, machine
  <2> QED
    BY <2>1, <2>2, <2>3, QuietStep
<1>2. CASE ConnectRefused(c)
  <2>1. \A d \in Tasks \ {c} : task'[d] = task[d]
    BY <1>2, OneTaskMoves DEF ConnectRefused, Steps, AllKinds
  <2>2. task[c].at \notin LockedSteps /\ task'[c].at \notin LockedSteps \cup ToggleSteps
    BY <1>2, Arrives DEF ConnectRefused, At, Steps, AllKinds, LockedSteps, ToggleSteps
  <2>3. UNCHANGED <<lock, active, rules>>
    BY <1>2 DEF ConnectRefused, state, machine
  <2> QED
    BY <2>1, <2>2, <2>3, QuietStep
<1>3. CASE BringUpWireGuard(c)
  <2>1. \A d \in Tasks \ {c} : task'[d] = task[d]
    BY <1>3, OneTaskMoves DEF BringUpWireGuard, BringUp, Steps, AllKinds
  <2>2. task[c].at \notin LockedSteps /\ task'[c].at \notin LockedSteps \cup ToggleSteps
    BY <1>3, Arrives DEF BringUpWireGuard, BringUp, At, Steps, AllKinds, LockedSteps, ToggleSteps
  <2>3. UNCHANGED <<lock, active, rules>>
    BY <1>3 DEF BringUpWireGuard, BringUp, state, machine
  <2> QED
    BY <2>1, <2>2, <2>3, QuietStep
<1>4. CASE BringUpOpenVpn(c)
  <2>1. \A d \in Tasks \ {c} : task'[d] = task[d]
    BY <1>4, OneTaskMoves DEF BringUpOpenVpn, BringUp, Steps, AllKinds
  <2>2. task[c].at \notin LockedSteps /\ task'[c].at \notin LockedSteps \cup ToggleSteps
    BY <1>4, Arrives DEF BringUpOpenVpn, BringUp, At, Steps, AllKinds, LockedSteps, ToggleSteps
  <2>3. UNCHANGED <<lock, active, rules>>
    BY <1>4 DEF BringUpOpenVpn, BringUp, state, machine
  <2> QED
    BY <2>1, <2>2, <2>3, QuietStep
<1>5. CASE BringUpIkev2(c)
  <2>1. \A d \in Tasks \ {c} : task'[d] = task[d]
    BY <1>5, OneTaskMoves DEF BringUpIkev2, BringUp, Steps, AllKinds
  <2>2. task[c].at \notin LockedSteps /\ task'[c].at \notin LockedSteps \cup ToggleSteps
    BY <1>5, Arrives DEF BringUpIkev2, BringUp, At, Steps, AllKinds, LockedSteps, ToggleSteps
  <2>3. UNCHANGED <<lock, active, rules>>
    BY <1>5 DEF BringUpIkev2, BringUp, state, machine
  <2> QED
    BY <2>1, <2>2, <2>3, QuietStep
<1>6. CASE ConnectVerify(c)
  <2>1. \A d \in Tasks \ {c} : task'[d] = task[d]
    BY <1>6, OneTaskMoves, CheckedTyped DEF ConnectVerify, Steps, AllKinds
  <2>2. task[c].at \notin LockedSteps /\ task'[c].at \notin LockedSteps \cup ToggleSteps
    BY <1>6, Arrives, CheckedTyped DEF ConnectVerify, At, Steps, AllKinds, LockedSteps, ToggleSteps
  <2>3. UNCHANGED <<lock, active, rules>>
    BY <1>6 DEF ConnectVerify, state, machine
  <2> QED
    BY <2>1, <2>2, <2>3, QuietStep
<1>7. CASE ConnectRollBack(c)
  <2>1. \A d \in Tasks \ {c} : task'[d] = task[d]
    BY <1>7, OneTaskMoves DEF ConnectRollBack, Steps, AllKinds
  <2>2. task[c].at \notin LockedSteps /\ task'[c].at \notin LockedSteps \cup ToggleSteps
    BY <1>7, Arrives DEF ConnectRollBack, At, Steps, AllKinds, LockedSteps, ToggleSteps
  <2>3. UNCHANGED <<lock, active, rules>>
    BY <1>7 DEF ConnectRollBack, state, machine
  <2> QED
    BY <2>1, <2>2, <2>3, QuietStep
<1>8. CASE UpdateSettings(c)
  <2>1. \A d \in Tasks \ {c} : task'[d] = task[d]
    BY <1>8, OneTaskMoves DEF UpdateSettings, Steps, AllKinds
  <2>2. task[c].at \notin LockedSteps /\ task'[c].at \notin LockedSteps \cup ToggleSteps
    BY <1>8, Arrives DEF UpdateSettings, At, Steps, AllKinds, LockedSteps, ToggleSteps
  <2>3. UNCHANGED <<lock, active, rules>>
    BY <1>8 DEF UpdateSettings, state, machine
  <2> QED
    BY <2>1, <2>2, <2>3, QuietStep
<1>10. CASE ConnectRecord(c)
  <2>1. \A d \in Tasks \ {c} : task'[d] = task[d]
    BY <1>10, OneTaskMoves DEF ConnectRecord, Steps, AllKinds
  <2>2. CASE rules' = TRUE /\ Lock(c) /\ Goto(c, "recordFlag")
    <3>1. task'[c].at = "recordFlag"
      BY <2>2, Arrives DEF Steps
    <3>2. FlagAt(c)' /\ task'[c].at \in LockedSteps
      BY <2>2, <3>1 DEF FlagAt, At, LockedSteps
    <3> QED
      BY <2>1, <2>2, <3>2, LockStep
  <2>3. CASE Done(c) /\ UNCHANGED <<rules, lock>>
    <3>1. task[c].at \notin LockedSteps /\ task'[c].at \notin LockedSteps \cup ToggleSteps
      BY <1>10, <2>3, Arrives DEF ConnectRecord, At, LockedSteps, ToggleSteps
    <3>2. UNCHANGED <<lock, active, rules>>
      BY <1>10, <2>3 DEF ConnectRecord
    <3> QED
      BY <2>1, <3>1, <3>2, QuietStep
  <2> QED
    BY <1>10, <2>2, <2>3 DEF ConnectRecord
<1>11. CASE ConnectRecordFlag(c)
  <2>1. \A d \in Tasks \ {c} : task'[d] = task[d]
    BY <1>11, OneTaskMoves DEF ConnectRecordFlag, Steps, AllKinds
  <2>2. task[c].at \in LockedSteps /\ task'[c].at \notin LockedSteps \cup ToggleSteps
    BY <1>11, Arrives DEF ConnectRecordFlag, At, LockedSteps, ToggleSteps
  <2>3. Unlock /\ (active' <=> rules')
    BY <1>11, <1>a DEF ConnectRecordFlag, FlagAt, machine
  <2> QED
    BY <2>1, <2>2, <2>3, UnlockStep
<1>12. CASE DisconnectLock(c)
  <2>1. \A d \in Tasks \ {c} : task'[d] = task[d]
    BY <1>12, OneTaskMoves DEF DisconnectLock, Steps, AllKinds
  <2>2. Lock(c) /\ task'[c].at = "takeDown" /\ UNCHANGED <<active, rules>>
    BY <1>12, Arrives DEF DisconnectLock, Steps, machine
  <2>3. FlagAt(c)' /\ task'[c].at \in LockedSteps
    BY <1>a, <2>2 DEF FlagAt, At, KillSwitchReported, Lock, LockedSteps
  <2> QED
    BY <2>1, <2>2, <2>3, LockStep
<1>13. CASE DisconnectTakeDown(c)
  <2>1. \A d \in Tasks \ {c} : task'[d] = task[d]
    BY <1>13, OneTaskMoves, DefaultTyped DEF DisconnectTakeDown, StateOK, Steps, AllKinds
  <2>2. At(c, "takeDown") /\ task'[c].at = "dropRules" /\ UNCHANGED <<lock, active, rules>>
    BY <1>13, Arrives, DefaultTyped DEF DisconnectTakeDown, StateOK, Steps, state
  <2>3. FlagAt(c)' /\ task[c].at \in LockedSteps /\ task'[c].at \in LockedSteps
    BY <1>a, <2>2 DEF FlagAt, At, LockedSteps
  <2> QED
    BY <2>1, <2>2, <2>3, HoldStep
<1>14. CASE DisconnectDropRules(c)
  <2>1. \A d \in Tasks \ {c} : task'[d] = task[d]
    BY <1>14, OneTaskMoves DEF DisconnectDropRules, Steps, AllKinds
  <2>2. At(c, "dropRules") /\ task'[c].at = "forget" /\ UNCHANGED lock
    BY <1>14, Arrives DEF DisconnectDropRules, Steps, state
  <2>3. ~rules'
    BY <1>14, <1>a, DropsRules DEF DisconnectDropRules, FlagAt, At, StateOK
  <2>4. FlagAt(c)' /\ task[c].at \in LockedSteps /\ task'[c].at \in LockedSteps
    BY <2>2, <2>3 DEF FlagAt, At, LockedSteps
  <2> QED
    BY <2>1, <2>2, <2>4, HoldStep
<1>15. CASE DisconnectForget(c)
  <2>1. \A d \in Tasks \ {c} : task'[d] = task[d]
    BY <1>15, OneTaskMoves DEF DisconnectForget, Steps, AllKinds
  <2>2. task[c].at \in LockedSteps /\ task'[c].at \notin LockedSteps \cup ToggleSteps
    BY <1>15, Arrives DEF DisconnectForget, At, LockedSteps, ToggleSteps
  <2>3. Unlock /\ (active' <=> rules')
    BY <1>15, <1>a DEF DisconnectForget, FlagAt, At, machine
  <2> QED
    BY <2>1, <2>2, <2>3, UnlockStep
<1>16. CASE EnableBegin(c) \/ EnableRules(c) \/ EnableFlag(c) \/ DisableRules(c) \/ DisableFlag(c)
  BY <1>16, <1>a DEF EnableBegin, EnableRules, EnableFlag, DisableRules, DisableFlag, NoToggle, At, ToggleSteps
<1> QED
  BY <1>1, <1>2, <1>3, <1>4, <1>5, <1>6, <1>7, <1>8, <1>10, <1>11, <1>12, <1>13, <1>14, <1>15, <1>16 DEF ClientStep

LEMMA AcceptSwitch ==
  ASSUME TypeOK, KillSwitchInv, {"enable", "disable"} \cap Kinds = {},
         NEW c \in Clients, NEW kind \in Kinds, NEW p \in Target, Accept(c, kind, p)
  PROVE  KillSwitchInv'
<1>0. c \in Tasks /\ task \in [Tasks -> Task] /\ task[c] \in Task
  BY ConstantFacts DEF TypeOK
<1>1. \A d \in Tasks \ {c} : task'[d] = task[d]
  BY <1>0 DEF Accept
<1>2. task[c].at = "idle" /\ task'[c].at = kind
  BY <1>0 DEF Accept, At, Task
<1>3. kind \in {"connect", "disconnect", "settings"}
  BY DaemonAssumption DEF AllKinds
<1>4. UNCHANGED <<lock, active, rules>>
  BY DEF Accept, state, machine
<1>5. task[c].at \notin LockedSteps /\ task'[c].at \notin LockedSteps \cup ToggleSteps
  BY <1>2, <1>3 DEF LockedSteps, ToggleSteps
<1> QED
  BY <1>0, <1>1, <1>4, <1>5, QuietStep

LEMMA HandlersSwitch ==
  ASSUME TypeOK, KillSwitchInv, MonitorStep \/ ShutdownStep \/ MonitorTick \/ Signal
  PROVE  KillSwitchInv'
<1>0. "monitor" \in Tasks /\ "shutdown" \in Tasks /\ TaskOK /\ StateOK
  BY ConstantFacts, TypeParts
<1>a. KillSwitchReported /\ FlagAt("monitor") /\ FlagAt("shutdown")
  BY <1>0 DEF KillSwitchInv
<1>b. ASSUME NEW t \in Tasks, \/ Done(t) \/ \E step \in Steps : Goto(t, step)
      PROVE  \A d \in Tasks \ {t} : task'[d] = task[d]
  BY <1>0, <1>b, OneTaskMoves
<1> USE <1>0
<1>1. CASE MonitorTick
  <2>1. \A d \in Tasks \ {"monitor"} : task'[d] = task[d]
    BY <1>1, <1>b DEF MonitorTick, Steps, AllKinds
  <2>2. task["monitor"].at \notin LockedSteps /\ task'["monitor"].at \notin LockedSteps \cup ToggleSteps
    BY <1>1, Arrives DEF MonitorTick, At, Steps, AllKinds, LockedSteps, ToggleSteps
  <2>3. UNCHANGED <<lock, active, rules>>
    BY <1>1 DEF MonitorTick, state, machine
  <2> QED
    BY <2>1, <2>2, <2>3, QuietStep
<1>2. CASE AutoLock
  <2>1. \A d \in Tasks \ {"monitor"} : task'[d] = task[d]
    BY <1>2, <1>b DEF AutoLock, Steps, AllKinds
  <2>2. CASE connection.connected
    <3>1. Lock("monitor") /\ task'["monitor"].at = "autoRules" /\ UNCHANGED <<active, rules>>
      BY <1>2, <2>2, Arrives DEF AutoLock, Steps, machine
    <3>2. FlagAt("monitor")' /\ task'["monitor"].at \in LockedSteps
      BY <1>a, <3>1 DEF FlagAt, At, KillSwitchReported, Lock, LockedSteps
    <3> QED
      BY <2>1, <3>1, <3>2, LockStep
  <2>3. CASE ~connection.connected
    <3>1. task["monitor"].at \notin LockedSteps /\ task'["monitor"].at \notin LockedSteps \cup ToggleSteps
      BY <1>2, <2>3, Arrives DEF AutoLock, At, LockedSteps, ToggleSteps
    <3>2. UNCHANGED <<lock, active, rules>>
      BY <1>2, <2>3 DEF AutoLock, machine
    <3> QED
      BY <2>1, <3>1, <3>2, QuietStep
  <2> QED
    BY <2>2, <2>3
<1>3. CASE AutoRules
  <2>1. \A d \in Tasks \ {"monitor"} : task'[d] = task[d]
    BY <1>3, <1>b DEF AutoRules, Steps, AllKinds
  <2>2. At("monitor", "autoRules") /\ task'["monitor"].at = "autoRelease" /\ UNCHANGED lock
    BY <1>3, Arrives DEF AutoRules, Steps, state
  <2>3. ~rules'
    BY <1>3, <1>a, DropsRules DEF AutoRules, FlagAt, At, StateOK
  <2>4. FlagAt("monitor")' /\ task["monitor"].at \in LockedSteps /\ task'["monitor"].at \in LockedSteps
    BY <2>2, <2>3 DEF FlagAt, At, LockedSteps
  <2> QED
    BY <2>1, <2>2, <2>4, HoldStep
<1>4. CASE AutoRelease
  <2>1. \A d \in Tasks \ {"monitor"} : task'[d] = task[d]
    BY <1>4 DEF AutoRelease, Steps, AllKinds, TaskOK
  <2>2. task["monitor"].at \in LockedSteps /\ task'["monitor"].at \notin LockedSteps \cup ToggleSteps
    BY <1>4, Arrives DEF AutoRelease, At, Steps, AllKinds, LockedSteps, ToggleSteps, TaskOK, Task
  <2>3. Unlock /\ (active' <=> rules')
    BY <1>4, <1>a DEF AutoRelease, FlagAt, At, machine
  <2> QED
    BY <2>1, <2>2, <2>3, UnlockStep
<1>5. CASE AutoDown
  <2>1. \A d \in Tasks \ {"monitor"} : task'[d] = task[d]
    BY <1>5, <1>b DEF AutoDown, Steps, AllKinds
  <2>2. task["monitor"].at \notin LockedSteps /\ task'["monitor"].at \notin LockedSteps \cup ToggleSteps
    BY <1>5, Arrives DEF AutoDown, At, Steps, AllKinds, LockedSteps, ToggleSteps
  <2>3. UNCHANGED <<lock, active, rules>>
    BY <1>5 DEF AutoDown, state, machine
  <2> QED
    BY <2>1, <2>2, <2>3, QuietStep
<1>6. CASE AutoForget
  <2>1. \A d \in Tasks \ {"monitor"} : task'[d] = task[d]
    BY <1>6, <1>b DEF AutoForget, Steps, AllKinds
  <2>2. task["monitor"].at \notin LockedSteps /\ task'["monitor"].at \notin LockedSteps \cup ToggleSteps
    BY <1>6, Arrives DEF AutoForget, At, Steps, AllKinds, LockedSteps, ToggleSteps
  <2>3. UNCHANGED <<lock, active, rules>>
    BY <1>6 DEF AutoForget, state, machine
  <2> QED
    BY <2>1, <2>2, <2>3, QuietStep
<1>7. CASE Signal
  <2>1. \A d \in Tasks \ {"shutdown"} : task'[d] = task[d]
    BY <1>7, <1>b DEF Signal, Steps, AllKinds
  <2>2. task["shutdown"].at \notin LockedSteps /\ task'["shutdown"].at \notin LockedSteps \cup ToggleSteps
    BY <1>7, Arrives DEF Signal, At, Steps, AllKinds, LockedSteps, ToggleSteps
  <2>3. UNCHANGED <<lock, active, rules>>
    BY <1>7 DEF Signal, state, machine
  <2> QED
    BY <2>1, <2>2, <2>3, QuietStep
<1>8. CASE CleanupLock
  <2>1. \A d \in Tasks \ {"shutdown"} : task'[d] = task[d]
    BY <1>8, <1>b DEF CleanupLock, Steps, AllKinds
  <2>2. Lock("shutdown") /\ task'["shutdown"].at = "cleanRules" /\ UNCHANGED <<active, rules>>
    BY <1>8, Arrives DEF CleanupLock, Steps, machine
  <2>3. FlagAt("shutdown")' /\ task'["shutdown"].at \in LockedSteps
    BY <1>a, <2>2 DEF FlagAt, At, KillSwitchReported, Lock, LockedSteps
  <2> QED
    BY <2>1, <2>2, <2>3, LockStep
<1>9. CASE CleanupRules
  <2>1. \A d \in Tasks \ {"shutdown"} : task'[d] = task[d]
    BY <1>9, <1>b DEF CleanupRules, Steps, AllKinds
  <2>2. At("shutdown", "cleanRules") /\ task'["shutdown"].at = "cleanFlag" /\ UNCHANGED lock
    BY <1>9, Arrives DEF CleanupRules, Steps, state
  <2>3. ~rules'
    BY <1>9, <1>a, DropsRules DEF CleanupRules, FlagAt, At, StateOK
  <2>4. FlagAt("shutdown")' /\ task["shutdown"].at \in LockedSteps /\ task'["shutdown"].at \in LockedSteps
    BY <2>2, <2>3 DEF FlagAt, At, LockedSteps
  <2> QED
    BY <2>1, <2>2, <2>4, HoldStep
<1>10. CASE CleanupFlag
  <2>1. \A d \in Tasks \ {"shutdown"} : task'[d] = task[d]
    BY <1>10, <1>b DEF CleanupFlag, Steps, AllKinds
  <2>2. task["shutdown"].at \in LockedSteps /\ task'["shutdown"].at \notin LockedSteps \cup ToggleSteps
    BY <1>10, Arrives DEF CleanupFlag, At, Steps, AllKinds, LockedSteps, ToggleSteps, TaskOK, Task
  <2>3. Unlock /\ (active' <=> rules')
    BY <1>10, <1>a DEF CleanupFlag, FlagAt, At, machine
  <2> QED
    BY <2>1, <2>2, <2>3, UnlockStep
<1> QED
  BY <1>1, <1>2, <1>3, <1>4, <1>5, <1>6, <1>7, <1>8, <1>9, <1>10 DEF MonitorStep, ShutdownStep

LEMMA NetworkSwitch ==
  ASSUME KillSwitchInv, UNCHANGED <<task, lock, active, rules>>
  PROVE  KillSwitchInv'
  BY DEF KillSwitchInv, KillSwitchReported, Free, Holds, FlagAt, NoToggle, At

LEMMA NextSwitch ==
  ASSUME TypeOK, KillSwitchInv, {"enable", "disable"} \cap Kinds = {}, ~Stops, [Next]_vars
  PROVE  KillSwitchInv'
<1>1. CASE UNCHANGED vars
  BY <1>1, NetworkSwitch DEF vars, state, machine
<1>2. ASSUME NEW p \in Backends, Establish(p) \/ Drop(p) \/ Exit(p)
      PROVE  KillSwitchInv'
  BY <1>2, NetworkSwitch DEF Establish, Drop, Exit, state
<1>3. CASE Next
  BY <1>2, <1>3, AcceptSwitch, ClientSwitch, HandlersSwitch DEF Next, Environment, Stop
<1> QED
  BY <1>1, <1>3

LEMMA InitSwitch == Init => KillSwitchInv
  BY ConstantFacts DEF Init, KillSwitchInv, KillSwitchReported, Holds, FlagAt, NoToggle, At, IdleTask,
    LockedSteps, ToggleSteps

(* KillSwitchReported for any number of overlapping Connects, Disconnects and settings
   updates, the monitor and a shutdown, with any faults: they change the flag and the
   rules under the lock (handler.rs:137-151, 165-186, 455-467).                      *)
THEOREM KillSwitchIsReported ==
  ASSUME {"enable", "disable"} \cap Kinds = {}, ~Stops
  PROVE  Spec => []KillSwitchReported
<1>1. TypeOK /\ KillSwitchInv /\ [Next]_vars => KillSwitchInv'
  BY NextSwitch
<1>2. KillSwitchInv => KillSwitchReported
  BY DEF KillSwitchInv
<1> QED
  BY <1>1, <1>2, InitSwitch, TypeCorrect, PTL DEF Spec

-----------------------------------------------------------------------------
(* The promise to the app.  PromiseAt says what a request carries to the step that
   makes its result visible: the lock, the protocol it was asked for, the status that
   it will record.                                                                  *)

ConnectSteps == {"connect", "bringUp", "verify", "rollBack", "record"}

PromiseAt(t) ==
  /\ task[t].at \in LockedSteps => lock = t
  /\ task[t].at \in ConnectSteps => task[t].protocol \in Backends
  /\ At(t, "rollBack") => task[t].protocol = "wireguard"
  /\ At(t, "record") => /\ task[t].found.protocol = task[t].protocol
                        /\ task[t].protocol = "wireguard" => task[t].found.connected
  /\ task[t].at \in {"dropRules", "forget"} => task[t].found \in {DefaultStatus, connection}

PromiseInv == \A t \in Tasks : PromiseAt(t)

LEMMA OneTaskPromises ==
  ASSUME PromiseInv, NEW t \in Tasks, \A d \in Tasks \ {t} : task'[d] = task[d],
         PromiseAt(t)',
         lock' = lock \/ lock \in {t, "free"},
         connection' = connection \/ lock \in {t, "free"}
  PROVE  PromiseInv'
<1> SUFFICES ASSUME NEW d \in Tasks \ {t}
             PROVE  PromiseAt(d)'
  BY DEF PromiseInv
<1>0. PromiseAt(d) /\ task'[d] = task[d] /\ d # "free"
  BY ConstantFacts DEF PromiseInv
<1>1. task[d].at \in LockedSteps => lock' = lock /\ connection' = connection
  BY <1>0 DEF PromiseAt
<1>2. task[d].at \in {"dropRules", "forget"} => task[d].at \in LockedSteps
  BY DEF LockedSteps
<1> QED
  BY <1>0, <1>1, <1>2 DEF PromiseAt, At

\* A step that takes no lock, carries nothing on, and answers or goes where little is asked.
LEMMA PlainStep ==
  ASSUME PromiseInv, NEW t \in Tasks, \A d \in Tasks \ {t} : task'[d] = task[d],
         task'[t].at \notin LockedSteps \cup ConnectSteps,
         lock' = lock \/ lock \in {t, "free"},
         connection' = connection \/ lock \in {t, "free"}
  PROVE  PromiseInv'
<1>1. PromiseAt(t)'
  BY DEF PromiseAt, At, LockedSteps, ConnectSteps
<1> QED
  BY <1>1, OneTaskPromises

\* What a step of task t leaves in it.
LEMMA CarriesOn ==
  ASSUME TaskOK, NEW t \in Tasks
  PROVE  /\ \A step \in Steps : Goto(t, step) =>
              task'[t].at = step /\ task'[t].protocol = task[t].protocol /\ task'[t].found = task[t].found
         /\ \A step \in Steps, found \in Status : Carry(t, step, found) =>
              task'[t].at = step /\ task'[t].protocol = task[t].protocol /\ task'[t].found = found
  BY DEF TaskOK, Task, Goto, Carry

LEMMA ClientPromise ==
  ASSUME TypeOK, PromiseInv, NEW c \in Clients, ClientStep(c)
  PROVE  PromiseInv'
<1>0. c \in Tasks /\ TaskOK /\ StateOK /\ task[c].protocol \in Target /\ task[c].found \in Status
  BY ConstantFacts, TypeParts DEF TypeOK, Task
<1>a. PromiseAt(c)
  BY <1>0 DEF PromiseInv
<1> USE <1>0
<1>1. CASE ConnectRefused(c)
  <2>1. \A d \in Tasks \ {c} : task'[d] = task[d]
    BY <1>1, OneTaskMoves DEF ConnectRefused, Steps, AllKinds
  <2>2. task'[c].at \notin LockedSteps \cup ConnectSteps
    BY <1>1, Arrives DEF ConnectRefused, Steps, AllKinds, LockedSteps, ConnectSteps
  <2>3. (lock' = lock \/ lock = c) /\ (connection' = connection \/ lock = c)
    BY <1>1 DEF ConnectRefused, state, machine
  <2> QED
    BY <2>1, <2>2, <2>3, PlainStep
<1>2. CASE ConnectRollBack(c)
  <2>1. \A d \in Tasks \ {c} : task'[d] = task[d]
    BY <1>2, OneTaskMoves DEF ConnectRollBack, Steps, AllKinds
  <2>2. task'[c].at \notin LockedSteps \cup ConnectSteps
    BY <1>2, Arrives DEF ConnectRollBack, Steps, AllKinds, LockedSteps, ConnectSteps
  <2>3. (lock' = lock \/ lock = c) /\ (connection' = connection \/ lock = c)
    BY <1>2 DEF ConnectRollBack, state, machine
  <2> QED
    BY <2>1, <2>2, <2>3, PlainStep
<1>3. CASE ConnectRecordFlag(c)
  <2>1. \A d \in Tasks \ {c} : task'[d] = task[d]
    BY <1>3, OneTaskMoves DEF ConnectRecordFlag, Steps, AllKinds
  <2>2. task'[c].at \notin LockedSteps \cup ConnectSteps
    BY <1>3, Arrives DEF ConnectRecordFlag, Steps, AllKinds, LockedSteps, ConnectSteps
  <2>3. (lock' = lock \/ lock = c) /\ (connection' = connection \/ lock = c)
    BY <1>3, <1>a DEF ConnectRecordFlag, Unlock, LockedSteps, At, PromiseAt, state, machine
  <2> QED
    BY <2>1, <2>2, <2>3, PlainStep
<1>4. CASE DisconnectForget(c)
  <2>1. \A d \in Tasks \ {c} : task'[d] = task[d]
    BY <1>4, OneTaskMoves DEF DisconnectForget, Steps, AllKinds
  <2>2. task'[c].at \notin LockedSteps \cup ConnectSteps
    BY <1>4, Arrives DEF DisconnectForget, Steps, AllKinds, LockedSteps, ConnectSteps
  <2>3. (lock' = lock \/ lock = c) /\ (connection' = connection \/ lock = c)
    BY <1>4, <1>a DEF DisconnectForget, Unlock, LockedSteps, At, PromiseAt, state, machine
  <2> QED
    BY <2>1, <2>2, <2>3, PlainStep
<1>5. CASE EnableBegin(c)
  <2>1. \A d \in Tasks \ {c} : task'[d] = task[d]
    BY <1>5, OneTaskMoves DEF EnableBegin, Steps, AllKinds
  <2>2. task'[c].at \notin LockedSteps \cup ConnectSteps
    BY <1>5, Arrives DEF EnableBegin, Steps, AllKinds, LockedSteps, ConnectSteps
  <2>3. (lock' = lock \/ lock = c) /\ (connection' = connection \/ lock = c)
    BY <1>5 DEF EnableBegin, state, machine
  <2> QED
    BY <2>1, <2>2, <2>3, PlainStep
<1>6. CASE EnableRules(c)
  <2>1. \A d \in Tasks \ {c} : task'[d] = task[d]
    BY <1>6, OneTaskMoves DEF EnableRules, Steps, AllKinds
  <2>2. task'[c].at \notin LockedSteps \cup ConnectSteps
    BY <1>6, Arrives DEF EnableRules, Steps, AllKinds, LockedSteps, ConnectSteps
  <2>3. (lock' = lock \/ lock = c) /\ (connection' = connection \/ lock = c)
    BY <1>6 DEF EnableRules, state, machine
  <2> QED
    BY <2>1, <2>2, <2>3, PlainStep
<1>7. CASE EnableFlag(c)
  <2>1. \A d \in Tasks \ {c} : task'[d] = task[d]
    BY <1>7, OneTaskMoves DEF EnableFlag, Steps, AllKinds
  <2>2. task'[c].at \notin LockedSteps \cup ConnectSteps
    BY <1>7, Arrives DEF EnableFlag, Steps, AllKinds, LockedSteps, ConnectSteps
  <2>3. (lock' = lock \/ lock = c) /\ (connection' = connection \/ lock = c)
    BY <1>7 DEF EnableFlag, state, machine
  <2> QED
    BY <2>1, <2>2, <2>3, PlainStep
<1>8. CASE DisableRules(c)
  <2>1. \A d \in Tasks \ {c} : task'[d] = task[d]
    BY <1>8, OneTaskMoves DEF DisableRules, Steps, AllKinds
  <2>2. task'[c].at \notin LockedSteps \cup ConnectSteps
    BY <1>8, Arrives DEF DisableRules, Steps, AllKinds, LockedSteps, ConnectSteps
  <2>3. (lock' = lock \/ lock = c) /\ (connection' = connection \/ lock = c)
    BY <1>8 DEF DisableRules, state, machine
  <2> QED
    BY <2>1, <2>2, <2>3, PlainStep
<1>9. CASE DisableFlag(c)
  <2>1. \A d \in Tasks \ {c} : task'[d] = task[d]
    BY <1>9, OneTaskMoves DEF DisableFlag, Steps, AllKinds
  <2>2. task'[c].at \notin LockedSteps \cup ConnectSteps
    BY <1>9, Arrives DEF DisableFlag, Steps, AllKinds, LockedSteps, ConnectSteps
  <2>3. (lock' = lock \/ lock = c) /\ (connection' = connection \/ lock = c)
    BY <1>9 DEF DisableFlag, state, machine
  <2> QED
    BY <2>1, <2>2, <2>3, PlainStep
<1>10. CASE UpdateSettings(c)
  <2>1. \A d \in Tasks \ {c} : task'[d] = task[d]
    BY <1>10, OneTaskMoves DEF UpdateSettings, Steps, AllKinds
  <2>2. task'[c].at \notin LockedSteps \cup ConnectSteps
    BY <1>10, Arrives DEF UpdateSettings, Steps, AllKinds, LockedSteps, ConnectSteps
  <2>3. (lock' = lock \/ lock = c) /\ (connection' = connection \/ lock = c)
    BY <1>10 DEF UpdateSettings, state, machine
  <2> QED
    BY <2>1, <2>2, <2>3, PlainStep
<1>11. CASE ConnectBegin(c) \/ BringUpWireGuard(c) \/ BringUpOpenVpn(c) \/ BringUpIkev2(c)
  <2>1. \A d \in Tasks \ {c} : task'[d] = task[d]
    BY <1>11, OneTaskMoves DEF ConnectBegin, BringUpWireGuard, BringUpOpenVpn, BringUpIkev2, BringUp, Steps, AllKinds
  <2>2. /\ task[c].at \in {"connect", "bringUp"} /\ task'[c].at \in {"bringUp", "verify"}
        /\ task'[c].protocol = task[c].protocol
    BY <1>11, CarriesOn DEF ConnectBegin, BringUpWireGuard, BringUpOpenVpn, BringUpIkev2, BringUp, At, Steps, AllKinds
  <2>3. UNCHANGED <<lock, connection>>
    BY <1>11 DEF ConnectBegin, BringUpWireGuard, BringUpOpenVpn, BringUpIkev2, BringUp, state
  <2>4. PromiseAt(c)'
    BY <1>a, <2>2, <2>3 DEF PromiseAt, At, LockedSteps, ConnectSteps
  <2> QED
    BY <2>1, <2>3, <2>4, OneTaskPromises
<1>12. CASE ConnectVerify(c)
  <2>1. \A d \in Tasks \ {c} : task'[d] = task[d]
    BY <1>12, OneTaskMoves, CheckedTyped DEF ConnectVerify, Steps, AllKinds
  <2>2. task[c].protocol \in Backends /\ UNCHANGED <<lock, connection>>
    BY <1>12, <1>a DEF ConnectVerify, PromiseAt, ConnectSteps, At, state
  <2>3. task'[c].protocol = task[c].protocol /\ task'[c].at \in {"rollBack", "record"}
    BY <1>12, CarriesOn, CheckedTyped DEF ConnectVerify, Steps
  <2>4. CASE task[c].protocol = "wireguard" /\ task[c].protocol \notin established
    <3>1. task'[c].at = "rollBack"
      BY <1>12, <2>4, CarriesOn DEF ConnectVerify, Steps
    <3>2. PromiseAt(c)'
      BY <2>2, <2>3, <2>4, <3>1 DEF PromiseAt, At, LockedSteps, ConnectSteps
    <3> QED
      BY <2>1, <2>2, <3>2, OneTaskPromises
  <2>5. CASE ~(task[c].protocol = "wireguard" /\ task[c].protocol \notin established)
    <3>1. task'[c].at = "record" /\ task'[c].found = Checked(task[c].protocol)
      <4>1. Carry(c, "record", Checked(task[c].protocol))
        BY <1>12, <2>5 DEF ConnectVerify
      <4>2. "record" \in Steps /\ Checked(task[c].protocol) \in Status
        BY CheckedTyped DEF Steps
      <4> QED
        BY <4>1, <4>2, CarriesOn
    <3>2. /\ task'[c].found.protocol = task[c].protocol
          /\ task[c].protocol = "wireguard" => task'[c].found.connected
      <4>1. Checked(task[c].protocol).connected = (task[c].protocol \in established)
        BY DEF Checked
      <4>2. Checked(task[c].protocol).protocol = task[c].protocol
        BY DEF Checked
      <4> QED
        BY <2>5, <3>1, <4>1, <4>2
    <3>3. PromiseAt(c)'
      BY <2>2, <2>3, <3>1, <3>2 DEF PromiseAt, At, LockedSteps, ConnectSteps
    <3> QED
      BY <2>1, <2>2, <3>3, OneTaskPromises
  <2> QED
    BY <2>4, <2>5
<1>13. CASE ConnectRecord(c)
  <2>1. \A d \in Tasks \ {c} : task'[d] = task[d]
    BY <1>13, OneTaskMoves DEF ConnectRecord, Steps, AllKinds
  <2>2. lock = "free" /\ (lock' = c \/ task'[c].at = "idle") /\ task'[c].at \in {"recordFlag", "idle"}
    BY <1>13, Arrives DEF ConnectRecord, Free, Lock, Steps
  <2>3. PromiseAt(c)'
    BY <2>2 DEF PromiseAt, At, LockedSteps, ConnectSteps
  <2> QED
    BY <2>1, <2>2, <2>3, OneTaskPromises
<1>14. CASE DisconnectLock(c)
  <2>1. \A d \in Tasks \ {c} : task'[d] = task[d]
    BY <1>14, OneTaskMoves DEF DisconnectLock, Steps, AllKinds
  <2>2. lock = "free" /\ lock' = c /\ task'[c].at = "takeDown"
    BY <1>14, Arrives DEF DisconnectLock, Free, Lock, Steps
  <2>3. PromiseAt(c)'
    BY <2>2 DEF PromiseAt, At, ConnectSteps
  <2> QED
    BY <2>1, <2>2, <2>3, OneTaskPromises
<1>15. CASE DisconnectTakeDown(c)
  <2>1. \A d \in Tasks \ {c} : task'[d] = task[d]
    BY <1>15, OneTaskMoves, DefaultTyped DEF DisconnectTakeDown, StateOK, Steps, AllKinds
  <2>2. lock = c /\ UNCHANGED <<lock, connection>>
    BY <1>15, <1>a DEF DisconnectTakeDown, PromiseAt, LockedSteps, At, state
  <2>3. task'[c].at = "dropRules" /\ task'[c].found \in {DefaultStatus, connection}
    BY <1>15, CarriesOn, DefaultTyped DEF DisconnectTakeDown, StateOK, Steps
  <2>4. PromiseAt(c)'
    BY <2>2, <2>3 DEF PromiseAt, At, ConnectSteps
  <2> QED
    BY <2>1, <2>2, <2>4, OneTaskPromises
<1>16. CASE DisconnectDropRules(c)
  <2>1. \A d \in Tasks \ {c} : task'[d] = task[d]
    BY <1>16, OneTaskMoves DEF DisconnectDropRules, Steps, AllKinds
  <2>2. task[c].at = "dropRules" /\ lock = c /\ UNCHANGED <<lock, connection>>
    BY <1>16, <1>a DEF DisconnectDropRules, PromiseAt, LockedSteps, At, state
  <2>3. task'[c].at = "forget" /\ task'[c].found = task[c].found
    BY <1>16, CarriesOn DEF DisconnectDropRules, Steps
  <2>4. PromiseAt(c)'
    BY <1>a, <2>2, <2>3 DEF PromiseAt, At, ConnectSteps
  <2> QED
    BY <2>1, <2>2, <2>4, OneTaskPromises
<1> QED
  BY <1>1, <1>2, <1>3, <1>4, <1>5, <1>6, <1>7, <1>8, <1>9, <1>10, <1>11, <1>12, <1>13, <1>14, <1>15, <1>16 DEF ClientStep

LEMMA AcceptPromise ==
  ASSUME TypeOK, PromiseInv, NEW c \in Clients, NEW kind \in Kinds, NEW p \in Target, Accept(c, kind, p)
  PROVE  PromiseInv'
<1>0. c \in Tasks /\ task \in [Tasks -> Task] /\ task[c] \in Task
  BY ConstantFacts DEF TypeOK
<1>1. \A d \in Tasks \ {c} : task'[d] = task[d]
  BY <1>0 DEF Accept
<1>2. task'[c].at = kind /\ task'[c].protocol = p /\ UNCHANGED <<lock, connection>>
  BY <1>0 DEF Accept, Task, state
<1>3. kind \in AllKinds /\ (kind = "connect" => p \in Backends)
  BY DaemonAssumption DEF Accept, Target
<1>4. PromiseAt(c)'
  BY <1>2, <1>3 DEF PromiseAt, At, AllKinds, LockedSteps, ConnectSteps
<1> QED
  BY <1>0, <1>1, <1>2, <1>4, OneTaskPromises

LEMMA HandlersPromise ==
  ASSUME TypeOK, PromiseInv, MonitorStep \/ ShutdownStep \/ MonitorTick \/ Signal
  PROVE  PromiseInv'
<1>0. "monitor" \in Tasks /\ "shutdown" \in Tasks /\ TaskOK /\ StateOK
  BY ConstantFacts, TypeParts
<1>a. PromiseAt("monitor") /\ PromiseAt("shutdown")
  BY <1>0 DEF PromiseInv
<1>b. ASSUME NEW t \in Tasks, \/ Done(t) \/ \E step \in Steps : Goto(t, step)
      PROVE  \A d \in Tasks \ {t} : task'[d] = task[d]
  BY <1>0, <1>b, OneTaskMoves
<1> USE <1>0
<1>1. CASE MonitorStep \/ MonitorTick
  <2> DEFINE t == "monitor"
  <2>1. \A d \in Tasks \ {t} : task'[d] = task[d]
    <3>1. CASE AutoRelease
      BY <3>1 DEF AutoRelease, TaskOK
    <3> QED
      BY <1>1, <1>b, <3>1 DEF MonitorStep, MonitorTick, AutoLock, AutoRules, AutoDown, AutoForget, Steps
  <2>2. (lock' = lock \/ lock \in {t, "free"}) /\ (connection' = connection \/ lock \in {t, "free"})
    BY <1>1, <1>a DEF MonitorStep, MonitorTick, AutoLock, AutoRules, AutoRelease, AutoDown, AutoForget,
      Lock, Free, PromiseAt, At, LockedSteps, state
  <2>3. /\ task'[t].at \notin ConnectSteps \cup {"dropRules", "forget"}
        /\ task'[t].at \in LockedSteps => lock' = t
    <3>1. CASE AutoRelease
      <4>1. task'[t].at = "autoDown"
        BY <3>1 DEF AutoRelease, TaskOK, Task
      <4> QED
        BY <4>1 DEF LockedSteps, ConnectSteps
    <3>2. CASE AutoLock
      BY <3>2, Arrives DEF AutoLock, Lock, Steps, LockedSteps, ConnectSteps
    <3>3. CASE AutoRules
      <4>1. task'[t].at = "autoRelease" /\ task[t].at = "autoRules" /\ lock' = lock
        BY <3>3, Arrives DEF AutoRules, At, Steps, state
      <4> QED
        BY <1>a, <4>1 DEF PromiseAt, LockedSteps, ConnectSteps
    <3> QED
      BY <1>1, <3>1, <3>2, <3>3, Arrives DEF MonitorStep, MonitorTick, AutoDown, AutoForget, Steps, LockedSteps, ConnectSteps
  <2>4. PromiseAt(t)'
    BY <2>3 DEF PromiseAt, At, ConnectSteps
  <2> QED
    BY <2>1, <2>2, <2>4, OneTaskPromises
<1>2. CASE ShutdownStep \/ Signal
  <2> DEFINE t == "shutdown"
  <2>1. \A d \in Tasks \ {t} : task'[d] = task[d]
    BY <1>2, <1>b DEF ShutdownStep, Signal, CleanupLock, CleanupRules, CleanupFlag, Steps
  <2>2. (lock' = lock \/ lock \in {t, "free"}) /\ connection' = connection
    BY <1>2, <1>a DEF ShutdownStep, Signal, CleanupLock, CleanupRules, CleanupFlag,
      Lock, Free, PromiseAt, At, LockedSteps, state
  <2>3. /\ task'[t].at \notin ConnectSteps \cup {"dropRules", "forget"}
        /\ task'[t].at \in LockedSteps => lock' = t
    <3>1. CASE CleanupRules
      <4>1. task'[t].at = "cleanFlag" /\ task[t].at = "cleanRules" /\ lock' = lock
        BY <3>1, Arrives DEF CleanupRules, At, Steps, state
      <4> QED
        BY <1>a, <4>1 DEF PromiseAt, LockedSteps, ConnectSteps
    <3>2. CASE CleanupLock
      BY <3>2, Arrives DEF CleanupLock, Lock, Steps, LockedSteps, ConnectSteps
    <3> QED
      BY <1>2, <3>1, <3>2, Arrives DEF ShutdownStep, Signal, CleanupFlag, Steps, LockedSteps, ConnectSteps
  <2>4. PromiseAt(t)'
    BY <2>3 DEF PromiseAt, At, ConnectSteps
  <2> QED
    BY <2>1, <2>2, <2>4, OneTaskPromises
<1> QED
  BY <1>1, <1>2

LEMMA NextPromise ==
  ASSUME TypeOK, PromiseInv, [Next]_vars
  PROVE  PromiseInv'
<1>1. ASSUME UNCHANGED <<task, lock, connection>> PROVE PromiseInv'
  BY <1>1 DEF PromiseInv, PromiseAt, At
<1>2. CASE UNCHANGED vars
  BY <1>1, <1>2 DEF vars, state
<1>3. ASSUME NEW p \in Backends, Establish(p) \/ Drop(p) \/ Exit(p)
      PROVE  PromiseInv'
  BY <1>1, <1>3 DEF Establish, Drop, Exit, state
<1>4. CASE Stop
  BY <1>4 DEF Stop, PromiseInv, PromiseAt, At, IdleTask, LockedSteps, ConnectSteps
<1>5. CASE Next
  BY <1>3, <1>4, <1>5, AcceptPromise, ClientPromise, HandlersPromise DEF Next, Environment
<1> QED
  BY <1>2, <1>5

LEMMA InitPromise == Init => PromiseInv
  BY DEF Init, PromiseInv, PromiseAt, At, IdleTask, LockedSteps, ConnectSteps

\* How the request of client c looks from the app, before and after a step.
LEMMA AskedMoves ==
  ASSUME TaskOK, NEW c \in Clients, \A d \in Tasks \ {c} : task'[d] = task[d]
  PROVE  /\ asked[c] = Asked(task[c])
         /\ asked' = [asked EXCEPT ![c] = Asked(task'[c])]
<1>1. \A d \in Clients : asked[d] = Asked(task[d]) /\ asked'[d] = Asked(task'[d])
  BY DEF asked
<1>2. \A d \in Clients \ {c} : asked'[d] = asked[d]
  BY <1>1, ConstantFacts
<1>3. asked = [d \in Clients |-> asked[d]] /\ asked' = [d \in Clients |-> asked'[d]]
  BY DEF asked
<1>4. asked' = [asked EXCEPT ![c] = asked'[c]]
  BY <1>2, <1>3
<1> QED
  BY <1>1, <1>4

LEMMA AskedKept ==
  ASSUME \A c \in Clients : task'[c] = task[c]
  PROVE  asked' = asked
  BY DEF asked

LEMMA AskedSame ==
  ASSUME TaskOK, NEW c \in Clients, \A d \in Tasks \ {c} : task'[d] = task[d],
         Asked(task'[c]) = Asked(task[c])
  PROVE  asked' = asked
<1>1. asked = [d \in Clients |-> asked[d]]
  BY DEF asked
<1> QED
  BY <1>1, AskedMoves

LEMMA AskedValues ==
  ASSUME NEW k
  PROVE  /\ k.at \in ConnectSteps => Asked(k) = k.protocol
         /\ k.at = "recordFlag" => Asked(k) = "recorded"
         /\ k.at \in {"disconnect", "takeDown", "dropRules", "forget"} => Asked(k) = "disconnect"
         /\ k.at = "idle" => Asked(k) = "nothing"
         /\ k.at \in ToggleSteps \cup {"settings"} => Asked(k) = "other"
  BY DEF Asked, ConnectSteps, ToggleSteps

\* A backend that goes down, or fails to, lowers at most its own tunnel.
LEMMA DownLowers ==
  ASSUME MachineOK, NEW p \in Target, Down(p) \/ DownFails(p)
  PROVE  \/ UNCHANGED <<running, established>>
         \/ p \in Backends /\ p \in running /\ running' = running \ {p} /\ established' = established \ {p}
<1>1. CASE running' = running \ {p} /\ established' = established \ {p}
  BY <1>1 DEF MachineOK
<1> QED
  BY <1>1 DEF Down, DownFails

ServiceMoves == [Service!ServiceStep]_(Service!service)

LEMMA Lowered ==
  ASSUME MachineOK, NEW p \in Target, Down(p) \/ DownFails(p), UNCHANGED <<asked, recorded>>
  PROVE  ServiceMoves
<1>1. CASE UNCHANGED <<running, established>>
  BY <1>1 DEF ServiceMoves, Service!service
<1>2. CASE p \in Backends /\ p \in running /\ running' = running \ {p} /\ established' = established \ {p}
  <2>1. Service!Lower(p)
    BY <1>2 DEF Service!Lower, Service!UpExcept
  <2> QED
    BY <1>2, <2>1 DEF ServiceMoves, Service!ServiceStep
<1> QED
  BY <1>1, <1>2, DownLowers

LEMMA ClientServes ==
  ASSUME TypeOK, PromiseInv, NEW c \in Clients, ClientStep(c)
  PROVE  ServiceMoves
<1>0. c \in Tasks /\ TaskOK /\ StateOK /\ MachineOK /\ task[c].protocol \in Target /\ task[c].found \in Status
  BY ConstantFacts, TypeParts DEF TypeOK, Task
<1>a. PromiseAt(c)
  BY <1>0 DEF PromiseInv
<1>b. /\ (\A d \in Tasks \ {c} : task'[d] = task[d]) =>
           asked[c] = Asked(task[c]) /\ asked' = [asked EXCEPT ![c] = Asked(task'[c])]
      /\ (\A d \in Tasks \ {c} : task'[d] = task[d]) /\ Asked(task'[c]) = Asked(task[c]) => asked' = asked
  BY <1>0, AskedMoves, AskedSame
<1> USE <1>0
<1>1. CASE ConnectBegin(c)
  <2>1. \A d \in Tasks \ {c} : task'[d] = task[d]
    BY <1>1, OneTaskMoves DEF ConnectBegin, Steps, AllKinds
  <2>2. task[c].at \in ConnectSteps /\ task'[c].at \in ConnectSteps /\ task'[c].protocol = task[c].protocol
    BY <1>1, CarriesOn DEF ConnectBegin, At, Steps, AllKinds, ConnectSteps
  <2>3. UNCHANGED <<connection, running, established>>
    BY <1>1 DEF ConnectBegin, state, machine
  <2> QED
    BY <1>b, <2>1, <2>2, <2>3, AskedValues DEF ServiceMoves, Service!service, recorded
<1>2. CASE ConnectVerify(c)
  <2>1. \A d \in Tasks \ {c} : task'[d] = task[d]
    BY <1>2, OneTaskMoves, CheckedTyped DEF ConnectVerify, Steps, AllKinds
  <2>2. task[c].at \in ConnectSteps /\ task'[c].at \in ConnectSteps /\ task'[c].protocol = task[c].protocol
    BY <1>2, CarriesOn, CheckedTyped DEF ConnectVerify, At, Steps, AllKinds, ConnectSteps
  <2>3. UNCHANGED <<connection, running, established>>
    BY <1>2 DEF ConnectVerify, state, machine
  <2> QED
    BY <1>b, <2>1, <2>2, <2>3, AskedValues DEF ServiceMoves, Service!service, recorded
<1>3. CASE DisconnectLock(c)
  <2>1. \A d \in Tasks \ {c} : task'[d] = task[d]
    BY <1>3, OneTaskMoves DEF DisconnectLock, Steps, AllKinds
  <2>2. task[c].at \in {"disconnect", "takeDown", "dropRules", "forget"} /\ task'[c].at \in {"disconnect", "takeDown", "dropRules", "forget"} /\ task'[c].protocol = task[c].protocol
    BY <1>3, CarriesOn DEF DisconnectLock, At, Steps, AllKinds, ConnectSteps
  <2>3. UNCHANGED <<connection, running, established>>
    BY <1>3 DEF DisconnectLock, state, machine
  <2> QED
    BY <1>b, <2>1, <2>2, <2>3, AskedValues DEF ServiceMoves, Service!service, recorded
<1>4. CASE DisconnectDropRules(c)
  <2>1. \A d \in Tasks \ {c} : task'[d] = task[d]
    BY <1>4, OneTaskMoves DEF DisconnectDropRules, Steps, AllKinds
  <2>2. task[c].at \in {"disconnect", "takeDown", "dropRules", "forget"} /\ task'[c].at \in {"disconnect", "takeDown", "dropRules", "forget"} /\ task'[c].protocol = task[c].protocol
    BY <1>4, CarriesOn DEF DisconnectDropRules, At, Steps, AllKinds, ConnectSteps
  <2>3. UNCHANGED <<connection, running, established>>
    BY <1>4 DEF DisconnectDropRules, state, machine
  <2> QED
    BY <1>b, <2>1, <2>2, <2>3, AskedValues DEF ServiceMoves, Service!service, recorded
<1>5. CASE ConnectRefused(c)
  <2>1. \A d \in Tasks \ {c} : task'[d] = task[d]
    BY <1>5, OneTaskMoves DEF ConnectRefused, Steps, AllKinds
  <2>2. task[c].at \in ConnectSteps /\ task[c].protocol \in Backends /\ task'[c].at = "idle"
    BY <1>5, <1>a, Arrives DEF ConnectRefused, PromiseAt, At, ConnectSteps
  <2>3. UNCHANGED <<connection, running, established>>
    BY <1>5 DEF ConnectRefused, state, machine
  <2>4. Service!GiveUp(c)
    BY <1>b, <2>1, <2>2, <2>3, AskedValues DEF Service!GiveUp, Service!Connecting, Service!Answered, recorded
  <2> QED
    BY <2>4 DEF ServiceMoves, Service!ServiceStep
<1>6. ASSUME NEW p \in Protocols, BringUp(c, p), p = "wireguard" => "wireguard" \notin running
      PROVE  ServiceMoves
  <2>1. \A d \in Tasks \ {c} : task'[d] = task[d]
    BY <1>6, OneTaskMoves DEF BringUp, Steps, AllKinds
  <2>2. /\ task[c].at \in ConnectSteps /\ task[c].protocol = p /\ p \in Backends
        /\ task'[c].at \in ConnectSteps /\ task'[c].protocol = p
    BY <1>6, <1>a, CarriesOn DEF BringUp, PromiseAt, At, Steps, AllKinds, ConnectSteps
  <2>3. running' = running \cup {p} /\ UNCHANGED <<connection, established>>
    BY <1>6 DEF BringUp, state
  <2>4. asked[c] = p /\ asked' = asked
    BY <1>b, <2>1, <2>2, AskedValues
  <2>5. Service!Raise(c)
    BY <1>6, <2>2, <2>3, <2>4 DEF Service!Raise, Service!Connecting, recorded
  <2> QED
    BY <2>5 DEF ServiceMoves, Service!ServiceStep
<1>7. CASE BringUpWireGuard(c) \/ BringUpOpenVpn(c)
  BY <1>6, <1>7 DEF BringUpWireGuard, BringUpOpenVpn, Protocols
<1>8. CASE BringUpIkev2(c)
  <2>1. CASE BringUp(c, "ikev2")
    BY <1>6, <2>1 DEF Protocols
  <2>2. CASE At(c, "bringUp") /\ Goto(c, "verify") /\ UNCHANGED <<state, machine, leftover>>
    <3>1. \A d \in Tasks \ {c} : task'[d] = task[d]
      BY <2>2, OneTaskMoves DEF Steps
    <3>2. task[c].at \in ConnectSteps /\ task'[c].at \in ConnectSteps /\ task'[c].protocol = task[c].protocol
      BY <2>2, CarriesOn DEF At, Steps, ConnectSteps
    <3> QED
      BY <1>b, <2>2, <3>1, <3>2, AskedValues DEF ServiceMoves, Service!service, recorded, state, machine
  <2> QED
    BY <1>8, <2>1, <2>2 DEF BringUpIkev2
<1>9. CASE ConnectRollBack(c)
  <2>1. \A d \in Tasks \ {c} : task'[d] = task[d]
    BY <1>9, OneTaskMoves DEF ConnectRollBack, Steps, AllKinds
  <2>2. /\ task[c].at \in ConnectSteps /\ task[c].protocol \in Backends /\ task[c].protocol = "wireguard"
        /\ task'[c].at = "idle"
    BY <1>9, <1>a, Arrives DEF ConnectRollBack, PromiseAt, At, ConnectSteps
  <2>3. asked[c] = "wireguard" /\ asked' = [asked EXCEPT ![c] = "nothing"] /\ recorded' = recorded
    BY <1>9, <1>b, <2>1, <2>2, AskedValues DEF ConnectRollBack, recorded, state
  <2>4. \/ UNCHANGED <<running, established>>
        \/ running' = running \ {"wireguard"} /\ established' = established \ {"wireguard"}
    BY <1>9, <2>2, DownLowers DEF ConnectRollBack
  <2>5. Backends \cap {"wireguard"} = {"wireguard"}
    BY <2>2
  <2>6. Service!GiveUp(c)
    BY <2>2, <2>3, <2>4, <2>5 DEF Service!GiveUp, Service!Connecting, Service!Answered, Service!UpExcept
  <2> QED
    BY <2>6 DEF ServiceMoves, Service!ServiceStep
<1>10. CASE ConnectRecord(c)
  <2>1. \A d \in Tasks \ {c} : task'[d] = task[d]
    BY <1>10, OneTaskMoves DEF ConnectRecord, Steps, AllKinds
  <2>2. /\ task[c].at \in ConnectSteps /\ task[c].protocol \in Backends
        /\ task[c].found.protocol = task[c].protocol
        /\ task[c].protocol = "wireguard" => task[c].found.connected
        /\ task'[c].at \in {"recordFlag", "idle"}
    BY <1>10, <1>a, Arrives DEF ConnectRecord, PromiseAt, At, Steps, ConnectSteps
  <2>3. connection' = task[c].found /\ UNCHANGED <<running, established>>
    BY <1>10 DEF ConnectRecord
  <2>4. asked[c] = task[c].protocol /\ \E a \in {"nothing", "recorded"} : asked' = [asked EXCEPT ![c] = a]
    BY <1>b, <2>1, <2>2, AskedValues
  <2>5. /\ recorded' = [connected |-> task[c].found.connected, config |-> task[c].protocol]
        /\ task[c].found.connected \in BOOLEAN
    BY <2>2, <2>3 DEF recorded, Status
  <2>6. recorded' \in {r \in Service!Record :
            r.config = asked[c] /\ (asked[c] \in Backends \cap {"wireguard"} => r.connected)}
    BY <2>2, <2>4, <2>5 DEF Service!Record
  <2>7. Service!Remember(c)
    BY <2>2, <2>3, <2>4, <2>6 DEF Service!Remember, Service!Connecting, Service!Answered
  <2> QED
    BY <2>7 DEF ServiceMoves, Service!ServiceStep
<1>11. CASE DisconnectTakeDown(c)
  <2>1. \A d \in Tasks \ {c} : task'[d] = task[d]
    BY <1>11, OneTaskMoves, DefaultTyped DEF DisconnectTakeDown, StateOK, Steps, AllKinds
  <2>2. /\ task[c].at \in {"disconnect", "takeDown", "dropRules", "forget"}
        /\ task'[c].at \in {"disconnect", "takeDown", "dropRules", "forget"}
    BY <1>11, CarriesOn, DefaultTyped DEF DisconnectTakeDown, StateOK, At, Steps
  <2>3. asked' = asked /\ recorded' = recorded
    BY <1>11, <1>b, <2>1, <2>2, AskedValues DEF DisconnectTakeDown, recorded, state
  <2>4. Down(connection.protocol) \/ DownFails(connection.protocol)
    BY <1>11 DEF DisconnectTakeDown
  <2>5. connection.protocol \in Target
    BY DEF StateOK, Status
  <2> QED
    BY <2>3, <2>4, <2>5, Lowered
<1>12. CASE DisconnectForget(c)
  <2>1. \A d \in Tasks \ {c} : task'[d] = task[d]
    BY <1>12, OneTaskMoves DEF DisconnectForget, Steps, AllKinds
  <2>2. task[c].at = "forget" /\ task'[c].at = "idle" /\ task[c].found \in {DefaultStatus, connection}
    BY <1>12, <1>a, Arrives DEF DisconnectForget, PromiseAt, At
  <2>3. asked[c] = "disconnect" /\ asked' = [asked EXCEPT ![c] = "nothing"]
    BY <1>b, <2>1, <2>2, AskedValues
  <2>4. recorded' \in {[connected |-> FALSE, config |-> NoProtocol], recorded} /\ UNCHANGED <<running, established>>
    <3>1. connection' = task[c].found /\ UNCHANGED <<running, established>>
      BY <1>12 DEF DisconnectForget, machine
    <3>2. CASE connection' = DefaultStatus
      BY <3>1, <3>2 DEF recorded, DefaultStatus
    <3>3. CASE connection' = connection
      BY <3>1, <3>3 DEF recorded
    <3> QED
      BY <2>2, <3>1, <3>2, <3>3
  <2>5. Service!Disconnected(c)
    BY <2>3, <2>4 DEF Service!Disconnected, Service!Answered, Service!Nothing
  <2> QED
    BY <2>5 DEF ServiceMoves, Service!ServiceStep
<1>13. ASSUME \A d \in Tasks \ {c} : task'[d] = task[d],
              task[c].at \in ToggleSteps \cup {"settings", "recordFlag"},
              task'[c].at \in ToggleSteps \cup {"idle"},
              task[c].at = "recordFlag" => task'[c].at = "idle",
              UNCHANGED <<connection, running, established>>
       PROVE  ServiceMoves
  <2>1. asked[c] \in {"other", "recorded"} /\ recorded' = recorded
    BY <1>b, <1>13, AskedValues DEF recorded
  <2>2. CASE task'[c].at = "idle"
    <3>1. asked' = [asked EXCEPT ![c] = "nothing"]
      BY <1>b, <1>13, <2>2, AskedValues
    <3>2. Service!Answer(c)
      BY <1>13, <2>1, <3>1 DEF Service!Answer, Service!Answered
    <3> QED
      BY <3>2 DEF ServiceMoves, Service!ServiceStep
  <2>3. CASE task'[c].at \in ToggleSteps
    <3>1. task[c].at \in ToggleSteps \cup {"settings"}
      BY <1>13, <2>3 DEF ToggleSteps
    <3>2. asked' = asked
      BY <1>b, <1>13, <2>3, <3>1, AskedValues
    <3> QED
      BY <1>13, <2>1, <3>2 DEF ServiceMoves, Service!service
  <2> QED
    BY <1>13, <2>2, <2>3
<1>14. CASE ConnectRecordFlag(c)
  <2>1. \A d \in Tasks \ {c} : task'[d] = task[d]
    BY <1>14, OneTaskMoves DEF ConnectRecordFlag, Steps, AllKinds
  <2>2. /\ task[c].at \in ToggleSteps \cup {"settings", "recordFlag"} /\ task'[c].at \in ToggleSteps \cup {"idle"}
        /\ task[c].at = "recordFlag" => task'[c].at = "idle"
    BY <1>14, Arrives DEF ConnectRecordFlag, At, Steps, AllKinds, ToggleSteps
  <2>3. UNCHANGED <<connection, running, established>>
    BY <1>14 DEF ConnectRecordFlag, state, machine
  <2> QED
    BY <1>13, <2>1, <2>2, <2>3
<1>15. CASE EnableBegin(c)
  <2>1. \A d \in Tasks \ {c} : task'[d] = task[d]
    BY <1>15, OneTaskMoves DEF EnableBegin, Steps, AllKinds
  <2>2. /\ task[c].at \in ToggleSteps \cup {"settings", "recordFlag"} /\ task'[c].at \in ToggleSteps \cup {"idle"}
        /\ task[c].at = "recordFlag" => task'[c].at = "idle"
    BY <1>15, Arrives DEF EnableBegin, At, Steps, AllKinds, ToggleSteps
  <2>3. UNCHANGED <<connection, running, established>>
    BY <1>15 DEF EnableBegin, state, machine
  <2> QED
    BY <1>13, <2>1, <2>2, <2>3
<1>16. CASE EnableRules(c)
  <2>1. \A d \in Tasks \ {c} : task'[d] = task[d]
    BY <1>16, OneTaskMoves DEF EnableRules, Steps, AllKinds
  <2>2. /\ task[c].at \in ToggleSteps \cup {"settings", "recordFlag"} /\ task'[c].at \in ToggleSteps \cup {"idle"}
        /\ task[c].at = "recordFlag" => task'[c].at = "idle"
    BY <1>16, Arrives DEF EnableRules, At, Steps, AllKinds, ToggleSteps
  <2>3. UNCHANGED <<connection, running, established>>
    BY <1>16 DEF EnableRules, state, machine
  <2> QED
    BY <1>13, <2>1, <2>2, <2>3
<1>17. CASE EnableFlag(c)
  <2>1. \A d \in Tasks \ {c} : task'[d] = task[d]
    BY <1>17, OneTaskMoves DEF EnableFlag, Steps, AllKinds
  <2>2. /\ task[c].at \in ToggleSteps \cup {"settings", "recordFlag"} /\ task'[c].at \in ToggleSteps \cup {"idle"}
        /\ task[c].at = "recordFlag" => task'[c].at = "idle"
    BY <1>17, Arrives DEF EnableFlag, At, Steps, AllKinds, ToggleSteps
  <2>3. UNCHANGED <<connection, running, established>>
    BY <1>17 DEF EnableFlag, state, machine
  <2> QED
    BY <1>13, <2>1, <2>2, <2>3
<1>18. CASE DisableRules(c)
  <2>1. \A d \in Tasks \ {c} : task'[d] = task[d]
    BY <1>18, OneTaskMoves DEF DisableRules, Steps, AllKinds
  <2>2. /\ task[c].at \in ToggleSteps \cup {"settings", "recordFlag"} /\ task'[c].at \in ToggleSteps \cup {"idle"}
        /\ task[c].at = "recordFlag" => task'[c].at = "idle"
    BY <1>18, Arrives DEF DisableRules, At, Steps, AllKinds, ToggleSteps
  <2>3. UNCHANGED <<connection, running, established>>
    BY <1>18 DEF DisableRules, state, machine
  <2> QED
    BY <1>13, <2>1, <2>2, <2>3
<1>19. CASE DisableFlag(c)
  <2>1. \A d \in Tasks \ {c} : task'[d] = task[d]
    BY <1>19, OneTaskMoves DEF DisableFlag, Steps, AllKinds
  <2>2. /\ task[c].at \in ToggleSteps \cup {"settings", "recordFlag"} /\ task'[c].at \in ToggleSteps \cup {"idle"}
        /\ task[c].at = "recordFlag" => task'[c].at = "idle"
    BY <1>19, Arrives DEF DisableFlag, At, Steps, AllKinds, ToggleSteps
  <2>3. UNCHANGED <<connection, running, established>>
    BY <1>19 DEF DisableFlag, state, machine
  <2> QED
    BY <1>13, <2>1, <2>2, <2>3
<1>20. CASE UpdateSettings(c)
  <2>1. \A d \in Tasks \ {c} : task'[d] = task[d]
    BY <1>20, OneTaskMoves DEF UpdateSettings, Steps, AllKinds
  <2>2. /\ task[c].at \in ToggleSteps \cup {"settings", "recordFlag"} /\ task'[c].at \in ToggleSteps \cup {"idle"}
        /\ task[c].at = "recordFlag" => task'[c].at = "idle"
    BY <1>20, Arrives DEF UpdateSettings, At, Steps, AllKinds, ToggleSteps
  <2>3. UNCHANGED <<connection, running, established>>
    BY <1>20 DEF UpdateSettings, state, machine
  <2> QED
    BY <1>13, <2>1, <2>2, <2>3
<1> QED
  BY <1>1, <1>2, <1>3, <1>4, <1>5, <1>7, <1>8, <1>9, <1>10, <1>11, <1>12, <1>14, <1>15, <1>16, <1>17, <1>18, <1>19, <1>20 DEF ClientStep

LEMMA AcceptServes ==
  ASSUME TypeOK, NEW c \in Clients, NEW kind \in Kinds, NEW p \in Target, Accept(c, kind, p)
  PROVE  ServiceMoves
<1>0. c \in Tasks /\ TaskOK /\ task \in [Tasks -> Task] /\ task[c] \in Task
  BY ConstantFacts, TypeParts DEF TypeOK
<1>1. \A d \in Tasks \ {c} : task'[d] = task[d]
  BY <1>0 DEF Accept
<1>2. task[c].at = "idle" /\ task'[c].at = kind /\ task'[c].protocol = p
  BY <1>0 DEF Accept, At, Task
<1>3. UNCHANGED <<connection, running, established>>
  BY DEF Accept, state, machine
<1>4. kind \in AllKinds /\ (kind = "connect" <=> p # NoProtocol)
  BY DaemonAssumption DEF Accept
<1>5. asked[c] = "nothing" /\ asked' = [asked EXCEPT ![c] = Asked(task'[c])]
  BY <1>0, <1>1, <1>2, AskedMoves, AskedValues
<1>6. Asked(task'[c]) \in Backends \cup {"disconnect", "other"}
  BY <1>2, <1>4, AskedValues DEF AllKinds, Target, ConnectSteps, ToggleSteps
<1>7. Service!Ask(c, Asked(task'[c]))
  BY <1>3, <1>5 DEF Service!Ask, recorded
<1> QED
  BY <1>6, <1>7 DEF ServiceMoves, Service!ServiceStep

LEMMA HandlersServe ==
  ASSUME TypeOK, MonitorStep \/ ShutdownStep \/ MonitorTick \/ Signal
  PROVE  ServiceMoves
<1>0. TaskOK /\ StateOK /\ MachineOK /\ task["monitor"].protocol \in Target
  BY ConstantFacts, TypeParts DEF TypeOK, Task
<1>1. asked' = asked
  <2>1. TaskOK /\ "monitor" \in Tasks \ Clients /\ "shutdown" \in Tasks \ Clients /\ Clients \subseteq Tasks
    BY <1>0, ConstantFacts
  <2>2. CASE MonitorStep \/ MonitorTick
    BY <2>1, <2>2, AskedKept DEF TaskOK, MonitorStep, MonitorTick, AutoLock, AutoRules, AutoRelease, AutoDown, AutoForget, Goto, Done
  <2>3. CASE ShutdownStep \/ Signal
    BY <2>1, <2>3, AskedKept DEF TaskOK, ShutdownStep, Signal, CleanupLock, CleanupRules, CleanupFlag, Goto, Done
  <2> QED
    BY <2>2, <2>3
<1>2. CASE AutoDown
  BY <1>0, <1>1, <1>2, Lowered DEF AutoDown, recorded, state
<1>3. CASE AutoForget
  <2>1. Service!Forget
    BY <1>1, <1>3 DEF AutoForget, Service!Forget, Service!Nothing, recorded, DefaultStatus, machine
  <2> QED
    BY <2>1 DEF ServiceMoves, Service!ServiceStep
<1>4. CASE UNCHANGED <<connection, running, established>>
  BY <1>1, <1>4 DEF ServiceMoves, Service!service, recorded
<1> QED
  BY <1>2, <1>3, <1>4 DEF MonitorStep, ShutdownStep, MonitorTick, Signal, AutoLock, AutoRules, AutoRelease,
    CleanupLock, CleanupRules, CleanupFlag, state, machine

LEMMA MachineServes ==
  ASSUME TypeOK, Stop \/ \E p \in Backends : Establish(p) \/ Drop(p) \/ Exit(p)
  PROVE  ServiceMoves
<1>0. MachineOK
  BY TypeParts
<1>1. CASE Stop
  <2>1. asked' = [c \in Clients |-> "nothing"]
    BY <1>1, ConstantFacts DEF Stop, asked, Asked, IdleTask
  <2>2. recorded' = [connected |-> FALSE, config |-> NoProtocol]
    BY <1>1 DEF Stop, recorded, DefaultStatus
  <2>3. \E gone \in SUBSET (Backends \ (Backends \cap {"wireguard"})) :
           running' = running \ gone /\ established' = established \ gone
    <3>1. CASE running' = running
      <4>1. running' = running \ {} /\ established' = established \ {}
        BY <1>0, <1>1, <3>1 DEF Stop, MachineOK
      <4> QED
        BY <4>1
    <3>2. CASE running' = running \ {"openvpn"}
      <4> DEFINE gone == Backends \cap {"openvpn"}
      <4>1. running' = running \ gone /\ established' = established \ gone
        BY <1>0, <1>1, <3>2 DEF Stop, MachineOK
      <4>2. gone \in SUBSET (Backends \ (Backends \cap {"wireguard"}))
        OBVIOUS
      <4> QED
        BY <4>1, <4>2
    <3> QED
      BY <1>1, <3>1, <3>2 DEF Stop
  <2>4. Service!Restarted
    BY <2>1, <2>2, <2>3 DEF Service!Restarted, Service!Nothing, Service!UpExcept
  <2> QED
    BY <2>4 DEF ServiceMoves, Service!ServiceStep
<1>2. ASSUME NEW p \in Backends, Establish(p) \/ Drop(p) \/ Exit(p)
      PROVE  ServiceMoves
  <2>1. asked' = asked /\ recorded' = recorded
    BY <1>2, AskedKept DEF Establish, Drop, Exit, recorded, state
  <2>2. CASE Establish(p) \/ Drop(p)
    <3>1. Service!Tunnel(p)
      BY <1>0, <2>1, <2>2 DEF Establish, Drop, MachineOK, Service!Tunnel
    <3> QED
      BY <3>1 DEF ServiceMoves, Service!ServiceStep
  <2>3. CASE Exit(p)
    <3>1. Service!Lower(p)
      BY <2>1, <2>3 DEF Exit, Service!Lower, Service!UpExcept
    <3> QED
      BY <3>1 DEF ServiceMoves, Service!ServiceStep
  <2> QED
    BY <1>2, <2>2, <2>3
<1> QED
  BY <1>1, <1>2

LEMMA NextServes ==
  ASSUME TypeOK, PromiseInv, [Next]_vars
  PROVE  ServiceMoves
<1>1. CASE UNCHANGED vars
  <2>1. asked' = asked
    BY <1>1, AskedKept DEF vars
  <2> QED
    BY <1>1, <2>1 DEF vars, state, machine, ServiceMoves, Service!service, recorded
<1>2. CASE Next
  BY <1>2, AcceptServes, ClientServes, HandlersServe, MachineServes DEF Next, Environment
<1> QED
  BY <1>1, <1>2

LEMMA InitServes == Init => Service!ServiceInit
<1> SUFFICES ASSUME Init
             PROVE  Service!ServiceInit
  OBVIOUS
<1>1. asked = [c \in Clients |-> "nothing"]
  BY ConstantFacts DEF Init, asked, Asked, IdleTask
<1> QED
  BY <1>1 DEF Init, Service!ServiceInit, Service!Nothing, recorded, DefaultStatus

(* The daemon implements its promise to the app, for any number of overlapping
   requests and whatever fails or is stopped: its initial state maps to DaemonService's
   and each of its steps to a step of DaemonService or to none (handler.rs:108-497).  *)
THEOREM DaemonServesApp == Spec => ServesApp
<1>1. TypeOK /\ PromiseInv /\ [Next]_vars => PromiseInv'
  BY NextPromise
<1>2. TypeOK /\ PromiseInv /\ [Next]_vars => [Service!ServiceStep]_(Service!service)
  BY NextServes DEF ServiceMoves
<1> QED
  BY <1>1, <1>2, InitPromise, InitServes, TypeCorrect, PTL DEF Spec, ServesApp, Service!ServiceSpec
=============================================================================
