------------------------- MODULE DesktopClientProofs -------------------------
(***************************************************************************)
(* What DesktopClient promises for any number of overlapping attempts,     *)
(* configurations, device ids and connections to the daemon.               *)
(***************************************************************************)
EXTENDS DesktopClient, TLAPS

-----------------------------------------------------------------------------
(* Types.  Beyond TypeOK the shell works for each attempt that waits for it, and an
   attempt past registering has a configuration.                                 *)

Early == {"idle", "register"}

AttemptOK(q) ==
  /\ q \in Attempt
  /\ q.id = NoDevice <=> q.at \in Early
  /\ q.at \notin Early => q.config \in Configs

AttemptsOK ==
  /\ attempt \in [Attempts -> Attempt]
  /\ \A a \in Attempts : AttemptOK(attempt[a])

ScreenOK ==
  /\ ui \in {"disconnected", "connecting", "connected"}
  /\ watch \in {"unknown", "up", "down"} /\ (watch # "unknown" => ui = "connected")
  /\ shown \in Connection /\ (shown = NoConnection <=> ui # "connected")
  /\ forgotten \in BOOLEAN /\ crossed \in BOOLEAN

ShellOK ==
  /\ shell \in Attempts \cup {"free", "teardown"}
  /\ line \in Clients \cup {NoLine} /\ (shell = "free" <=> line = NoLine)
  /\ \A a \in Attempts : At(a, "applying") <=> shell = a
  /\ teardown \in BOOLEAN

AccountOK == device \in Device /\ usable \subseteq Configs

TypeInv == ServiceTypeOK /\ AttemptsOK /\ ScreenOK /\ ShellOK /\ AccountOK

LEMMA ConstantFacts ==
  /\ NoDevice \notin Ids /\ NoLine \notin Clients /\ NoConfig \notin Configs
  /\ "free" \notin Attempts /\ "teardown" \notin Attempts
  /\ NoAttempt \in Attempt /\ NoAttempt.at = "idle" /\ NoAttempt.id = NoDevice
  /\ NoConnection \in Connection /\ NoConnection.id = NoDevice
  /\ Unregistered \in Device /\ Retries \in Nat \ {0} /\ Nothing \in Record
BY ClientAssumption, ServiceAssumption
   DEF Nothing, Record, NoAttempt, Attempt, AttemptSteps, NoConnection, Connection, Unregistered, Device

LEMMA TypeFromInv == TypeInv => TypeOK
<1> SUFFICES ASSUME TypeInv
             PROVE  TypeOK
  OBVIOUS
<1>1. \A a \in Attempts : (attempt[a].id = NoDevice) <=> (attempt[a].at \in {"idle", "register"})
  BY DEF TypeInv, AttemptsOK, AttemptOK, Early
<1> QED
  BY <1>1 DEF TypeInv, AttemptsOK, ScreenOK, ShellOK, AccountOK, TypeOK, At

LEMMA InitTyped == Init => TypeInv
<1> SUFFICES ASSUME Init
             PROVE  TypeInv
  OBVIOUS
<1> USE ConstantFacts
<1>1. ServiceTypeOK
  BY DEF Init, ServiceInit, ServiceTypeOK, Nothing, Record
<1>2. AttemptsOK /\ ShellOK
  BY DEF Init, AttemptsOK, AttemptOK, Early, ShellOK, At
<1>3. ScreenOK /\ AccountOK
  BY DEF Init, ScreenOK, AccountOK
<1> QED
  BY <1>1, <1>2, <1>3 DEF TypeInv

LEMMA AttemptTypes ==
  ASSUME AttemptsOK, NEW a \in Attempts
  PROVE  /\ AttemptOK(attempt[a]) /\ attempt[a].at \in AttemptSteps
         /\ attempt[a].id \in Ids \cup {NoDevice} /\ attempt[a].config \in Configs \cup {NoConfig}
         /\ attempt[a].tries \in 0..Retries
BY DEF AttemptsOK, Attempt

\* What a step of attempt a leaves of the others, and of itself.
Moves(a) == attempt' = [attempt EXCEPT ![a] = attempt'[a]]

LEMMA MoveTyped ==
  ASSUME AttemptsOK, NEW a \in Attempts, Moves(a), AttemptOK(attempt'[a])
  PROVE  AttemptsOK'
BY DEF Moves, AttemptsOK, AttemptOK

LEMMA GotoMoves ==
  ASSUME AttemptsOK, NEW a \in Attempts, NEW step, Goto(a, step)
  PROVE  /\ Moves(a) /\ attempt'[a].at = step /\ attempt'[a].id = attempt[a].id
         /\ attempt'[a].config = attempt[a].config /\ attempt'[a].tries = attempt[a].tries
         /\ step \in AttemptSteps /\ (step \in Early <=> attempt[a].at \in Early) => AttemptOK(attempt'[a])
<1>1. /\ attempt'[a] = [attempt[a] EXCEPT !.at = step] /\ attempt[a] \in Attempt
      /\ attempt' = [attempt EXCEPT ![a] = attempt'[a]]
  BY DEF AttemptsOK, Goto
<1>2. /\ attempt'[a].at = step /\ attempt'[a].id = attempt[a].id
      /\ attempt'[a].config = attempt[a].config /\ attempt'[a].tries = attempt[a].tries
      /\ step \in AttemptSteps => attempt'[a] \in Attempt
  BY <1>1 DEF Attempt
<1> QED
  BY <1>1, <1>2 DEF Moves, AttemptsOK, AttemptOK

LEMMA EndMoves ==
  ASSUME AttemptsOK, NEW a \in Attempts, End(a)
  PROVE  Moves(a) /\ attempt'[a] = NoAttempt /\ attempt'[a].at = "idle" /\ AttemptOK(attempt'[a])
BY ConstantFacts DEF AttemptsOK, AttemptOK, Early, End, Moves

\* Registering gives the attempt its device and configuration.
LEMMA RegisterMoves ==
  ASSUME AttemptsOK, NEW a \in Attempts, NEW k \in Configs, NEW d \in Ids, NEW next \in Built,
         attempt' = [attempt EXCEPT ![a].at = next, ![a].id = d, ![a].config = k]
  PROVE  /\ Moves(a) /\ AttemptOK(attempt'[a])
         /\ attempt'[a].at = next /\ attempt'[a].id = d /\ attempt'[a].config = k
<1> DEFINE q == [attempt[a] EXCEPT !.at = next, !.id = d, !.config = k]
<1>1. attempt' = [attempt EXCEPT ![a] = q] /\ attempt[a] \in Attempt
  BY DEF AttemptsOK
<1>2. q \in Attempt /\ q.at = next /\ q.id = d /\ q.config = k
  BY <1>1 DEF Attempt, AttemptSteps, Built
<1> HIDE DEF q
<1>3. attempt'[a] = q
  BY <1>1 DEF AttemptsOK
<1> QED
  BY <1>1, <1>2, <1>3, ConstantFacts DEF Moves, AttemptOK, Early, Built

LEMMA ShowTyped ==
  ASSUME ScreenOK, NEW status \in {"disconnected", "connecting", "connected"},
         NEW connection \in Connection, (connection = NoConnection) <=> (status # "connected"),
         Show(status, connection), crossed' \in BOOLEAN
  PROVE  ScreenOK' /\ ui' = status
BY DEF ScreenOK, Show

LEMMA LeaveTyped ==
  ASSUME ScreenOK, NEW status \in {"disconnected", "connecting"}, Leave(status), crossed' \in BOOLEAN
  PROVE  ScreenOK' /\ ui' = status
<1>1. Show(status, NoConnection)
  BY DEF Leave
<1> QED
  BY <1>1, ConstantFacts, ShowTyped

\* The shell is as it was for an attempt that neither waited nor comes to wait for it.
LEMMA ShellKept ==
  ASSUME AttemptsOK, ShellOK, NEW a \in Attempts, Moves(a), UNCHANGED commands,
         attempt[a].at # "applying", attempt'[a].at # "applying"
  PROVE  ShellOK'
<1>1. \A b \in Attempts : attempt'[b].at = "applying" <=> attempt[b].at = "applying"
  BY DEF Moves, AttemptsOK
<1> QED
  BY <1>1 DEF ShellOK, At, commands

LEMMA ShellFreed ==
  ASSUME AttemptsOK, ShellOK, NEW a \in Attempts, Moves(a), shell = "free" \/ At(a, "applying"),
         attempt'[a].at # "applying", shell' = "free", line' = NoLine, UNCHANGED teardown
  PROVE  ShellOK'
<1>1. \A b \in Attempts : b # a => attempt'[b].at = attempt[b].at
  BY DEF Moves, AttemptsOK
<1>2. \A b \in Attempts : attempt'[b].at # "applying"
  BY <1>1, ConstantFacts DEF ShellOK, At
<1> QED
  BY <1>2, ConstantFacts DEF ShellOK, At

\* The daemon's part.
LEMMA ServiceTyped ==
  ASSUME ServiceTypeOK, [ServiceStep]_service
  PROVE  ServiceTypeOK'
<1> USE DEF ServiceTypeOK
<1>1. ASSUME NEW c \in Clients, NEW q \in Configs \cup {"disconnect", "other"}, Ask(c, q)
      PROVE  ServiceTypeOK'
  BY <1>1 DEF Ask
<1>2. ASSUME NEW c \in Clients, Raise(c)
      PROVE  ServiceTypeOK'
  BY <1>2 DEF Raise, Connecting
<1>3. ASSUME NEW c \in Clients, Remember(c)
      PROVE  ServiceTypeOK'
  BY <1>3 DEF Remember, Answered
<1>4. ASSUME NEW c \in Clients, GiveUp(c)
      PROVE  ServiceTypeOK'
  BY <1>4 DEF GiveUp, Answered, UpExcept
<1>5. ASSUME NEW c \in Clients, Disconnected(c)
      PROVE  ServiceTypeOK'
  BY <1>5, ConstantFacts DEF Disconnected, Answered
<1>6. ASSUME NEW c \in Clients, Answer(c)
      PROVE  ServiceTypeOK'
  BY <1>6 DEF Answer, Answered
<1>7. ASSUME NEW p \in Configs, Lower(p) \/ Tunnel(p)
      PROVE  ServiceTypeOK'
  BY <1>7 DEF Lower, Tunnel, UpExcept
<1>8. CASE Forget \/ Restarted
  BY <1>8, ConstantFacts DEF Forget, Restarted, UpExcept
<1>9. CASE UNCHANGED service
  BY <1>9 DEF service
<1> QED
  BY <1>1, <1>2, <1>3, <1>4, <1>5, <1>6, <1>7, <1>8, <1>9 DEF ServiceStep

LEMMA NextService == TypeInv /\ [Next]_vars => [ServiceStep]_service
<1> SUFFICES ASSUME TypeInv, [Next]_vars
             PROVE  ServiceStep \/ UNCHANGED service
  OBVIOUS
<1>1. ASSUME NEW a \in Attempts, Apply(a)
      PROVE  ServiceStep
  <2>1. attempt[a].config \in Configs
    BY <1>1, AttemptTypes DEF TypeInv, Apply, At, AttemptOK, Early
  <2> QED
    BY <1>1, <2>1 DEF Apply, ServiceStep
<1>2. ASSUME NEW a \in Attempts, ApplySucceeds(a)
      PROVE  ServiceStep
  <2>1. line \in Clients
    BY <1>2, ConstantFacts DEF TypeInv, ShellOK, ApplySucceeds, At
  <2> QED
    BY <1>2, <2>1 DEF ApplySucceeds, ServiceStep
<1>3. CASE Teardown
  BY <1>3 DEF Teardown, ServiceStep
<1>4. ASSUME NEW c \in Clients, ServeRecord(c) \/ Serve(c)
      PROVE  ServiceStep
  BY <1>4 DEF ServeRecord, Serve, ServiceStep
<1>5. CASE Backends \/ DaemonForgets
  BY <1>5 DEF Backends, DaemonForgets, ServiceStep
<1>6. ASSUME NEW a \in Attempts,
             Connect(a) \/ ConnectFromStaleListener(a) \/ AttemptStep(a) \/ AttemptEnd(a),
             ~Apply(a), ~ApplySucceeds(a)
      PROVE  UNCHANGED service
  BY <1>6 DEF Connect, ConnectFromStaleListener, Begin, AttemptStep, AttemptEnd, Register, RegisterFails,
              ApplyFails, CheckEarly, VerifySucceeds, VerifyFails, Confirm, Cancel
<1>7. CASE Disconnect \/ TeardownEnds \/ Watch \/ Render \/ Quit
  BY <1>7 DEF Disconnect, TeardownEnds, Watch, Render, Quit
<1>8. CASE UNCHANGED vars
  BY <1>8 DEF vars
<1> QED
  BY <1>1, <1>2, <1>3, <1>4, <1>5, <1>6, <1>7, <1>8 DEF Next

\* The attempts, step by step.
LEMMA AttemptTyped ==
  ASSUME TypeInv, NEW a \in Attempts,
         Connect(a) \/ ConnectFromStaleListener(a) \/ AttemptStep(a) \/ AttemptEnd(a)
  PROVE  AttemptsOK' /\ ScreenOK' /\ ShellOK' /\ AccountOK'
<1> USE DEF TypeInv
<1>0. /\ UNCHANGED screen /\ crossed' \in BOOLEAN => ScreenOK' /\ ui' = ui
      /\ UNCHANGED account => AccountOK'
      /\ crossed \in BOOLEAN
  BY DEF ScreenOK, screen, AccountOK, account
<1>1. CASE Connect(a) \/ ConnectFromStaleListener(a)
  <2>1. Begin(a)
    BY <1>1 DEF Connect, ConnectFromStaleListener
  <2>2. Moves(a) /\ attempt'[a].at = "register" /\ AttemptOK(attempt'[a])
    BY <2>1, GotoMoves DEF Begin, At, Early, AttemptSteps
  <2>3. AttemptsOK' /\ ShellOK' /\ ScreenOK'
    BY <2>1, <2>2, MoveTyped, ShellKept, LeaveTyped DEF Begin, At
  <2> QED
    BY <1>0, <2>1, <2>3 DEF Begin
<1>2. CASE Register(a)
  <2> PICK k \in Configs, d \in Ids, next \in Built :
         /\ device' = Row(k, d) /\ usable' = {k}
         /\ attempt' = [attempt EXCEPT ![a].at = next, ![a].id = d, ![a].config = k]
         /\ IF next = "cancel" THEN Leave("disconnected") ELSE UNCHANGED screen
    BY <1>2 DEF Register
  <2>1. Moves(a) /\ AttemptOK(attempt'[a]) /\ attempt'[a].at = next
    BY RegisterMoves
  <2>2. AttemptsOK' /\ ShellOK'
    BY <1>2, <2>1, MoveTyped, ShellKept DEF Register, At, Built
  <2>3. ScreenOK'
    BY <1>0, <1>2, LeaveTyped DEF Register
  <2>4. AccountOK'
    BY DEF AccountOK, Row, Device
  <2> QED
    BY <2>2, <2>3, <2>4
<1>3. CASE RegisterFails(a)
  <2>1. Moves(a) /\ AttemptOK(attempt'[a]) /\ attempt'[a].at = "idle"
    BY <1>3, EndMoves DEF RegisterFails
  <2>2. AttemptsOK' /\ ShellOK' /\ ScreenOK'
    BY <1>0, <1>3, <2>1, MoveTyped, ShellKept, LeaveTyped DEF RegisterFails, At
  <2>3. AccountOK'
    <3>1. ASSUME NEW k \in Configs, NEW d \in Ids, device' \in {device, Row(k, d)}, usable' \in {usable, {}, {k}}
          PROVE  AccountOK'
      <4>1. Row(k, d) \in Device
        BY DEF Row, Device
      <4> QED
        BY <3>1, <4>1 DEF AccountOK
    <3>2. CASE usable' = {} /\ UNCHANGED device
      BY <3>2 DEF AccountOK
    <3> QED
      BY <1>0, <1>3, <3>1, <3>2 DEF RegisterFails
  <2> QED
    BY <2>2, <2>3
<1>4. CASE Apply(a)
  <2>1. Moves(a) /\ attempt'[a].at = "applying" /\ AttemptOK(attempt'[a])
    BY <1>4, GotoMoves DEF Apply, At, Early, AttemptSteps
  <2>2. line' \in Clients /\ shell' = a /\ teardown' = teardown /\ shell = "free"
    BY <1>4 DEF Apply, Turn
  <2>3. \A b \in Attempts : b # a => attempt'[b].at = attempt[b].at
    BY <2>1 DEF Moves, AttemptsOK
  <2>4. ShellOK'
    BY <2>1, <2>2, <2>3, ConstantFacts DEF ShellOK, At
  <2> QED
    BY <1>0, <1>4, <2>1, <2>4, MoveTyped DEF Apply
<1>5. CASE ApplyFails(a)
  <2>1. attempt[a].at \in {"apply", "applying"}
    BY <1>5 DEF ApplyFails, At
  <2>2. Moves(a) /\ attempt'[a].at = "cancel" /\ AttemptOK(attempt'[a])
    BY <1>5, <2>1, GotoMoves DEF ApplyFails, Early, AttemptSteps
  <2>3. ShellOK'
    BY <1>5, <2>2, ShellFreed DEF ApplyFails, Turn
  <2> QED
    BY <1>0, <1>5, <2>2, <2>3, MoveTyped, LeaveTyped DEF ApplyFails
<1>6. CASE ApplySucceeds(a)
  <2> DEFINE step == IF attempt[a].config \in Imported THEN "early" ELSE "verify"
  <2>1. Moves(a) /\ attempt'[a].at = step /\ AttemptOK(attempt'[a])
    BY <1>6, GotoMoves DEF ApplySucceeds, At, Early, AttemptSteps
  <2>2. ShellOK'
    BY <1>6, <2>1, ShellFreed DEF ApplySucceeds
  <2> QED
    BY <1>0, <1>6, <2>1, <2>2, MoveTyped DEF ApplySucceeds
<1>7. CASE CheckEarly(a)
  <2>1. PICK step \in {"verify", "cancel"} : Goto(a, step)
    BY <1>7 DEF CheckEarly
  <2>2. Moves(a) /\ attempt'[a].at = step /\ AttemptOK(attempt'[a])
    BY <1>7, <2>1, GotoMoves DEF CheckEarly, At, Early, AttemptSteps
  <2>3. ShellOK' /\ AttemptsOK'
    BY <1>7, <2>2, MoveTyped, ShellKept DEF CheckEarly, At
  <2> QED
    BY <1>0, <1>7, <2>3, LeaveTyped DEF CheckEarly
<1>8. CASE VerifySucceeds(a)
  <2> DEFINE connection == [id |-> attempt[a].id, config |-> attempt[a].config]
  <2>1. Moves(a) /\ attempt'[a].at = "confirm" /\ AttemptOK(attempt'[a])
    BY <1>8, GotoMoves DEF VerifySucceeds, At, Early, AttemptSteps
  <2>2. ShellOK' /\ AttemptsOK'
    BY <1>8, <2>1, MoveTyped, ShellKept DEF VerifySucceeds, At
  <2>3. attempt[a].id # NoDevice
    BY <1>8, AttemptTypes DEF VerifySucceeds, At, AttemptOK, Early
  <2>4. connection \in Connection /\ connection # NoConnection
    BY <2>3, AttemptTypes, ConstantFacts DEF Connection
  <2>5. ScreenOK'
    <3>1. Show("connected", connection) /\ crossed' \in BOOLEAN
      BY <1>0, <1>8 DEF VerifySucceeds
    <3> HIDE DEF connection
    <3> QED
      BY <2>4, <3>1, ShowTyped
  <2> QED
    BY <1>0, <1>8, <2>2, <2>5 DEF VerifySucceeds
<1>9. CASE VerifyFails(a)
  <2>1. CASE End(a) /\ Leave("disconnected")
    <3>1. Moves(a) /\ AttemptOK(attempt'[a]) /\ attempt'[a].at = "idle"
      BY <2>1, EndMoves
    <3> QED
      BY <1>0, <1>9, <2>1, <3>1, MoveTyped, ShellKept, LeaveTyped DEF VerifyFails, At
  <2>2. CASE attempt' = [attempt EXCEPT ![a].tries = @ + 1] /\ attempt[a].tries + 1 < Retries /\ UNCHANGED screen
    <3> DEFINE q == [attempt[a] EXCEPT !.tries = @ + 1]
    <3>1. attempt' = [attempt EXCEPT ![a] = q] /\ attempt[a] \in Attempt /\ attempt[a].tries + 1 \in 0..Retries
      BY <2>2, AttemptTypes, ConstantFacts DEF AttemptsOK
    <3>2. q \in Attempt /\ q.at = attempt[a].at /\ q.id = attempt[a].id /\ q.config = attempt[a].config
      BY <3>1 DEF Attempt
    <3> HIDE DEF q
    <3>3. attempt'[a] = q
      BY <3>1 DEF AttemptsOK
    <3>4. Moves(a) /\ AttemptOK(attempt'[a]) /\ attempt'[a].at = "verify"
      BY <1>9, <3>1, <3>2, <3>3, AttemptTypes DEF Moves, AttemptOK, VerifyFails, At
    <3> QED
      BY <1>0, <1>9, <2>2, <3>4, MoveTyped, ShellKept DEF VerifyFails, At
  <2> QED
    BY <1>9, <2>1, <2>2 DEF VerifyFails
<1>10. CASE Confirm(a) \/ Cancel(a)
  <2>1. Moves(a) /\ AttemptOK(attempt'[a]) /\ attempt'[a].at = "idle"
    BY <1>10, EndMoves DEF Confirm, Cancel
  <2>2. AttemptsOK' /\ ShellOK' /\ ScreenOK'
    BY <1>0, <1>10, <2>1, MoveTyped, ShellKept DEF Confirm, Cancel, At, screen
  <2>3. AccountOK'
    BY <1>0, <1>10, ConstantFacts DEF Confirm, Cancel, AccountOK, Device, account
  <2> QED
    BY <2>2, <2>3
<1> QED
  BY <1>1, <1>2, <1>3, <1>4, <1>5, <1>6, <1>7, <1>8, <1>9, <1>10 DEF AttemptStep, AttemptEnd

LEMMA NextTyped == TypeInv /\ [Next]_vars => TypeInv'
<1> SUFFICES ASSUME TypeInv, [Next]_vars
             PROVE  TypeInv'
  OBVIOUS
<1>0. ServiceTypeOK'
  BY NextService, ServiceTyped DEF TypeInv
<1> SUFFICES AttemptsOK' /\ ScreenOK' /\ ShellOK' /\ AccountOK'
  BY <1>0 DEF TypeInv
<1> USE DEF TypeInv
<1>1. /\ UNCHANGED attempt => AttemptsOK'
      /\ UNCHANGED account => AccountOK'
      /\ UNCHANGED <<attempt, commands>> => ShellOK'
  BY DEF AttemptsOK, AccountOK, ShellOK, At, commands, account
<1>2. CASE Disconnect
  <2>1. ScreenOK' /\ AttemptsOK' /\ AccountOK'
    BY <1>1, <1>2, LeaveTyped DEF Disconnect, ScreenOK
  <2>2. ShellOK'
    BY <1>2 DEF Disconnect, ShellOK, At
  <2> QED
    BY <2>1, <2>2
<1>3. CASE Teardown \/ TeardownEnds
  <2>1. ScreenOK'
    BY <1>3 DEF Teardown, TeardownEnds, ScreenOK, screen
  <2>2. ShellOK'
    BY <1>3, ConstantFacts DEF Teardown, TeardownEnds, ShellOK, At
  <2> QED
    BY <1>1, <1>3, <2>1, <2>2 DEF Teardown, TeardownEnds
<1>4. CASE Watch \/ Render
  <2>1. ScreenOK'
    <3>1. CASE Leave("disconnected") /\ UNCHANGED crossed
      BY <3>1, LeaveTyped DEF ScreenOK
    <3>2. CASE ui = "connected" /\ watch' \in {"unknown", "up", "down"} /\ UNCHANGED <<ui, shown, forgotten, crossed>>
      BY <3>2 DEF ScreenOK
    <3> QED
      BY <1>4, <3>1, <3>2 DEF Watch, Render
  <2> QED
    BY <1>1, <1>4, <2>1 DEF Watch, Render
<1>5. CASE Quit
  <2>1. ScreenOK'
    BY <1>5, LeaveTyped DEF Quit
  <2>2. AttemptsOK' /\ ShellOK'
    BY <1>5, ConstantFacts DEF Quit, AttemptsOK, AttemptOK, Early, ShellOK, At
  <2> QED
    BY <1>1, <1>5, <2>1, <2>2 DEF Quit
<1>6. CASE Backends \/ DaemonForgets \/ \E c \in Clients : ServeRecord(c) \/ Serve(c)
  <2>1. UNCHANGED client /\ forgotten' \in BOOLEAN
    BY <1>6 DEF Backends, DaemonForgets, ServeRecord, Serve, ScreenOK
  <2>2. ScreenOK'
    BY <2>1 DEF client, ScreenOK
  <2> QED
    BY <1>1, <2>1, <2>2 DEF client
<1>7. CASE UNCHANGED vars
  BY <1>1, <1>7 DEF vars, screen, ScreenOK
<1> QED
  BY <1>2, <1>3, <1>4, <1>5, <1>6, <1>7, AttemptTyped DEF Next

(* Every reachable state of the app has its types: the shell works for the attempt that
   waits for it and for no other, and what the screen shows was verified
   (App.tsx:471-630, daemon_client.rs:143-218).                                   *)
THEOREM TypeCorrect == Spec => []TypeOK
  BY InitTyped, NextTyped, TypeFromInv, PTL DEF Spec

(* Whatever the app does, it asks the daemon and the daemon answers as DaemonService
   promises, which the daemon's own model implements (App.tsx:560-640, ipc/handler.rs). *)
THEOREM AsksTheService == Spec => ServiceSpec
<1>1. Init => ServiceInit
  BY DEF Init
<1> QED
  BY <1>1, InitTyped, NextTyped, NextService, PTL DEF Spec, ServiceSpec

-----------------------------------------------------------------------------
(* What is shown.  As long as no attempt crossed another one, there is one at most; from
   registering to the end of its checks the account has its device and key.  Once a
   connection is shown, the shell is free, no teardown waits and all that is left of the
   attempt is its confirmation: so only the daemon itself can lose the record, and only a
   new attempt the device and key.                                                *)

Underway == {"apply", "applying", "early", "verify"}

Its(a) == device.id = attempt[a].id /\ device.config = attempt[a].config /\ usable = {attempt[a].config}

ShownOK ==
  /\ shell = "free" /\ ~teardown
  /\ recorded.connected \/ forgotten
  /\ device.id = shown.id /\ device.config = shown.config /\ usable = {shown.config}

AppInv ==
  ~crossed =>
    /\ \A a, b \in Attempts : ~At(a, "idle") /\ ~At(b, "idle") => a = b
    /\ \A a \in Attempts : attempt[a].at \in Underway => Its(a)
    /\ ui = "connected" => ShownOK /\ \A a \in Attempts : attempt[a].at \in {"idle", "confirm"}

\* What a step of an attempt has to show: it is alone.
LEMMA AloneStep ==
  ASSUME TypeInv, AppInv, NEW a \in Attempts, Moves(a), ~At(a, "idle"), UNCHANGED crossed,
         ~crossed /\ attempt'[a].at \in Underway => Its(a)',
         ~crossed /\ ui' = "connected" => ShownOK' /\ attempt'[a].at \in {"idle", "confirm"}
  PROVE  AppInv'
<1> SUFFICES ASSUME ~crossed
             PROVE  AppInv'
  BY DEF AppInv
<1>1. \A b \in Attempts : b # a => attempt[b].at = "idle" /\ attempt'[b].at = "idle"
  BY DEF AppInv, At, Moves, TypeInv, AttemptsOK
<1>2. \A b \in Attempts : attempt'[b].at \in Underway => b = a
  BY <1>1 DEF Underway
<1>3. (\A b \in Attempts : attempt[b].at \in Underway => Its(b))'
  BY <1>2
<1> QED
  BY <1>1, <1>3 DEF AppInv, At

LEMMA NotShown ==
  ASSUME AppInv, NEW a \in Attempts, attempt[a].at \notin {"idle", "confirm"}, ~crossed
  PROVE  ui # "connected"
BY DEF AppInv

LEMMA AttemptApp ==
  ASSUME TypeInv, AppInv, NEW a \in Attempts,
         Connect(a) \/ ConnectFromStaleListener(a) \/ AttemptStep(a) \/ AttemptEnd(a)
  PROVE  AppInv'
<1>0. AttemptsOK
  BY DEF TypeInv
<1> USE DEF Underway
<1>1. CASE Connect(a) \/ ConnectFromStaleListener(a)
  <2>1. Goto(a, "register") /\ ui' = "connecting" /\ crossed' = \E b \in Attempts : ~At(b, "idle")
    BY <1>1 DEF Connect, ConnectFromStaleListener, Begin, Leave, Show
  <2>2. attempt'[a].at = "register" /\ \A b \in Attempts : b # a => attempt'[b] = attempt[b]
    BY <1>0, <2>1, GotoMoves DEF Moves, AttemptsOK
  <2> SUFFICES ASSUME ~crossed'
               PROVE  AppInv'
    BY DEF AppInv
  <2>3. \A b \in Attempts : b # a => attempt'[b].at = "idle"
    BY <2>1, <2>2 DEF At
  <2>4. (\A b \in Attempts : attempt[b].at \in Underway => Its(b))'
    BY <2>2, <2>3
  <2> QED
    BY <2>1, <2>3, <2>4 DEF AppInv, At
<1>2. CASE Register(a)
  <2> PICK k \in Configs, d \in Ids, next \in Built :
         /\ device' = Row(k, d) /\ usable' = {k}
         /\ attempt' = [attempt EXCEPT ![a].at = next, ![a].id = d, ![a].config = k]
         /\ IF next = "cancel" THEN Leave("disconnected") ELSE UNCHANGED screen
    BY <1>2 DEF Register
  <2>1. Moves(a) /\ attempt'[a].at = next /\ attempt'[a].id = d /\ attempt'[a].config = k
    BY <1>0, RegisterMoves
  <2>2. Its(a)'
    BY <2>1 DEF Its, Row
  <2>3. At(a, "register") /\ UNCHANGED crossed
    BY <1>2 DEF Register
  <2>4. ~crossed => ui' # "connected"
    BY <2>3, NotShown DEF Leave, Show, screen, At
  <2> QED
    BY <2>1, <2>2, <2>3, <2>4, AloneStep DEF At
<1>3. CASE RegisterFails(a)
  <2>1. Moves(a) /\ attempt'[a].at = "idle"
    BY <1>0, <1>3, EndMoves DEF RegisterFails
  <2> QED
    BY <1>3, <2>1, AloneStep DEF RegisterFails, At, Leave, Show
<1>4. ASSUME NEW step, Goto(a, step), attempt[a].at \in Underway, UNCHANGED <<account, crossed>>,
             ui' \in {ui, "disconnected"}
      PROVE  AppInv'
  <2>1. /\ Moves(a) /\ attempt'[a].at = step
        /\ attempt'[a].id = attempt[a].id /\ attempt'[a].config = attempt[a].config
    BY <1>0, <1>4, GotoMoves
  <2>2. ~crossed => Its(a)'
    BY <1>4, <2>1 DEF AppInv, Its, account
  <2>3. ~crossed => ui' # "connected"
    BY <1>4, NotShown
  <2> QED
    BY <1>4, <2>1, <2>2, <2>3, AloneStep DEF At
<1>5. CASE Apply(a)
  BY <1>4, <1>5 DEF Apply, At, screen
<1>6. CASE ApplyFails(a)
  BY <1>4, <1>6 DEF ApplyFails, At, Leave, Show
<1>7. CASE ApplySucceeds(a)
  BY <1>4, <1>7 DEF ApplySucceeds, At, screen
<1>8. CASE CheckEarly(a)
  BY <1>4, <1>8 DEF CheckEarly, At, Leave, Show, screen
<1>9. CASE VerifySucceeds(a)
  <2> DEFINE connection == [id |-> attempt[a].id, config |-> attempt[a].config]
  <2>1. Moves(a) /\ attempt'[a].at = "confirm"
    BY <1>0, <1>9, GotoMoves DEF VerifySucceeds
  <2>2. /\ At(a, "verify") /\ shell = "free" /\ ~teardown /\ shown' = connection
        /\ forgotten' = ~recorded.connected
        /\ UNCHANGED <<service, commands, account, crossed>>
    BY <1>9 DEF VerifySucceeds, Turn, Show
  <2>3. ~crossed => Its(a)
    BY <2>2 DEF AppInv, At
  <2>4. ~crossed => ShownOK'
    BY <2>2, <2>3 DEF ShownOK, Its, service, commands, account
  <2> QED
    BY <2>1, <2>2, <2>4, AloneStep DEF At
<1>10. CASE VerifyFails(a)
  <2>1. At(a, "verify") /\ UNCHANGED <<account, crossed>>
    BY <1>10 DEF VerifyFails
  <2>2. CASE End(a) /\ Leave("disconnected")
    <3>1. Moves(a) /\ attempt'[a].at = "idle"
      BY <1>0, <2>2, EndMoves
    <3> QED
      BY <2>1, <2>2, <3>1, AloneStep DEF At, Leave, Show
  <2>3. CASE attempt' = [attempt EXCEPT ![a].tries = @ + 1] /\ UNCHANGED screen
    <3> DEFINE q == [attempt[a] EXCEPT !.tries = @ + 1]
    <3>1. attempt' = [attempt EXCEPT ![a] = q] /\ attempt[a] \in Attempt
      BY <1>0, <2>3 DEF AttemptsOK
    <3>2. q.at = attempt[a].at /\ q.id = attempt[a].id /\ q.config = attempt[a].config
      BY <3>1 DEF Attempt
    <3> HIDE DEF q
    <3>3. attempt'[a] = q /\ Moves(a)
      BY <1>0, <3>1 DEF AttemptsOK, Moves
    <3>4. ~crossed => Its(a)' /\ ui' # "connected"
      BY <2>1, <2>3, <3>2, <3>3, NotShown DEF AppInv, Its, At, account, screen
    <3> QED
      BY <2>1, <3>2, <3>3, <3>4, AloneStep DEF At
  <2> QED
    BY <1>10, <2>2, <2>3 DEF VerifyFails
<1>11. CASE Confirm(a)
  <2>1. Moves(a) /\ attempt'[a].at = "idle"
    BY <1>0, <1>11, EndMoves DEF Confirm
  <2>2. device'.id = device.id /\ device'.config = device.config
    BY <1>11 DEF Confirm, TypeInv, AccountOK, Device
  <2>3. ~crossed /\ ui' = "connected" => ShownOK'
    BY <1>11, <2>2 DEF Confirm, AppInv, ShownOK, service, screen, commands
  <2> QED
    BY <1>11, <2>1, <2>3, AloneStep DEF Confirm, At
<1>12. CASE Cancel(a)
  <2>1. Moves(a) /\ attempt'[a].at = "idle"
    BY <1>0, <1>12, EndMoves DEF Cancel
  <2>2. ~crossed => ui' # "connected"
    BY <1>12, NotShown DEF Cancel, At, screen
  <2> QED
    BY <1>12, <2>1, <2>2, AloneStep DEF Cancel, At
<1> QED
  BY <1>1, <1>2, <1>3, <1>5, <1>6, <1>7, <1>8, <1>9, <1>10, <1>11, <1>12 DEF AttemptStep, AttemptEnd

LEMMA NextApp == TypeInv /\ AppInv /\ [Next]_vars => AppInv'
<1> SUFFICES ASSUME TypeInv, AppInv, [Next]_vars
             PROVE  AppInv'
  OBVIOUS
\* The attempts and the account are as they were, and a connection that is shown is too.
<1>1. ASSUME UNCHANGED <<attempt, account, crossed>>,
             ~crossed /\ ui' = "connected" => ui = "connected" /\ ShownOK'
      PROVE  AppInv'
  BY <1>1 DEF AppInv, At, Its, account
<1>2. CASE Disconnect
  BY <1>1, <1>2 DEF Disconnect, Leave, Show
<1>3. CASE Teardown \/ TeardownEnds
  <2>1. ~crossed => ui # "connected"
    <3>1. teardown \/ shell = "teardown"
      BY <1>3 DEF Teardown, TeardownEnds
    <3> QED
      BY <3>1 DEF AppInv, ShownOK
  <2> QED
    BY <1>1, <1>3, <2>1 DEF Teardown, TeardownEnds, screen
<1>4. CASE Watch \/ Render
  <2>1. /\ UNCHANGED <<service, commands, account, attempt, crossed>> /\ ui = "connected"
        /\ ui' = "connected" => UNCHANGED <<ui, shown, forgotten>>
    BY <1>4 DEF Watch, Render, Leave, Show
  <2>2. ~crossed /\ ui' = "connected" => ShownOK'
    BY <2>1 DEF AppInv, ShownOK, service, commands, account
  <2> QED
    BY <1>1, <2>1, <2>2
<1>5. CASE Quit
  <2>1. \A a \in Attempts : attempt'[a] = NoAttempt
    BY <1>5 DEF Quit
  <2>2. ui' = "disconnected"
    BY <1>5 DEF Quit, Leave, Show
  <2>3. (\A a \in Attempts : At(a, "idle") /\ attempt[a].at \notin Underway)'
    BY <2>1, ConstantFacts DEF At, Underway
  <2> QED
    BY <2>2, <2>3 DEF AppInv
<1>6. CASE Backends \/ DaemonForgets \/ \E c \in Clients : ServeRecord(c) \/ Serve(c)
  <2>1. UNCHANGED client
    BY <1>6 DEF Backends, DaemonForgets, ServeRecord, Serve
  <2>2. ~crossed /\ ui = "connected" => forgotten' \/ UNCHANGED <<recorded, forgotten>>
    <3> SUFFICES ASSUME ~crossed, ui = "connected"
                 PROVE  forgotten' \/ UNCHANGED <<recorded, forgotten>>
      OBVIOUS
    <3>1. line = NoLine
      BY DEF AppInv, ShownOK, TypeInv, ShellOK
    <3>2. \A c \in Clients : ~Waits(c)
      BY <3>1, ConstantFacts DEF Waits
    <3> QED
      BY <1>6, <3>2 DEF Backends, DaemonForgets, ServeRecord, Serve, Lower, Raise, GiveUp, Answer
  <2>3. ~crossed /\ ui' = "connected" => ShownOK'
    BY <2>1, <2>2 DEF client, AppInv, ShownOK, commands, account
  <2> QED
    BY <1>1, <2>1, <2>3 DEF client
<1>7. CASE UNCHANGED vars
  BY <1>7 DEF vars, AppInv, ShownOK, Its, At, service, screen, commands, account
<1> QED
  BY <1>2, <1>3, <1>4, <1>5, <1>6, <1>7, AttemptApp DEF Next

LEMMA InitApp == Init => AppInv
BY ConstantFacts DEF Init, AppInv, At, Underway

LEMMA AlwaysApp == Spec => []AppInv
BY InitTyped, NextTyped, InitApp, NextApp, PTL DEF Spec

(* No Disconnect of the app's own ends a connection that its screen shows, for any number
   of attempts, unless they crossed (App.tsx:632-639, main.rs:603-636).           *)
THEOREM ShownIsRecordedEver == Spec => []ShownIsRecorded
<1>1. AppInv => ShownIsRecorded
  BY DEF AppInv, ShownOK, ShownIsRecorded
<1> QED
  BY <1>1, AlwaysApp, PTL

(* A connection that is shown is that of this machine's device and of the one usable key,
   for any number of attempts, unless they crossed (App.tsx:471-600, device.ts:351-406). *)
THEOREM ShownIsRegisteredEver == Spec => []ShownIsRegistered
<1>1. AppInv => ShownIsRegistered
  BY DEF AppInv, ShownOK, ShownIsRegistered
<1> QED
  BY <1>1, AlwaysApp, PTL

-----------------------------------------------------------------------------
(* The screen that says "connecting". *)

LEMMA NextConnecting == TypeInv /\ ConnectingIsAttempted /\ [Next]_vars => ConnectingIsAttempted'
<1> SUFFICES ASSUME TypeInv, ConnectingIsAttempted, [Next]_vars, ui' = "connecting"
             PROVE  \E a \in Attempts : attempt'[a].at \notin {"idle", "confirm", "cancel"}
  BY DEF ConnectingIsAttempted
<1>0. AttemptsOK
  BY DEF TypeInv
<1>1. ASSUME UNCHANGED <<ui, attempt>>
      PROVE  \E a \in Attempts : attempt'[a].at \notin {"idle", "confirm", "cancel"}
  BY <1>1 DEF ConnectingIsAttempted
<1>2. ASSUME NEW a \in Attempts, Moves(a), attempt'[a].at \notin {"idle", "confirm", "cancel"}
      PROVE  \E b \in Attempts : attempt'[b].at \notin {"idle", "confirm", "cancel"}
  BY <1>2
<1>3. ASSUME NEW a \in Attempts, Moves(a), UNCHANGED ui, attempt[a].at \in {"confirm", "cancel"}
      PROVE  \E b \in Attempts : attempt'[b].at \notin {"idle", "confirm", "cancel"}
  BY <1>0, <1>3 DEF ConnectingIsAttempted, Moves, AttemptsOK
<1>4. ASSUME NEW a \in Attempts, Connect(a) \/ ConnectFromStaleListener(a)
      PROVE  \E b \in Attempts : attempt'[b].at \notin {"idle", "confirm", "cancel"}
  <2>1. Goto(a, "register")
    BY <1>4 DEF Connect, ConnectFromStaleListener, Begin
  <2>2. Moves(a) /\ attempt'[a].at = "register"
    BY <1>0, <2>1, GotoMoves
  <2> QED
    BY <1>2, <2>2
<1>5. ASSUME NEW a \in Attempts, AttemptStep(a)
      PROVE  \E b \in Attempts : attempt'[b].at \notin {"idle", "confirm", "cancel"}
  <2>1. CASE Register(a)
    <3> PICK k \in Configs, d \in Ids, next \in Built :
           /\ attempt' = [attempt EXCEPT ![a].at = next, ![a].id = d, ![a].config = k]
           /\ IF next = "cancel" THEN Leave("disconnected") ELSE UNCHANGED screen
      BY <2>1 DEF Register
    <3>1. Moves(a) /\ attempt'[a].at = next
      BY <1>0, RegisterMoves
    <3>2. next = "apply"
      BY DEF Built, Leave, Show
    <3> QED
      BY <1>2, <3>1, <3>2
  <2>2. CASE Apply(a)
    BY <1>0, <1>2, <2>2, GotoMoves DEF Apply
  <2>3. CASE ApplySucceeds(a)
    <3>1. PICK step \in {"early", "verify"} : Goto(a, step)
      BY <2>3 DEF ApplySucceeds
    <3> QED
      BY <1>0, <1>2, <3>1, GotoMoves
  <2>4. CASE CheckEarly(a)
    <3>1. Goto(a, "verify")
      BY <2>4 DEF CheckEarly, Leave, Show
    <3> QED
      BY <1>0, <1>2, <3>1, GotoMoves
  <2>5. CASE VerifyFails(a)
    <3>1. attempt' = [attempt EXCEPT ![a].tries = @ + 1] /\ UNCHANGED ui /\ attempt[a].at = "verify"
      BY <2>5 DEF VerifyFails, Leave, Show, screen, At
    <3> DEFINE q == [attempt[a] EXCEPT !.tries = @ + 1]
    <3>2. attempt' = [attempt EXCEPT ![a] = q] /\ attempt[a] \in Attempt
      BY <1>0, <3>1 DEF AttemptsOK
    <3>3. q.at = "verify"
      BY <3>1, <3>2 DEF Attempt
    <3> HIDE DEF q
    <3>4. attempt'[a] = q
      BY <1>0, <3>2 DEF AttemptsOK
    <3> QED
      BY <3>3, <3>4
  <2> QED
    BY <1>5, <2>1, <2>2, <2>3, <2>4, <2>5 DEF AttemptStep, RegisterFails, ApplyFails, VerifySucceeds, Leave, Show
<1>6. ASSUME NEW a \in Attempts, AttemptEnd(a)
      PROVE  \E b \in Attempts : attempt'[b].at \notin {"idle", "confirm", "cancel"}
  BY <1>0, <1>3, <1>6, EndMoves DEF AttemptEnd, Confirm, Cancel, At, screen
<1>7. CASE \/ Disconnect \/ Teardown \/ TeardownEnds \/ Watch \/ Render \/ Quit
           \/ Backends \/ DaemonForgets \/ \E c \in Clients : ServeRecord(c) \/ Serve(c)
  <2>1. UNCHANGED <<ui, attempt>>
    BY <1>7 DEF Disconnect, Teardown, TeardownEnds, Watch, Render, Quit, Leave, Show, screen, Backends,
                DaemonForgets, ServeRecord, Serve, client
  <2> QED
    BY <1>1, <2>1
<1>8. CASE UNCHANGED vars
  BY <1>1, <1>8 DEF vars, screen
<1> QED
  BY <1>4, <1>5, <1>6, <1>7, <1>8 DEF Next

(* The screen never stays "connecting" for nothing, however many attempts overlap and
   whatever fails (App.tsx:471-630).                                              *)
THEOREM ConnectingIsAttemptedEver == Spec => []ConnectingIsAttempted
<1>1. Init => ConnectingIsAttempted
  BY DEF Init, ConnectingIsAttempted
<1> QED
  BY <1>1, InitTyped, NextTyped, NextConnecting, PTL DEF Spec
=============================================================================
