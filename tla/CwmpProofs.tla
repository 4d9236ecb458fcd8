----------------------------- MODULE CwmpProofs -----------------------------
(***************************************************************************)
(* Proofs about Cwmp, for any periods, delays and bounds: the relay, the   *)
(* timer shared by the commands, the sampled history, and that the device  *)
(* keeps the contract of RemoteCommand on a session that is an XmppLink.   *)
(***************************************************************************)
EXTENDS Cwmp, TLAPS

\* What the parts of the program know of the session.
Session ==
  /\ link = "login" => /\ job = <<>> /\ stored = 0 /\ ~lost /\ sessions = 0
                       /\ rpc = "none" /\ owed = "none"
                       /\ informTimer = Off /\ rpcTimer.left = Off
  /\ alive => link # "login"
  /\ link = "online" => informTimer # Off
  /\ informTimer = Off <=> samplingTimer = Off
  /\ informTimer # Off => sessions > 0
  /\ checked => job # <<>>

Base == TypeOK /\ Session

\* The type invariant in two parts: the Boolean variables, and all others.
BooleansOK == /\ alive \in BOOLEAN /\ checked \in BOOLEAN
              /\ lost \in BOOLEAN /\ erased \in BOOLEAN

OthersOK ==
  /\ link \in {"login", "online", "closing", "gone"}
  /\ sessions \in 0..MaxSessions
  /\ rpc \in Commands \cup {"none", "set"}
  /\ owed \in Commands \cup {"none", "replaced"} /\ orders \in 0..MaxOrders
  /\ informTimer \in {Off} \cup 0..InformPeriod
  /\ samplingTimer \in {Off} \cup 0..SamplingPeriod
  /\ rpcTimer \in [fn : Commands \cup {"none", "update"}, left : {Off} \cup 0..RpcDelay]
  /\ job \in Seq({"history", "update", "alarm"})
  /\ stored \in Nat

LEMMA TypeParts == TypeOK <=> BooleansOK /\ OthersOK /\ Plug!TypeOK
BY DEF TypeOK, BooleansOK, OthersOK

\* The reports of a callback.
Reports == Seq({"history", "update", "alarm"})

LEMMA JobTyped ==
  /\ <<>> \in Reports /\ UpdateReport \in Reports
  /\ <<"alarm">> \in Reports
  /\ \A s \in Reports : /\ s # <<>> => Tail(s) \in Reports
                        /\ <<"history">> \o s \in Reports
                        /\ <<>> \o s = s
<1>1. <<>> \in Reports /\ <<"alarm">> \in Reports /\ <<"update">> \in Reports
      /\ <<"history">> \in Reports
  BY DEF Reports
<1>2. UpdateReport \in Reports
  BY <1>1 DEF UpdateReport
<1>3. ASSUME NEW s \in Reports
      PROVE  (s # <<>> => Tail(s) \in Reports) /\ <<>> \o s = s
  BY DEF Reports
<1>4. ASSUME NEW s \in Reports
      PROVE  <<"history">> \o s \in Reports
  BY <1>1 DEF Reports
<1> QED
  BY <1>1, <1>2, <1>3, <1>4

LEMMA InitBase == Init => Base
<1> SUFFICES ASSUME Init PROVE Base
  OBVIOUS
<1>1. Plug!TypeOK
  BY DEF Init, Plug!Init, Plug!TypeOK, Plug!NoCall
<1>2. rpcTimer \in [fn : Commands \cup {"none", "update"}, left : {Off} \cup 0..RpcDelay]
  BY DEF Init, Disarmed
<1>3. TypeOK
  <2>1. BooleansOK
    BY DEF Init, BooleansOK
  <2>2. OthersOK
    BY <1>2, JobTyped, PeriodAssumption DEF Init, OthersOK, Commands, Off, Reports
  <2> QED
    BY <1>1, <2>1, <2>2, TypeParts
<1>4. Session
  BY DEF Init, Session, Disarmed
<1> QED
  BY <1>3, <1>4 DEF Base

LEMMA RestartBase ==
  ASSUME Base, Restart, erased' \in BOOLEAN
  PROVE  Base'
<1>1. Plug!TypeOK'
  BY DEF Restart, Plug!Restart, Plug!TypeOK, Plug!NoCall
<1>2. rpcTimer' \in [fn : Commands \cup {"none", "update"}, left : {Off} \cup 0..RpcDelay]
  BY DEF Restart, Disarmed
<1>3. TypeOK'
  <2>1. BooleansOK'
    BY DEF Restart, BooleansOK
  <2>2. OthersOK'
    BY <1>2, JobTyped, PeriodAssumption DEF Restart, OthersOK, Commands, Off, Reports
  <2> QED
    BY <1>1, <2>1, <2>2 DEF TypeOK, BooleansOK, OthersOK
<1>4. Session'
  BY DEF Restart, Session, Disarmed
<1> QED
  BY <1>3, <1>4 DEF Base

\* What a step of a call to eSmartPlugSetPower leaves is of the right type.
LEMMA PlugTyped ==
  ASSUME Plug!TypeOK, NEW c \in {"rpc", "key"},
         Plug!Step(c) \/ \E value \in {0, 1} : Plug!Begin(c, value)
  PROVE  Plug!TypeOK'
<1>1. CASE \E value \in {0, 1} : Plug!Begin(c, value)
  BY <1>1 DEF Plug!Begin, Plug!Idle, Plug!TypeOK
<1>2. CASE Plug!Step(c)
  BY <1>2 DEF Plug!Step, Plug!WriteStatus, Plug!SwitchRelay, Plug!Branch, Plug!SetLed,
     Plug!Light, Plug!TypeOK, Plug!NoCall
<1> QED BY <1>1, <1>2

\* A timer that is not due counts down within its range, and stays armed or off.
LEMMA CountsDown ==
  ASSUME NEW most \in Nat \ {0}, NEW left \in {Off} \cup 0..most, left # 0
  PROVE  /\ CountDown(left) \in {Off} \cup 0..most
         /\ CountDown(left) = Off <=> left = Off
BY DEF CountDown, Off

LEMMA StepBase ==
  ASSUME Base, [Next]_vars
  PROVE  Base'
<1> USE PeriodAssumption DEF Base, Off, Commands
<1>0. ASSUME UNCHANGED plug PROVE Plug!TypeOK'
  BY <1>0 DEF TypeOK, plug, Plug!TypeOK
<1>1. CASE SessionStarts
  <2>1. BooleansOK'
    BY <1>1, TypeParts DEF SessionStarts, BooleansOK, work
  <2>2. OthersOK'
    BY <1>1, TypeParts DEF SessionStarts, OthersOK, Schedule, work
  <2>3. Session'
    <3>1. /\ informTimer' # Off /\ samplingTimer' # Off /\ link' = "online"
          /\ sessions' > 0 /\ UNCHANGED <<job, checked>>
      BY <1>1, TypeParts DEF SessionStarts, OthersOK, work
    <3> QED
      BY <3>1 DEF Session
  <2>4. Plug!TypeOK'
    BY <1>0, <1>1 DEF SessionStarts
  <2> QED
    BY <2>1, <2>2, <2>3, <2>4 DEF TypeOK, BooleansOK, OthersOK
<1>2. CASE AnswerCommand
  <2>1. BooleansOK'
    BY <1>2, TypeParts DEF AnswerCommand, Requested, conn, timer, work, data, BooleansOK
  <2>2. OthersOK'
    BY <1>2, TypeParts DEF AnswerCommand, Requested, conn, timer, work, data, OthersOK
  <2>3. Session'
    BY <1>2, TypeParts DEF AnswerCommand, Requested, conn, timer, work, data, Session, OthersOK
  <2>4. Plug!TypeOK'
    BY <1>0, <1>2 DEF AnswerCommand, Requested, conn, timer, work, data
  <2> QED
    BY <2>1, <2>2, <2>3, <2>4 DEF TypeOK, BooleansOK, OthersOK
<1>3. CASE ArmCommand
  <2>1. BooleansOK'
    BY <1>3, TypeParts DEF ArmCommand, Schedule, conn, work, data, BooleansOK
  <2>2. OthersOK'
    BY <1>3, TypeParts DEF ArmCommand, Schedule, conn, work, data, OthersOK
  <2>3. Session'
    BY <1>3, TypeParts DEF ArmCommand, Schedule, conn, work, data, Session, OthersOK
  <2>4. Plug!TypeOK'
    BY <1>0, <1>3 DEF ArmCommand, Schedule, conn, work, data
  <2> QED
    BY <2>1, <2>2, <2>3, <2>4 DEF TypeOK, BooleansOK, OthersOK
<1>4. CASE SetParameter
  BY <1>4, PlugTyped DEF SetParameter, Requested, TypeOK, Session, conn, timer, work, data
<1>5. CASE SetStep
  BY <1>5, PlugTyped DEF SetStep, TypeOK, Session, conn, task, timer, work, data
<1>6. CASE SetAnswered
  <2>1. BooleansOK'
    BY <1>6, TypeParts DEF SetAnswered, conn, timer, work, data, BooleansOK
  <2>2. OthersOK'
    BY <1>6, TypeParts DEF SetAnswered, conn, timer, work, data, OthersOK
  <2>3. Session'
    BY <1>6, TypeParts DEF SetAnswered, conn, timer, work, data, Session, OthersOK
  <2>4. Plug!TypeOK'
    BY <1>0, <1>6 DEF SetAnswered, conn, timer, work, data
  <2> QED
    BY <2>1, <2>2, <2>3, <2>4 DEF TypeOK, BooleansOK, OthersOK
<1>7. CASE StreamEnds
  <2>1. BooleansOK'
    BY <1>7, TypeParts DEF StreamEnds, task, timer, work, data, BooleansOK
  <2>2. OthersOK'
    BY <1>7, TypeParts DEF StreamEnds, task, timer, work, data, OthersOK
  <2>3. Session'
    BY <1>7, TypeParts DEF StreamEnds, task, timer, work, data, Session, OthersOK
  <2>4. Plug!TypeOK'
    BY <1>0, <1>7 DEF StreamEnds, task, timer, work, data
  <2> QED
    BY <2>1, <2>2, <2>3, <2>4 DEF TypeOK, BooleansOK, OthersOK
<1>8. CASE Disarm
  <2>1. BooleansOK'
    BY <1>8, TypeParts DEF Disarm, StopReports, task, work, data, BooleansOK
  <2>2. OthersOK'
    BY <1>8, TypeParts DEF Disarm, StopReports, task, work, data, OthersOK
  <2>3. Session'
    BY <1>8, TypeParts DEF Disarm, StopReports, task, work, data, Session, OthersOK
  <2>4. Plug!TypeOK'
    BY <1>0, <1>8 DEF Disarm, StopReports, task, work, data
  <2> QED
    BY <2>1, <2>2, <2>3, <2>4 DEF TypeOK, BooleansOK, OthersOK
<1>9. CASE SessionCrash
  BY <1>9, RestartBase DEF SessionCrash, TypeOK
<1>10. CASE RpcTimerFires
  <2>1. CASE Restart /\ erased' \in BOOLEAN
    BY <2>1, RestartBase
  <2>2. CASE rpcTimer.fn = "update" /\ rpcTimer' = Disarmed /\ job' = UpdateReport
             /\ UNCHANGED <<conn, task, informTimer, samplingTimer, checked, data, plug>>
    <3>1. job' \in Reports
      BY <2>2, JobTyped
    <3>2. rpcTimer' \in [fn : Commands \cup {"none", "update"}, left : {Off} \cup 0..RpcDelay]
      BY <2>2 DEF Disarmed
    <3>3. TypeOK'
      BY <1>0, <2>2, <3>1, <3>2 DEF TypeOK, conn, task, data, Reports
    <3>4. Session'
      BY <1>10, <2>2, TypeParts DEF RpcTimerFires, Free, Disarmed, OthersOK, Session, conn, task, data
    <3> QED
      BY <3>3, <3>4
  <2> QED
    BY <1>10, <2>1, <2>2 DEF RpcTimerFires, TypeOK
<1>11. CASE InformTimerFires
  <2>1. BooleansOK'
    BY <1>11, TypeParts DEF InformTimerFires, BooleansOK, conn, data
  <2>2. OthersOK'
    <3>1. job' \in Reports
      BY <1>11, JobTyped DEF InformTimerFires
    <3> QED
      BY <1>11, <3>1, TypeParts DEF InformTimerFires, OthersOK, conn, task, data, Reports
  <2>3. Session'
    BY <1>11, TypeParts DEF InformTimerFires, OthersOK, Free, Session, conn, task, data
  <2>4. Plug!TypeOK'
    BY <1>0, <1>11 DEF InformTimerFires
  <2> QED
    BY <2>1, <2>2, <2>3, <2>4 DEF TypeOK, BooleansOK, OthersOK
<1>12. CASE SamplingTimerFires
  <2>1. BooleansOK'
    BY <1>12, TypeParts DEF SamplingTimerFires, BooleansOK, conn
  <2>2. OthersOK'
    <3>1. job' \in Reports
      BY <1>12, JobTyped DEF SamplingTimerFires
    <3> QED
      BY <1>12, <3>1, TypeParts DEF SamplingTimerFires, OthersOK, conn, task, Reports
  <2>3. Session'
    BY <1>12, TypeParts DEF SamplingTimerFires, OthersOK, Free, Session, conn, task
  <2>4. Plug!TypeOK'
    BY <1>0, <1>12 DEF SamplingTimerFires
  <2> QED
    BY <2>1, <2>2, <2>3, <2>4 DEF TypeOK, BooleansOK, OthersOK
<1>13. CASE CheckStatus
  <2>1. BooleansOK'
    BY <1>13, TypeParts DEF CheckStatus, Finish, BooleansOK, conn
  <2>2. OthersOK'
    <3>1. job \in Reports
      BY TypeParts DEF OthersOK, Reports
    <3>2. job' \in Reports
      BY <1>13, <3>1, JobTyped DEF CheckStatus, Finish
    <3> QED
      BY <1>13, <3>2, TypeParts DEF CheckStatus, Finish, OthersOK, conn, task, timer, Reports
  <2>3. Session'
    BY <1>13, TypeParts
       DEF CheckStatus, Finish, get_xmpp_conn_status, Session, conn, task, timer
  <2>4. Plug!TypeOK'
    BY <1>0, <1>13 DEF CheckStatus
  <2> QED
    BY <2>1, <2>2, <2>3, <2>4 DEF TypeOK, BooleansOK, OthersOK
<1>14. CASE SendInform
  <2>1. CASE Restart /\ UNCHANGED erased
    BY <2>1, RestartBase DEF TypeOK
  <2>2. CASE link = "online" /\ checked' = FALSE /\ Finish(alive)
             /\ UNCHANGED <<conn, task, timer, erased, plug>>
    <3>1. BooleansOK'
      BY <2>2, TypeParts DEF Finish, BooleansOK, conn
    <3>2. OthersOK'
      <4>1. job \in Reports /\ job # <<>>
        BY <1>14, TypeParts DEF SendInform, OthersOK, Session, Reports
      <4>2. job' \in Reports
        BY <2>2, <4>1, JobTyped DEF Finish
      <4> QED
        BY <2>2, <4>2, TypeParts DEF Finish, OthersOK, conn, task, timer, Reports
    <3>3. Session'
      BY <2>2, TypeParts DEF Finish, Session, conn, task, timer
    <3>4. Plug!TypeOK'
      BY <1>0, <2>2
    <3> QED
      BY <3>1, <3>2, <3>3, <3>4 DEF TypeOK, BooleansOK, OthersOK
  <2> QED
    BY <1>14, <2>1, <2>2 DEF SendInform
<1>15. CASE ShortPress
  <2>1. 1 - smartplug_switch_status \in {0, 1}
    BY DEF TypeOK, Plug!TypeOK
  <2> QED
    BY <1>15, <2>1, PlugTyped DEF ShortPress, Toggled, TypeOK, Session, conn, task, timer, work, data
<1>16. CASE PressStep
  BY <1>16, PlugTyped DEF PressStep, TypeOK, Session, conn, task, timer, work, data
<1>17. CASE Tick
  <2>1. /\ rpcTimer.left # 0 /\ informTimer # 0 /\ samplingTimer # 0
        /\ informTimer' = CountDown(informTimer)
        /\ samplingTimer' = CountDown(samplingTimer)
        /\ rpcTimer' = [rpcTimer EXCEPT !.left = CountDown(@)]
        /\ UNCHANGED <<conn, task, work, data, plug>>
    BY <1>17 DEF Tick
  <2>2. BooleansOK'
    BY <2>1, TypeParts DEF BooleansOK, conn, work, data
  <2>t. /\ informTimer \in {Off} \cup 0..InformPeriod
        /\ samplingTimer \in {Off} \cup 0..SamplingPeriod
        /\ rpcTimer \in [fn : Commands \cup {"none", "update"}, left : {Off} \cup 0..RpcDelay]
        /\ rpcTimer.left \in {Off} \cup 0..RpcDelay
    BY TypeParts DEF OthersOK
  <2>3. /\ informTimer' \in {Off} \cup 0..InformPeriod
        /\ informTimer' = Off <=> informTimer = Off
    BY <2>1, <2>t, CountsDown
  <2>4. /\ samplingTimer' \in {Off} \cup 0..SamplingPeriod
        /\ samplingTimer' = Off <=> samplingTimer = Off
    BY <2>1, <2>t, CountsDown
  <2>5. /\ rpcTimer' \in [fn : Commands \cup {"none", "update"}, left : {Off} \cup 0..RpcDelay]
        /\ rpcTimer.left = Off => rpcTimer'.left = Off
    <3>1. /\ CountDown(rpcTimer.left) \in {Off} \cup 0..RpcDelay
          /\ rpcTimer.left = Off => CountDown(rpcTimer.left) = Off
      BY <2>1, <2>t, CountsDown
    <3> QED BY <2>1, <2>t, <3>1
  <2>6. OthersOK'
    BY <2>1, <2>3, <2>4, <2>5, TypeParts DEF OthersOK, conn, task, work, data
  <2>7. Session'
    BY <2>1, <2>3, <2>4, <2>5 DEF Session, conn, task, work, data
  <2>8. Plug!TypeOK'
    BY <1>0, <2>1
  <2> QED
    BY <2>2, <2>6, <2>7, <2>8 DEF TypeOK, BooleansOK, OthersOK
<1>18. CASE LoginFails
  <2>0. BooleansOK'
    BY <1>18, TypeParts DEF LoginFails, BooleansOK, work, data
  <2>1. OthersOK'
    BY <1>18, TypeParts DEF LoginFails, OthersOK, task, timer, work, data
  <2>2. Session'
    <3>1. /\ link = "login" /\ link' \in {"closing", "gone"}
          /\ UNCHANGED <<alive, sessions, informTimer, samplingTimer, job, checked>>
      BY <1>18 DEF LoginFails, task, timer, work
    <3> QED
      BY <3>1 DEF Session
  <2>3. Plug!TypeOK'
    BY <1>0, <1>18 DEF LoginFails
  <2> QED
    BY <2>0, <2>1, <2>2, <2>3 DEF TypeOK, BooleansOK, OthersOK
<1>19. CASE ServerDies
  <2>0. BooleansOK'
    BY <1>19, TypeParts DEF ServerDies, BooleansOK, work, data
  <2>1. OthersOK'
    BY <1>19, TypeParts DEF ServerDies, OthersOK, task, timer, work, data
  <2>2. Session'
    <3>1. /\ alive' = FALSE /\ link' = link /\ sessions' = sessions /\ rpc' = rpc
          /\ owed' = owed /\ informTimer' = informTimer /\ samplingTimer' = samplingTimer
          /\ rpcTimer' = rpcTimer /\ job' = job /\ checked' = checked
          /\ stored' = stored /\ lost' = lost
      BY <1>19 DEF ServerDies, task, timer, work, data
    <3>2. Session /\ alive' = FALSE
      BY <3>1
    <3> QED
      BY <3>1, <3>2, Zenon DEF Session
  <2>3. Plug!TypeOK'
    BY <1>0, <1>19 DEF ServerDies
  <2> QED
    BY <2>0, <2>1, <2>2, <2>3 DEF TypeOK, BooleansOK, OthersOK
<1>20. CASE UNCHANGED vars
  <2>1. BooleansOK'
    BY <1>20, TypeParts DEF vars, conn, task, timer, work, data, BooleansOK
  <2>2. OthersOK'
    BY <1>20, TypeParts DEF vars, conn, task, timer, work, data, OthersOK
  <2>3. Session'
    BY <1>20, TypeParts DEF vars, conn, task, timer, work, data, Session, OthersOK
  <2>4. Plug!TypeOK'
    BY <1>0, <1>20 DEF vars, conn, task, timer, work, data
  <2> QED
    BY <2>1, <2>2, <2>3, <2>4 DEF TypeOK, BooleansOK, OthersOK
<1> QED
  BY <1>1, <1>2, <1>3, <1>4, <1>5, <1>6, <1>7, <1>8, <1>9, <1>10, <1>11, <1>12, <1>13,
     <1>14, <1>15, <1>16, <1>17, <1>18, <1>19, <1>20
     DEF Next, ClientStep, TimerStep, Environment

\* Every variable keeps its type.
THEOREM TypeCorrect == Spec => []TypeOK
<1>1. Spec => []Base
  BY InitBase, StepBase, PTL DEF Spec
<1>2. Base => TypeOK
  BY DEF Base
<1> QED
  BY <1>1, <1>2, PTL

-----------------------------------------------------------------------------
(* The relay.  A call that runs alone knows at each step what it has       *)
(* already written, and leaves all three outputs equal.                    *)

Written(c) ==
  /\ call[c].at = "relay" => smartplug_switch_status = call[c].value
  /\ call[c].at = "branch" => relay = smartplug_switch_status
  /\ call[c].at = "led" => /\ relay = smartplug_switch_status
                           /\ call[c].value = smartplug_switch_status

PlugSound ==
  ~overlapped => /\ Plug!Idle("rpc") \/ Plug!Idle("key")
                 /\ Written("rpc") /\ Written("key")
                 /\ Plug!Agrees

LEMMA PlugStep ==
  ASSUME Plug!TypeOK, PlugSound, NEW c \in {"rpc", "key"},
         Plug!Step(c) \/ \E value \in {0, 1} : Plug!Begin(c, value)
  PROVE  PlugSound'
<1> USE DEF PlugSound, Written, Plug!TypeOK, Plug!Idle, Plug!Agrees
<1>1. CASE \E value \in {0, 1} : Plug!Begin(c, value)
  BY <1>1 DEF Plug!Begin
<1>2. CASE Plug!WriteStatus(c)
  BY <1>2 DEF Plug!WriteStatus
<1>3. CASE Plug!SwitchRelay(c)
  BY <1>3 DEF Plug!SwitchRelay
<1>4. CASE Plug!Branch(c)
  BY <1>4 DEF Plug!Branch
<1>5. CASE Plug!SetLed(c)
  BY <1>5 DEF Plug!SetLed, Plug!Light, Plug!NoCall
<1> QED
  BY <1>1, <1>2, <1>3, <1>4, <1>5 DEF Plug!Step

LEMMA PlugReset ==
  ASSUME Restart
  PROVE  PlugSound'
BY DEF Restart, Plug!Restart, PlugSound, Written, Plug!Idle, Plug!Agrees, Plug!NoCall

\* The button and the server may switch the relay at the same moment; once a call
\* has run alone, the relay, its LED and the reported status agree.
THEOREM RelaySound == Spec => []RelayAgrees
<1>1. Init => PlugSound
  BY DEF Init, Plug!Init, PlugSound, Written, Plug!Idle, Plug!Agrees, Plug!NoCall
<1>2. ASSUME Base, PlugSound, [Next]_vars
      PROVE  PlugSound'
  <2> USE <1>2
  <2>0. Plug!TypeOK
    BY DEF Base, TypeOK
  <2>1. CASE UNCHANGED plug
    BY <2>1 DEF plug, PlugSound, Written, Plug!Idle, Plug!Agrees
  <2>2. CASE Restart
    BY <2>2, PlugReset
  <2>3. CASE SetParameter \/ SetStep \/ PressStep
    BY <2>0, <2>3, PlugStep DEF SetParameter, SetStep, PressStep
  <2>4. CASE ShortPress
    <3>1. 1 - smartplug_switch_status \in {0, 1}
      BY <2>0 DEF Plug!TypeOK
    <3> QED
      BY <2>0, <2>4, <3>1, PlugStep DEF ShortPress, Toggled
  <2>5. UNCHANGED plug \/ Restart \/ SetParameter \/ SetStep \/ PressStep \/ ShortPress
    BY DEF Next, ClientStep, TimerStep, Environment, SessionStarts, AnswerCommand, ArmCommand,
       SetAnswered, StreamEnds, Disarm, SessionCrash, RpcTimerFires, InformTimerFires,
       SamplingTimerFires, CheckStatus, SendInform, Tick, LoginFails, ServerDies, vars
  <2> QED
    BY <2>1, <2>2, <2>3, <2>4, <2>5
<1>3. ~overlapped /\ PlugSound => RelayAgrees
  BY DEF PlugSound, RelayAgrees
<1>4. overlapped => RelayAgrees
  BY DEF RelayAgrees, Plug!Agrees
<1>5. PlugSound => RelayAgrees
  BY <1>3, <1>4
<1> QED
  BY <1>1, <1>2, <1>5, InitBase, StepBase, PTL DEF Spec

-----------------------------------------------------------------------------
(* The shared timer.                                                       *)

Answered == rpc \in Commands => rpc = owed

\* Whatever re-arms xmpp_rpc_timer, it is armed with the command acknowledged last,
\* or with none once the first update of a new session has taken it.
THEOREM ArmedAsOwed == Spec => []ArmedIsOwed
<1> DEFINE Inv == Answered /\ ArmedIsOwed
<1>1. Init => Inv
  BY DEF Init, Answered, ArmedIsOwed, Pending, Disarmed, Commands
<1>2. ASSUME Base, Inv, [Next]_vars
      PROVE  Inv'
  <2> USE <1>2 DEF Answered, ArmedIsOwed, Pending, Commands, Off
  <2>0. OthersOK
    BY TypeParts DEF Base
  <2>1. CASE Restart
    BY <2>1 DEF Restart, Disarmed
  <2>2. CASE SessionStarts
    BY <2>2 DEF SessionStarts, Schedule
  <2>3. CASE AnswerCommand
    BY <2>3 DEF AnswerCommand, Requested
  <2>4. CASE ArmCommand
    BY <2>0, <2>4, PeriodAssumption DEF ArmCommand, Schedule
  <2>5. CASE SetParameter \/ SetAnswered
    BY <2>5 DEF SetParameter, SetAnswered, Requested, timer
  <2>6. CASE RpcTimerFires /\ rpcTimer' = Disarmed /\ UNCHANGED task
    BY <2>0, <2>6 DEF RpcTimerFires, Disarmed, Restart, task
  <2>7. CASE Tick
    BY <2>0, <2>7 DEF Tick, CountDown, OthersOK, task
  <2>8. CASE UNCHANGED <<rpc, owed, rpcTimer>>
    BY <2>8
  <2>9. \/ Restart \/ SessionStarts \/ AnswerCommand \/ ArmCommand \/ SetParameter
        \/ SetAnswered \/ (RpcTimerFires /\ rpcTimer' = Disarmed /\ UNCHANGED task)
        \/ Tick \/ UNCHANGED <<rpc, owed, rpcTimer>>
    BY DEF Next, ClientStep, TimerStep, Environment, SetStep, StreamEnds, Disarm, StopReports,
       SessionCrash, RpcTimerFires, InformTimerFires, SamplingTimerFires, CheckStatus,
       SendInform, PressStep, ShortPress, LoginFails, ServerDies, vars, task, timer
  <2> QED
    BY <2>1, <2>2, <2>3, <2>4, <2>5, <2>6, <2>7, <2>8, <2>9
<1>3. Inv => ArmedIsOwed
  OBVIOUS
<1> QED
  BY <1>1, <1>2, <1>3, InitBase, StepBase, PTL DEF Spec

-----------------------------------------------------------------------------
\* What CwmpInformHistoryData clears unsent was dropped after the end of the stream
\* or sent to a server that is gone: as long as a session is up and its server
\* there, every sample taken since the restart has reached it or is still stored.
THEOREM SamplesKept == Spec => [](lost => link # "online" \/ ~alive)
<1> DEFINE Kept == lost => link # "online" \/ ~alive
<1>1. Init => Kept
  BY DEF Init
<1>2. ASSUME Base, Kept, [Next]_vars
      PROVE  Kept'
  <2> USE <1>2 DEF Base, Session
  <2>1. CASE Restart
    BY <2>1 DEF Restart
  <2>2. CASE SessionStarts
    BY <2>2 DEF SessionStarts
  <2>3. CASE CheckStatus
    BY <2>3 DEF CheckStatus, Finish, get_xmpp_conn_status, conn
  <2>4. CASE SendInform
    BY <2>1, <2>4 DEF SendInform, Finish, conn
  <2>5. CASE StreamEnds \/ ServerDies \/ Disarm \/ LoginFails
    BY <2>5 DEF StreamEnds, ServerDies, Disarm, LoginFails, data
  <2>6. CASE UNCHANGED <<lost, link, alive>>
    BY <2>6
  <2>7. \/ Restart \/ SessionStarts \/ CheckStatus \/ SendInform \/ StreamEnds \/ ServerDies
        \/ Disarm \/ LoginFails \/ UNCHANGED <<lost, link, alive>>
    BY DEF Next, ClientStep, TimerStep, Environment, AnswerCommand, ArmCommand, SetParameter,
       SetStep, SetAnswered, SessionCrash, RpcTimerFires, InformTimerFires,
       SamplingTimerFires, PressStep, ShortPress, Tick, vars, conn, data
  <2> QED
    BY <2>1, <2>2, <2>3, <2>4, <2>5, <2>6, <2>7
<1> HIDE DEF Kept
<1>3. Spec => []Kept
  BY <1>1, <1>2, InitBase, StepBase, PTL DEF Spec
<1> QED
  BY <1>3 DEF Kept

-----------------------------------------------------------------------------
(* The number of samples.  Between two informs the timers themselves count *)
(* the samples: a sampling period has passed for each but the first.       *)

PerSession == InformPeriod \div SamplingPeriod + 1

LEMMA DivFits ==
  ASSUME NEW i \in Nat, NEW s \in Nat \ {0}, NEW e \in Int, e * s <= i
  PROVE  e <= i \div s
<1> DEFINE q == i \div s
<1>1. q \in Int /\ i < (q + 1) * s
  OBVIOUS
<1>2. SUFFICES ASSUME e >= q + 1 PROVE FALSE
  BY <1>1
<1> HIDE DEF q
<1>3. e * s >= (q + 1) * s
  BY <1>1, <1>2
<1> QED
  BY <1>1, <1>3

LEMMA PerSessionType == PerSession \in Nat \ {0}
BY PeriodAssumption DEF PerSession

Counted == (stored - (sessions - 1) * PerSession) * SamplingPeriod
             <= InformPeriod - informTimer + samplingTimer

Reporting == job # <<>> /\ Head(job) = "history"

HistoryBound == HistoryFits /\ (informTimer # Off => Reporting \/ Counted)

\* The arithmetic of a start, of a sample and of a clearing.
LEMMA Fits ==
  ASSUME NEW n \in Nat, NEW k \in Nat, NEW b \in Nat \ {0}, NEW s \in Nat \ {0}
  PROVE  /\ n <= k * b => n <= (k + 1) * b /\ (n - k * b) * s <= 0
         /\ k > 0 => 0 <= k * b /\ (0 - (k - 1) * b) * s <= 0
         /\ 0 <= k * b
         /\ (n - (k - 1) * b) \in Int /\ (n + 1 - (k - 1) * b) = (n - (k - 1) * b) + 1
         /\ \A m \in Int : (m + 1) * s = m * s + s
<1>1. k * b \in Nat /\ (k + 1) * b = k * b + b /\ (k - 1) * b = k * b - b
  OBVIOUS
<1>2. \A m \in Int : m <= 0 => m * s <= 0
  OBVIOUS
<1>3. n <= k * b => n <= (k + 1) * b /\ (n - k * b) * s <= 0
  BY <1>1, <1>2
<1>4. k > 0 => (k - 1) * b \in Nat
  OBVIOUS
<1>5. k > 0 => (0 - (k - 1) * b) * s <= 0
  BY <1>2, <1>4
<1>6. \A m \in Int : (m + 1) * s = m * s + s
  OBVIOUS
<1> QED
  BY <1>1, <1>3, <1>5, <1>6

\* A sample taken when its timer is due fits, because no more than an inform period
\* has passed.
LEMMA SampleFits ==
  ASSUME Base, HistoryBound, SamplingTimerFires
  PROVE  HistoryBound'
<1> DEFINE e == stored - (sessions - 1) * PerSession
           k == sessions * PerSession
<1>1. /\ sessions \in Nat /\ stored \in Nat /\ samplingTimer = 0
      /\ informTimer \in 0..InformPeriod /\ job = <<>>
  BY TypeParts, PeriodAssumption
     DEF Base, Session, OthersOK, SamplingTimerFires, Free, Off
<1>2. stored' = stored + 1 /\ samplingTimer' = SamplingPeriod
      /\ UNCHANGED <<sessions, informTimer>>
  BY DEF SamplingTimerFires, conn
<1>3. e \in Int /\ e * SamplingPeriod <= InformPeriod - informTimer
  BY <1>1, PerSessionType, PeriodAssumption DEF HistoryBound, Counted, Reporting, Off
<1>4. e <= InformPeriod \div SamplingPeriod
  <2>1. InformPeriod \in Nat /\ e * SamplingPeriod <= InformPeriod
    <3> HIDE DEF e
    <3> QED BY <1>1, <1>3, PeriodAssumption
  <2> QED
    BY <1>3, <2>1, DivFits, PeriodAssumption
<1>5. stored + 1 <= sessions * PerSession
  <2>1. e + 1 <= PerSession
    BY <1>3, <1>4, PeriodAssumption DEF PerSession
  <2>2. (sessions - 1) * PerSession = k - PerSession /\ k \in Int
    BY <1>1, PerSessionType
  <2> QED
    BY <1>1, <2>1, <2>2, PerSessionType
<1>6. (e + 1) * SamplingPeriod <= InformPeriod - informTimer + SamplingPeriod
  <2> HIDE DEF e
  <2>1. (e + 1) * SamplingPeriod = e * SamplingPeriod + SamplingPeriod
        /\ e * SamplingPeriod \in Int
    BY <1>3, PeriodAssumption
  <2> QED
    BY <1>1, <1>3, <2>1, PeriodAssumption
<1>7. stored' - (sessions' - 1) * PerSession = e + 1
  BY <1>1, <1>2, PerSessionType
<1>8. Counted'
  BY <1>2, <1>6, <1>7 DEF Counted
<1>9. HistoryFits'
  BY <1>2, <1>5 DEF HistoryFits, PerSession
<1> QED
  BY <1>8, <1>9 DEF HistoryBound

\* A step that clears the samples, or starts with none.
LEMMA EmptyFits ==
  ASSUME Base, Base', stored' = 0, sessions' = sessions, informTimer' # Off
  PROVE  HistoryFits' /\ Counted'
<1>1. /\ sessions \in Nat /\ sessions > 0
      /\ informTimer' \in 0..InformPeriod /\ samplingTimer' \in 0..SamplingPeriod
  BY TypeParts, PeriodAssumption DEF Base, Session, TypeOK, OthersOK, Off
<1>2. 0 <= sessions * PerSession /\ (0 - (sessions - 1) * PerSession) * SamplingPeriod <= 0
      /\ (0 - (sessions - 1) * PerSession) * SamplingPeriod \in Int
  BY <1>1, Fits, PerSessionType, PeriodAssumption
<1>3. HistoryFits'
  BY <1>2 DEF HistoryFits, PerSession
<1>4. Counted'
  <2> DEFINE x == (0 - (sessions - 1) * PerSession) * SamplingPeriod
  <2>1. x <= InformPeriod - informTimer' + samplingTimer'
    <3> HIDE DEF x
    <3>1. x \in Int /\ x <= 0
      BY <1>2 DEF x
    <3> DEFINE y == InformPeriod - informTimer' + samplingTimer'
    <3>2. y \in Int /\ 0 <= y
      <4>1. \A i \in 0..InformPeriod, t \in 0..SamplingPeriod :
               InformPeriod - i + t \in Int /\ 0 <= InformPeriod - i + t
        BY PeriodAssumption
      <4> QED BY <1>1, <4>1
    <3> HIDE DEF y
    <3>3. x <= y
      BY <3>1, <3>2
    <3> QED BY <3>3 DEF y
  <2> QED
    BY <2>1 DEF Counted
<1> QED BY <1>3, <1>4

\* So does a step of a report: the samples are cleared, or it was another report.
LEMMA FinishFits ==
  ASSUME Base, Base', HistoryBound, NEW sent, Finish(sent), job # <<>>,
         UNCHANGED <<conn, timer>>
  PROVE  HistoryBound'
<1>1. UNCHANGED <<sessions, informTimer, samplingTimer>>
  BY DEF conn, timer
<1>2. CASE Head(job) = "history"
  <2>1. stored' = 0
    BY <1>2 DEF Finish
  <2>2. CASE informTimer' # Off
    BY <1>1, <2>1, <2>2, EmptyFits DEF HistoryBound
  <2>3. CASE informTimer' = Off
    <3>1. sessions \in Nat
      BY TypeParts, PeriodAssumption DEF Base, OthersOK
    <3>2. 0 <= sessions * PerSession
      BY <3>1, Fits, PerSessionType, PeriodAssumption
    <3> QED
      BY <1>1, <2>1, <2>3, <3>2 DEF HistoryBound, HistoryFits, PerSession
  <2> QED BY <2>2, <2>3
<1>3. CASE Head(job) # "history"
  <2>1. stored' = stored
    BY <1>3 DEF Finish
  <2> QED
    BY <1>1, <1>3, <2>1 DEF HistoryBound, HistoryFits, Reporting, Counted
<1> QED BY <1>2, <1>3

LEMMA StepHistory ==
  ASSUME Base, Base', HistoryBound, [Next]_vars
  PROVE  HistoryBound'
<1>0. OthersOK /\ OthersOK' /\ Session /\ Session'
  BY TypeParts DEF Base, TypeOK, OthersOK
<1>1. CASE Restart
  BY <1>1, PerSessionType DEF Restart, HistoryBound, HistoryFits, PerSession
<1>2. CASE SessionStarts
  <2>1. /\ sessions \in Nat /\ stored \in Nat /\ stored' = stored /\ sessions' = sessions + 1
        /\ informTimer' = InformPeriod /\ samplingTimer' = SamplingPeriod
    BY <1>0, <1>2, PeriodAssumption DEF OthersOK, SessionStarts
  <2>2. stored <= sessions * PerSession
    BY DEF HistoryBound, HistoryFits, PerSession
  <2>3. /\ stored <= (sessions + 1) * PerSession
        /\ (stored - sessions * PerSession) * SamplingPeriod <= 0
    BY <2>1, <2>2, Fits, PerSessionType, PeriodAssumption
  <2>4. Counted'
    <3>1. (stored - ((sessions + 1) - 1) * PerSession) * SamplingPeriod <= 0
      BY <2>1, <2>3
    <3>2. 0 <= InformPeriod - informTimer' + samplingTimer'
      BY <2>1, PeriodAssumption
    <3>3. (stored - ((sessions + 1) - 1) * PerSession) * SamplingPeriod \in Int
      BY <2>1, PerSessionType, PeriodAssumption
    <3> DEFINE x == (stored - ((sessions + 1) - 1) * PerSession) * SamplingPeriod
               y == InformPeriod - informTimer' + samplingTimer'
    <3>4. x <= y
      <4>1. x \in Int /\ y \in Int /\ x <= 0 /\ 0 <= y
        BY <2>1, <3>1, <3>2, <3>3, PeriodAssumption
      <4> HIDE DEF x, y
      <4> QED BY <4>1
    <3> QED
      BY <2>1, <3>4 DEF Counted
  <2> QED
    BY <2>1, <2>3, <2>4 DEF HistoryBound, HistoryFits, PerSession
<1>3. CASE InformTimerFires
  <2>1. UNCHANGED <<sessions, stored>> /\ informTimer' # Off
    BY <1>3, PeriodAssumption DEF InformTimerFires, conn, data, Off
  <2>2. CASE stored = 0
    BY <2>1, <2>2, EmptyFits DEF HistoryBound
  <2>3. CASE stored # 0
    <3>0. stored > 0
      BY <1>0, <2>3 DEF OthersOK
    <3>1. job' = <<"history">> \o UpdateReport
      BY <1>3, <3>0 DEF InformTimerFires
    <3>2. Reporting'
      BY <3>1 DEF Reporting, UpdateReport
    <3> QED
      BY <2>1, <3>2 DEF HistoryBound, HistoryFits
  <2> QED BY <2>2, <2>3
<1>4. CASE SamplingTimerFires
  BY <1>4, SampleFits
<1>5. CASE RpcTimerFires /\ UNCHANGED <<conn, informTimer, samplingTimer, data>>
  BY <1>5 DEF RpcTimerFires, Free, Restart, HistoryBound, HistoryFits, Reporting, Counted, conn, data
<1>6. CASE CheckStatus
  <2>1. CASE Finish(FALSE)
    BY <1>6, <2>1, FinishFits DEF CheckStatus
  <2>2. CASE UNCHANGED <<job, stored>>
    BY <1>6, <2>2
       DEF CheckStatus, HistoryBound, HistoryFits, Reporting, Counted, conn, timer
  <2> QED BY <1>6, <2>1, <2>2 DEF CheckStatus
<1>7. CASE SendInform
  <2>1. job # <<>>
    BY <1>0, <1>7 DEF SendInform, Session
  <2> QED
    BY <1>1, <1>7, <2>1, FinishFits DEF SendInform
<1>8. CASE Tick
  <2>1. CASE informTimer = Off
    BY <1>8, <2>1 DEF Tick, CountDown, HistoryBound, HistoryFits, conn, data
  <2>2. CASE informTimer # Off
    <3>t. informTimer \in Int /\ samplingTimer \in Int /\ samplingTimer # Off
      BY <1>0, <2>2, PeriodAssumption DEF OthersOK, Session, Off
    <3>u. informTimer' = informTimer - 1 /\ samplingTimer' = samplingTimer - 1
      BY <1>8, <2>2, <3>t DEF Tick, CountDown
    <3>v. UNCHANGED <<sessions, stored, job>>
      BY <1>8 DEF Tick, conn, data, work
    <3>1. /\ InformPeriod - informTimer' + samplingTimer' = InformPeriod - informTimer + samplingTimer
          /\ UNCHANGED <<sessions, stored, job>>
      BY <3>t, <3>u, <3>v, PeriodAssumption
    <3> QED
      BY <2>2, <3>1 DEF HistoryBound, HistoryFits, Reporting, Counted
  <2> QED BY <2>1, <2>2
<1>9. CASE Disarm
  BY <1>9 DEF Disarm, StopReports, HistoryBound, HistoryFits, data
<1>10. CASE UNCHANGED <<stored, sessions, informTimer, samplingTimer, job>>
  BY <1>10 DEF HistoryBound, HistoryFits, Reporting, Counted
<1>11. \/ Restart \/ SessionStarts \/ InformTimerFires \/ SamplingTimerFires
       \/ (RpcTimerFires /\ UNCHANGED <<conn, informTimer, samplingTimer, data>>)
       \/ CheckStatus \/ SendInform \/ Tick \/ Disarm
       \/ UNCHANGED <<stored, sessions, informTimer, samplingTimer, job>>
  BY DEF Next, ClientStep, TimerStep, Environment, AnswerCommand, ArmCommand, SetParameter,
     SetStep, SetAnswered, StreamEnds, SessionCrash, RpcTimerFires, PressStep, ShortPress,
     LoginFails, ServerDies, vars, conn, timer, work, data
<1> QED
  BY <1>1, <1>2, <1>3, <1>4, <1>5, <1>6, <1>7, <1>8, <1>9, <1>10, <1>11

\* The buffer of an inform never gets more samples than the timers can take between
\* two informs, however long the device is offline or its reports are dropped.
THEOREM HistoryBounded == Spec => []HistoryFits
<1>1. Init => HistoryBound
  BY PerSessionType DEF Init, HistoryBound, HistoryFits, PerSession, Off
<1>2. HistoryBound => HistoryFits
  BY DEF HistoryBound
<1> QED
  BY <1>1, <1>2, InitBase, StepBase, StepHistory, PTL DEF Spec

-----------------------------------------------------------------------------
(* The contracts.                                                          *)

\* The session this module assumes is the one XmppSession promises.
THEOREM SessionIsLink == Spec => Link!Spec
<1>1. Init => Link!Init
  BY DEF Init, Link!Init, Off
<1>2. ASSUME Base, [Next]_vars
      PROVE  [Link!Next]_(Link!vars)
  <2> USE <1>2, PeriodAssumption DEF Off, Link!Next, Link!vars
  <2>0. OthersOK /\ Session
    BY TypeParts DEF Base
  <2>1. CASE Restart
    BY <2>1 DEF Restart, Link!Restart
  <2>2. CASE SessionStarts
    BY <2>0, <2>2 DEF SessionStarts, Session, Link!GoOnline
  <2>3. CASE StreamEnds \/ LoginFails
    BY <2>3 DEF StreamEnds, LoginFails, timer, Link!Close, Link!GiveUp
  <2>4. CASE Disarm
    BY <2>4 DEF Disarm, StopReports, Link!Stop
  <2>5. CASE InformTimerFires
    BY <2>5 DEF InformTimerFires, conn
  <2>6. CASE Tick
    BY <2>0, <2>6 DEF Tick, CountDown, OthersOK, conn
  <2>7. CASE UNCHANGED <<link, informTimer>>
    BY <2>7
  <2>8. \/ Restart \/ SessionStarts \/ StreamEnds \/ LoginFails \/ Disarm \/ InformTimerFires
        \/ Tick \/ UNCHANGED <<link, informTimer>>
    BY DEF Next, ClientStep, TimerStep, Environment, AnswerCommand, ArmCommand, SetParameter,
       SetStep, SetAnswered, SessionCrash, RpcTimerFires, SamplingTimerFires, CheckStatus,
       SendInform, PressStep, ShortPress, ServerDies, vars, conn, timer
  <2> QED
    BY <2>1, <2>2, <2>3, <2>4, <2>5, <2>6, <2>7, <2>8
<1> QED
  BY <1>1, <1>2, InitBase, StepBase, PTL DEF Spec, Link!Spec

CommandStep == [Command!Next]_(Command!vars)

\* A restart that erases nothing is one for another reason.
LEMMA RestartMeets ==
  ASSUME Base, Restart, link # "login", UNCHANGED erased
  PROVE  CommandStep
BY DEF CommandStep, Restart, Command!Next, Command!Restart, Pending, Disarmed, Off, Commands

\* A command is carried out as it was ordered, survives the session, and nothing
\* else erases the saved parameters: every step is one of the contract, or none.
THEOREM CommandsAsContracted == Spec => CommandContract
<1>1. Init => Command!Init
  BY DEF Init, Command!Init, Pending, Disarmed, Commands
<1>2. ASSUME Base, [Next]_vars
      PROVE  CommandStep
  <2> USE <1>2
  <2>0. OthersOK /\ Session
    BY TypeParts DEF Base
  <2>1. CASE SessionStarts
    BY <2>0, <2>1, PeriodAssumption
       DEF SessionStarts, Schedule, Pending, Commands, Session,
           CommandStep, Command!Next, Command!Serve, Command!Renew
  <2>2. CASE ArmCommand
    <3>1. Command!Order(rpc)
      BY <2>0, <2>2, PeriodAssumption
         DEF ArmCommand, Schedule, Pending, Commands, Off, Session, conn, data, Command!Order
    <3>2. rpc \in Command!Commands
      BY <2>2 DEF ArmCommand, Commands, Command!Commands
    <3> QED
      BY <3>1, <3>2 DEF CommandStep, Command!Next
  <2>3. CASE StreamEnds \/ ServerDies
    BY <2>0, <2>3 DEF StreamEnds, ServerDies, Session, Pending, timer, data,
       CommandStep, Command!Next, Command!Lose
  <2>4. CASE LoginFails
    BY <2>0, <2>4 DEF LoginFails, Session, Pending, timer, data,
       CommandStep, Command!Next, Command!Lose
  <2>5. CASE SessionCrash
    BY <2>5, RestartMeets DEF SessionCrash
  <2>6. CASE SendInform /\ link # "online"
    <3>1. link # "login"
      BY <2>0, <2>6 DEF SendInform, Session
    <3> QED
      BY <2>6, <3>1, RestartMeets DEF SendInform
  <2>7. CASE RpcTimerFires /\ rpcTimer.fn \in Commands
    <3>1. Pending = rpcTimer.fn /\ Pending \in Command!Commands
      BY <2>7 DEF RpcTimerFires, Pending, Commands, Off, Command!Commands
    <3>2. Restart /\ erased' = (erased \/ rpcTimer.fn = "reset")
      <4>1. CASE rpcTimer.fn = "reboot"
        <5>1. erased \in BOOLEAN
          BY TypeParts DEF Base, BooleansOK
        <5> QED
          BY <2>7, <4>1, <5>1 DEF RpcTimerFires
      <4>2. CASE rpcTimer.fn = "reset"
        BY <2>7, <4>2 DEF RpcTimerFires
      <4> QED
        BY <2>7, <4>1, <4>2 DEF Commands
    <3>3. Pending' = "none" /\ link' = "login"
      BY <3>2 DEF Restart, Pending, Disarmed, Commands
    <3>4. Command!CarryOut
      BY <3>1, <3>2, <3>3 DEF Command!CarryOut
    <3> QED
      BY <3>4 DEF CommandStep, Command!Next
  <2>8. CASE RpcTimerFires /\ rpcTimer.fn \notin Commands
    BY <2>8 DEF RpcTimerFires, Pending, Disarmed, Commands, conn, data, CommandStep, Command!vars
  <2>9. CASE Tick
    BY <2>0, <2>9 DEF Tick, CountDown, OthersOK, Pending, Off, conn, data,
       CommandStep, Command!vars
  <2>10. CASE UNCHANGED <<link, alive, rpcTimer, erased>>
    BY <2>10 DEF Pending, CommandStep, Command!vars
  <2>11. CASE Disarm
    BY <2>0, <2>11 DEF Disarm, StopReports, Session, Pending, data, CommandStep, Command!vars
  <2>12. \/ SessionStarts \/ ArmCommand \/ StreamEnds \/ ServerDies \/ LoginFails \/ SessionCrash
         \/ (SendInform /\ link # "online") \/ RpcTimerFires \/ Tick \/ Disarm
         \/ UNCHANGED <<link, alive, rpcTimer, erased>>
    BY DEF Next, ClientStep, TimerStep, Environment, AnswerCommand, SetParameter,
       SetStep, SetAnswered, InformTimerFires, SamplingTimerFires, CheckStatus,
       SendInform, PressStep, ShortPress, vars, conn, timer, data
  <2> QED
    BY <2>1, <2>2, <2>3, <2>4, <2>5, <2>6, <2>7, <2>8, <2>9, <2>10, <2>11, <2>12
<1> QED
  BY <1>1, <1>2, InitBase, StepBase, PTL DEF Spec, CommandContract, Command!Spec, CommandStep

\* The saved parameters are erased only by a factory reset that no other command
\* has replaced: when they go, it is what the server was answered last, or the
\* handler of the reboot that replaces it has answered and not reached the timer
\* (CwmpRpcReboot answers before it re-arms xmpp_rpc_timer).
THEOREM OnlyResetErases ==
  Spec => [][~erased /\ erased' => owed = "reset" \/ rpc = "reboot"]_vars
<1>1. ASSUME Base, ArmedIsOwed, [Next]_vars, ~erased, erased'
      PROVE  owed = "reset" \/ rpc = "reboot"
  <2>1. RpcTimerFires /\ rpcTimer.fn = "reset"
    BY <1>1 DEF Next, ClientStep, TimerStep, Environment, SessionStarts, AnswerCommand,
       ArmCommand, SetParameter, SetStep, SetAnswered, StreamEnds, Disarm, SessionCrash,
       RpcTimerFires, InformTimerFires, SamplingTimerFires, CheckStatus, SendInform,
       PressStep, ShortPress, Tick, LoginFails, ServerDies, vars, data
  <2>2. Pending = "reset"
    BY <2>1 DEF RpcTimerFires, Pending, Commands, Off
  <2> QED
    BY <1>1, <2>2 DEF ArmedIsOwed, Commands
<1>2. Base /\ ArmedIsOwed /\ [Next]_vars
      => [~erased /\ erased' => owed = "reset" \/ rpc = "reboot"]_vars
  BY <1>1
<1> QED
  BY <1>2, ArmedAsOwed, InitBase, StepBase, PTL DEF Spec
=============================================================================
