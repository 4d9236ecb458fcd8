--------------------------- MODULE XmppSessionProofs ---------------------------
(***************************************************************************)
(* Proofs about XmppSession, for any periods, limits, ping ids and server: *)
(* the login, the ping watchdog, the contract of XmppLink, and that a      *)
(* served device stays online.                                             *)
(***************************************************************************)
EXTENDS XmppSession, TLAPS

\* The types in three parts.
Booleans == /\ open \in BOOLEAN /\ authorized \in BOOLEAN
            /\ reporting \in BOOLEAN /\ alive \in BOOLEAN
            /\ forgotten \in BOOLEAN

Sets ==
  /\ features \in SUBSET {"session"}
  /\ hooks \in SUBSET {"bind", "conn", "iq"}
  /\ pongRules \in SUBSET RuleIds
  /\ asked \in SUBSET {"header", "sasl", "bind", "auth"}
  /\ net \in [PingIds -> Remaining(MaxDelay)]
  /\ rx \in Packets \cup {NoPacket}

Plain ==
  /\ pc \in {"boot", "loop", "disarm"}
  /\ status \in {0, 1}
  /\ queue \in 0..QueueLen
  /\ missed \in 0..MissLimit
  /\ pingTimer \in Remaining(PingPeriod) /\ pongTimer \in Remaining(PongTimeout)
  /\ callback \in {"none", "count", "unhook", "walk", "check"}
  /\ loaded \in 0..MissLimit
  /\ pinged \in 0..(MissLimit + 1)

LEMMA TypeParts == TypeOK <=> Booleans /\ Sets /\ Plain
BY DEF TypeOK, Booleans, Sets, Plain

\* A session without a parser is closed altogether; binding comes after
\* authentication; a counted miss leaves the count below the limit.
Session ==
  /\ open => pc = "loop"
  /\ ~open => status = 0 /\ ~authorized /\ hooks = {} /\ pongRules = {}
  /\ "conn" \in hooks => authorized
  /\ callback = "count" => loaded < MissLimit
  /\ callback \in {"none", "count"} => missed < MissLimit

\* Unless an answer was forgotten, the count of misses never runs ahead of the
\* pings that were sent since the last one.
CountJustified ==
  LET running == IF Armed(pongTimer) THEN 1 ELSE 0
  IN  ~forgotten => /\ callback = "count" => loaded + 1 + running <= pinged
                    /\ callback # "count" => missed + running <= pinged

Inv == TypeOK /\ Session /\ Watched /\ PongTimed /\ CountJustified

LEMMA InitInv == Init => Inv
<1> SUFFICES ASSUME Init PROVE Inv
  OBVIOUS
<1>1. Booleans /\ Sets
  BY DEF Init, Booleans, Sets, Silent, Remaining, Off
<1>2. Plain
  BY TimingAssumption DEF Init, Plain, Remaining, Off
<1>3. Session /\ Watched /\ PongTimed /\ CountJustified
  BY TimingAssumption DEF Init, Session, Watched, PongTimed, CountJustified, Armed, Off
<1> QED
  BY <1>1, <1>2, <1>3, TypeParts DEF Inv

LEMMA RebootInv == ASSUME Reboot PROVE Inv'
<1>1. Booleans' /\ Sets'
  BY DEF Reboot, Booleans, Sets, Silent, Remaining, Off
<1>2. Plain'
  BY TimingAssumption DEF Reboot, Plain, Remaining, Off
<1>3. Session' /\ Watched' /\ PongTimed' /\ CountJustified'
  BY TimingAssumption DEF Reboot, Session, Watched, PongTimed, CountJustified, Armed, Off
<1> QED
  BY <1>1, <1>2, <1>3 DEF Inv, TypeOK, Booleans, Sets, Plain

\* What goes on the wire is of the right type.
LEMMA PacketTypes ==
  /\ NoPacket \in Packets \cup {NoPacket}
  /\ \A request \in {"header", "sasl", "bind", "auth"} : Reply(request) \in Packets
  /\ Unasked \subseteq Packets
  /\ \A id \in RuleIds : [type |-> "pong", id |-> id] \in Packets
  /\ [type |-> "request"] \in Packets /\ [type |-> "end"] \in Packets
<1>1. Offer \subseteq {"sasl", "bind", "session"}
  BY DEF Offer
<1>2. Reply("header") \in Packets
  BY <1>1 DEF Reply, Packets
<1>3. \A request \in {"sasl", "bind", "auth"} : Reply(request) \in Packets
  BY DEF Reply, Packets
<1>4. Unasked \subseteq Packets
  BY DEF Unasked, Packets
<1> QED
  BY <1>2, <1>3, <1>4 DEF Packets

LEMMA StepTypes ==
  ASSUME Inv, [Next]_vars
  PROVE  TypeOK'
<1>0. Booleans /\ Sets /\ Plain /\ Session /\ Watched /\ PongTimed /\ CountJustified
  BY TypeParts DEF Inv
<1>1. CASE Reboot
  BY <1>1, RebootInv DEF Inv
<1>2. CASE ~Reboot
  <2> USE <1>0, <1>2
      DEF Next, TaskStep, Recv, Reads, TimerStep, ServerStep, Connect, ConnectFails,
          RecvFeatures, RecvSuccess, RecvBindResult, RecvSessionResult, RecvPong, RecvOther,
          RecvEnd, Disarm, StopTimers, SendPing, CrashWithoutParser, PingTimerFires,
          CrashInFilter, PongTimerFires, CountMiss, OneMore, Unhook, EndWalk, CheckLimit,
          ServerReplies, AnyPacket, PongArrives, InformAnswered, ServerRequest, ServerEnds,
          ServerDies, Tick, Ask, Reopen, vars, session, watchdog, handler, server, history
  <2>1. Booleans'
    BY DEF Booleans
  <2>2. Sets'
    <3> USE DEF Sets
    <3>1. features' \in SUBSET {"session"}
      OBVIOUS
    <3>2. hooks' \in SUBSET {"bind", "conn", "iq"}
      OBVIOUS
    <3>3. pongRules' \in SUBSET RuleIds
      BY DEF RuleIds, RuleId, EndWait
    <3>4. asked' \in SUBSET {"header", "sasl", "bind", "auth"}
      OBVIOUS
    <3>5. net' \in [PingIds -> Remaining(MaxDelay)]
      BY TimingAssumption DEF Silent, Remaining, Off, CountDown, Armed, Due
    <3>6. rx' \in Packets \cup {NoPacket}
      BY PacketTypes DEF RuleIds
    <3> QED
      BY <3>1, <3>2, <3>3, <3>4, <3>5, <3>6
  <2>3. Plain'
    <3> USE TimingAssumption DEF Plain, Remaining, Off, Armed, Due
    <3>1. pc' \in {"boot", "loop", "disarm"} /\ status' \in {0, 1}
          /\ callback' \in {"none", "count", "unhook", "walk", "check"}
      OBVIOUS
    <3>2. queue' \in 0..QueueLen
      BY DEF Post
    <3>3. missed' \in 0..MissLimit /\ loaded' \in 0..MissLimit
      BY DEF Session, EndWait
    <3>4. pingTimer' \in Remaining(PingPeriod)
      BY DEF CountDown
    <3>5. pongTimer' \in Remaining(PongTimeout)
      BY DEF CountDown, EndWait, ArmPong
    <3>6. pinged' \in 0..(MissLimit + 1)
      OBVIOUS
    <3> QED
      BY <3>1, <3>2, <3>3, <3>4, <3>5, <3>6
  <2> QED
    BY <2>1, <2>2, <2>3 DEF TypeOK, Booleans, Sets, Plain
<1> QED BY <1>1, <1>2

LEMMA StepInv ==
  ASSUME Inv, [Next]_vars
  PROVE  Inv'
<1> DEFINE Safe == Session /\ Watched /\ PongTimed /\ CountJustified
<1>0. Plain /\ Safe
  BY TypeParts DEF Inv
<1> SUFFICES Safe'
  BY StepTypes DEF Inv
<1> USE <1>0, TimingAssumption
    DEF Session, Watched, PongTimed, CountJustified, Plain, Remaining, Armed, Due, Off
<1>1. CASE Reboot
  BY <1>1, RebootInv DEF Inv
<1>2. CASE Connect \/ ConnectFails
  BY <1>2 DEF Connect, ConnectFails, watchdog, handler, history
<1>3. CASE RecvFeatures \/ RecvSuccess
  BY <1>3 DEF RecvFeatures, RecvSuccess, Reads, watchdog, handler, history
<1>4. CASE RecvBindResult
  BY <1>4 DEF RecvBindResult, Reads, watchdog, handler, history
<1>5. CASE RecvSessionResult
  BY <1>5 DEF RecvSessionResult, Reads, watchdog, handler, history
<1>6. CASE RecvPong
  <2>1. UNCHANGED <<pc, open, status, authorized, hooks, pingTimer, reporting, callback,
                    loaded>>
    BY <1>6 DEF RecvPong, session, handler
  <2>2. CASE rx.id \in pongRules
    <3>1. pongTimer' = Off /\ missed' = 0 /\ pongRules' = {} /\ pinged' = 0
      BY <1>6, <2>2 DEF RecvPong, EndWait
    <3>2. ~forgotten' => callback # "count"
      BY <1>6, <2>2, Zenon DEF RecvPong
    <3>3. CountJustified'
      BY <2>1, <3>1, <3>2
    <3>4. (Session /\ Watched /\ PongTimed)'
      BY <2>1, <3>1
    <3> QED BY <3>3, <3>4
  <2>3. CASE rx.id \notin pongRules
    BY <1>6, <2>1, <2>3 DEF RecvPong, history
  <2> QED BY <2>2, <2>3
<1>7. CASE RecvEnd
  BY <1>7 DEF RecvEnd, Reads, handler, history
<1>8. CASE Disarm /\ ~Reboot
  BY <1>8 DEF Disarm, StopTimers, handler, history
<1>9. CASE SendPing
  <2>1. /\ open /\ pongTimer' = PongTimeout
        /\ pinged' = IF pinged <= MissLimit THEN pinged + 1 ELSE pinged
        /\ UNCHANGED <<pc, open, status, authorized, hooks, missed, pingTimer, reporting,
                       callback, loaded, forgotten>>
    BY <1>9 DEF SendPing, ArmPong, session, handler
  <2> QED BY <2>1
<1>10. CASE PingTimerFires
  BY <1>10 DEF PingTimerFires, session, handler, history
<1>11. CASE PongTimerFires
  BY <1>11 DEF PongTimerFires, session, history
<1>12. CASE CountMiss
  BY <1>12 DEF CountMiss, OneMore, session, history
<1>13. CASE (Unhook \/ EndWalk) /\ ~Reboot
  BY <1>13 DEF Unhook, EndWalk, session, history
<1>14. CASE CheckLimit /\ ~Reboot
  BY <1>14 DEF CheckLimit, Reached, session, watchdog, history
<1>15. CASE Tick
  BY <1>15 DEF Tick, CountDown, session, handler, history
<1>16. CASE UNCHANGED <<session, watchdog, pingTimer, reporting, handler, history>>
  BY <1>16 DEF session, watchdog, handler, history
<1> HIDE <1>0, TimingAssumption
         DEF Session, Watched, PongTimed, CountJustified, Plain, Remaining, Armed, Due, Off
<1>17. \/ Reboot \/ Connect \/ ConnectFails \/ RecvFeatures \/ RecvSuccess \/ RecvBindResult
       \/ RecvSessionResult \/ RecvPong \/ RecvEnd \/ Disarm \/ SendPing \/ PingTimerFires
       \/ PongTimerFires \/ CountMiss \/ Unhook \/ EndWalk \/ CheckLimit \/ Tick
       \/ UNCHANGED <<session, watchdog, pingTimer, reporting, handler, history>>
  BY DEF Next, TaskStep, Recv, TimerStep, ServerStep, RecvOther, CrashWithoutParser,
     CrashInFilter, ServerReplies, AnyPacket, PongArrives, InformAnswered, ServerRequest, ServerEnds, ServerDies, vars
<1> HIDE DEF Safe
<1> QED
  BY <1>1, <1>2, <1>3, <1>4, <1>5, <1>6, <1>7, <1>8, <1>9, <1>10, <1>11, <1>12, <1>13,
     <1>14, <1>15, <1>16, <1>17

\* Every variable keeps its type.
THEOREM SessionTyped == Spec => []TypeOK
<1>1. Inv => TypeOK
  BY DEF Inv
<1> QED
  BY <1>1, InitInv, StepInv, PTL DEF Spec

\* An online device is logged in and watched, and its timers run for no other state,
\* however the two tasks interleave.
THEOREM SessionWatched == Spec => []Watched
<1>1. Inv => Watched
  BY DEF Inv
<1> QED
  BY <1>1, InitInv, StepInv, PTL DEF Spec

\* No ping waits for its answer untimed, whoever overwrote its id.
THEOREM PongAlwaysTimed == Spec => []PongTimed
<1>1. Inv => PongTimed
  BY DEF Inv
<1> QED
  BY <1>1, InitInv, StepInv, PTL DEF Spec

\* The watchdog restarts the device only when that many pings in a row went without
\* an answer, or the race of _pong_handler with _pong_timed_handler has made it forget
\* one; no other interleaving of the two handlers makes it restart too early.
THEOREM RestartsJustified == Spec => []RestartJustified
<1>1. Inv => RestartJustified
  <2> SUFFICES ASSUME Inv PROVE RestartJustified
    OBVIOUS
  <2>1. CountJustified /\ Plain
    BY TypeParts DEF Inv
  <2> QED
    BY <2>1, TimingAssumption DEF CountJustified, RestartJustified, Plain
<1> QED
  BY <1>1, InitInv, StepInv, PTL DEF Spec

-----------------------------------------------------------------------------
(* The contracts: which steps change what XmppLink and XmppLogin show.     *)

LEMMA StepKinds ==
  ASSUME [Next]_vars
  PROVE  \/ Reboot \/ Connect \/ ConnectFails \/ RecvSuccess \/ RecvBindResult
         \/ RecvSessionResult \/ RecvEnd \/ (Disarm /\ ~Reboot)
         \/ (RecvFeatures /\ UNCHANGED <<pc, open, status, authorized, reporting>>)
         \/ UNCHANGED <<session, reporting>>
         \/ UNCHANGED <<pc, open, status, authorized, hooks, reporting>>
BY DEF Next, TaskStep, Recv, TimerStep, ServerStep, RecvFeatures, RecvPong, RecvOther,
   SendPing, CrashWithoutParser, CrashInFilter, PingTimerFires, PongTimerFires, CountMiss,
   Unhook, EndWalk, CheckLimit, Tick, ServerReplies, AnyPacket, PongArrives, InformAnswered, ServerRequest, ServerEnds,
   ServerDies, vars, session

\* The session is the one CWMP builds on: online once between two restarts, reporting
\* from then until the end of the teardown.
THEOREM LinkKept == Spec => LinkAsPromised
<1>1. Init => Link!Init
  BY DEF Init, Link!Init
<1>2. ASSUME Inv, [Next]_vars
      PROVE  [Link!Next]_(Link!vars)
  <2> USE <1>2 DEF Link!Next, Link!vars
  <2>0. Plain /\ Session /\ Watched
    BY TypeParts DEF Inv
  <2>1. CASE Reboot
    BY <2>1 DEF Reboot, Link!Restart
  <2>2. CASE Connect
    BY <2>0, <2>2 DEF Connect, Session
  <2>3. CASE ConnectFails
    BY <2>0, <2>3 DEF ConnectFails, Session, Link!GiveUp
  <2>4. CASE RecvSuccess \/ RecvBindResult
    BY <2>4 DEF RecvSuccess, RecvBindResult
  <2>5. CASE RecvSessionResult
    <3>1. pc = "loop" /\ open /\ UNCHANGED <<pc, open>>
      BY <2>5 DEF RecvSessionResult, Reads
    <3>2. CASE "conn" \in hooks
      <4>1. status' = 1 /\ reporting'
        BY <2>5, <3>2 DEF RecvSessionResult
      <4>2. CASE status = 1
        BY <2>0, <2>5, <3>1, <3>2, <4>1, <4>2 DEF Watched, RecvSessionResult, Link!GoOnline
      <4>3. CASE status # 1
        BY <2>5, <3>1, <3>2, <4>1, <4>3 DEF Link!GoOnline, RecvSessionResult
      <4> QED BY <4>2, <4>3
    <3>3. CASE "conn" \notin hooks
      BY <2>5, <3>1, <3>3 DEF RecvSessionResult
    <3> QED BY <3>2, <3>3
  <2>6. CASE RecvEnd
    BY <2>6 DEF RecvEnd, Reads, Link!Close
  <2>7. CASE Disarm /\ ~Reboot
    BY <2>0, <2>7 DEF Disarm, StopTimers, Session, Link!Stop
  <2>8. CASE UNCHANGED <<pc, open, status, reporting>>
    BY <2>8
  <2> QED
    BY StepKinds, <2>1, <2>2, <2>3, <2>4, <2>5, <2>6, <2>7, <2>8 DEF session
<1> QED
  BY <1>1, <1>2, InitInv, StepInv, PTL DEF Spec, LinkAsPromised, Link!Spec

\* Whatever the server sends, unasked, again or out of order, the device goes online only through
\* authentication, binding and the session, in turn.
THEOREM LoginOrdered == Spec => LoginInOrder
<1>1. Init => Login!Init
  BY DEF Init, Login!Init, Stage
<1>2. ASSUME Inv, [Next]_vars
      PROVE  [Login!Next]_Stage
  <2> USE <1>2 DEF Login!Next, Stage
  <2>0. Plain /\ Session /\ Watched
    BY TypeParts DEF Inv
  <2>1. CASE Reboot
    BY <2>1 DEF Reboot, Login!Lose
  <2>2. CASE Connect \/ ConnectFails
    BY <2>0, <2>2 DEF Connect, ConnectFails, Session, Login!Open, Login!Lose
  <2>3. CASE RecvSuccess
    BY <2>0, <2>3 DEF RecvSuccess, Reads, Plain, Session, Watched, Login!Authorize
  <2>4. CASE RecvBindResult
    BY <2>0, <2>4 DEF RecvBindResult, Reads, Plain, Watched, Login!Bind
  <2>5. CASE RecvSessionResult
    BY <2>0, <2>5 DEF RecvSessionResult, Reads, Plain, Login!GoOnline
  <2>6. CASE RecvEnd
    BY <2>6 DEF RecvEnd, Reads, Login!Lose
  <2>7. CASE Disarm /\ ~Reboot
    BY <2>7 DEF Disarm
  <2>8. CASE RecvFeatures /\ UNCHANGED <<pc, open, status, authorized, reporting>>
    BY <2>8 DEF RecvFeatures
  <2>9. CASE UNCHANGED <<open, status, authorized, hooks>>
    BY <2>9
  <2> QED
    BY StepKinds, <2>1, <2>2, <2>3, <2>4, <2>5, <2>6, <2>7, <2>8, <2>9 DEF session
<1> QED
  BY <1>1, <1>2, InitInv, StepInv, PTL DEF Spec, LoginInOrder, Login!Spec

-----------------------------------------------------------------------------
(* A served device.  While a ping is timed, its answer is there already or *)
(* is due before the timer, and time waits for the task to read it.        *)

Answered(id) == id \in pongRules /\ rx = [type |-> "pong", id |-> id]
OnItsWay(id) == id \in pongRules /\ net[id] # Off /\ net[id] < pongTimer

Served ==
  /\ NeverMissed
  /\ rx.type # "end"
  /\ open => alive
  /\ pongTimer # Off => /\ pongTimer # 0
                        /\ \E id \in PingIds : Answered(id) \/ OnItsWay(id)

LEMMA StepServed ==
  ASSUME Conforming, Prompt, ~Overlaps, MaxDelay < PongTimeout,
         Inv, Served, [Next]_vars
  PROVE  Served'
<1>0. Sets /\ Plain /\ Session
  BY TypeParts DEF Inv
<1>1. CASE Reboot
  BY <1>1 DEF Reboot, Served, NeverMissed, NoPacket
<1>2. CASE SendPing
  <2>1. PICK id \in PingIds :
          /\ pongRules' = pongRules \cup {id}
          /\ \E delay \in 0..MaxDelay : net' = [net EXCEPT ![id] = delay]
    BY <1>0, <1>2 DEF SendPing, RuleId, Answering, Served, NeverMissed
  <2>2. net'[id] \in 0..MaxDelay
    BY <1>0, <2>1 DEF Sets
  <2>3. pongTimer' = PongTimeout
    BY <1>2 DEF SendPing, ArmPong
  <2>4. OnItsWay(id)'
    BY <2>1, <2>2, <2>3, TimingAssumption DEF OnItsWay, Off
  <2> QED
    BY <1>2, <2>3, <2>4, TimingAssumption
       DEF SendPing, Served, NeverMissed, session, handler
<1>3. CASE RecvPong
  <2>1. UNCHANGED <<session, handler, server>> /\ rx' = NoPacket
    BY <1>3 DEF RecvPong, Reads
  <2>2. CASE rx.id \in pongRules
    BY <1>3, <2>1, <2>2
       DEF RecvPong, EndWait, Served, NeverMissed, NoPacket, session, handler, server
  <2>3. CASE rx.id \notin pongRules
    <3>1. UNCHANGED <<pongTimer, missed, pongRules>>
      BY <1>3, <2>3 DEF RecvPong
    <3>2. \A id \in PingIds : ~Answered(id)
      BY <2>3 DEF Answered
    <3>3. \A id \in PingIds : OnItsWay(id) => OnItsWay(id)'
      BY <2>1, <3>1 DEF OnItsWay, server
    <3> QED
      BY <2>1, <3>1, <3>2, <3>3 DEF Served, NeverMissed, NoPacket, session, handler, server
  <2> QED BY <2>2, <2>3
<1>4. CASE PongArrives
  <2>1. PICK arrived \in PingIds :
          /\ net[arrived] = 0
          /\ rx' = [type |-> "pong", id |-> arrived]
          /\ net' = [net EXCEPT ![arrived] = Off]
    BY <1>4 DEF PongArrives, Due
  <2>2. rx = NoPacket /\ UNCHANGED <<session, watchdog, handler, alive>>
    BY <1>4 DEF PongArrives
  <2>3. ASSUME pongTimer # Off
        PROVE  \E id \in PingIds : Answered(id)' \/ OnItsWay(id)'
    <3>1. PICK id \in PingIds : OnItsWay(id)
      BY <2>2, <2>3 DEF Served, Answered, NoPacket
    <3>2. CASE id = arrived
      BY <2>1, <2>2, <3>1, <3>2 DEF Answered, OnItsWay, watchdog
    <3>3. CASE id # arrived
      BY <1>0, <2>1, <2>2, <3>1, <3>3 DEF OnItsWay, watchdog, Sets
    <3> QED BY <3>2, <3>3
  <2> QED
    BY <2>1, <2>2, <2>3 DEF Served, NeverMissed, session, watchdog, handler
<1>5. CASE Tick
  <2>1. rx = NoPacket
    BY <1>5 DEF Tick, Quiet
  <2>2. ASSUME pongTimer # Off
        PROVE  pongTimer' # 0 /\ \E id \in PingIds : OnItsWay(id)'
    <3>1. PICK id \in PingIds : OnItsWay(id)
      BY <2>1, <2>2 DEF Served, Answered, NoPacket
    <3>2. /\ net[id] \in 1..MaxDelay /\ net'[id] = net[id] - 1
          /\ pongTimer' = pongTimer - 1 /\ pongTimer \in Nat
          /\ UNCHANGED pongRules
      BY <1>0, <1>5, <2>2, <3>1, TimingAssumption
         DEF Tick, CountDown, OnItsWay, Armed, Due, Sets, Plain, Remaining, Off
    <3>3. net[id] < pongTimer
      BY <3>1 DEF OnItsWay
    <3> QED
      BY <3>1, <3>2, <3>3, TimingAssumption DEF OnItsWay, Off
  <2>3. UNCHANGED <<session, missed, handler, alive, rx>>
        /\ (pongTimer = Off => pongTimer' = Off)
    BY <1>5 DEF Tick, CountDown, Armed
  <2> QED
    BY <2>2, <2>3 DEF Served, NeverMissed, session, handler
<1>6. CASE Connect
  BY <1>6 DEF Connect, Served, NeverMissed, Answered, OnItsWay, watchdog, handler
<1>7. CASE RecvFeatures \/ RecvSuccess \/ RecvBindResult \/ RecvSessionResult \/ RecvOther
  <2>1. /\ UNCHANGED <<open, pongRules, missed, pongTimer, handler, alive, net>>
        /\ rx.type # "pong" /\ rx' = NoPacket
    BY <1>7 DEF RecvFeatures, RecvSuccess, RecvBindResult, RecvSessionResult, RecvOther,
       Reads, Ask, Reopen, session, watchdog, server
  <2>2. \A id \in PingIds : ~Answered(id) /\ (OnItsWay(id) => OnItsWay(id)')
    BY <2>1 DEF Answered, OnItsWay
  <2> QED
    BY <2>1, <2>2 DEF Served, NeverMissed, NoPacket, handler
<1>8. CASE Disarm /\ ~Reboot
  BY <1>8 DEF Disarm, StopTimers, Served, NeverMissed, handler, server
<1>9. CASE PingTimerFires
  BY <1>9 DEF PingTimerFires, Served, NeverMissed, Answered, OnItsWay, session, handler, server
<1>10. CASE ServerReplies \/ InformAnswered \/ ServerRequest
  <2>1. /\ UNCHANGED <<open, pongRules, missed, pongTimer, handler, alive, net>>
        /\ rx = NoPacket
    BY <1>10 DEF ServerReplies, InformAnswered, ServerRequest, session, watchdog, server
  <2>2. rx'.type # "end"
    <3>1. CASE ServerReplies
      <4>1. PICK request \in {"header", "sasl", "bind", "auth"} : rx' = Reply(request)
        BY <1>0, <3>1 DEF ServerReplies, Sets
      <4> QED BY <4>1 DEF Reply
    <3>2. CASE InformAnswered \/ ServerRequest
      BY <3>2 DEF InformAnswered, ServerRequest
    <3> QED BY <1>10, <3>1, <3>2
  <2>3. \A id \in PingIds : ~Answered(id) /\ (OnItsWay(id) => OnItsWay(id)')
    BY <2>1 DEF Answered, OnItsWay, NoPacket
  <2> QED
    BY <2>1, <2>2, <2>3 DEF Served, NeverMissed, handler
<1>11. CASE UNCHANGED vars
  BY <1>11 DEF vars, Served, NeverMissed, Answered, OnItsWay, session, watchdog, handler, server
<1>12. ~ConnectFails /\ ~RecvEnd /\ ~PongTimerFires /\ ~CountMiss /\ ~Unhook /\ ~EndWalk
       /\ ~CheckLimit /\ ~AnyPacket /\ ~ServerEnds /\ ~ServerDies
  BY DEF ConnectFails, RecvEnd, Reads, PongTimerFires, CountMiss, Unhook, EndWalk, CheckLimit,
     AnyPacket, ServerEnds, ServerDies, Due, Off, Served, NeverMissed
<1> QED
  BY <1>1, <1>2, <1>3, <1>4, <1>5, <1>6, <1>7, <1>8, <1>9, <1>10, <1>11, <1>12
     DEF Next, TaskStep, Recv, TimerStep, ServerStep, CrashWithoutParser, CrashInFilter

\* A server that answers every ping before its timer never costs the device a miss,
\* for any timing, as long as the task is prompt and no inform overwrites the id.
THEOREM ServedNeverMissed ==
  ASSUME Conforming, Prompt, ~Overlaps, MaxDelay < PongTimeout
  PROVE  Spec => []NeverMissed
<1>1. Init => Served
  BY DEF Init, Served, NeverMissed, NoPacket
<1>2. Served => NeverMissed
  BY DEF Served
<1>3. Inv /\ Served /\ [Next]_vars => Served'
  BY StepServed
<1> QED
  BY <1>1, <1>2, <1>3, InitInv, StepInv, PTL DEF Spec

\* Nor does such a device ever leave the session again: no step of either task, in
\* whatever order, tears down or restarts what is served (the safety half of
\* LoginCompletes; user_xmppclient_disconnect, _pong_timed_handler).
THEOREM ServedStaysOnline ==
  ASSUME Conforming, Prompt, ~Overlaps, MaxDelay < PongTimeout
  PROVE  Spec => [][status = 1 => status' = 1]_vars
<1>1. Init => Served
  BY DEF Init, Served, NeverMissed, NoPacket
<1>2. Inv /\ Served /\ [Next]_vars => Served'
  BY StepServed
<1>3. ASSUME Inv, Served, [Next]_vars, status = 1
      PROVE  status' = 1
  <2>1. open /\ pc # "disarm" /\ callback = "none" /\ rx.type # "end"
    BY <1>3, TypeParts DEF Inv, Session, Watched, Served, NeverMissed
  <2>2. /\ ~RecvEnd /\ ~Disarm /\ ~CrashWithoutParser /\ ~CrashInFilter
        /\ ~Unhook /\ ~EndWalk /\ ~CheckLimit
    BY <2>1 DEF RecvEnd, Reads, Disarm, CrashWithoutParser, CrashInFilter, Unhook, EndWalk,
       CheckLimit
  <2> QED
    BY <1>3, <2>2
       DEF Next, TaskStep, Recv, TimerStep, ServerStep, Connect, ConnectFails, RecvFeatures,
           RecvSuccess, RecvBindResult, RecvSessionResult, RecvPong, RecvOther, SendPing,
           PingTimerFires, PongTimerFires, CountMiss, Tick, ServerReplies, AnyPacket, PongArrives,
           InformAnswered, ServerRequest, ServerEnds, ServerDies, vars, session
<1>4. Inv /\ Served /\ [Next]_vars => [status = 1 => status' = 1]_vars
  BY <1>3
<1> QED
  BY <1>1, <1>2, <1>4, InitInv, StepInv, PTL DEF Spec
=============================================================================
