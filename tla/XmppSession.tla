----------------------------- MODULE XmppSession -----------------------------
(***************************************************************************)
(* The XMPP client of xmpp/xmppcli.c: connecting, the login handshake, the *)
(* ping watchdog and the teardown.                                         *)
(*                                                                         *)
(* Two FreeRTOS tasks of the same priority share the session: xmppcli_task *)
(* (hnt_xmppcli_start's loop, and every filter hook, which it calls) and   *)
(* the timer task, which runs the os_timer callbacks.  A step is what one  *)
(* of them does without the other being able to change its outcome.        *)
(***************************************************************************)
EXTENDS Integers

CONSTANTS
  PingPeriod,   \* PING_TIMEOUT, in ticks: period of xmpp_ping_timer
  PongTimeout,  \* PONG_TIMEOUT, in ticks: one-shot xmpp_pong_timer
  MissLimit,    \* PING_TIMEOUT_TIMES
  QueueLen,     \* length of xmpp_task_q
  PingIds,      \* the ping ids in use at a time (create_unique_id)
  MaxDelay,     \* longest time, in ticks, the server takes to answer a ping
  Conforming,   \* the server always logs the device in and never goes away
  Prompt,       \* xmppcli_task drains its socket and queue within a tick
  Overlaps      \* an inform may be sent while a ping is: they share the id buffer

ASSUME TimingAssumption ==
  /\ PongTimeout \in Nat \ {0}
  /\ PingPeriod \in Nat \ {0}
  /\ MissLimit \in Nat \ {0}
  /\ QueueLen \in Nat \ {0}
  /\ MaxDelay \in Nat
  /\ Conforming \in BOOLEAN /\ Prompt \in BOOLEAN /\ Overlaps \in BOOLEAN

VARIABLES
  \* xmppcli_task and its struct session
  pc,         \* "boot", "loop", or "disarm" (half way through a teardown)
  open,       \* sess.prs and sess.filter are set
  status,     \* xmpp_conn_status
  authorized, \* sess.authorized
  features,   \* sess.features, as far as it is read again: {"session"} or {}
  hooks,      \* login filter rules installed: "bind", "conn", "iq"
  pongRules,  \* ids of the filter rules whose hook is _pong_handler, or Stray
  queue,      \* MSG_SEND_PING messages in xmpp_task_q
  missed,     \* sess.ping_timeout_times
  \* timers and the timer task
  pingTimer,  \* ticks left, or Off
  pongTimer,
  reporting,  \* xmpp_inform_timer and xmpp_sampling_timer are armed
  callback,   \* step of a running _pong_timed_handler, or "none"
  loaded,     \* ping_timeout_times as that callback read it, until it writes it
  \* the server and the network
  alive,      \* a connected server that still answers
  asked,      \* requests that a conforming server has not answered yet
  net,        \* net[id]: ticks until its answer to ping id arrives, or Off
  rx,         \* the packet xmppcli_task reads next, or NoPacket
  \* history
  pinged,     \* pings sent since _pong_handler last took an answer
  forgotten   \* sess.ping_timeout_times still counts misses from before an answer

session  == <<pc, open, status, authorized, features, hooks>>
watchdog == <<pongRules, queue, missed, pongTimer>>
handler  == <<callback, loaded>>
server   == <<alive, asked, net>>
history  == <<pinged, forgotten>>
vars == <<session, watchdog, pingTimer, reporting, handler, server, rx, history>>

Off == -1
NoPacket == [type |-> "none"]
Stray == "stray"              \* an id that is not the ping's own
RuleIds == PingIds \cup {Stray}
Armed(timer) == timer # Off
Due(timer) == timer = 0

\* The features a conforming server announces before and after authentication.
Offer == IF authorized THEN {"bind", "session"} ELSE {"sasl"}

Packets == [type : {"features"}, offer : SUBSET {"sasl", "bind", "session"}]
           \cup [type : {"success", "failure", "bind", "auth", "request", "end"}]
           \cup [type : {"pong"}, id : RuleIds]

-----------------------------------------------------------------------------
Silent == [id \in PingIds |-> Off]

\* The state after power-on.
Init ==
  /\ pc = "boot" /\ open = FALSE /\ status = 0 /\ authorized = FALSE
  /\ features = {} /\ hooks = {}
  /\ pongRules = {} /\ queue = 0 /\ missed = 0
  /\ pingTimer = Off /\ pongTimer = Off /\ reporting = FALSE
  /\ callback = "none" /\ loaded = 0
  /\ alive = FALSE /\ asked = {} /\ net = Silent /\ rx = NoPacket
  /\ pinged = 0 /\ forgotten = FALSE

\* system_restart, or an exception: everything in RAM is as after power-on.
Reboot ==
  /\ pc' = "boot" /\ open' = FALSE /\ status' = 0 /\ authorized' = FALSE
  /\ features' = {} /\ hooks' = {}
  /\ pongRules' = {} /\ queue' = 0 /\ missed' = 0
  /\ pingTimer' = Off /\ pongTimer' = Off /\ reporting' = FALSE
  /\ callback' = "none" /\ loaded' = 0
  /\ alive' = FALSE /\ asked' = {} /\ net' = Silent /\ rx' = NoPacket
  /\ pinged' = 0 /\ forgotten' = FALSE

\* xmpp_start, xmpp_connect: the name resolves and the socket connects.
Connect == /\ pc = "boot"
           /\ pc' = "loop"
           /\ open' = TRUE
           /\ alive' = TRUE
           /\ asked' = IF Conforming THEN {"header"} ELSE {}
           /\ UNCHANGED <<status, authorized, features, hooks, watchdog, pingTimer,
                          reporting, handler, net, rx, history>>

\* xmpp_start returns -1; its caller goes on to the loop with no session.
ConnectFails == /\ ~Conforming
                /\ pc = "boot"
                /\ pc' = "loop"
                /\ UNCHANGED <<open, status, authorized, features, hooks, watchdog,
                               pingTimer, reporting, handler, server, rx, history>>

-----------------------------------------------------------------------------
\* One packet, as xmpp_recv hands it to iks_parse: xmpp_stream_handler or, for
\* a stanza, the filter rule that matches it best.

Reads(type) == /\ pc = "loop"
               /\ open
               /\ rx.type = type
               /\ rx' = NoPacket

\* A request goes out on the socket; nobody notices when it does not arrive.
\* Only a conforming server is bound by what it was asked.
Answering == alive /\ Conforming
Ask(request) == /\ asked' = IF Answering THEN asked \cup {request} ELSE asked
                /\ UNCHANGED <<alive, net>>

Post(messages) == IF messages < QueueLen THEN messages + 1 ELSE messages

RecvFeatures ==
  /\ Reads("features")
  /\ features' = rx.offer \cap {"session"}
  /\ \/ /\ authorized /\ "bind" \in rx.offer
        /\ hooks' = hooks \cup {"bind"}
        /\ Ask("bind")
     \/ /\ ~authorized /\ "sasl" \in rx.offer
        /\ Ask("sasl")
        /\ UNCHANGED hooks
     \/ /\ (IF authorized THEN "bind" ELSE "sasl") \notin rx.offer
        /\ UNCHANGED <<hooks, server>>
  /\ UNCHANGED <<pc, open, status, authorized, watchdog, pingTimer, reporting,
                 handler, history>>

\* The stream is opened anew after authentication.
KeepStream == UNCHANGED server    \* mutant: goes on in the old stream
Reopen == Ask("header")

RecvSuccess ==
  /\ Reads("success")
  /\ authorized' = TRUE
  /\ Reopen
  /\ UNCHANGED <<pc, open, status, features, hooks, watchdog, pingTimer, reporting,
                 handler, history>>

\* Mutant: online as soon as the resource is bound.
OnlineWhenBound ==
  /\ Reads("bind")
  /\ status' = 1
  /\ pingTimer' = PingPeriod
  /\ reporting' = TRUE
  /\ UNCHANGED <<pc, open, authorized, features, hooks, watchdog, handler, server, history>>

\* xmpp_bind_handler; without its rule the result is dropped.
RecvBindResult ==
  /\ Reads("bind")
  /\ IF "bind" \in hooks /\ authorized /\ "session" \in features
     THEN /\ hooks' = (hooks \cup {"conn"}) \ {"bind"}
          /\ Ask("auth")
     ELSE /\ hooks' = hooks \ {"bind"}
          /\ UNCHANGED server
  /\ UNCHANGED <<pc, open, status, authorized, features, watchdog, pingTimer,
                 reporting, handler, history>>

\* xmpp_conn_handler: the session is up, the first ping is queued.
RecvSessionResult ==
  /\ Reads("auth")
  /\ IF "conn" \in hooks
     THEN /\ status' = 1
          /\ hooks' = (hooks \cup {"iq"}) \ {"conn"}
          /\ reporting' = TRUE
          /\ queue' = Post(queue)
          /\ pingTimer' = PingPeriod
     ELSE UNCHANGED <<status, hooks, reporting, queue, pingTimer>>
  /\ UNCHANGED <<pc, open, authorized, features, pongRules, missed, pongTimer,
                 handler, server, history>>

\* An answer ends the wait.  The mutants forget the timer, the count, the rule.
KeepTimer == pongTimer' = pongTimer /\ missed' = 0 /\ pongRules' = {}
KeepCount == pongTimer' = Off /\ missed' = missed /\ pongRules' = {}
KeepRule  == pongTimer' = Off /\ missed' = 0 /\ pongRules' = pongRules
EndWait   == pongTimer' = Off /\ missed' = 0 /\ pongRules' = {}

\* _pong_handler.  A callback that has read the count and not yet written it
\* back will overwrite the zero, and the answer is forgotten.
RecvPong ==
  /\ Reads("pong")
  /\ IF rx.id \in pongRules
     THEN /\ EndWait
          /\ pinged' = 0
          /\ forgotten' = (callback = "count")
     ELSE UNCHANGED <<pongTimer, missed, pongRules, history>>
  /\ UNCHANGED <<session, queue, pingTimer, reporting, handler, server>>

\* Packets that leave the session as it is: a failed authentication is only
\* logged, and _iq_handler answers a request of the server.
RecvOther ==
  /\ Reads("failure") \/ Reads("request")
  /\ UNCHANGED <<session, watchdog, pingTimer, reporting, handler, server, history>>

\* The stream ends or reports an error: user_xmppclient_disconnect frees the
\* parser and the filter first ...
RecvEnd ==
  /\ Reads("end")
  /\ pc' = "disarm"
  /\ open' = FALSE
  /\ status' = 0
  /\ authorized' = FALSE
  /\ hooks' = {}
  /\ pongRules' = {}
  /\ UNCHANGED <<features, queue, missed, pongTimer, pingTimer, reporting, handler,
                 server, history>>

\* Mutant: the ping timer is left running.
StopOthers == pingTimer' = pingTimer /\ pongTimer' = Off /\ reporting' = FALSE
\* Mutant: so are the reporting timers.
StopPings == pingTimer' = Off /\ pongTimer' = Off /\ reporting' = reporting
StopTimers == pingTimer' = Off /\ pongTimer' = Off /\ reporting' = FALSE

\* ... and stops the timers last.  Then it returns into the parser it has
\* freed, which may or may not survive that.
Disarm ==
  /\ pc = "disarm"
  /\ \/ /\ pc' = "loop"
        /\ StopTimers
        /\ UNCHANGED <<open, status, authorized, features, hooks, pongRules, queue,
                       missed, handler, server, rx, history>>
     \/ Reboot

\* The id under which _send_ping installs the rule for its answer.  It reads it
\* from the static buffer of create_unique_id, where the timer task may have
\* put the id of an inform meanwhile, or half of one.
RuleId(id) == {id} \cup (IF Overlaps /\ reporting THEN {Stray} ELSE {})

SendUntimed == pongTimer' = pongTimer    \* mutant: nothing waits for the answer
ArmPong == pongTimer' = PongTimeout

\* _send_ping, for a MSG_SEND_PING; the loop looks at its queue only when the
\* socket has nothing to read.
SendPing ==
  /\ pc = "loop"
  /\ open
  /\ rx = NoPacket
  /\ queue > 0
  /\ queue' = queue - 1
  /\ \E id \in {i \in PingIds \ pongRules : ~Armed(net[i])} :
       /\ \E rule \in RuleId(id) : pongRules' = pongRules \cup {rule}
       /\ \/ Answering /\ \E delay \in 0..MaxDelay : net' = [net EXCEPT ![id] = delay]
          \/ ~Answering /\ UNCHANGED net
  /\ ArmPong
  /\ pinged' = IF pinged <= MissLimit THEN pinged + 1 ELSE pinged
  /\ UNCHANGED <<session, missed, pingTimer, reporting, handler, alive, asked, rx,
                 forgotten>>

\* After a teardown a packet or a queued ping meets a null parser.
CrashWithoutParser ==
  /\ pc = "loop"
  /\ ~open
  /\ rx # NoPacket \/ queue > 0
  /\ Reboot

\* A stanza or a ping takes xmppcli_task through the list of filter rules while
\* the timer task is unlinking and freeing some: it may meet a freed one.
CrashInFilter ==
  /\ callback = "walk"
  /\ pc = "loop"
  /\ open
  /\ \/ rx.type \in {"bind", "auth", "pong", "request"}
     \/ rx.type = "features" /\ authorized /\ "bind" \in rx.offer
     \/ rx = NoPacket /\ queue > 0
  /\ Reboot

-----------------------------------------------------------------------------
\* The timer task.

\* _ping_timed_handler: the message is lost when the queue is full.
PingTimerFires ==
  /\ Due(pingTimer)
  /\ callback = "none"
  /\ pingTimer' = PingPeriod
  /\ queue' = Post(queue)
  /\ UNCHANGED <<session, pongRules, missed, pongTimer, reporting, handler, server,
                 rx, history>>

\* _pong_timed_handler, in five steps: it reads the count ...
PongTimerFires ==
  /\ Due(pongTimer)
  /\ callback = "none"
  /\ pongTimer' = Off
  /\ callback' = "count"
  /\ loaded' = missed
  /\ UNCHANGED <<session, pongRules, queue, missed, pingTimer, reporting, server, rx,
                 history>>

OneMore(count) == count + 1

\* ... writes it back, one higher ...
CountMiss ==
  /\ callback = "count"
  /\ callback' = "unhook"
  /\ missed' = OneMore(loaded)
  /\ loaded' = 0
  /\ UNCHANGED <<session, pongRules, queue, pongTimer, pingTimer, reporting, server, rx,
                 history>>

\* ... goes through the filter rules, from a null pointer if the filter is gone,
\* and unlinks those of _pong_handler ...
Unhook ==
  /\ callback = "unhook"
  /\ \/ /\ open
        /\ callback' = "walk"
        /\ pongRules' = {}
        /\ UNCHANGED <<session, queue, missed, pongTimer, pingTimer, reporting, loaded,
                       server, rx, history>>
     \/ ~open /\ Reboot

\* ... which may or may not reach a rule that was added meanwhile, and may or
\* may not survive that the filter was freed ...
EndWalk ==
  /\ callback = "walk"
  /\ \/ /\ callback' = "check"
        /\ pongRules' \in SUBSET pongRules
        /\ UNCHANGED <<session, queue, missed, pongTimer, pingTimer, reporting, loaded,
                       server, rx, history>>
     \/ ~open /\ Reboot

Exceeded(count) == count = MissLimit + 1    \* mutant: one miss too late
Reached(count) == count = MissLimit

\* ... and restarts the system at the limit.
CheckLimit ==
  /\ callback = "check"
  /\ \/ Reached(missed) /\ Reboot
     \/ /\ ~Reached(missed)
        /\ callback' = "none"
        /\ UNCHANGED <<session, watchdog, pingTimer, reporting, loaded, server, rx,
                       history>>

\* A tick passes once everything due has happened.
Quiet == rx = NoPacket /\ queue = 0 /\ pc # "disarm" /\ callback = "none"

CountDown(timer) == IF Armed(timer) THEN timer - 1 ELSE timer

Tick ==
  /\ ~Due(pingTimer) /\ ~Due(pongTimer)
  /\ \A id \in PingIds : ~Due(net[id])
  /\ Prompt => Quiet
  /\ pingTimer' = CountDown(pingTimer)
  /\ pongTimer' = CountDown(pongTimer)
  /\ net' = [id \in PingIds |-> CountDown(net[id])]
  /\ UNCHANGED <<session, pongRules, queue, missed, reporting, handler, alive, asked,
                 rx, history>>

-----------------------------------------------------------------------------
\* The server, as far as xmppcli.c can tell.  A conforming one answers what it
\* was asked, each request once and each ping in time ...

Reply(request) ==
  CASE request = "header" -> [type |-> "features", offer |-> Offer]
    [] request = "sasl" -> [type |-> "success"]
    [] OTHER -> [type |-> request]

ServerReplies ==
  /\ alive
  /\ rx = NoPacket
  /\ \E request \in asked : /\ rx' = Reply(request)
                            /\ asked' = asked \ {request}
  /\ UNCHANGED <<session, watchdog, pingTimer, reporting, handler, alive, net, history>>

PongArrives ==
  /\ rx = NoPacket
  /\ \E id \in PingIds : /\ Due(net[id])
                         /\ rx' = [type |-> "pong", id |-> id]
                         /\ net' = [net EXCEPT ![id] = Off]
  /\ UNCHANGED <<session, watchdog, pingTimer, reporting, handler, alive, asked, history>>

\* ... any other sends what it likes, asked or not, in any order, again, too
\* late or never.  These are the offers that the client tells apart.
Unasked == [type : {"features"}, offer : {{"sasl"}} \cup SUBSET {"bind", "session"}]
           \cup [type : {"success", "failure", "bind", "auth"}]
           \cup [type : {"pong"}, id : RuleIds]

AnyPacket ==
  /\ ~Conforming
  /\ alive
  /\ rx = NoPacket
  /\ rx' \in Unasked
  /\ UNCHANGED <<session, watchdog, pingTimer, reporting, handler, server, history>>

\* The answer to an inform takes a rule that has its id.
InformAnswered ==
  /\ alive
  /\ Stray \in pongRules
  /\ rx = NoPacket
  /\ rx' = [type |-> "pong", id |-> Stray]
  /\ UNCHANGED <<session, watchdog, pingTimer, reporting, handler, server, history>>

ServerRequest ==
  /\ alive
  /\ status = 1
  /\ rx = NoPacket
  /\ rx' = [type |-> "request"]
  /\ UNCHANGED <<session, watchdog, pingTimer, reporting, handler, server, history>>

\* The server closes the stream, or reports a stream error and closes it.
ServerEnds ==
  /\ ~Conforming
  /\ alive
  /\ rx = NoPacket
  /\ rx' = [type |-> "end"]
  /\ alive' = FALSE /\ asked' = {} /\ net' = Silent
  /\ UNCHANGED <<session, watchdog, pingTimer, reporting, handler, history>>

\* The link is lost, the server stops, or it closes the socket without ending
\* the stream: recv returning 0 or an error is only logged.
ServerDies ==
  /\ ~Conforming
  /\ alive
  /\ alive' = FALSE /\ asked' = {} /\ net' = Silent
  /\ UNCHANGED <<session, watchdog, pingTimer, reporting, handler, rx, history>>

-----------------------------------------------------------------------------
Recv == \/ RecvFeatures \/ RecvSuccess \/ RecvBindResult \/ RecvSessionResult
        \/ RecvPong \/ RecvOther \/ RecvEnd

TaskStep  == Recv \/ Disarm \/ SendPing \/ CrashWithoutParser \/ CrashInFilter
TimerStep == \/ PingTimerFires \/ PongTimerFires \/ CountMiss \/ Unhook \/ EndWalk
             \/ CheckLimit
ServerStep == \/ ServerReplies \/ AnyPacket \/ PongArrives \/ InformAnswered \/ ServerRequest
              \/ ServerEnds \/ ServerDies

Next == Connect \/ ConnectFails \/ TaskStep \/ TimerStep \/ ServerStep \/ Tick

Spec == Init /\ [][Next]_vars

\* FreeRTOS runs both tasks in turn, time passes, and what is on its way
\* arrives.  Nothing is assumed about the server.
TaskFairness == /\ WF_vars(TaskStep)
                /\ WF_vars(TimerStep)
                /\ WF_vars(PongArrives)
                /\ WF_vars(Tick)

FairSpec == Spec /\ TaskFairness

\* With a server that answers: the name resolves and every request is replied to.
ServedSpec == FairSpec /\ WF_vars(Connect) /\ WF_vars(ServerReplies)

-----------------------------------------------------------------------------
\* Type invariant of the session, the timers and the network.
Remaining(bound) == {Off} \cup 0..bound

TypeOK ==
  /\ pc \in {"boot", "loop", "disarm"}
  /\ open \in BOOLEAN /\ status \in {0, 1} /\ authorized \in BOOLEAN
  /\ features \in SUBSET {"session"}
  /\ hooks \in SUBSET {"bind", "conn", "iq"}
  /\ pongRules \in SUBSET RuleIds
  /\ queue \in 0..QueueLen
  /\ missed \in 0..MissLimit
  /\ pingTimer \in Remaining(PingPeriod) /\ pongTimer \in Remaining(PongTimeout)
  /\ reporting \in BOOLEAN
  /\ callback \in {"none", "count", "unhook", "walk", "check"}
  /\ loaded \in 0..MissLimit
  /\ alive \in BOOLEAN
  /\ asked \in SUBSET {"header", "sasl", "bind", "auth"}
  /\ net \in [PingIds -> Remaining(MaxDelay)]
  /\ rx \in Packets \cup {NoPacket}
  /\ pinged \in 0..(MissLimit + 1) /\ forgotten \in BOOLEAN

\* A device that says it is online (get_xmpp_conn_status) is logged in and
\* watched: it has a parser, is authenticated, and its ping timer runs.  The
\* timers run for no other state than online and the teardown that stops them.
Watched ==
  /\ status = 1 => open /\ authorized /\ Armed(pingTimer) /\ reporting
  /\ Armed(pingTimer) \/ reporting => status = 1 \/ pc = "disarm"

\* A ping waiting for its answer is always timed, so it cannot be forgotten:
\* the one pong timer covers every rule installed by _send_ping, however many
\* pings overlap.
PongTimed == pongRules # {} => Armed(pongTimer) \/ callback \in {"count", "unhook"}

\* _pong_timed_handler restarts the system only after at least PING_TIMEOUT_TIMES
\* pings in a row without an answer that _pong_handler took.  The exception is the
\* update that the code does lose: an answer between the read and the write of
\* ping_timeout_times leaves the earlier misses counted.
RestartJustified ==
  callback = "check" /\ missed = MissLimit => pinged >= MissLimit \/ forgotten

\* A server that answers within PONG_TIMEOUT never costs the device a miss, with
\* requests of its own in between (_send_ping, _pong_handler); provided that no
\* inform overwrites the ping's id.
NeverMissed == missed = 0 /\ callback = "none"

\* The handshake of xmpp_stream_handler, xmpp_bind_handler and xmpp_conn_handler
\* goes online only through authentication, binding and the session, in turn.
Stage == CASE ~open -> "closed"
           [] open /\ status = 1 -> "online"
           [] open /\ status = 0 /\ "conn" \in hooks -> "bound"
           [] open /\ status = 0 /\ "conn" \notin hooks /\ authorized -> "authorized"
           [] OTHER -> "opened"

Login == INSTANCE XmppLogin WITH stage <- Stage
LoginInOrder == Login!Spec

\* What the other components rely on of the session (XmppLink): it comes online
\* once between two restarts and never again after a teardown or a failed
\* connect, and the reporting timers run from then until the teardown's end.
Link == INSTANCE XmppLink
          WITH link <- CASE pc = "disarm" -> "closing"
                         [] pc = "loop" /\ ~open -> "gone"
                         [] status = 1 -> "online"
                         [] OTHER -> "login"
LinkAsPromised == Link!Spec

\* A device whose server is gone does not stay online: the watchdog restarts it,
\* however late xmppcli_task gets to its pings.
DeadServerNoticed == (status = 1 /\ ~alive) ~> (status = 0)

\* With a server that serves it, the device goes online and stays online.
LoginCompletes == <>[](status = 1)
=============================================================================
