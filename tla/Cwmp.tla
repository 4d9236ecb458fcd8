--------------------------------- MODULE Cwmp ---------------------------------
(***************************************************************************)
(* CWMP over XMPP (xmpp/xmppcli_cwmp.c) on top of the session (XmppLink)   *)
(* and the relay (SmartPlug): the server's RPCs run in xmppcli_task, the   *)
(* periodic reports, the button and the delayed commands in the timer      *)
(* task, and the two share the session, the parameters and one timer,      *)
(* xmpp_rpc_timer.  A tick is the unit of RpcDelay.                        *)
(***************************************************************************)
EXTENDS Integers, Sequences

CONSTANTS
  InformPeriod,    \* inform_intval_seconds_, in ticks
  SamplingPeriod,  \* sampling_intval_seconds_
  RpcDelay,        \* the 1000 ms of xmpp_rpc_timer
  Updates,         \* a registered parameter has HNT_XMPP_PATH_FLAG_UPDATE
  MaxSessions,     \* bound on the session results of one connection
  MaxOrders        \* bound on the reboots and resets ordered before a restart

ASSUME PeriodAssumption ==
  /\ InformPeriod \in Nat \ {0}
  /\ SamplingPeriod \in Nat \ {0}
  /\ RpcDelay \in Nat \ {0}
  /\ Updates \in BOOLEAN
  /\ MaxSessions \in Nat \ {0}
  /\ MaxOrders \in Nat

VARIABLES
  \* the session
  link,          \* see XmppLink
  alive,         \* the server is there and gets what is sent
  sessions,      \* history: session results since the restart
  \* xmppcli_task
  rpc,           \* the RPC it is in the middle of, or "none"
  owed,          \* history: the reboot or reset answered last, or "replaced"
                 \* when a session result took the timer from it
  orders,        \* history: how many were answered
  \* timers and the timer task
  informTimer,   \* ticks left, or Off
  samplingTimer,
  rpcTimer,      \* xmpp_rpc_timer: its function and the ticks left
  job,           \* the reports a running callback still has to send
  checked,       \* SendCwmpInform has found the session up
  \* data
  stored,        \* samples in m_historyDataStructs of a parameter with
                 \* HNT_XMPP_PATH_FLAG_HISTORY
  lost,          \* history: samples were cleared that the server did not get
  erased,        \* history: the saved parameters are erased
  \* the plug
  smartplug_switch_status, relay, powerLed, call, overlapped

conn  == <<link, alive, sessions>>
task  == <<rpc, owed, orders>>
timer == <<informTimer, samplingTimer, rpcTimer>>
work  == <<job, checked>>
data  == <<stored, lost, erased>>
plug  == <<smartplug_switch_status, relay, powerLed, call, overlapped>>
vars  == <<conn, task, timer, work, data, plug>>

Off == -1
Commands == {"reboot", "reset"}
Disarmed == [fn |-> "none", left |-> Off]

Plug == INSTANCE SmartPlug WITH Callers <- {"rpc", "key"}
Link == INSTANCE XmppLink WITH reporting <- informTimer # Off

Init ==
  /\ link = "login" /\ alive = FALSE /\ sessions = 0
  /\ rpc = "none" /\ owed = "none" /\ orders = 0
  /\ informTimer = Off /\ samplingTimer = Off /\ rpcTimer = Disarmed
  /\ job = <<>> /\ checked = FALSE
  /\ stored = 0 /\ lost = FALSE /\ erased = FALSE
  /\ Plug!Init

\* system_restart, or an exception.  The samples are in RAM and go with it.
Restart ==
  /\ link' = "login" /\ alive' = FALSE /\ sessions' = 0
  /\ rpc' = "none" /\ owed' = "none" /\ orders' = 0
  /\ informTimer' = Off /\ samplingTimer' = Off /\ rpcTimer' = Disarmed
  /\ job' = <<>> /\ checked' = FALSE
  /\ stored' = 0 /\ lost' = FALSE
  /\ Plug!Restart

-----------------------------------------------------------------------------
\* xmppcli_task.

\* Mutant: the function of a pending command stays.
ArmOnly(fn) == rpcTimer' = [rpcTimer EXCEPT !.left = RpcDelay]
\* Disarm xmpp_rpc_timer, give it another function and arm it.
Schedule(fn) == rpcTimer' = [fn |-> fn, left |-> RpcDelay]

\* xmpp_conn_handler, with start_cwmp_inform, on a device that has been set up.
\* A server may send a second result: a new offer of features installs the
\* handler again.  It takes the timer from a command that is waiting for it.
SessionStarts ==
  /\ rpc = "none"
  /\ sessions < MaxSessions
  /\ \/ link = "login" /\ link' = "online" /\ alive' = TRUE /\ erased' = FALSE
     \/ link = "online" /\ alive /\ UNCHANGED <<link, alive, erased>>
  /\ sessions' = sessions + 1
  /\ Schedule("update")
  /\ owed' = IF owed \in Commands THEN "replaced" ELSE owed
  /\ informTimer' = InformPeriod
  /\ samplingTimer' = SamplingPeriod
  /\ UNCHANGED <<rpc, orders, work, stored, lost, plug>>

\* _iq_handler passes a request to CwmpRpcProcess.
Requested(method) == /\ link = "online" /\ alive
                     /\ rpc = "none"
                     /\ rpc' = method

\* CwmpRpcReboot and CwmpRpcFactoryReset answer first ...
AnswerCommand ==
  /\ \E command \in Commands : Requested(command) /\ owed' = command
  /\ orders < MaxOrders
  /\ orders' = orders + 1
  /\ UNCHANGED <<conn, timer, work, data, plug>>

\* ... then arm the timer, for a reset in system_factory_reset.
ArmCommand ==
  /\ rpc \in Commands
  /\ Schedule(rpc)
  /\ rpc' = "none"
  /\ UNCHANGED <<conn, owed, orders, informTimer, samplingTimer, work, data, plug>>

\* CwmpRpcSetParameterValues: DoSetParameterValues enters the plug's function,
\* and the answer and the two informs follow in this task.
SetParameter ==
  /\ Requested("set")
  /\ \E value \in {0, 1} : Plug!Begin("rpc", value)
  /\ UNCHANGED <<conn, owed, orders, timer, work, data>>

\* One request may set several parameters, or one several times.
SetStep == /\ rpc = "set"
           /\ Plug!Step("rpc") \/ \E value \in {0, 1} : Plug!Begin("rpc", value)
           /\ UNCHANGED <<conn, task, timer, work, data>>

SetAnswered == /\ rpc = "set"
               /\ Plug!Idle("rpc")
               /\ rpc' = "none"
               /\ UNCHANGED <<conn, owed, orders, timer, work, data, plug>>

\* The stream ends, on a server that may be there for a new one:
\* user_xmppclient_disconnect frees the session ...
StreamEnds ==
  /\ rpc = "none"
  /\ link = "online"
  /\ link' = "closing"
  /\ UNCHANGED <<alive, sessions, task, timer, work, data, plug>>

\* Mutant: stops every timer, that of a pending command too.
StopAll == informTimer' = Off /\ samplingTimer' = Off /\ rpcTimer' = Disarmed
StopReports == informTimer' = Off /\ samplingTimer' = Off /\ UNCHANGED rpcTimer

\* ... and stops its timers, but not xmpp_rpc_timer.
Disarm ==
  /\ link = "closing"
  /\ link' = "gone"
  /\ StopReports
  /\ UNCHANGED <<alive, sessions, task, work, data, plug>>

\* Without a session the program may crash at any time.  With one the watchdog
\* may restart it: when the server is gone, or when its pongs come too late or
\* have met a rule with an overwritten id.
SessionCrash == /\ link # "login"
                /\ Restart
                /\ UNCHANGED erased

-----------------------------------------------------------------------------
\* The timer task: one callback at a time.
Free == job = <<>> /\ Plug!Idle("key")

UpdateReport == IF Updates THEN <<"update">> ELSE <<>>

RpcTimerFires ==
  /\ Free
  /\ rpcTimer.left = 0
  /\ \/ /\ rpcTimer.fn = "update"
        /\ rpcTimer' = Disarmed
        /\ job' = UpdateReport
        /\ UNCHANGED <<conn, task, informTimer, samplingTimer, checked, data, plug>>
     \/ /\ rpcTimer.fn = "reboot"
        /\ Restart
        /\ UNCHANGED erased
     \/ /\ rpcTimer.fn = "reset"
        /\ Restart
        /\ erased' = TRUE

\* cwmp_inform_handler: the history, then the parameters to update.
InformTimerFires ==
  /\ Free
  /\ informTimer = 0
  /\ informTimer' = InformPeriod
  /\ job' = (IF stored > 0 THEN <<"history">> ELSE <<>>) \o UpdateReport
  /\ UNCHANGED <<conn, task, samplingTimer, rpcTimer, checked, data, plug>>

\* cwmp_sampling_handler: one more sample, and alarms for values out of limits.
SamplingTimerFires ==
  /\ Free
  /\ samplingTimer = 0
  /\ samplingTimer' = SamplingPeriod
  /\ stored' = stored + 1
  /\ job' \in {<<>>, <<"alarm">>}
  /\ UNCHANGED <<conn, task, informTimer, rpcTimer, checked, lost, erased, plug>>

\* Mutant: samples are counted as sent and kept.
KeepHistory(gotThere) == /\ stored' = stored
                         /\ lost' = (lost \/ ~gotThere)
                         /\ job' = Tail(job)

\* A report is done; CwmpInformHistoryData then clears the history, sent or not.
Finish(gotThere) ==
  /\ job' = Tail(job)
  /\ IF Head(job) = "history"
     THEN stored' = 0 /\ lost' = (lost \/ ~gotThere)
     ELSE UNCHANGED <<stored, lost>>

\* Mutant: informs are not sent while an RPC is being served.
OnlineAndIdle == link = "online" /\ rpc = "none"
get_xmpp_conn_status == link = "online"

\* SendCwmpInform looks at the status ...
CheckStatus ==
  /\ job # <<>>
  /\ ~checked
  /\ \/ /\ get_xmpp_conn_status
        /\ checked' = TRUE
        /\ UNCHANGED <<job, stored, lost>>
     \/ /\ ~get_xmpp_conn_status
        /\ Finish(FALSE)
        /\ UNCHANGED checked
  /\ UNCHANGED <<conn, task, timer, erased, plug>>

\* ... then builds the stanza with the bound JID and sends it: both are gone if
\* xmppcli_task has torn the session down meanwhile.
SendInform ==
  /\ checked
  /\ \/ /\ link = "online"
        /\ checked' = FALSE
        /\ Finish(alive)
        /\ UNCHANGED <<conn, task, timer, erased, plug>>
     \/ /\ link # "online"
        /\ Restart
        /\ UNCHANGED erased

Pressed == smartplug_switch_status + 1    \* mutant: counts presses
Toggled == 1 - smartplug_switch_status

\* smartplug_key_short_press.
ShortPress ==
  /\ Free
  /\ rpcTimer.left # 0 /\ informTimer # 0 /\ samplingTimer # 0
  /\ Plug!Begin("key", Toggled)
  /\ UNCHANGED <<conn, task, timer, work, data>>

PressStep == /\ Plug!Step("key")
             /\ UNCHANGED <<conn, task, timer, work, data>>

\* Time passes once the callbacks that are due have run.
CountDown(left) == IF left = Off THEN Off ELSE left - 1

Tick ==
  /\ rpcTimer.left # 0 /\ informTimer # 0 /\ samplingTimer # 0
  /\ informTimer' = CountDown(informTimer)
  /\ samplingTimer' = CountDown(samplingTimer)
  /\ rpcTimer' = [rpcTimer EXCEPT !.left = CountDown(@)]
  /\ UNCHANGED <<conn, task, work, data, plug>>

-----------------------------------------------------------------------------
\* The connection never comes up, or the server is lost silently.  Once the
\* session is over it makes no difference.
LoginFails == /\ link = "login"
              /\ link' \in {"closing", "gone"}
              /\ UNCHANGED <<alive, sessions, task, timer, work, data, plug>>

ServerDies == /\ link = "online"
              /\ alive
              /\ alive' = FALSE
              /\ UNCHANGED <<link, sessions, task, timer, work, data, plug>>

-----------------------------------------------------------------------------
ClientStep == ArmCommand \/ SetStep \/ SetAnswered \/ Disarm
TimerStep == \/ RpcTimerFires \/ InformTimerFires \/ SamplingTimerFires
             \/ CheckStatus \/ SendInform \/ PressStep
Environment == \/ SessionStarts \/ AnswerCommand \/ SetParameter \/ StreamEnds
               \/ SessionCrash \/ ShortPress \/ LoginFails \/ ServerDies

Next == ClientStep \/ TimerStep \/ Environment \/ Tick

Spec == Init /\ [][Next]_vars

\* Both tasks run and time passes; requests, presses and failures need not come.
FairSpec == Spec /\ WF_vars(ClientStep) /\ WF_vars(TimerStep) /\ WF_vars(Tick)

-----------------------------------------------------------------------------
\* Type invariant.
TypeOK ==
  /\ link \in {"login", "online", "closing", "gone"}
  /\ alive \in BOOLEAN /\ sessions \in 0..MaxSessions
  /\ rpc \in Commands \cup {"none", "set"}
  /\ owed \in Commands \cup {"none", "replaced"} /\ orders \in 0..MaxOrders
  /\ informTimer \in {Off} \cup 0..InformPeriod
  /\ samplingTimer \in {Off} \cup 0..SamplingPeriod
  /\ rpcTimer \in [fn : Commands \cup {"none", "update"}, left : {Off} \cup 0..RpcDelay]
  /\ job \in Seq({"history", "update", "alarm"})
  /\ checked \in BOOLEAN
  /\ stored \in Nat /\ lost \in BOOLEAN /\ erased \in BOOLEAN
  /\ Plug!TypeOK

\* xmpp_rpc_timer is shared by the first update, reboot and factory reset: what
\* it is armed with is the command answered last, unless the handler of a newer
\* one has answered and not yet come to the timer, or a session result has
\* replaced it.
Pending == IF rpcTimer.fn \in Commands /\ rpcTimer.left # Off THEN rpcTimer.fn ELSE "none"

ArmedIsOwed == \/ owed = Pending
               \/ owed = "replaced" /\ Pending = "none"
               \/ rpc \in Commands /\ rpc = owed

\* A command of the server, once armed, is carried out as it was ordered, even
\* when the session is torn down first (user_xmppclient_disconnect leaves
\* xmpp_rpc_timer running); nothing else erases the saved parameters.
Command == INSTANCE RemoteCommand WITH
             phase <- CASE link = "login"             -> "starting"
                        [] link = "online" /\ alive   -> "served"
                        [] OTHER                      -> "lost",
             pending <- Pending
CommandContract == Command!Spec

\* A device that has answered a reboot or a reset does restart, whatever becomes
\* of the session.  The exception is the command that the code does lose, to the
\* first update of a session that the server starts anew within RpcDelay.
CommandCarriedOut == owed \in Commands ~> owed \in {"none", "replaced"}

\* CwmpInformHistoryData clears the samples whether SendCwmpInform sent them or
\* dropped them: still, as long as the session is up and the server there, all
\* that were stored reach it (cwmp_inform_handler, get_xmpp_conn_status).
Served == link = "online" /\ alive
SamplesDelivered == stored > 0 /\ Served ~> ~Served \/ (stored = 0 /\ ~lost)

\* The text of an inform is built in a buffer of 512 characters: it never holds
\* more samples than one per sampling period between two informs, and one more
\* when both timers are due at once, for each time the session was started.
\* (With the periods of the code that is 13, and 13 samples of a switch fit;
\* those of a session that was started twice need not.)
HistoryFits == stored <= sessions * (InformPeriod \div SamplingPeriod + 1)

\* The relay, its LED and the value reported to the server agree, unless the
\* server and the button switched at the same moment.
RelayAgrees == Plug!Agrees
=============================================================================
