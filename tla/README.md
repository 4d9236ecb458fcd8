# WME66 RTOS SDK: specifications

TLA+ modules for the application in `src/app` (an ESP8266 smart plug that
talks XMPP), TLC configurations that check them on small instances, and proofs
checked by TLAPS. `src/ESP8266_RTOS_SDK` and `src/app/iksemel` are vendored and
appear only as the application uses them.

## The system

`user_init` starts everything: the custom device (`user_custom_init`), the UART
task, the factory identity (`hnt_mgmt_factory_init`) and the task that, once
WiFi is up, runs the XMPP client. After that the program consists of

* **xmppcli_task** (priority 2), the loop of `hnt_xmppcli_start`. It alone
  reads the socket, so every stream hook, filter hook and RPC runs in it;
* the **FreeRTOS timer task** (the same priority: the two are time-sliced),
  which runs every `os_timer` callback: ping, pong, inform, sampling, key
  debounce, LED;
* **user_uart_task** (priority 1), which handles AT commands and frames from a
  microcontroller;
* **interrupts**: GPIO (the key), hardware timer FRC1 (long press), UART0.

They share the `sess` structure, the flash, a few queues and static variables,
and almost nothing is locked.

### Inventory

| Component | State | Operations | What makes it correct | Modelled in |
|---|---|---|---|---|
| Saved-parameter store, `mgmt/mgmt.c` | two save sectors, flag byte | load, save, factory reset | a save is atomic across a power loss at any flash operation | `ParamStore` |
| Factory identity, `mgmt/mgmt.c`, `atcmd/at_fiCmd.c` | one sector, `g_hnt_factory_param` | `AT+CF...`, `AT+ERASEF`, `AT+RST`, boot | the identity a device boots with is one that was given to it | `FactoryParam` |
| XMPP session, `xmpp/xmppcli.c` | `sess` (parser, filter rules, flags, counters), four timers, a queue of 4 | connect, login handshake, ping and pong, teardown | login in order; a dead server is noticed; a live one is not punished; no timer outlives its session | `XmppSession` |
| UART link, `user_uart/user_uart.c`, `driver/uart.c` | two queues, the caller's buffer | request with answer and one resend, dispatch, receive interrupt | a call returns, with the answer to its own request | `UartLink` |
| Key, `driver/key.c`, `driver/hw_timer.c` | pin, interrupt type, level, two timers | two interrupt handlers, a debounce callback | a press that bounces within the debounce time has one effect, the key never goes deaf, a long press is long | `Key` |
| Smart plug, `custom/user_smartplug.c` | switch status, relay, LEDs, long-press flag | short press, long press, SetPower/GetPower | relay, LED and reported status agree | `SmartPlug` inside `Cwmp`; `Key` (short and long press) |
| CWMP, `xmpp/xmppcli_cwmp*.c` | history, notification table, `xmpp_rpc_timer` | informs, sampling, alarms, four RPCs that do something | an acknowledged command is carried out unless a renewed session replaces it; samples reach the server as long as session and server last; the history stays bounded | `Cwmp` |
| Onboarding, `onbd/onbd.c` | receiver step, channel, two frame buffers, UDP counters | channel hopping, packet handling, UDP notification | it stays where it hears the phone it locked, joins with complete data only, ends, and an acknowledged device with announcements left is not reset | `SmartConfig`, `UdpNotify`, `Onboarding` |
| AT interpreter, `atcmd/` | none but the identity | lookup and dispatch | - | commands with an effect: `FactoryParam` |
| Start-up, `user/` | none | task creation | - | in the modules it starts |
| LED hook, timers, welcome lamp, robot, WebSocket sample | | | | not modelled: a function pointer, or compiled out, or unused |

Behaviours that are hard here: callbacks of the timer task interleaving with the
XMPP task on `sess`; teardown from inside the parser; a static id buffer shared
by both; power loss between flash operations; late and lost answers on the air
and on the wire; edges lost inside an interrupt handler; a 23-bit register; one
timer shared by three functions; a packet callback that preempts the hop it
races with; byte counters that wrap.
`PROJECT.json` lists each at its line, with the properties that are about it.

## Modules

| Module | Role |
|---|---|
| `PowerSafeStore` | abstract: one value, replaced in one step, kept whole by a power loss |
| `ParamStore` | the two-sector store, one step per flash operation; implements `PowerSafeStore` |
| `MCParamStore` | its TLC instance |
| `ParamStoreProofs` | theorems about `ParamStore` |
| `FactoryParam`, `MCFactoryParam` | the factory sector, the commands that write it, the boot that reads it |
| `FactoryParamProofs` | theorems about `FactoryParam` |
| `XmppLogin` | abstract: the stages of a login, in order, and losing it |
| `XmppLink` | abstract: what the rest of the program relies on of a session |
| `XmppSession`, `MCXmppSession` | the XMPP client; implements `XmppLogin` and `XmppLink` |
| `XmppSessionProofs` | theorems about `XmppSession` |
| `SmartPlug` | `eSmartPlugSetPower` and its two callers; a component of `Cwmp` |
| `RemoteCommand` | abstract: what becomes of a reboot or reset the server has ordered |
| `Cwmp` | CWMP in both tasks, on `XmppLink` and `SmartPlug`; implements `RemoteCommand` |
| `CwmpProofs` | theorems about `Cwmp` |
| `Enrolment` | abstract: whose network the device joins, and what an acknowledgement is worth |
| `SmartConfig` | listening for a phone's frames, channel hopping, fallback to an access point |
| `UdpNotify` | the UDP loop after it |
| `Onboarding`, `MCOnboarding` | `SmartConfig` followed by `UdpNotify`; implements `Enrolment` |
| `OnboardingProofs` | theorems about `Onboarding` |
| `UartLink`, `UartLinkProofs` | requests to the microcontroller; theorems about them |
| `Key`, `KeyProofs` | the push button; theorems about it |

How they compose:

    XmppSession --implements--> XmppLink <--assumes-- Cwmp --implements--> RemoteCommand
    XmppSession --implements--> XmppLogin              |
    ParamStore  --implements--> PowerSafeStore         +-- uses SmartPlug
    Onboarding = SmartConfig, then UdpNotify --implements--> Enrolment

`Cwmp` does not contain a copy of `XmppSession`: the product of the two is far
beyond TLC. They meet in `XmppLink` instead. `XmppSession` keeps it
(`LinkAsPromised`), and the session inside `Cwmp` never does anything it does
not allow (`SessionIsLink`). What the link alone does not say, when the watchdog
restarts the device, is `RestartJustified` and `NeverMissed` of `XmppSession`;
`Cwmp` assumes nothing of it, so `SessionCrash` may come with a healthy server
too (late pongs and overwritten ids trip the watchdog).

Definitions keep the source's names where TLA+ allows. Operators whose comment
says *mutant* are plausible bugs of a definition next to them. They are not part
of the specification; each makes one of the properties fail and so shows that
the property depends on the code.

### ParamStore

`save[0]`, `save[1]` and `flag` are the three sectors. A task that saves goes
through `BeginSave` (reads the flag), `EraseSave`, `WriteSave`, `EraseFlag`,
`WriteFlag`; one that resets through `ResetSave0`, `ResetSave1`, `ResetFlag`,
`Restart`. Erased flash reads as `Blank`; programming can only clear bits, so
`Program` over anything else yields `Garbage`, and so does a `PowerLoss` inside
an operation on a save sector. The flag byte needs no half-done state: the code
compares it with 0 only, and erasing sets bits while programming clears them, so
a half-done byte reads like the byte before or after the operation.
`ESP_PARAM_FLAG` starts erased.

`Spec` serialises the callers (`OneAtATime`). The code has no lock, and two
overlapping saves would program one sector twice; but it has no two callers
either: the timer groups and the welcome lamp, which save, are compiled out.

`system_restore` (the SDK's own configuration) is left out.

### FactoryParam

`sector` is the factory sector, field by field; `ram` is `g_hnt_factory_param`.
`SetField` is the body shared by the eight `AT+CF...` commands (load, change one
field, save), `SetDeviceInfo` is `AT+CFDEVICEINFO`. Only a command that passes
its syntax checks is an action: the others reply and change nothing. What a
command sets out to save counts as given, also when it was built on a torn
sector: that fields of an older identity are revived this way is what the code
does, and `OneIdentity` is only about mixing two given contents. A save is
two flash operations, `Erase` and `Write`; programming goes through the
structure from its first field on, so a power loss leaves a prefix, the last
field of it possibly cut. `FactoryInit` is `hnt_mgmt_factory_init`: it takes
fields up to the first erased one. The three fields of the instance stand for
the seven of the structure: the first, one derived from another, and the last.

### XmppSession

One step per packet handled by the XMPP task (`Recv...`), per timer callback,
and per server action. Three handlers are split where the other task can come
between: the teardown (`RecvEnd` frees parser and filter, `Disarm` stops the
timers), `_pong_timed_handler` in five steps (read the count, write it, unlink
the rules, end the walk through them, compare) and `_send_ping`, whose id may be
overwritten before it is read again (`RuleId`). `iks_filter_remove_hook` removes
every rule of the hook, so one answer ends the wait for all pings. Nothing locks
the list of rules: while the timer task walks it, a packet or a ping of the other
task may meet a freed rule (`CrashInFilter`), a rule added meanwhile may or may
not be reached, and a teardown may free the filter under the walk (`EndWalk`).
After a teardown nothing connects again: the parser returns into freed memory
(`Disarm` survives or reboots), and any later packet or ping reboots
(`CrashWithoutParser`).

An answer handled between the read and the write of `ping_timeout_times` is lost:
`RecvPong` sets the count to 0, `CountMiss` overwrites it, and the history
`forgotten` remembers. `RestartJustified` therefore says: a restart by the watchdog
has `MissLimit` unanswered pings in a row behind it, or this lost update. That is
a hazard the code has and no property excludes.

`xmpp_conn_handler` is one step: the timers it arms fire a period later, and
nothing the timer task does can come between. A conforming server answers what it
was asked (`ServerReplies`, `PongArrives`); any other sends what it likes in any
order and number (`AnyPacket`) until it ends the stream or is gone.

Time is counted in ticks; a tick passes only when nothing is due, so a timer
fires on its tick, while the XMPP task may be late without bound unless
`Prompt`. Requests and answers carry no content but the ping's id. CWMP is
outside: a request of the server changes nothing here, an inform only touches
the id buffer.

Environment assumptions are constants, so that a configuration shows which one
it makes: `Conforming` (the server logs the device in, sends nothing unasked and
never goes away), `Prompt` (the XMPP task gets to its socket and queue within a
tick), `MaxDelay` (how late a pong may be), `Overlaps` (an inform may be sent
during a ping).

### UartLink

The requests are numbered in the model only: on the wire `UART_SEQ` is always 0,
because nothing advances `uart_msg_seq`. A frame may be lost in either
direction, damaged (checksum, sequence number) or late. `Timeout` judges the
buffer that an earlier attempt left, as the code does. `timely` is chosen once:
the microcontroller answers within the 500 ticks, or not at all.

`Interrupt` takes one frame. The handler's loop keeps `rx_len` when it sees a
second timeout of the receiver, and would post the earlier bytes again with the
new ones. For that a second frame would have to arrive while the handler runs:
that takes microseconds, while at 115200 baud a byte takes 87 and the timeout
alone two bytes more. Noise that turns an answer into an event is not considered
either. Only one task calls `uart_tx_with_rsp` in the model; no caller is
compiled in with the smart plug.

### Key

The pin changes at any moment (`Glitch`); an edge sets the status bit `edge` only
if it is the one `intr` selects, and is otherwise lost. What one expects of a
button is a part of that: `Press` and `LetGo` two ticks of 50 ms apart or more,
each followed by any number of changes within its tick (`Bounce`). The history
`disturbed` tells whether the pin has done anything else, and `effects` counts
what the current press has done. `OneEffectPerPress` is about the undisturbed
part, the other properties about all of it. `key_intr_handler` disables the
interrupt at its start and enables it at its end, `key_50ms_cb` reads the pin
and enables the interrupt later: both gaps are steps of their own. The long
press handler runs in the hardware timer's interrupt and restarts the system
after a delay, during which everything else may go on (`restoring`). `Load`
keeps the 23 bits of `FRC1_LOAD_ADDRESS`, of the 25,000,000 ticks that
`hw_timer_arm(5*1000*1000)` writes at 5 MHz. `smartplug_switch_status` is
toggled here by the key only.

### SmartPlug

One step per statement of `eSmartPlugSetPower` that touches the status, the
relay or the LED. `Begin` fixes the argument: any value for a caller that is an
RPC, the opposite of the status just read for the button. `overlapped` is
history: whether another call was under way when the last one began. The status
is a plain global, so `SwitchRelay` may use the argument or read the global back
(the compiler may do either). Two calls that overlap can leave relay, LED and
status different from one another; `Agrees` is about what happens after.

### Cwmp

Three kinds of steps: RPCs of xmppcli_task (`SessionStarts`, `AnswerCommand`
then `ArmCommand`, `SetParameter`, `SetStep`, `SetAnswered`, `StreamEnds` then
`Disarm`), callbacks of the timer task (`RpcTimerFires`, `InformTimerFires`,
`SamplingTimerFires`, `ShortPress`), which run one at a time but between any two
steps of the other task, and what the world does. A callback that reports leaves
its reports in `job`; each is two steps, `CheckStatus` (the test in
`SendCwmpInform`) and `SendInform`, which dereferences the bound JID and so
restarts the system if the session was torn down in between.

`owed` is history, the command that was answered last. `CwmpRpcReboot` and
`CwmpRpcFactoryReset` answer before they arm the timer, so `owed` runs ahead of
`rpcTimer` for one step. A session result re-arms the same timer with
`start_cwmp_update`; a command that was pending is then replaced, which makes
`owed` "replaced" and is the step `Renew` of the contract, allowed only while the
session is served. The code does lose that command: `CommandCarriedOut` names it
as its one exception.

The stream may end while the server is there (`StreamEnds`): `alive` is about the
server, `link` about the session. Data are left out except where a property needs
them: `stored` counts samples, `lost` remembers that some were cleared that the
server did not get. A restart loses the samples in RAM, which is no property of
this code to keep, so both start anew with it. A parameter
set by the server goes to the plug, and one request may set it several times
(`SetStep`); the informs that follow a set change no state, nor does
`CwmpRpcGetParameterValues`. `CwmpRpcDownload` is inside `#if 0`. The long press
and power loss are outside: both restart everything at any moment.

`erased` is cleared by `SessionStarts`: a device that comes online has been
provisioned again.

### SmartConfig

`step` is the receiver's state. A packet is one step, because the promiscuous
callback runs in the WiFi task, whose priority is above the timer task's; but it
may come between any two steps of the hop: `HopTimerFires` (count),
`CheckStep` (look at `step`), `SwitchChannel` (use the channel list, change the
channel). A packet that locks in that gap leaves the receiver on another channel,
one that ends the listening frees the list that the hop then uses. Both happen
in the model, the first marked in `spoiled`, the second as outcome `"crash"`.

Phones of two protocols: those in `Airkiss` (one lock, then complete; the
decoder is in a library and its `airkiss_get_result` is taken to succeed) and
the others, frame by frame: `FirstFrame` (whose source is then the only one ever
listened to), `Preamble`, `Data`, `Decrypt`, `SetNetwork`. A phone is heard on
its own channel and on those it leaks into. `Tune` moves the receiver to the channel of the phone's network if the scan has
listed that network (`Listed`). One with a weak signal is not in `router_list`,
and then the receiver stays on the channel it heard the phone on, a leaked one
perhaps. `copies` are byte counters that wrap at `Wrap`; `received` is history.

### UdpNotify and Onboarding

The loop of `onbd_mgmt_udp_handler_start`: a round is one packet, or none within
a second (`Ignore`, `Configure`, `Acknowledge`), and then `Send`, which the code
calls also in the round that has just handled the acknowledgement. Whether the
loop runs as a station or an access point is chosen by `Start`: its callers are
not under `src/app` (`hnt_onbd_start` and the loop have none there, and
`onbd_mgmt_apconfig_start` and `hnt_onbd_fail_handler` are declared and not
defined). An acknowledgement is ignored in the mode STATIONAP, as in the code. `times` is a
byte: the last round, which resets the device, wraps it to 255. An
acknowledgement in that very round does not stop the reset; `AckedIsKept`
exempts it.

`Onboarding` runs the two parts one after the other; listening that ended in an
access point leaves `device_ap_ssid` allocated, to be freed twice.

`Enrolment` is what the owner of a device sees of both. Its `stage` is
"listening" until an outcome is there, then "joining" or "open", and after an
acknowledgement "kept", or "spent" if the last announcement had been made before
it; `whole` holds the phones whose data the device has in full, `network` the one
it has joined. Frames, hops, locks and announcements are stutters. Two of its
steps are there because the code takes them: `OpenAp` also from "joining" (a
`switch_to_next_chann` that was past its count when a packet completed the data
still arms the access point), and `Crash` (the freed channel list, the second
free of `device_ap_ssid`).

## Runs

| Run | Asks | Bounds, and why they are enough |
|---|---|---|
| `param_store_serial` | is the store power safe? | 2 tasks, 3 contents: old, new and another; every save alternates the two sectors, so all positions occur |
| `param_store_reset` | is a reset? No | the same |
| `factory_boot` | can a device boot with a mixed identity? | 3 fields, 2 values, 2 saves: a mixture needs two saves |
| `factory_torn` | is the factory sector power safe? No | the same |
| `xmpp_lossy` | login order, watchdog and teardown with a server that sends anything at any time | ping period 2, pong timeout 1, 2 misses, queue of 2, 2 ping ids: pongs come unasked, after their timeout and after the next ping, pings overlap because the task may be late without bound, the queue overflows, and both misses of the limit accumulate; `MaxDelay` binds only a conforming server |
| `xmpp_served` | does a served device stay online? | the real 120 s, 3 s and 3 misses in ticks of a second, pongs up to 2 ticks late, `Conforming`, `Prompt`, no `Overlaps` |
| `uart_loss` | do calls return, in order, with their own answer? | 4 calls, 2 attempts (the real number), queues of 2: answers of two calls and a flood of events fill them |
| `uart_stale` | can the sequence check tell stale answers? No | 2 calls |
| `key_bounce` | bouncing, lost edges, two interrupts | the real arguments of both timers in ticks of 50 ms; bounces without number within a tick |
| `key_long_press` | does a long press take 5 s? No | the same, history up to 5 s |
| `cwmp` | are acknowledged commands carried out, samples delivered, relay and status together? | informs every 4 ticks, samples every 2, `xmpp_rpc_timer` 1 tick: an inform comes due with and without a sample, a second command and a second session result fall into the delay of the first; 2 commands, 2 session results; 2 callers of the plug, step by step |
| `onboarding` | does it stay where it hears the phone, take the data for complete only when it is, end, and respect the acknowledgement; is that what `Enrolment` promises? | 3 channels; 2 phones with 3 frames each, one that leaks into the neighbour's channel and one whose network the scan has not listed and that is heard on two; one AirKiss phone that leaks; a counter that wraps at 3 instead of 256; 6 hops, so that every channel is visited twice and giving up is reached; 3 announcements, 5 for an access point |

`xmpp_served` is tight: with pongs one tick later, or without `Prompt`, TLC finds
a counted miss. Bounds that cut history (`MaxSaves`, `MaxCalls`, `MaxSince`, the
cap of `pinged`) are named in the modules. `UartLink` stops after `MaxCalls` and
`Onboarding` when the device has reset or restarted itself, so their runs do not
look for deadlocks; all others do. `xmpp_lossy`, `cwmp` and `onboarding` have
about 1.2, 0.9 and 1.3 million distinct states. `MaxOrders` in `cwmp` is not only for size: a
server that repeats its command within every second postpones it for ever, so
that `CommandCarriedOut` needs the number of orders to be finite.

`HistoryFits` bounds the number of samples, not their characters. The code sends
every 3600 s and samples every 300 s, 13 samples at most for each time the
session was started; 13 samples of a switch fit into the 512 characters of
`CwmpInformHistoryData`. After a session that was started again there may be
more, and nothing in the code checks.

### What the violations show

* `LoadIsIntact`: `hnt_mgmt_factory_reset`, under a comment that promises
  protection against power loss, erases the live sector in place.
* `SaveIsAtomic`: the factory sector has no second copy, though its comment
  says two sectors are toggled.
* `AnswersOwnRequest`: a late answer is returned to the next call, because the
  sequence number that is compared never changes.
* `LongPressTakes5s`: the timer register cuts 5 s to 1.64 s.

## Fairness

* `XmppSession`: weak fairness of the XMPP task, the timer task, time, and of
  pongs under way. FreeRTOS time-slices the two tasks; a pong in `net` has been
  sent over TCP and arrives. Nothing is assumed of the server, except in
  `ServedSpec`: there the name resolves and every request is answered.
* `UartLink`: the caller runs and its wait ends; the UART task runs; the
  microcontroller gets round to a request (it may still ignore it). No fairness
  for calls and events.
* `Cwmp`: both tasks run what they have begun and the timer task its due
  callbacks, and time passes. Nothing is assumed of requests, session results,
  failures or presses.
* `Onboarding`: the timer task runs; the phones go on sending all their frames
  (each frame of each phone separately), because a receiver that has locked has
  no timer any more and only a phone can end the listening; the UDP loop runs,
  its `select` ending after a second at the latest.
* `Key`: interrupts are served, the timer task runs, time passes; none for the
  user or for the restart.

## Proofs

Every invariant, action property and refinement of the passing runs is a theorem,
for all values of the constants (under the modules' named assumptions on them);
their liveness properties are not. Each proof follows one
scheme: an inductive invariant is named, shown for `Init` and kept by `Next`
with one step per action, and the property follows from it. The invariants:

* `ParamStoreProofs`: `StoreInv` adds to the types `OneAtATime`, `SaveProgress`
  (what the spare sector and the flag hold at each step of a save) and
  `ResetProgress`: between the program of the spare sector and the program of
  the flag, the flash itself must tell how far the save has got. `OthersIdle`
  reduces each action to the one task that is not idle. For the refinement of
  `PowerSafeStore`, a save takes effect at `WriteFlag` if the flag was not 0, and
  already at `EraseFlag` if it was, because an erased flag names sector 1. From
  the refinement follows what `LoadIsIntact` leaves standing: `SavedStays` (what
  a load returns changes only to the content of the running save, or in a reset)
  and `OnlyResetSpoils` (it is rubbish only after a power loss in a reset).
* `FactoryParamProofs`: the sector is empty, ruined, or a prefix of one identity
  that was given (`FromOne`, `Cut`); a save under way starts from such a sector.
  For any number of fields. `OnlyPowerLossTears` is the other side of
  `SaveIsAtomic`: a step leaves the sector, erases it, or brings in exactly the
  content its command set out to save, unless it is a power loss.
* `XmppSessionProofs`: `Inv` is the type invariant, `Watched` and `PongTimed`,
  with two lemmas of the proof's own. `Session`: a session without a parser is
  closed altogether, and a counted miss leaves the count below the limit.
  `CountJustified`: unless an answer was forgotten, the count of misses, with the
  one being counted, does not run ahead of the unanswered pings, from which
  `RestartJustified` follows. `Watched` alone is not inductive, since a stray packet
  might put a closed session online. The refinements `LinkKept` and
  `LoginOrdered` look at each step by its effect on the stage (`StepKinds`).
  `ServedNeverMissed` needs `Served`: an answer is in the receive buffer, or on
  its way and due before the pong timer.
  Assumed there: `Conforming`, `Prompt`, `~Overlaps` and `MaxDelay <
  PongTimeout`; with `MaxDelay` equal to it TLC finds a counted miss.
  `ServedStaysOnline` adds, from the same invariant, that such a device never
  leaves the session; what TLC alone checks of `LoginCompletes` is that it gets
  there.
* `CwmpProofs`: `SamplesKept` is the safety half of `SamplesDelivered`. `Session` ties the timers to the link; `Written` and `PlugSound`
  say what a caller that runs alone has already brought into line; `Answered`
  that an RPC not yet at the timer is the one owed. `HistoryFits` is not
  inductive: `Counted` relates the samples taken since the last inform to the two
  timers, and `HistoryBound` says when it holds. `SessionIsLink` and
  `CommandsAsContracted` map each step to a step of `XmppLink` and
  `RemoteCommand`, or none.
  `OnlyResetErases` follows from `ArmedIsOwed`: parameters are erased only by
  the reset that was answered last, or by one whose replacing reboot has been
  answered but has not reached the timer.
* `OnboardingProofs`: `Progress` (a receiver that waits for data has not got it
  all, one that has left has, and it stays where it hears its phone; `TunedWell`), `Counting` (the
  counted frames are as many as the different ones received, unless a counter
  wrapped; cardinality of finite sets) and `Announcing` (an acknowledgement has
  closed the socket, so that at most one announcement is still made).
  The refinement `Enrols` needs three more: `Ending` (once listening has ended
  nothing is heard), `Owning` (the data received, the network locked and the
  first phone heard belong together, although an AirKiss lock may override the
  other protocol at any moment) and `InTurn` (the UDP loop is entered after
  listening). It assumes that `Nobody` is no phone.
  Since the device implements `Enrolment`, what follows from that follows for the
  device: `JoinedIsWhole`, `JoinsForGood` and `KeptForGood` are proved from the
  few abstract steps alone, and none of the details.
* `UartLinkProofs`: `Calling` (an answer kept from an earlier attempt is no
  good). For timely answers, `OneInFlight`: a request, or its answer, is in at
  most one of the three places. For late ones, `Ordered`: two marks split the
  request numbers between the answers for the caller, those in the interrupt's
  queue, and the requests the microcontroller still has.
* `KeyProofs`: `Driver` (what interrupt type, level and timers know of each
  other), `OwnTime` (elapsed and remaining time of the hardware timer make up the
  delay), `Stages` (while the pin does what is expected of a button, the driver
  goes with each press through the same stages: it has not seen the press, waits
  for the release, checks an edge, handles it, or is at rest; and it knows at each
  of them what the press has done). `LongPressTimed` assumes that the history
  reaches as far as a long press.

Only model-checked: liveness (`DeadServerNoticed`, `LoginCompletes`,
`CallReturns`, `ListensAgain`, `CommandCarriedOut`, `SamplesDelivered`, `ListeningEnds`,
`AnnouncingEnds`), which with fairness and `ENABLED` is outside what the
installed provers can do, and the four violations.

## Not modelled

* The WiFi LED, a function pointer with one user, and `aponbd_wifi_scan_done`,
  which only prepares an answer. `processPacket` of `onbd.c` has no caller.
* Decoding: the bits of the onboarding frames, XML, the texts of informs, AT
  command lines. The models keep what the control depends on.
* `system_restore` (the SDK's own configuration), TLS (`HAVE_TLS` is undefined),
  memory exhaustion, and the SDK itself.
* `mgmt/timer.c`, `mgmt/welcome.c`, `custom/user_lexyrobot101.c`: compiled out.
  `websocket/websocket.c`: a sample nothing calls.

`PROJECT.json` lists the hazards no property covers, each with its reason. Either
the code has no answer to them (a login that never completes, a phone that stops
sending), or it does what one would fear, the model shows it, and the properties
name it as their exception: the pong forgotten between two steps of the timer
task, the reboot that a renewed session replaces, the hop that leaves a locked
channel or reads a freed list, the second free of `device_ap_ssid`.

The vendored SDK headers and `iksemel` make up most of `src/`; they have no
control of this program, and the compiled-out files most of the rest that is not
mapped.

## Plan

What would add most next, in this order.

1. The long press, its restart and the saved parameters inside `Cwmp`, so that
   `RemoteCommand` and `PowerSafeStore` meet in one restart.
2. A second caller of `uart_tx_with_rsp`, for builds whose devices have one.
