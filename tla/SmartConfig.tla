----------------------------- MODULE SmartConfig -----------------------------
(***************************************************************************)
(* The listening part of onboarding (onbd/onbd.c): the device hops from    *)
(* channel to channel until it hears a phone, stays on that phone's        *)
(* channel, collects the network's name and password from the addresses    *)
(* of multicast frames and connects; or it gives up and becomes an access  *)
(* point.                                                                  *)
(*                                                                         *)
(* on_recv_wifi_promiscuous_pkt runs in the WiFi task, whose priority is   *)
(* higher than the timer task's: a packet is handled in one step, and may  *)
(* come between any two steps of switch_to_next_chann.                     *)
(***************************************************************************)
EXTENDS Integers, FiniteSets

CONSTANTS
  Channels,    \* 1..n: scan_chan_list, need_scan_channel_num
  MaxHops,     \* CHANNEL_SWITCH_TOTAL_TIME / CHANNEL_SWITCH_TIME
  Length,      \* data_len: frames of data a phone sends
  Wrap,        \* a counter of encrypt_num_str is a char: 256
  Phones,      \* phones that onboard some device near by
  Airkiss,     \* those of them that use the AirKiss protocol
  Listed,      \* those whose network the scan put into router_list: one with
               \* a weak signal (rssi <= -70) is left out
  Home,        \* Home[p]: the channel of the listed network phone p is on
  Leaks        \* Leaks[p]: any other channels on which p is heard

Nobody == "nobody"

ASSUME RadioAssumption ==
  /\ Cardinality(Channels) \in Nat \ {0} /\ Channels = 1..Cardinality(Channels)
  /\ MaxHops \in Nat /\ Length \in Nat \ {0} /\ Wrap \in Nat \ {0, 1}
  /\ Nobody \notin Phones /\ Airkiss \subseteq Phones
  /\ Listed \subseteq Phones
  /\ Home \in [Listed -> Channels] /\ Leaks \in [Phones -> SUBSET Channels]

VARIABLES
  step,         \* the state of the receiver, shared by both tasks
  source,       \* gHntSrcMac: the first phone heard, for ever
  preambles,    \* preambles heard: data_len1, data_len2
  copies,       \* encrypt_num_str
  counted,      \* encrypt_data_num
  router,       \* the phone whose network router_ap_bssid is
  sniffing,     \* promiscuous mode is on
  channel,
  curr_chan_index,
  timer,        \* what onbd_notify_timer is armed with, or "off"
  hops,         \* switch_channel_times
  hop,          \* step of a running switch_to_next_chann, or "none"
  buffers,      \* encrypt_str and the others are allocated
  outcome,      \* "none", "station" (connecting), "ap" or "crash"
  received,     \* history: the data frames stored since the channel was locked
  spoiled       \* history: a late hop left the locked "channel", or a counter
                \* wrapped and a frame was "counted" twice

receiver == <<step, source, preambles, copies, counted, router, received>>
radio    == <<sniffing, channel>>
hopper   == <<timer, hops, hop, curr_chan_index>>
vars     == <<receiver, radio, hopper, buffers, outcome, spoiled>>

Indices == 0..(Length - 1)
None == [i \in Indices |-> 0]
Locked == {"recv_data", "decrypt", "set_network", "airkiss"}
HeardOn(phone) == (IF phone \in Listed THEN {Home[phone]} ELSE {}) \cup Leaks[phone]

\* hnt_onbd_start up to onboarding_start: the scan found the networks.
Init ==
  /\ step = "start" /\ source = Nobody /\ preambles = {}
  /\ copies = None /\ counted = 0 /\ router = Nobody /\ received = {}
  /\ sniffing = TRUE /\ channel = 1 /\ curr_chan_index = 1
  /\ timer = "hop" /\ hops = 0 /\ hop = "none"
  /\ buffers = TRUE
  /\ outcome = "none" /\ spoiled = {}

-----------------------------------------------------------------------------
\* switch_to_next_chann, every CHANNEL_SWITCH_TIME, in the timer task.
HopTimerFires ==
  /\ timer = "hop"
  /\ hop = "none"
  /\ hops' = hops + 1
  /\ hop' = IF hops + 1 > MaxHops THEN "give_up" ELSE "check"
  /\ UNCHANGED <<receiver, radio, timer, curr_chan_index, buffers, outcome, spoiled>>

\* Mutant: the timer is disarmed and not armed again.
BecomeIdle == sniffing' = FALSE /\ buffers' = FALSE /\ timer' = "off"
\* Listening ends and the timer is armed for onbd_mgmt_apconfig_start.
BecomeAp == /\ sniffing' = FALSE
            /\ buffers' = FALSE
            /\ timer' = "apconfig"

GiveUp ==
  /\ hop = "give_up"
  /\ BecomeAp
  /\ hops' = 0
  /\ hop' = "none"
  /\ UNCHANGED <<receiver, channel, curr_chan_index, outcome, spoiled>>

CheckStep ==
  /\ hop = "check"
  /\ hop' = IF step = "start" THEN "switch" ELSE "none"
  /\ UNCHANGED <<receiver, radio, timer, hops, curr_chan_index, buffers, outcome, spoiled>>

\* Mutant: the index runs past the end of the list.
PastTheEnd == curr_chan_index + 1
NextChannel == (curr_chan_index % Cardinality(Channels)) + 1

\* The list may have been freed since, and the channel locked.
SwitchChannel ==
  /\ hop = "switch"
  /\ hop' = "none"
  /\ IF buffers
     THEN /\ channel' = NextChannel
          /\ curr_chan_index' = NextChannel
          /\ spoiled' = IF step \in Locked THEN spoiled \cup {"channel"} ELSE spoiled
          /\ UNCHANGED outcome
     ELSE /\ outcome' = "crash"
          /\ UNCHANGED <<channel, curr_chan_index, spoiled>>
  /\ UNCHANGED <<receiver, sniffing, timer, hops, buffers>>

ApConfig ==
  /\ timer = "apconfig" /\ outcome # "crash"
  /\ hop = "none"
  /\ timer' = "off"
  /\ outcome' = "ap"
  /\ UNCHANGED <<receiver, radio, hops, hop, curr_chan_index, buffers, spoiled>>

-----------------------------------------------------------------------------
\* on_recv_wifi_promiscuous_pkt.
Hears(phone) == /\ sniffing /\ outcome # "crash"
                /\ channel \in HeardOn(phone)

\* A probe request for the access point of this device.
ProbeRequest ==
  /\ sniffing /\ outcome # "crash"
  /\ BecomeAp
  /\ UNCHANGED <<receiver, channel, hops, hop, curr_chan_index, outcome, spoiled>>

\* Mutant: the channel is not corrected to the network's own.
StayTuned(phone) == timer' = "off" /\ router' = phone /\ channel' = channel
\* Hopping ends: on the channel of the network the packet came from, or, when
\* promisc_get_fixed_channel does not find that network, where it was heard.
Tune(phone) == /\ timer' = "off"
               /\ router' = phone
               /\ channel' = IF phone \in Listed THEN Home[phone] ELSE channel

\* Mutant: promiscuous mode is not switched off.
StayPromiscuous == outcome' = "station" /\ timer' = "off" /\ buffers' = FALSE /\ UNCHANGED sniffing
\* connect_to_ap and onbd_done.
ConnectToAp == /\ outcome' = "station"
               /\ timer' = "off"
               /\ sniffing' = FALSE
               /\ buffers' = FALSE

\* hnt_airkiss_recv; a lock overrides what the other protocol has collected.
AirkissLock(phone) ==
  /\ phone \in Airkiss
  /\ Hears(phone)
  /\ step # "airkiss"
  /\ step' = "airkiss"
  /\ Tune(phone)
  /\ UNCHANGED <<source, preambles, copies, counted, received, sniffing, hops, hop,
                 curr_chan_index, buffers, outcome, spoiled>>

AirkissComplete(phone) ==
  /\ router = phone
  /\ Hears(phone)
  /\ step = "airkiss"
  /\ step' = "done"
  /\ ConnectToAp
  /\ UNCHANGED <<source, preambles, copies, counted, router, received, channel, hops,
                 hop, curr_chan_index, spoiled>>

\* The other protocol (hnt_process_packet), for a multicast frame of phone.
Frame(phone) == /\ phone \notin Airkiss
                /\ Hears(phone)
                /\ step # "airkiss"

\* hnt_wifi_compare_mac_addr: the first frame is only remembered.
FirstFrame(phone) ==
  /\ Frame(phone)
  /\ source = Nobody
  /\ source' = phone
  /\ UNCHANGED <<step, preambles, copies, counted, router, received, radio, hopper,
                 buffers, outcome, spoiled>>

\* hnt_lock_channel, until both preambles have been heard.
Preamble(phone, number) ==
  /\ Frame(phone) /\ source = phone
  /\ step = "start"
  /\ preambles' = preambles \cup {number}
  /\ IF preambles' # {1, 2}
     THEN UNCHANGED <<step, copies, counted, router, received, channel, timer>>
     ELSE /\ step' = "recv_data"
          /\ copies' = None /\ counted' = 0 /\ received' = {}
          /\ Tune(phone)
  /\ UNCHANGED <<source, sniffing, hops, hop, curr_chan_index, buffers, outcome, spoiled>>

\* Mutant: resemble counts a frame whether it is new or not.
EveryFrame(index) == TRUE
NewFrame(index) == copies[index] = 0

\* A frame with data; resemble stores it, and once the preambles are known any
\* frame locks the channel again.
Data(phone, index) ==
  /\ Frame(phone) /\ source = phone
  /\ \/ /\ step = "recv_data"
        /\ copies' = [copies EXCEPT ![index] = (@ + 1) % Wrap]
        /\ IF NewFrame(index)
           THEN /\ counted' = counted + 1
                /\ received' = received \cup {index}
                /\ step' = IF counted' = Length THEN "decrypt" ELSE step
                /\ spoiled' = IF copies[index] = 0 /\ index \in received
                              THEN spoiled \cup {"counted"} ELSE spoiled
           ELSE UNCHANGED <<counted, received, step, spoiled>>
        /\ UNCHANGED <<router, channel, timer>>
     \/ /\ step = "start" /\ preambles = {1, 2}
        /\ step' = "recv_data"
        /\ copies' = None /\ counted' = 0 /\ received' = {}
        /\ Tune(phone)
        /\ UNCHANGED spoiled
  /\ UNCHANGED <<source, preambles, sniffing, hops, hop, curr_chan_index, buffers, outcome>>

\* The frames that follow, whatever they hold, let it decrypt ...
Decrypt(phone) ==
  /\ Frame(phone) /\ source = phone
  /\ step = "decrypt"
  /\ step' = "set_network"
  /\ UNCHANGED <<source, preambles, copies, counted, router, received, radio, hopper,
                 buffers, outcome, spoiled>>

ChecksumRight == received = Indices

\* ... and set_network: a wrong sum starts again, with nothing to time it.
SetNetwork(phone) ==
  /\ Frame(phone) /\ source = phone
  /\ step = "set_network"
  /\ \/ ChecksumRight /\ step' = "exit" /\ ConnectToAp
     \/ /\ ~ChecksumRight
        /\ step' = "start"
        /\ UNCHANGED <<outcome, timer, sniffing, buffers>>
  /\ UNCHANGED <<source, preambles, copies, counted, router, received, channel, hops,
                 hop, curr_chan_index, spoiled>>

-----------------------------------------------------------------------------
AirkissPacket(phone) == AirkissLock(phone) \/ AirkissComplete(phone)
Followup(phone) == Decrypt(phone) \/ SetNetwork(phone)
TimerStep == HopTimerFires \/ GiveUp \/ CheckStep \/ SwitchChannel \/ ApConfig

Next == \/ TimerStep \/ ProbeRequest
        \/ \E phone \in Phones :
             \/ AirkissPacket(phone) \/ FirstFrame(phone) \/ Followup(phone)
             \/ \E number \in {1, 2} : Preamble(phone, number)
             \/ \E index \in Indices : Data(phone, index)

\* The phones go on sending all their frames; the timer task runs.
PhonesFair ==
  \A phone \in Phones : /\ WF_vars(AirkissPacket(phone))
                        /\ WF_vars(Followup(phone))
                        /\ \A index \in Indices : WF_vars(Data(phone, index))

Spec == Init /\ [][Next]_vars /\ WF_vars(TimerStep) /\ PhonesFair

-----------------------------------------------------------------------------
\* Type invariant.
TypeOK ==
  /\ step \in Locked \cup {"start", "done", "exit"}
  /\ source \in Phones \cup {Nobody} /\ router \in Phones \cup {Nobody}
  /\ preambles \subseteq {1, 2}
  /\ copies \in [Indices -> 0..(Wrap - 1)]
  /\ counted \in 0..Length
  /\ received \subseteq Indices
  /\ sniffing \in BOOLEAN /\ channel \in Channels /\ curr_chan_index \in Channels
  /\ timer \in {"off", "hop", "apconfig"} /\ hops \in 0..(MaxHops + 1)
  /\ hop \in {"none", "check", "switch", "give_up"}
  /\ buffers \in BOOLEAN
  /\ outcome \in {"none", "station", "ap", "crash"}
  /\ spoiled \subseteq {"channel", "counted"}

\* A receiver that has locked a channel stays where it hears the phone: on the
\* network's own channel if the scan had listed it (promisc_get_fixed_channel), else
\* on one to which the phone leaks; and nothing hops or gives up any more.  Only a
\* switch_to_next_chann that was already past its look at step takes it away.
StaysOnChannel ==
  step \in Locked /\ sniffing =>
    /\ timer = "off"
    /\ \/ router \in Listed /\ channel = Home[router]
       \/ router \notin Listed /\ channel \in HeardOn(router)
       \/ "channel" \in spoiled

\* encrypt_data_num counts different frames, however often each is heard and in
\* whatever order: the data is taken for complete only when it is; but the
\* counters wrap after 256 copies.
CompleteWhenCounted ==
  step \in {"decrypt", "set_network"} => received = Indices \/ "counted" \in spoiled

\* Listening ends: the device connects, becomes an access point or restarts, as
\* long as the phones keep sending, unless a hop in the wrong moment takes it off
\* the channel or a counter wraps.
ListeningEnds == <>(outcome # "none" \/ spoiled # {})
=============================================================================
