------------------------------ MODULE UdpNotify ------------------------------
(***************************************************************************)
(* The loop of onbd_mgmt_udp_handler_start (onbd/onbd.c): a device that    *)
(* has joined a network announces itself once a second, or after every     *)
(* packet, until the phone acknowledges; a device that is an access point  *)
(* waits for its configuration.  When onbd_udp_notify_times is used up the *)
(* device resets itself.                                                   *)
(***************************************************************************)
EXTENDS Integers

CONSTANTS
  UdpTimes,     \* ONBD_UDP_TIMES
  ApTimes       \* APONBD_UDP_TIMES

VARIABLES
  device_ap_ssid, \* it is allocated; only read here
  at,           \* "out" of the loop, at its "top", before the "send", "reset",
                \* or "crash"
  times,        \* onbd_udp_notify_times
  abort,        \* onbd_mgmt_udp_abort
  socket,       \* sudp >= 0
  opmode,       \* wifi_get_opmode()
  configured,   \* decrypt_str # NULL: a configuration has been taken
  acked         \* history: how many times were left when the phone
                \* acknowledged, or Never

vars == <<at, times, abort, socket, opmode, configured, acked>>

Never == -1
Modes == {"station", "softap", "stationap"}

\* onbd_mgmt_udp_init.
Init ==
  /\ at = "out" /\ times = UdpTimes
  /\ abort = FALSE /\ socket = TRUE
  /\ opmode = "stationap"
  /\ configured = FALSE /\ acked = Never

\* The program enters the loop in the mode it has chosen.
Start ==
  /\ at = "out"
  /\ socket
  /\ at' = "top"
  /\ abort' = FALSE
  /\ opmode' \in Modes
  /\ UNCHANGED <<times, socket, configured, acked>>

Leave ==
  /\ at = "top"
  /\ abort \/ ~socket
  /\ at' = "out"
  /\ UNCHANGED <<times, abort, socket, opmode, configured, acked>>

\* select and onbd_mgmt_udp_recv_cb: one packet, or none within a second.
Waits == at = "top" /\ ~abort /\ socket

\* Nothing, a search, or a message this mode does not take.
Ignore ==
  /\ Waits /\ at' = "send"
  /\ UNCHANGED <<times, abort, socket, opmode, configured, acked>>

Configure ==
  /\ Waits /\ at' = "send"
  /\ opmode = "softap"
  /\ ~configured
  /\ configured' = TRUE
  /\ times' = ApTimes
  /\ abort' = TRUE
  /\ UNCHANGED <<socket, opmode, acked>>

\* Mutant: the answer to the phone does not end the loop.
KeepGoing == UNCHANGED <<abort, socket>>
\* onbd_mgmt_udp_handler_stop, and hnt_onbd_stop, which closes the socket.
EndLoop == abort' = TRUE /\ socket' = FALSE

\* hnt_onbd_stop frees device_ap_ssid in aponbd_finish and again in onbd_done.
Acknowledge ==
  /\ Waits
  /\ opmode = "station"
  /\ at' = "send" \/ (device_ap_ssid /\ at' = "crash")
  /\ EndLoop
  /\ configured' = FALSE
  /\ acked' = times
  /\ UNCHANGED <<times, opmode>>

\* Mutant: without an address to send to, the count stands still.
CountSent == times' \in {times, (times - 1) % 256}
CountDown == times' = (times - 1) % 256

\* onbd_mgmt_active_udp_send; the loop calls it in every round, also in the one
\* that has handled the acknowledgement.
Send ==
  /\ at = "send"
  /\ at' = IF times > 0 THEN "top" ELSE "reset"
  /\ CountDown
  /\ UNCHANGED <<abort, socket, opmode, configured, acked>>

Round == Leave \/ Ignore \/ Configure \/ Acknowledge \/ Send

Next == Start \/ Round

-----------------------------------------------------------------------------
\* Type invariant.
TypeOK ==
  /\ at \in {"out", "top", "send", "reset", "crash"}
  /\ times \in 0..255
  /\ abort \in BOOLEAN /\ socket \in BOOLEAN /\ opmode \in Modes
  /\ configured \in BOOLEAN
  /\ acked \in {Never} \cup 0..255

\* A device that was acknowledged with announcements left does not reset itself.
\* (One that was acknowledged after the last of them does: the same round goes on
\* to onbd_mgmt_active_udp_send.)
AckedIsKept == at = "reset" => acked \in {Never, 0}

\* The announcements stop when the phone has acknowledged: at most the one of
\* the round that handled the acknowledgement is still made.
QuietAfterAck == acked # Never => times \in {acked, (acked - 1) % 256}
=============================================================================
