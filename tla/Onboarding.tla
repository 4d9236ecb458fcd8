------------------------------ MODULE Onboarding ------------------------------
(***************************************************************************)
(* Onboarding from the first packet to the phone's acknowledgement: the    *)
(* program listens (SmartConfig) and, once the device has joined a network *)
(* or become an access point, runs the UDP loop (UdpNotify).               *)
(***************************************************************************)
EXTENDS SmartConfig

CONSTANTS UdpTimes, ApTimes   \* see UdpNotify

ASSUME TimesAssumption == UdpTimes \in 0..255 /\ ApTimes \in 0..255

VARIABLES at, times, abort, socket, opmode, configured, acked

udp == <<at, times, abort, socket, opmode, configured, acked>>

\* Listening keeps device_ap_ssid when it ends in an access point (onbd_done
\* frees it, onbd_mgmt_smartconfig_stop does not).
Udp == INSTANCE UdpNotify WITH device_ap_ssid <- outcome = "ap"

OnboardingInit == Init /\ Udp!Init

Listen == Next /\ UNCHANGED udp

\* The end of listening has freed decrypt_str, so that a configuration is taken.
Notify == /\ outcome \in {"station", "ap"}
          /\ Udp!Next
          /\ UNCHANGED vars

OnboardingNext == Listen \/ Notify

OnboardingSpec ==
  /\ OnboardingInit /\ [][OnboardingNext]_<<vars, udp>>
  /\ WF_vars(TimerStep /\ UNCHANGED udp)
  /\ \A phone \in Phones :
       /\ WF_vars(AirkissPacket(phone) /\ UNCHANGED udp)
       /\ WF_vars(Followup(phone) /\ UNCHANGED udp)
       /\ \A index \in Indices : WF_vars(Data(phone, index) /\ UNCHANGED udp)
  /\ WF_udp(outcome \in {"station", "ap"} /\ Udp!Round /\ UNCHANGED vars)

-----------------------------------------------------------------------------
\* What an owner sees of it.
Stage ==
  IF at = "reset" THEN "reset"
  ELSE IF "crash" \in {at, outcome} THEN "dead"
  ELSE IF acked # Udp!Never THEN IF acked = 0 THEN "spent" ELSE "kept"
  ELSE IF outcome = "station" THEN "joining"
  ELSE IF outcome = "ap" THEN "open" ELSE "listening"

Whole == (IF received = Indices THEN {source} ELSE {})
         \cup (IF step = "done" THEN {router} ELSE {})

Network == IF step \in {"exit", "done"} THEN router ELSE Nobody

Owner == INSTANCE Enrolment WITH stage <- Stage, whole <- Whole, network <- Network

\* Listening and the UDP loop together keep the promise of Enrolment: whatever
\* phones send in whatever order, and wherever a hop is, the device joins only the
\* network of the phone whose data it has in full, joins once, and an acknowledged
\* device never resets itself with announcements left (on_recv_wifi_promiscuous_pkt,
\* onbd_mgmt_udp_handler_start).
EnrolsAsPromised == Owner!Spec

-----------------------------------------------------------------------------
\* Type invariant.
OnboardingTypeOK == TypeOK /\ Udp!TypeOK

\* See UdpNotify.
AckedIsKept == Udp!AckedIsKept
QuietAfterAck == Udp!QuietAfterAck

\* The UDP loop ends: the phone acknowledges or configures the device, or the
\* announcements are used up and the device resets itself, or it crashes.
AnnouncingEnds == at \in {"top", "send"} ~> at \notin {"top", "send"} \/ outcome = "crash"
=============================================================================
