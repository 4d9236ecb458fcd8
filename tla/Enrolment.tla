------------------------------- MODULE Enrolment -------------------------------
(***************************************************************************)
(* What onboarding (onbd/onbd.c) promises the owner of a device, with the  *)
(* radio, the frames, the timers and the UDP loop left out: the device     *)
(* joins at most one network, that of a phone whose data it has in full,   *)
(* or opens an access point; and once a phone has acknowledged it, it      *)
(* keeps its configuration, unless its announcements were used up.         *)
(***************************************************************************)
CONSTANTS
  Phones,     \* the phones near by
  Airkiss,    \* those whose data comes from the AirKiss library, in one piece
  Nobody

VARIABLES
  stage,      \* "listening", "joining", "open", "kept", "spent", "reset" or "dead"
  whole,      \* the phones whose data the device has in full
  network     \* the phone whose network it has joined, or Nobody

vars == <<stage, whole, network>>

Init == stage = "listening" /\ whole = {} /\ network = Nobody

\* The device listens to one phone with frames, the first it has heard.
Collect == /\ stage = "listening"
           /\ whole = {}
           /\ \E phone \in Phones \ Airkiss : whole' = {phone}
           /\ UNCHANGED <<stage, network>>

Join(phone) == /\ stage = "listening"
               /\ \/ phone \in whole /\ UNCHANGED whole
                  \/ phone \in Airkiss /\ whole' = whole \cup {phone}
               /\ stage' = "joining"
               /\ network' = phone

\* It gives up or is asked for, also when a join has just overtaken that.
OpenAp == /\ stage \in {"listening", "joining"}
          /\ stage' = "open"
          /\ UNCHANGED <<whole, network>>

\* Announcements are left, or the last one had been made.
Acknowledge == /\ stage \in {"joining", "open"}
               /\ stage' \in {"kept", "spent"}
               /\ UNCHANGED <<whole, network>>

FactoryReset == /\ stage \in {"joining", "open", "spent"}
                /\ stage' = "reset"
                /\ UNCHANGED <<whole, network>>

\* A hop or an acknowledgement reads or frees memory that is gone.
Crash == /\ stage \notin {"reset", "dead"}
         /\ stage' = "dead"
         /\ UNCHANGED <<whole, network>>

Next == \/ Collect \/ OpenAp \/ Acknowledge \/ FactoryReset \/ Crash
        \/ \E phone \in Phones : Join(phone)

Spec == Init /\ [][Next]_vars
=============================================================================
