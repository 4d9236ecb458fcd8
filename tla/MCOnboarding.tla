---------------------------- MODULE MCOnboarding ----------------------------
(* Three channels, two phones with frames and one with AirKiss.  The scan  *)
(* has not listed the network of one, which is heard on two channels.      *)
EXTENDS Onboarding, TLC

CONSTANTS p1, p2, k
MCPhones == {p1, p2, k}
MCHome == p1 :> 1 @@ k :> 2
MCLeaks == p1 :> {2} @@ p2 :> {2, 3} @@ k :> {1}
=============================================================================
