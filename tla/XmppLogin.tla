------------------------------ MODULE XmppLogin ------------------------------
(***************************************************************************)
(* What logging in to the XMPP server promises, with packets, filter rules *)
(* and timers left out: a session is opened, authenticated, bound and then *)
(* online, one step at a time and never skipping one, and may be lost at   *)
(* any point.                                                              *)
(***************************************************************************)
VARIABLE stage

Init == stage = "closed"

Open      == stage = "closed"     /\ stage' = "opened"
Authorize == stage = "opened"     /\ stage' = "authorized"
Bind      == stage = "authorized" /\ stage' = "bound"
GoOnline  == stage = "bound"      /\ stage' = "online"
Lose      == stage' = "closed"

Next == Open \/ Authorize \/ Bind \/ GoOnline \/ Lose

Spec == Init /\ [][Next]_stage
=============================================================================
