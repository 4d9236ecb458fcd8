------------------------------- MODULE XmppLink -------------------------------
(***************************************************************************)
(* What the rest of the program may rely on of the XMPP session: it comes  *)
(* online at most once between two restarts, and the reporting timers run  *)
(* exactly from then on until the end of the teardown.                     *)
(***************************************************************************)
VARIABLES
  link,      \* "login", "online", "closing" (torn down, timers not yet
             \* stopped) or "gone" (nothing connects again before a restart)
  reporting  \* xmpp_inform_timer and xmpp_sampling_timer are armed

vars == <<link, reporting>>

Init == link = "login" /\ reporting = FALSE

GoOnline == link = "login" /\ link' = "online" /\ reporting' = TRUE
GiveUp   == link = "login" /\ link' = "gone" /\ UNCHANGED reporting
Close    == link \in {"login", "online"} /\ link' = "closing" /\ UNCHANGED reporting
Stop     == link = "closing" /\ link' = "gone" /\ reporting' = FALSE
Restart  == link' = "login" /\ reporting' = FALSE

Next == GoOnline \/ GiveUp \/ Close \/ Stop \/ Restart

Spec == Init /\ [][Next]_vars
=============================================================================
