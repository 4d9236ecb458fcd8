---------------------------- MODULE RemoteCommand ----------------------------
(***************************************************************************)
(* What the server may expect of a reboot or a factory reset once the      *)
(* device has armed it: it is carried out as it was ordered, it may be     *)
(* replaced while the session is up, and it survives the end of the        *)
(* session; only a restart for another reason loses it.  Nothing else      *)
(* erases the parameters.                                                  *)
(***************************************************************************)
VARIABLES
  phase,    \* "starting", "served" (the session is up and the server is
            \* there) or "lost"
  pending,  \* the command that is due, or "none"
  erased    \* the saved parameters are erased

vars == <<phase, pending, erased>>
Commands == {"reboot", "reset"}

Init == phase = "starting" /\ pending = "none" /\ erased = FALSE

\* A session starts, on a device that has been provisioned.
Serve == /\ phase = "starting" /\ phase' = "served"
         /\ pending' = "none" /\ erased' = FALSE

\* It starts anew, and drops what is pending.
Renew == /\ phase = "served" /\ pending' = "none"
         /\ UNCHANGED <<phase, erased>>

Order(command) == /\ phase # "starting" /\ pending' = command
                  /\ UNCHANGED <<phase, erased>>

Lose == phase' = "lost" /\ UNCHANGED <<pending, erased>>

CarryOut == /\ pending \in Commands
            /\ erased' = (erased \/ pending = "reset")
            /\ pending' = "none" /\ phase' = "starting"

\* A restart for another reason.
Restart == /\ phase # "starting" /\ phase' = "starting"
           /\ pending' = "none" /\ UNCHANGED erased

Next == \/ Serve \/ Renew \/ Lose \/ CarryOut \/ Restart
        \/ \E command \in Commands : Order(command)

Spec == Init /\ [][Next]_vars
=============================================================================
