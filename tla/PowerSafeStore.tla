--------------------------- MODULE PowerSafeStore ---------------------------
(***************************************************************************)
(* What the saved-parameter store of mgmt.c promises its callers, with the *)
(* flash left out: one value that a save replaces in a single step, that   *)
(* survives a power loss whole, old or new, and that only a factory reset  *)
(* may wipe.  A power loss during a reset may leave rubbish: the code      *)
(* erases the live sector in place, so nothing better can be promised.     *)
(***************************************************************************)
CONSTANTS
  Params,     \* the contents a caller can save
  Blank,      \* what an erased store reads as
  Garbage     \* a content nobody saved

VARIABLES
  stored,     \* what a load returns now
  request,    \* {} or {p}: the save that has begun and has not taken effect
  resetting   \* a factory reset is under way

vars == <<stored, request, resetting>>

Init == /\ stored = Blank
        /\ request = {}
        /\ resetting = FALSE

Begin(p) == /\ request = {}
            /\ ~resetting
            /\ request' = {p}
            /\ UNCHANGED <<stored, resetting>>

\* The save takes effect: from here on a load returns the new content.
Commit == \E p \in request : /\ stored' = p
                             /\ request' = {}
                             /\ UNCHANGED resetting

BeginReset == /\ request = {}
              /\ ~resetting
              /\ resetting' = TRUE
              /\ UNCHANGED <<stored, request>>

Wipe == /\ resetting
        /\ stored' = Blank
        /\ UNCHANGED <<request, resetting>>

\* A reset that runs to its end has wiped the store.
FinishReset == /\ resetting
               /\ stored = Blank
               /\ resetting' = FALSE
               /\ UNCHANGED <<stored, request>>

PowerLoss == /\ request' = {}
             /\ resetting' = FALSE
             /\ \/ stored' = stored
                \/ resetting /\ stored' = Garbage

Next == \/ \E p \in Params : Begin(p)
        \/ Commit \/ BeginReset \/ Wipe \/ FinishReset \/ PowerLoss

Spec == Init /\ [][Next]_vars
=============================================================================
