------------------------------ MODULE ParamStore ------------------------------
(***************************************************************************)
(* The saved-parameter store of mgmt/mgmt.c: two flash sectors that hold   *)
(* the parameters in turn and a third one whose first byte says which of   *)
(* them is live.  Every flash operation (one erase, one program) is a step *)
(* of its own, and power may fail between and inside them.                 *)
(***************************************************************************)
EXTENDS Naturals

CONSTANTS
  Tasks,      \* the tasks that call the store
  Params,     \* the contents a caller saves (struct hnt_mgmt_saved_param)
  Blank,      \* what an erased sector reads as (0xFF everywhere)
  Garbage     \* a sector left half erased, half programmed or programmed twice

ASSUME ContentsAssumption == /\ Blank \notin Params
                             /\ Garbage \notin Params
                             /\ Blank # Garbage

VARIABLES
  save,       \* save[0], save[1]: sectors ESP_PARAM_SAVE_0, ESP_PARAM_SAVE_1
  flag,       \* first byte of sector ESP_PARAM_FLAG
  pc,         \* pc[t]: the flash operation task t performs next
  param,      \* param[t]: the content task t is saving
  seen        \* seen[t]: the flag byte task t read when its save began

vars == <<save, flag, pc, param, seen>>

ErasedFlag == 255
Flags == {0, 1, ErasedFlag}
Contents == Params \cup {Blank, Garbage}

SavePcs  == {"eraseSave", "writeSave", "eraseFlag", "writeFlag"}
ResetPcs == {"reset0", "reset1", "resetFlag", "restart"}

\* The sector hnt_mgmt_load_param reads under flag byte f, and the one
\* hnt_mgmt_save_param rewrites.
SpareIsLive(f) == IF f = 0 THEN 0 ELSE 1    \* mutant: rewrites the live sector
SpareNext(f) == 1 - f                     \* mutant: takes every flag byte for 0 or 1
Live(f)  == IF f = 0 THEN 0 ELSE 1
Spare(f) == IF f = 0 THEN 1 ELSE 0

Load == save[Live(flag)]

\* Programming NOR flash can only clear bits: over anything but an erased
\* sector the result is neither content.
Program(old, new) == IF old = Blank THEN new ELSE Garbage
ProgramFlag(old, new) == IF old = 0 THEN 0 ELSE new

Idle(t) == pc[t] = "idle"
Goto(t, from, to) == /\ pc[t] = from
                     /\ pc' = [pc EXCEPT ![t] = to]

-----------------------------------------------------------------------------
\* hnt_mgmt_save_param

BeginSave(t, p) == /\ Goto(t, "idle", "eraseSave")
                   /\ seen' = [seen EXCEPT ![t] = flag]
                   /\ param' = [param EXCEPT ![t] = p]
                   /\ UNCHANGED <<save, flag>>

\* Mutant: programs the sector without erasing it.
SkipErase(t) == /\ Goto(t, "eraseSave", "writeSave")
                /\ UNCHANGED <<save, flag, param, seen>>

EraseSave(t) == /\ Goto(t, "eraseSave", "writeSave")
                /\ save' = [save EXCEPT ![Spare(seen[t])] = Blank]
                /\ UNCHANGED <<flag, param, seen>>

WriteSave(t) == /\ Goto(t, "writeSave", "eraseFlag")
                /\ save' = [save EXCEPT ![Spare(seen[t])] = Program(@, param[t])]
                /\ UNCHANGED <<flag, param, seen>>

EraseFlag(t) == /\ Goto(t, "eraseFlag", "writeFlag")
                /\ flag' = ErasedFlag
                /\ UNCHANGED <<save, param, seen>>

\* The new flag byte names the sector just written.
WriteFlag(t) == /\ Goto(t, "writeFlag", "idle")
                /\ flag' = ProgramFlag(flag, Spare(seen[t]))
                /\ UNCHANGED <<save, param, seen>>

-----------------------------------------------------------------------------
\* hnt_mgmt_system_factory_reset: hnt_mgmt_factory_reset, then system_restart

BeginReset(t) == /\ Goto(t, "idle", "reset0")
                 /\ UNCHANGED <<save, flag, param, seen>>

ResetSave0(t) == /\ Goto(t, "reset0", "reset1")
                 /\ save' = [save EXCEPT ![0] = Blank]
                 /\ UNCHANGED <<flag, param, seen>>

ResetSave1(t) == /\ Goto(t, "reset1", "resetFlag")
                 /\ save' = [save EXCEPT ![1] = Blank]
                 /\ UNCHANGED <<flag, param, seen>>

ResetFlag(t) == /\ Goto(t, "resetFlag", "restart")
                /\ flag' = ErasedFlag
                /\ UNCHANGED <<save, param, seen>>

AllIdle == [t \in Tasks |-> "idle"]

\* system_restart: whatever any task was doing is gone.
Restart(t) == /\ pc[t] = "restart"
              /\ pc' = AllIdle
              /\ UNCHANGED <<save, flag, param, seen>>

-----------------------------------------------------------------------------
\* The sectors some task is about to erase or program: the ones a power loss
\* can leave half done.
InWork == {Spare(seen[t]) : t \in {u \in Tasks : pc[u] \in {"eraseSave", "writeSave"}}}
          \cup {s \in {0, 1} : \E t \in Tasks : pc[t] = (IF s = 0 THEN "reset0" ELSE "reset1")}

\* Power fails between two flash operations, or inside one on a save sector.
\* A half-done operation on the flag byte needs no case of its own: erasing
\* only sets bits and programming only clears them, so the byte reads as zero
\* or as non-zero, which is its value before or after the operation.
PowerLoss == /\ pc' = AllIdle
             /\ \/ save' = save
                \/ \E s \in InWork : save' = [save EXCEPT ![s] = Garbage]
             /\ UNCHANGED <<flag, param, seen>>

-----------------------------------------------------------------------------
Init == /\ save = [s \in {0, 1} |-> Blank]
        /\ flag = ErasedFlag
        /\ pc = AllIdle
        /\ param \in [Tasks -> {Blank}]
        /\ seen = [t \in Tasks |-> ErasedFlag]

SaveStep(t) == \/ \E p \in Params : BeginSave(t, p)
               \/ EraseSave(t) \/ WriteSave(t)
               \/ EraseFlag(t) \/ WriteFlag(t)

ResetStep(t) == \/ BeginReset(t)
                \/ ResetSave0(t) \/ ResetSave1(t)
                \/ ResetFlag(t) \/ Restart(t)

Next == (\E t \in Tasks : SaveStep(t) \/ ResetStep(t)) \/ PowerLoss

\* mgmt.c takes no lock: the store is used by one caller at a time, and two
\* overlapping saves would program the same sector twice.
OneAtATime == \A t, u \in Tasks : Idle(t) \/ Idle(u) \/ t = u

Spec == Init /\ [][Next /\ OneAtATime']_vars

-----------------------------------------------------------------------------
\* Type invariant of the flash contents and the callers' local variables.
TypeOK == /\ save \in [{0, 1} -> Contents]
          /\ flag \in Flags
          /\ pc \in [Tasks -> {"idle"} \cup SavePcs \cup ResetPcs]
          /\ param \in [Tasks -> Params \cup {Blank}]
          /\ seen \in [Tasks -> Flags]

\* How far a save has got, told by the flash alone: the spare sector is blank
\* before it is written and holds the new content from then on, and the flag
\* byte a save has read stays the flash's until the save itself erases it.
SaveProgress ==
  \A t \in Tasks :
    /\ pc[t] \in SavePcs => param[t] \in Params
    /\ pc[t] \in {"eraseSave", "writeSave", "eraseFlag"} => seen[t] = flag
    /\ pc[t] = "writeSave" => save[Spare(seen[t])] = Blank
    /\ pc[t] \in {"eraseFlag", "writeFlag"} => save[Spare(seen[t])] = param[t]
    /\ pc[t] = "writeFlag" => flag = ErasedFlag

\* The same for a reset: the sectors it has passed are blank.
ResetProgress ==
  \A t \in Tasks :
    /\ pc[t] \in {"reset1", "resetFlag", "restart"} => save[0] = Blank
    /\ pc[t] \in {"resetFlag", "restart"} => save[1] = Blank
    /\ pc[t] = "restart" => flag = ErasedFlag

\* With serialised callers the flash always tells how far the running call has
\* got: the inductive invariant the refinement below rests on.
StoreInv == TypeOK /\ OneAtATime /\ SaveProgress /\ ResetProgress

\* "protect write and erase data while power off" (mgmt.c:122 and 158): what a
\* load returns is never a half-written sector.
LoadIsIntact == Load # Garbage

-----------------------------------------------------------------------------
\* The value that a save in progress has not yet made live.  When the flag byte
\* was 0 erasing it already makes the new sector live; otherwise writing it does.
Uncommitted == {param[t] : t \in {u \in Tasks :
                  \/ pc[u] \in {"eraseSave", "writeSave", "eraseFlag"}
                  \/ pc[u] = "writeFlag" /\ seen[u] # 0}}

Resetting == \E t \in Tasks : pc[t] \in ResetPcs

Store == INSTANCE PowerSafeStore
           WITH stored <- Load, request <- Uncommitted, resetting <- Resetting

\* With serialised callers the two-sector store is the atomic one: a save takes
\* effect in one step, and a power loss at any flash operation loses it whole
\* or keeps it whole (hnt_mgmt_save_param, hnt_mgmt_load_param).
PowerSafe == Store!Spec
=============================================================================
