-------------------------- MODULE ParamStoreProofs --------------------------
(***************************************************************************)
(* Proofs about ParamStore, for any number of tasks and any set of         *)
(* parameter contents: the store's inductive invariant, and that the two   *)
(* flash sectors with their flag byte implement PowerSafeStore; and, from  *)
(* that, what a factory reset without power safety can and cannot spoil.   *)
(***************************************************************************)
EXTENDS ParamStore, TLAPS

LEMMA InitStoreInv == Init => StoreInv
BY DEF Init, StoreInv, TypeOK, OneAtATime, SaveProgress, ResetProgress,
       Idle, AllIdle, SavePcs, ResetPcs, Contents, Flags, ErasedFlag

\* The two sectors a flag byte names are the two sectors there are.
LEMMA SpareLive ==
  ASSUME NEW f \in Flags
  PROVE  /\ Spare(f) \in {0, 1} /\ Live(f) \in {0, 1} /\ Spare(f) # Live(f)
         /\ Spare(f) \in Flags
         /\ Live(Spare(f)) = Spare(f)
BY DEF Spare, Live, Flags, ErasedFlag

\* A serialised step of one task leaves every other task idle.
LEMMA OthersIdle ==
  ASSUME TypeOK, OneAtATime, OneAtATime', NEW t \in Tasks, NEW p,
         pc' = [pc EXCEPT ![t] = p], pc[t] # "idle" \/ p # "idle"
  PROVE  \A u \in Tasks : u # t => pc[u] = "idle" /\ pc'[u] = "idle"
BY DEF TypeOK, OneAtATime, Idle

LEMMA StepStoreInv ==
  ASSUME StoreInv, Next /\ OneAtATime'
  PROVE  StoreInv'
<1> USE DEF StoreInv, SavePcs, ResetPcs
<1>1. ASSUME NEW t \in Tasks, NEW p \in Params, BeginSave(t, p)
      PROVE  StoreInv'
  <2>1. \A u \in Tasks : u # t => pc[u] = "idle" /\ pc'[u] = "idle"
    BY <1>1, OthersIdle DEF BeginSave, Goto
  <2>2. TypeOK'
    BY <1>1 DEF BeginSave, Goto, TypeOK
  <2> QED
    BY <1>1, <2>1, <2>2 DEF BeginSave, Goto, TypeOK, SaveProgress, ResetProgress
<1>2. ASSUME NEW t \in Tasks, EraseSave(t)
      PROVE  StoreInv'
  <2>1. \A u \in Tasks : u # t => pc[u] = "idle" /\ pc'[u] = "idle"
    BY <1>2, OthersIdle DEF EraseSave, Goto
  <2>2. Spare(seen[t]) \in {0, 1}
    BY SpareLive DEF TypeOK
  <2>3. TypeOK'
    BY <1>2, <2>2 DEF EraseSave, Goto, TypeOK, Contents
  <2> QED
    BY <1>2, <2>1, <2>2, <2>3 DEF EraseSave, Goto, TypeOK, SaveProgress, ResetProgress
<1>3. ASSUME NEW t \in Tasks, WriteSave(t)
      PROVE  StoreInv'
  <2>1. \A u \in Tasks : u # t => pc[u] = "idle" /\ pc'[u] = "idle"
    BY <1>3, OthersIdle DEF WriteSave, Goto
  <2>2. Spare(seen[t]) \in {0, 1}
    BY SpareLive DEF TypeOK
  <2>3. save' = [save EXCEPT ![Spare(seen[t])] = param[t]]
    BY <1>3, <2>2 DEF WriteSave, Goto, Program, SaveProgress, TypeOK
  <2>4. TypeOK'
    BY <1>3, <2>2, <2>3 DEF WriteSave, Goto, TypeOK, Contents
  <2> QED
    BY <1>3, <2>1, <2>2, <2>3, <2>4 DEF WriteSave, Goto, TypeOK, SaveProgress, ResetProgress
<1>4. ASSUME NEW t \in Tasks, EraseFlag(t)
      PROVE  StoreInv'
  <2>1. \A u \in Tasks : u # t => pc[u] = "idle" /\ pc'[u] = "idle"
    BY <1>4, OthersIdle DEF EraseFlag, Goto
  <2>2. TypeOK'
    BY <1>4 DEF EraseFlag, Goto, TypeOK, Flags
  <2> QED
    BY <1>4, <2>1, <2>2 DEF EraseFlag, Goto, TypeOK, SaveProgress, ResetProgress
<1>5. ASSUME NEW t \in Tasks, WriteFlag(t)
      PROVE  StoreInv'
  <2>1. \A u \in Tasks : u # t => pc[u] = "idle" /\ pc'[u] = "idle"
    BY <1>5, OthersIdle DEF WriteFlag, Goto
  <2>2. flag' \in Flags
    BY <1>5, SpareLive DEF WriteFlag, Goto, TypeOK, ProgramFlag, SaveProgress
  <2>3. TypeOK'
    BY <1>5, <2>2 DEF WriteFlag, Goto, TypeOK
  <2> QED
    BY <1>5, <2>1, <2>3 DEF WriteFlag, Goto, TypeOK, SaveProgress, ResetProgress
<1>6. ASSUME NEW t \in Tasks, BeginReset(t)
      PROVE  StoreInv'
  <2>1. \A u \in Tasks : u # t => pc[u] = "idle" /\ pc'[u] = "idle"
    BY <1>6, OthersIdle DEF BeginReset, Goto
  <2> QED
    BY <1>6, <2>1 DEF BeginReset, Goto, TypeOK, SaveProgress, ResetProgress
<1>7. ASSUME NEW t \in Tasks, ResetSave0(t)
      PROVE  StoreInv'
  <2>1. \A u \in Tasks : u # t => pc[u] = "idle" /\ pc'[u] = "idle"
    BY <1>7, OthersIdle DEF ResetSave0, Goto
  <2> QED
    BY <1>7, <2>1 DEF ResetSave0, Goto, TypeOK, Contents, SaveProgress, ResetProgress
<1>8. ASSUME NEW t \in Tasks, ResetSave1(t)
      PROVE  StoreInv'
  <2>1. \A u \in Tasks : u # t => pc[u] = "idle" /\ pc'[u] = "idle"
    BY <1>8, OthersIdle DEF ResetSave1, Goto
  <2> QED
    BY <1>8, <2>1 DEF ResetSave1, Goto, TypeOK, Contents, SaveProgress, ResetProgress
<1>9. ASSUME NEW t \in Tasks, ResetFlag(t)
      PROVE  StoreInv'
  <2>1. \A u \in Tasks : u # t => pc[u] = "idle" /\ pc'[u] = "idle"
    BY <1>9, OthersIdle DEF ResetFlag, Goto
  <2> QED
    BY <1>9, <2>1 DEF ResetFlag, Goto, TypeOK, Flags, SaveProgress, ResetProgress
<1>10. ASSUME NEW t \in Tasks, Restart(t)
       PROVE  StoreInv'
  BY <1>10 DEF Restart, AllIdle, TypeOK, SaveProgress, ResetProgress
<1>11. ASSUME PowerLoss
       PROVE  StoreInv'
  <2>1. save' \in [{0, 1} -> Contents]
    BY <1>11 DEF PowerLoss, TypeOK, Contents
  <2> QED
    BY <1>11, <2>1 DEF PowerLoss, AllIdle, TypeOK, SaveProgress, ResetProgress
<1> QED
  BY <1>1, <1>2, <1>3, <1>4, <1>5, <1>6, <1>7, <1>8, <1>9, <1>10, <1>11
     DEF Next, SaveStep, ResetStep

\* While callers take turns, the flash contents always tell how far the running
\* save or reset has got (hnt_mgmt_save_param, hnt_mgmt_factory_reset).
THEOREM StoreInvariant == Spec => []StoreInv
<1>1. StoreInv /\ [Next /\ OneAtATime']_vars => StoreInv'
  <2> SUFFICES ASSUME StoreInv, [Next /\ OneAtATime']_vars
               PROVE  StoreInv'
    OBVIOUS
  <2>1. CASE Next /\ OneAtATime'
    BY <2>1, StepStoreInv
  <2>2. CASE UNCHANGED vars
    BY <2>2 DEF vars, StoreInv, TypeOK, OneAtATime, Idle, SaveProgress, ResetProgress
  <2> QED
    BY <2>1, <2>2
<1> QED
  BY InitStoreInv, <1>1, PTL DEF Spec

\* Flash contents and the callers' local variables keep their types.
THEOREM StoreTyped == Spec => []TypeOK
<1>1. StoreInv => TypeOK
  BY DEF StoreInv
<1> QED
  BY <1>1, StoreInvariant, PTL

-----------------------------------------------------------------------------
(* The refinement.  With all other tasks idle, the abstract state is a     *)
(* function of the flash and of the one task that runs.                    *)

Pending(t) == \/ pc[t] \in {"eraseSave", "writeSave", "eraseFlag"}
              \/ pc[t] = "writeFlag" /\ seen[t] # 0

LEMMA AbstractNow ==
  ASSUME NEW t \in Tasks, \A u \in Tasks : u # t => pc[u] = "idle"
  PROVE  /\ Pending(t) => Uncommitted = {param[t]}
         /\ ~Pending(t) => Uncommitted = {}
         /\ Resetting <=> pc[t] \in ResetPcs
<1>1. \A u \in Tasks : Pending(u) => u = t
  BY DEF Pending
<1>2. Uncommitted = {param[u] : u \in {v \in Tasks : Pending(v)}}
  BY DEF Uncommitted, Pending
<1> QED
  BY <1>1, <1>2 DEF Resetting, ResetPcs

LEMMA AbstractNext ==
  ASSUME NEW t \in Tasks, \A u \in Tasks : u # t => pc'[u] = "idle"
  PROVE  /\ Pending(t)' => Uncommitted' = {param'[t]}
         /\ ~Pending(t)' => Uncommitted' = {}
         /\ Resetting' <=> pc'[t] \in ResetPcs
<1>1. \A u \in Tasks : Pending(u)' => u = t
  BY DEF Pending
<1>2. Uncommitted' = {param'[u] : u \in {v \in Tasks : Pending(v)'}}
  BY DEF Uncommitted, Pending
<1> QED
  BY <1>1, <1>2 DEF Resetting, ResetPcs

LEMMA InitRefines == Init => Store!Init
BY DEF Init, AllIdle, Load, Live, ErasedFlag, Uncommitted, Resetting, ResetPcs,
       Store!Init

LEMMA StepRefines ==
  ASSUME StoreInv, StoreInv', Next
  PROVE  [Store!Next]_(Store!vars)
<1> USE DEF StoreInv, SavePcs, ResetPcs
<1> DEFINE Others(t) == \A u \in Tasks : u # t => pc[u] = "idle" /\ pc'[u] = "idle"
           Same == Store!vars' = Store!vars
<1>0. \A t \in Tasks : seen[t] \in Flags /\ flag \in Flags
  BY DEF TypeOK
<1>1. ASSUME NEW t \in Tasks, NEW p \in Params, BeginSave(t, p)
      PROVE  Store!Begin(p)
  <2>1. Others(t)
    BY <1>1, OthersIdle DEF BeginSave, Goto
  <2>2. Uncommitted = {} /\ ~Resetting
    BY <1>1, <2>1, AbstractNow DEF BeginSave, Goto, Pending
  <2>3. Uncommitted' = {param'[t]} /\ ~Resetting'
    BY <1>1, <2>1, AbstractNext DEF BeginSave, Goto, Pending, TypeOK
  <2>4. param'[t] = p /\ Load' = Load
    BY <1>1 DEF BeginSave, TypeOK, Load
  <2> QED
    BY <2>2, <2>3, <2>4 DEF Store!Begin, Resetting
<1>2. ASSUME NEW t \in Tasks, EraseSave(t)
      PROVE  Same
  <2>1. Others(t)
    BY <1>2, OthersIdle DEF EraseSave, Goto
  <2>2. Uncommitted = {param[t]} /\ ~Resetting
    BY <1>2, <2>1, AbstractNow DEF EraseSave, Goto, Pending
  <2>3. Uncommitted' = {param'[t]} /\ ~Resetting'
    BY <1>2, <2>1, AbstractNext DEF EraseSave, Goto, Pending, TypeOK
  <2>4. param' = param /\ Load' = Load
    BY <1>0, <1>2, SpareLive DEF EraseSave, Goto, SaveProgress, TypeOK, Load
  <2> QED
    BY <2>2, <2>3, <2>4 DEF Store!vars, Resetting
<1>3. ASSUME NEW t \in Tasks, WriteSave(t)
      PROVE  Same
  <2>1. Others(t)
    BY <1>3, OthersIdle DEF WriteSave, Goto
  <2>2. Uncommitted = {param[t]} /\ ~Resetting
    BY <1>3, <2>1, AbstractNow DEF WriteSave, Goto, Pending
  <2>3. Uncommitted' = {param'[t]} /\ ~Resetting'
    BY <1>3, <2>1, AbstractNext DEF WriteSave, Goto, Pending, TypeOK
  <2>4. param' = param /\ Load' = Load
    BY <1>0, <1>3, SpareLive DEF WriteSave, Goto, SaveProgress, TypeOK, Load
  <2> QED
    BY <2>2, <2>3, <2>4 DEF Store!vars, Resetting
<1>4. ASSUME NEW t \in Tasks, EraseFlag(t)
      PROVE  Store!Commit \/ Same
  <2>1. Others(t)
    BY <1>4, OthersIdle DEF EraseFlag, Goto
  <2>2. Uncommitted = {param[t]} /\ ~Resetting
    BY <1>4, <2>1, AbstractNow DEF EraseFlag, Goto, Pending
  <2>3. /\ pc[t] = "eraseFlag" /\ pc'[t] = "writeFlag"
        /\ param' = param /\ seen' = seen /\ save' = save /\ flag' = ErasedFlag
    BY <1>4 DEF EraseFlag, Goto, TypeOK
  <2>4. ~Resetting'
    BY <2>1, <2>3, AbstractNext
  <2>5. CASE seen[t] = 0
    \* The erased byte is not 0: the sector just written becomes live.
    <3>1. Uncommitted' = {}
      BY <2>1, <2>3, <2>5, AbstractNext DEF Pending
    <3>2. Load' = param[t]
      BY <2>3, <2>5 DEF Load, Live, Spare, ErasedFlag, SaveProgress
    <3> QED
      BY <2>2, <2>4, <3>1, <3>2 DEF Store!Commit, Resetting
  <2>6. CASE seen[t] # 0
    \* The byte was not 0 and is not 0: SAVE_1 stays live until it is written.
    <3>1. Uncommitted' = {param[t]}
      BY <2>1, <2>3, <2>6, AbstractNext DEF Pending
    <3>2. Load' = Load
      BY <2>3, <2>6 DEF Load, Live, ErasedFlag, SaveProgress
    <3> QED
      BY <2>2, <2>4, <3>1, <3>2 DEF Store!vars, Resetting
  <2> QED
    BY <2>5, <2>6
<1>5. ASSUME NEW t \in Tasks, WriteFlag(t)
      PROVE  Store!Commit \/ Same
  <2>1. Others(t)
    BY <1>5, OthersIdle DEF WriteFlag, Goto
  <2>2. /\ pc[t] = "writeFlag" /\ pc'[t] = "idle"
        /\ param' = param /\ seen' = seen /\ save' = save /\ flag = ErasedFlag
    BY <1>5 DEF WriteFlag, Goto, TypeOK, SaveProgress
  <2>3. flag' = Spare(seen[t])
    BY <1>5, <2>2 DEF WriteFlag, ProgramFlag, ErasedFlag, Spare
  <2>4. ~Resetting /\ ~Resetting' /\ Uncommitted' = {}
    BY <2>1, <2>2, AbstractNow, AbstractNext DEF Pending
  <2>5. save[Spare(seen[t])] = param[t]
    BY <2>2 DEF SaveProgress
  <2>6. CASE seen[t] = 0
    <3>1. Uncommitted = {}
      BY <2>1, <2>2, <2>6, AbstractNow DEF Pending
    <3>2. Load' = Load
      BY <2>2, <2>3, <2>6 DEF Load, Live, Spare, ErasedFlag
    <3> QED
      BY <2>4, <3>1, <3>2 DEF Store!vars, Resetting
  <2>7. CASE seen[t] # 0
    <3>1. Uncommitted = {param[t]}
      BY <2>1, <2>2, <2>7, AbstractNow DEF Pending
    <3>2. Load' = param[t]
      BY <2>2, <2>3, <2>5, <2>7 DEF Load, Live, Spare
    <3> QED
      BY <2>4, <3>1, <3>2 DEF Store!Commit, Resetting
  <2> QED
    BY <2>6, <2>7
<1>6. ASSUME NEW t \in Tasks, BeginReset(t)
      PROVE  Store!BeginReset
  <2>1. Others(t)
    BY <1>6, OthersIdle DEF BeginReset, Goto
  <2>2. Uncommitted = {} /\ ~Resetting
    BY <1>6, <2>1, AbstractNow DEF BeginReset, Goto, Pending
  <2>3. Uncommitted' = {} /\ Resetting' /\ Load' = Load
    BY <1>6, <2>1, AbstractNext DEF BeginReset, Goto, Pending, TypeOK, Load
  <2> QED
    BY <2>2, <2>3 DEF Store!BeginReset, Resetting
<1>7. ASSUME NEW t \in Tasks, \/ ResetSave0(t) \/ ResetSave1(t) \/ ResetFlag(t)
      PROVE  Store!Wipe \/ Same
  <2>0. /\ pc[t] \in {"reset0", "reset1", "resetFlag"}
        /\ pc'[t] \in {"reset1", "resetFlag", "restart"}
        /\ \E q : pc' = [pc EXCEPT ![t] = q] /\ q # "idle"
    BY <1>7 DEF ResetSave0, ResetSave1, ResetFlag, Goto, TypeOK
  <2>1. Others(t)
    BY <2>0, OthersIdle
  <2>2. Uncommitted = {} /\ Resetting
    BY <2>0, <2>1, AbstractNow DEF Pending
  <2>3. Uncommitted' = {} /\ Resetting'
    BY <2>0, <2>1, AbstractNext DEF Pending
  <2>4. Load' = Blank \/ Load' = Load
    <3>1. CASE ResetSave0(t)
      BY <3>1 DEF ResetSave0, Load, Live, TypeOK
    <3>2. CASE ResetSave1(t)
      BY <3>2 DEF ResetSave1, Load, Live, TypeOK
    <3>3. CASE ResetFlag(t)
      BY <3>3 DEF ResetFlag, Goto, Load, Live, TypeOK, ResetProgress, ErasedFlag
    <3> QED
      BY <1>7, <3>1, <3>2, <3>3
  <2> QED
    BY <2>2, <2>3, <2>4 DEF Store!Wipe, Store!vars, Resetting
<1>8. ASSUME NEW t \in Tasks, Restart(t)
      PROVE  Store!FinishReset
  <2>1. \A u \in Tasks : u # t => pc[u] = "idle"
    BY <1>8 DEF Restart, OneAtATime, Idle
  <2>2. Uncommitted = {} /\ Resetting
    BY <1>8, <2>1, AbstractNow DEF Restart, Pending
  <2>3. Uncommitted' = {} /\ ~Resetting'
    BY <1>8, AbstractNext DEF Restart, AllIdle, Pending
  <2>4. Load' = Load /\ Load = Blank
    BY <1>8 DEF Restart, ResetProgress, Load, Live
  <2> QED
    BY <2>2, <2>3, <2>4 DEF Store!FinishReset
<1>9. ASSUME PowerLoss
      PROVE  Store!PowerLoss
  <2>1. \A u \in Tasks : pc'[u] = "idle"
    BY <1>9 DEF PowerLoss, AllIdle
  <2>2. Uncommitted' = {} /\ ~Resetting'
    BY <2>1 DEF Uncommitted, Resetting
  <2>3. Load' = Load \/ (Resetting /\ Load' = Garbage)
    <3>1. CASE save' = save
      BY <1>9, <3>1 DEF PowerLoss, Load
    <3>2. ASSUME NEW s \in InWork, save' = [save EXCEPT ![s] = Garbage]
          PROVE  Load' = Load \/ (Resetting /\ Load' = Garbage)
      <4>1. s \in {0, 1} /\ (s # Live(flag) \/ Resetting)
        \* A save works on the spare sector; only a reset touches the live one.
        <5>1. CASE \E t \in Tasks : pc[t] \in {"eraseSave", "writeSave"} /\ s = Spare(seen[t])
          BY <1>0, <5>1, SpareLive DEF SaveProgress
        <5>2. CASE s \in {0, 1} /\ \E t \in Tasks : pc[t] \in {"reset0", "reset1"}
          BY <5>2 DEF Resetting
        <5> QED
          BY <3>2, <5>1, <5>2 DEF InWork
      <4> QED
        BY <1>0, <1>9, <3>2, <4>1 DEF PowerLoss, Load, TypeOK, Live
    <3> QED
      BY <1>9, <3>1, <3>2 DEF PowerLoss
  <2> QED
    BY <2>2, <2>3 DEF Store!PowerLoss
<1> QED
  BY <1>1, <1>2, <1>3, <1>4, <1>5, <1>6, <1>7, <1>8, <1>9
     DEF Next, SaveStep, ResetStep, Store!Next

\* The two sectors and their flag byte implement the store in which a save is
\* one step (hnt_mgmt_save_param: "protect write and erase data while power
\* off"): whichever flash operation the power fails at, a load returns the old
\* content whole or the new one whole.
THEOREM PowerSafety == Spec => PowerSafe
<1>1. StoreInv /\ StoreInv' /\ [Next /\ OneAtATime']_vars
        => [Store!Next]_(Store!vars)
  <2> SUFFICES ASSUME StoreInv, StoreInv', [Next /\ OneAtATime']_vars
               PROVE  [Store!Next]_(Store!vars)
    OBVIOUS
  <2>1. CASE Next /\ OneAtATime'
    BY <2>1, StepRefines
  <2>2. CASE UNCHANGED vars
    BY <2>2 DEF vars, Store!vars, Load, Uncommitted, Resetting
  <2> QED
    BY <2>1, <2>2
<1> QED
  BY InitRefines, StoreInvariant, <1>1, PTL DEF Spec, PowerSafe, Store!Spec

-----------------------------------------------------------------------------
(* What this means for a load.  LoadIsIntact does not hold, because of the *)
(* reset; these two say that the reset is the only reason.                 *)

LEMMA StoreSteps == Spec => [][StoreInv /\ StoreInv' /\ (Next \/ UNCHANGED vars)]_vars
<1>1. StoreInv /\ StoreInv' /\ [Next /\ OneAtATime']_vars
        => [StoreInv /\ StoreInv' /\ (Next \/ UNCHANGED vars)]_vars
  OBVIOUS
<1> QED
  BY StoreInvariant, <1>1, PTL DEF Spec

LEMMA LoadSteps ==
  ASSUME StoreInv, StoreInv', Next, Load' # Load
  PROVE  Load' \in Uncommitted \/ (Resetting /\ Load' \in {Blank, Garbage})
<1>1. [Store!Next]_(Store!vars)
  BY StepRefines
<1> QED
  BY <1>1 DEF Store!Next, Store!Begin, Store!Commit, Store!BeginReset, Store!Wipe,
     Store!FinishReset, Store!PowerLoss, Store!vars

\* What has been saved stays: what a load returns changes only to the content that
\* the running save was given, or in a factory reset; so neither a power loss nor an
\* interrupted save can take an earlier one back (hnt_mgmt_save_param).
THEOREM SavedStays ==
  Spec => [][Load' # Load => Load' \in Uncommitted \/ Resetting]_vars
<1>1. [StoreInv /\ StoreInv' /\ (Next \/ UNCHANGED vars)]_vars
        => [Load' # Load => Load' \in Uncommitted \/ Resetting]_vars
  BY LoadSteps
<1> QED
  BY StoreSteps, <1>1, PTL

\* A load returns rubbish only after power has failed in a factory reset.
THEOREM OnlyResetSpoils ==
  Spec => [][Load # Garbage /\ Load' = Garbage => Resetting /\ PowerLoss]_vars
<1>1. ASSUME StoreInv, StoreInv', Next, Load # Garbage, Load' = Garbage
      PROVE  Resetting /\ PowerLoss
  <2>1. Uncommitted \subseteq Params
    BY <1>1 DEF StoreInv, SaveProgress, Uncommitted, SavePcs
  <2>2. Resetting
    BY <1>1, <2>1, LoadSteps, ContentsAssumption
  \* A save that runs excludes the reset, and one that begins changes no content.
  <2>3. ASSUME NEW t \in Tasks, SaveStep(t)
        PROVE  FALSE
    <3>1. PICK u \in Tasks : pc[u] \in ResetPcs
      BY <2>2 DEF Resetting
    <3>2. pc[t] \in {"idle"} \cup SavePcs
      BY <2>3 DEF SaveStep, BeginSave, EraseSave, WriteSave, EraseFlag, WriteFlag, Goto, SavePcs
    <3>3. pc[t] = "idle"
      BY <1>1, <3>1, <3>2 DEF StoreInv, OneAtATime, Idle, SavePcs, ResetPcs
    <3>4. PICK p \in Params : BeginSave(t, p)
      BY <2>3, <3>3 DEF SaveStep, EraseSave, WriteSave, EraseFlag, WriteFlag, Goto
    <3> QED
      BY <1>1, <3>4 DEF BeginSave, Load
  \* A reset that is not cut short only erases.
  <2>4. ASSUME NEW t \in Tasks, ResetStep(t)
        PROVE  FALSE
    <3>1. Live(flag) \in {0, 1} /\ Live(flag') \in {0, 1}
      BY DEF Live
    <3>2. \A s \in {0, 1} : save'[s] = save[s] \/ save'[s] = Blank
      BY <1>1, <2>4 DEF StoreInv, TypeOK, ResetStep, BeginReset, ResetSave0, ResetSave1,
         ResetFlag, Restart
    <3>3. save'[Live(flag')] # Garbage
      <4>1. CASE ResetFlag(t)
        <5>1. save[0] = Blank /\ save[1] = Blank /\ save' = save
          BY <1>1, <4>1 DEF StoreInv, ResetProgress, ResetFlag, Goto
        <5> QED
          BY <3>1, <5>1, ContentsAssumption
      <4>2. CASE ~ResetFlag(t)
        <5>1. flag' = flag
          BY <2>4, <4>2 DEF ResetStep, BeginReset, ResetSave0, ResetSave1, Restart
        <5> QED
          BY <1>1, <3>1, <3>2, <5>1, ContentsAssumption DEF Load
      <4> QED BY <4>1, <4>2
    <3> QED
      BY <1>1, <3>3 DEF Load
  <2> QED
    BY <1>1, <2>2, <2>3, <2>4 DEF Next
<1>2. [StoreInv /\ StoreInv' /\ (Next \/ UNCHANGED vars)]_vars
        => [Load # Garbage /\ Load' = Garbage => Resetting /\ PowerLoss]_vars
  BY <1>1 DEF vars, Load
<1> QED
  BY StoreSteps, <1>2, PTL
=============================================================================
