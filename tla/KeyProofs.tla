------------------------------ MODULE KeyProofs ------------------------------
(***************************************************************************)
(* Proofs about Key, for any length of a tick, any argument of the         *)
(* hardware timer and a button that bounces as it likes.                   *)
(***************************************************************************)
EXTENDS Key, TLAPS

\* What the driver and its interrupts know of each other at every step.
Driver ==
  /\ edge => intr # "DISABLE"
  /\ intr = "NEGEDGE" => key_level = 1
  /\ intr = "POSEDGE" => key_level = 0
  /\ intr # "DISABLE" => isr = "none" /\ key_50ms = Off /\ cb \in {"none", "press"}
  /\ intr = "DISABLE" => \/ isr = "enable" \/ key_50ms # Off
                         \/ cb \in {"release", "listen", "held"}
  /\ isr = "enable" => key_level = 0 /\ key_50ms = Off /\ cb \in {"none", "press"}
  /\ key_50ms # Off => key_level = 0 /\ cb \in {"none", "press"}
  /\ cb \in {"release", "held"} => key_level = 0
  /\ cb = "listen" => key_level = 1
  /\ key_5s # Off => key_level = 0

\* The types, the Boolean variables first.
Booleans == edge \in BOOLEAN /\ restoring \in BOOLEAN /\ disturbed \in BOOLEAN

Others ==
  /\ pin \in {0, 1} /\ intr \in {"NEGEDGE", "POSEDGE", "DISABLE"}
  /\ isr \in {"none", "enable"} /\ key_level \in {0, 1}
  /\ key_50ms \in {Off} \cup 0..Debounce
  /\ key_5s \in {Off} \cup 0..Delay(LongPress)
  /\ cb \in {"none", "release", "held", "listen", "press"}
  /\ key_long_press_flag \in {0, 1}
  /\ smartplug_switch_status \in {0, 1}
  /\ contact \in {0, 1} /\ calm \in 0..2 /\ effects \in Nat
  /\ since \in 0..MaxSince

Base == Booleans /\ Others /\ Driver

LEMMA DelayType == \A us \in Nat : Delay(us) \in Nat
<1> SUFFICES ASSUME NEW us \in Nat PROVE Delay(us) \in Nat
  OBVIOUS
<1>1. 2^23 \in Nat \ {0}
  OBVIOUS
<1>2. ToTimerTicks(us) \in Nat
  BY DEF ToTimerTicks
<1>3. \A m \in Nat, n \in Nat \ {0} : m % n \in Nat
  OBVIOUS
<1>4. Load(us) \in Nat
  BY <1>1, <1>2, <1>3 DEF Load
<1>5. \A n \in Nat, u \in Nat \ {0} : (n \div 5 + u - 1) \div u \in Nat
  OBVIOUS
<1> QED
  BY <1>4, <1>5, KeyAssumption DEF Delay

LEMMA InitBase == Init => Base
<1> SUFFICES ASSUME Init PROVE Base
  OBVIOUS
<1>1. Booleans
  BY DEF Init, Booleans
<1>2. Others
  BY KeyAssumption DEF Init, Others, Off
<1>3. Driver
  BY DEF Init, Driver, Off
<1> QED BY <1>1, <1>2, <1>3 DEF Base

LEMMA StepBase ==
  ASSUME Base, [Next]_vars
  PROVE  Base'
<1>0. Delay(LongPress) \in Nat
  BY DelayType, KeyAssumption
<1> USE DEF Due, Armed, Debounce, Off
<1>1. Booleans'
  <2>1. \/ edge' = edge \/ edge' = FALSE
        \/ edge' = (edge \/ (pin = 1 /\ intr = "NEGEDGE") \/ (pin = 0 /\ intr = "POSEDGE"))
    BY DEF Next, InterruptStep, TaskStep, Press, LetGo, Bounce, Glitch, Flip, Interrupt,
       InterruptReturns, Key5s, Key50ms, Release, ListenForPress, ShortPress,
       ListenForRelease, Restart, Tick, vars, pins
  <2>2. restoring' = restoring \/ restoring' = FALSE \/ restoring' = TRUE
    BY DEF Next, InterruptStep, TaskStep, Press, LetGo, Bounce, Glitch, Flip, Interrupt,
       InterruptReturns, Key5s, LongPressed, Key50ms, Release, ListenForPress, ShortPress,
       ListenForRelease, Restart, Tick, vars, plug
  <2>3. \/ disturbed' = disturbed \/ disturbed' = TRUE
        \/ disturbed' = (pin = 0 \/ contact = 0 \/ calm = 2)
    BY DEF Next, InterruptStep, TaskStep, Press, LetGo, Bounce, Glitch, Flip, Disturb,
       HasEffect, Interrupt, InterruptReturns, Key5s, LongPressed, Key50ms, Release,
       ListenForPress, ShortPress, ListenForRelease, Restart, Tick, vars, user
  <2> QED
    BY <2>1, <2>2, <2>3, Zenon DEF Base, Booleans
<1>2. Others' /\ Driver'
  <2>0. Others /\ Driver
    BY DEF Base
  <2> USE KeyAssumption, <1>0, <2>0 DEF Others, Driver
  <2>f. ASSUME Flip
        PROVE  pin' \in {0, 1} /\ Driver' /\ UNCHANGED <<intr, driver, plug, since>>
    <3>1. /\ edge' <=> edge \/ (pin = 1 /\ intr = "NEGEDGE") \/ (pin = 0 /\ intr = "POSEDGE")
          /\ pin' = 1 - pin
      BY <2>f DEF Flip
    <3> QED
      BY <2>f, <3>1 DEF Flip, driver, plug
  <2>1. CASE Press \/ LetGo \/ Bounce
    BY <2>1, <2>f DEF Press, LetGo, Bounce, driver, plug, user
  <2>2. CASE Glitch
    BY <2>2, <2>f DEF Glitch, Disturb, driver, plug
  <2>3. CASE Interrupt
    BY <2>3 DEF Interrupt, plug, user
  <2>4. CASE InterruptReturns
    BY <2>4 DEF InterruptReturns, plug, user
  <2>5. CASE Key5s
    BY <2>5 DEF Key5s, LongPressed, HasEffect, pins, plug, user
  <2>6. CASE Key50ms
    BY <2>6 DEF Key50ms, Step, TaskRuns, pins, plug, user
  <2>7. CASE Release
    BY <2>7 DEF Release, StopLongTimer, Step, TaskRuns, pins, plug, user
  <2>8. CASE ListenForPress
    BY <2>8 DEF ListenForPress, Step, TaskRuns, plug, user
  <2>9. CASE ShortPress
    BY <2>9 DEF ShortPress, HasEffect, Toggle, Step, TaskRuns, pins, user
  <2>10. CASE ListenForRelease
    BY <2>10 DEF ListenForRelease, Step, TaskRuns, plug, user
  <2>11. CASE Restart
    BY <2>11 DEF Restart
  <2>12. CASE Tick
    BY <2>12 DEF Tick, CountDown, Disturb, TaskRuns, pins, plug
  <2>13. CASE UNCHANGED vars
    BY <2>13 DEF vars, pins, driver, plug, user
  <2> QED
    BY <2>1, <2>2, <2>3, <2>4, <2>5, <2>6, <2>7, <2>8, <2>9, <2>10, <2>11, <2>12, <2>13
       DEF Next, InterruptStep, TaskStep
<1> QED
  BY <1>1, <1>2 DEF Base

\* However the button bounces, the driver always listens for the edge it expects, or
\* is on its way to, and the long press timer never runs with the button accepted up.
THEOREM KeyListens == Spec => []Listening
<1>1. Base => Listening
  BY DEF Base, Driver, Listening, Armed
<1> QED
  BY <1>1, InitBase, StepBase, PTL DEF Spec

\* Every variable keeps its type.
THEOREM KeyTyped == Spec => []TypeOK
<1>1. Base => TypeOK
  BY DEF Base, Booleans, Others, TypeOK
<1> QED
  BY <1>1, InitBase, StepBase, PTL DEF Spec

-----------------------------------------------------------------------------
(* A long press never inherits the time of an earlier one: the hardware    *)
(* timer and the time since the last accepted release run together.        *)

\* While it runs, what it has counted and what is left make up a long press.
OwnTime == Armed(key_5s) => since + key_5s >= Delay(LongPress) \/ since = MaxSince

\* A press is long only after the full delay since the button was last accepted
\* up (key_intr_handler stops the timer of a shorter one).  A history that saturates
\* earlier would not tell.
THEOREM LongPressTimed ==
  ASSUME MaxSince >= Delay(LongPress)
  PROVE  Spec => LongPressOwnTime
<1>0. Delay(LongPress) \in Nat
  BY DelayType, KeyAssumption
<1>1. Init => OwnTime
  BY DEF Init, OwnTime, Armed
<1>2. ASSUME Base, OwnTime, [Next]_vars
      PROVE  OwnTime'
  <2> USE <1>0, <1>2, KeyAssumption DEF OwnTime, Armed, Off
  <2>0. Others
    BY DEF Base
  <2>1. CASE Interrupt
    BY <2>0, <2>1 DEF Interrupt, Others
  <2>2. CASE Tick
    BY <2>0, <2>2 DEF Tick, CountDown, Others, Due
  <2>3. CASE Restart \/ Release \/ Key5s
    BY <2>3 DEF Restart, Release, StopLongTimer, Key5s
  <2>4. CASE UNCHANGED <<key_5s, since>>
    BY <2>4
  <2>5. Interrupt \/ Tick \/ Restart \/ Release \/ Key5s \/ UNCHANGED <<key_5s, since>>
    BY DEF Next, InterruptStep, TaskStep, Press, LetGo, Bounce, Glitch, Flip, InterruptReturns, Key50ms, ListenForPress,
       ShortPress, ListenForRelease, vars, driver
  <2> QED
    BY <2>1, <2>2, <2>3, <2>4, <2>5
<1>3. ASSUME Base, OwnTime, [Next]_vars
      PROVE  [~restoring /\ restoring' => since >= Delay(LongPress)]_vars
  <2> USE <1>3
  <2>1. CASE Key5s
    <3>1. key_5s = 0 /\ since \in Nat
      BY <2>1, KeyAssumption DEF Key5s, Due, Base, Others
    <3> QED
      BY <1>0, <3>1 DEF OwnTime, Armed, Off
  <2>2. CASE ~Key5s
    BY <2>2 DEF Next, InterruptStep, TaskStep, Press, LetGo, Bounce, Glitch, Flip, Interrupt, InterruptReturns, Key50ms,
       Release, ListenForPress, ShortPress, ListenForRelease, Restart, Tick, vars, plug
  <2> QED BY <2>1, <2>2
<1> QED
  BY <1>1, <1>2, <1>3, InitBase, StepBase, PTL DEF Spec, LongPressOwnTime

-----------------------------------------------------------------------------
(* One effect per press.  As long as the pin does what is expected of a    *)
(* button, the driver goes through the same stages for each press.         *)

\* Between two presses.
AtRest == /\ intr = "NEGEDGE" /\ ~edge /\ cb = "none" /\ pin = 1
          /\ key_long_press_flag = 0 /\ effects = 1

\* The driver has not seen the press yet; it has, and waits for the release, or
\* will; or it checks whether an edge was the release.
Unseen == /\ intr = "NEGEDGE" /\ edge /\ cb = "none"
          /\ key_long_press_flag = 0
Waiting == key_level = 0 /\ intr = "POSEDGE" /\ cb = "none"
Seeing == isr = "enable" /\ cb = "none"
Checking(left) == intr = "DISABLE" /\ key_50ms = left /\ cb = "none"
Handling(step) == cb = step /\ key_50ms = Off /\ isr = "none"

Stages ==
  /\ contact = 0 => effects = key_long_press_flag
  /\ contact = 0 /\ calm = 2 => Unseen \/ Seeing \/ Waiting \/ Checking(Debounce)
  /\ contact = 0 /\ calm = 1 => /\ pin = 0 /\ ~edge
                                /\ Waiting \/ Checking(0) \/ Handling("held")
  /\ contact = 0 /\ calm = 0 => pin = 0 /\ ~edge /\ Waiting
  /\ contact = 1 /\ calm = 2 => /\ effects = key_long_press_flag
                                /\ (edge /\ Waiting) \/ Checking(Debounce)
  /\ contact = 1 /\ calm = 1 =>
       /\ pin = 1 /\ ~edge
       /\ \/ /\ effects = key_long_press_flag
             /\ \/ Checking(0) \/ Handling("release") \/ Handling("listen")
                \/ Handling("press") /\ intr = "NEGEDGE"
          \/ AtRest
  /\ contact = 1 /\ calm = 0 => AtRest
  /\ key_5s # Off => key_long_press_flag = 0

InStages == disturbed \/ Stages

LEMMA StepStages ==
  ASSUME Base, InStages, [Next]_vars
  PROVE  InStages'
<1>0. Booleans /\ Others /\ Driver
  BY DEF Base
<1> SUFFICES ASSUME ~disturbed' PROVE Stages'
  BY DEF InStages
<1> USE <1>0 DEF Booleans, Others, Driver, InStages, Stages, AtRest, Unseen, Waiting, Seeing,
                 Checking, Handling, Due, Armed, Debounce, Off
<1>1. CASE Press \/ LetGo
  <2>1. /\ edge' <=> edge \/ (pin = 1 /\ intr = "NEGEDGE") \/ (pin = 0 /\ intr = "POSEDGE")
        /\ pin' = 1 - pin
    BY <1>1 DEF Press, LetGo, Flip
  <2>2. CASE Press
    BY <2>1, <2>2 DEF Press, Flip, driver, plug
  <2>3. CASE LetGo
    BY <2>1, <2>3 DEF LetGo, Flip, driver, plug
  <2> QED
    BY <1>1, <2>2, <2>3
<1>2. CASE Bounce
  BY <1>2 DEF Bounce, Flip, driver, plug, user
<1>3. CASE Glitch
  BY <1>3 DEF Glitch, Disturb
<1>4. CASE Interrupt
  BY <1>4 DEF Interrupt, plug, user
<1>5. CASE InterruptReturns
  BY <1>5 DEF InterruptReturns, plug, user
<1>6. CASE Key5s
  BY <1>6 DEF Key5s, LongPressed, HasEffect, pins, plug, user
<1>7. CASE Key50ms
  BY <1>7 DEF Key50ms, Step, TaskRuns, pins, plug, user
<1>8. CASE Release
  BY <1>8 DEF Release, StopLongTimer, Step, TaskRuns, pins, plug, user
<1>9. CASE ListenForPress
  BY <1>9 DEF ListenForPress, Step, TaskRuns, plug, user
<1>10. CASE ShortPress
  BY <1>10 DEF ShortPress, HasEffect, Step, TaskRuns, pins, user
<1>11. CASE ListenForRelease
  BY <1>11 DEF ListenForRelease, Step, TaskRuns, plug, user
<1>12. CASE Restart
  <2>1. pin # 0 /\ pin' = pin
    BY <1>12 DEF Restart
  <2> QED
    BY <1>12, <2>1 DEF Restart
<1>13. CASE Tick
  BY <1>13 DEF Tick, CountDown, Disturb, TaskRuns, pins, plug
<1>14. CASE UNCHANGED vars
  BY <1>14 DEF vars, pins, driver, plug, user
<1> QED
  BY <1>1, <1>2, <1>3, <1>4, <1>5, <1>6, <1>7, <1>8, <1>9, <1>10, <1>11, <1>12, <1>13, <1>14
     DEF Next, InterruptStep, TaskStep

\* However the contact bounces within the debounce time at a press and at its release,
\* the press has had one effect when the next one begins: a toggle by key_50ms_cb or
\* a reset by key_5s_cb.
THEOREM OneEffect == Spec => OneEffectPerPress
<1>1. ASSUME Init
      PROVE  InStages
  <2>1. CASE pin = 0
    BY <1>1, <2>1, Zenon DEF Init, InStages
  <2>2. CASE pin = 1
    BY <1>1, <2>2 DEF Init, InStages, Stages, AtRest
  <2> QED
    BY <1>1, <2>1, <2>2 DEF Init
<1>2. ASSUME Base, Base', InStages, InStages', [Next]_vars
      PROVE  [~disturbed' => /\ effects' <= 1
                             /\ contact = 1 /\ contact' = 0 => effects = 1]_vars
  <2> SUFFICES ASSUME ~disturbed'
               PROVE  effects' <= 1 /\ (contact = 1 /\ contact' = 0 => effects = 1)
    OBVIOUS
  <2>1. effects' <= 1
    BY <1>2 DEF Base, Others, InStages, Stages, AtRest
  <2>2. ASSUME contact = 1, contact' = 0
        PROVE  effects = 1
    <3>1. Press
      BY <1>2, <2>2 DEF Next, InterruptStep, TaskStep, LetGo, Bounce, Glitch, Flip, Disturb,
         HasEffect, Interrupt, InterruptReturns, Key5s, LongPressed, Key50ms, Release,
         ListenForPress, ShortPress, ListenForRelease, Restart, Tick, vars, user
    <3> QED
      BY <1>2, <3>1 DEF Press, InStages, Stages, AtRest
  <2> QED
    BY <2>1, <2>2
<1> QED
  BY <1>1, <1>2, InitBase, StepBase, StepStages, PTL DEF Spec, OneEffectPerPress
=============================================================================
