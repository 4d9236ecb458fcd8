------------------------------ MODULE SmartPlug ------------------------------
(***************************************************************************)
(* The relay of custom/user_smartplug.c.  eSmartPlugSetPower writes the    *)
(* status, the relay and the power LED one after the other, and two tasks  *)
(* of the same priority call it with no lock between them: xmppcli_task    *)
(* for a parameter set by the server, the timer task for the button.       *)
(***************************************************************************)
EXTENDS Naturals

CONSTANT Callers   \* the tasks that call eSmartPlugSetPower

VARIABLES
  smartplug_switch_status,
  relay,       \* level of SMARTPLUG_CTRL_IO_GPIO
  powerLed,    \* SMARTPLUG_POWER_LED_GPIO: 1 is lit
  call,        \* call[c]: where caller c is in the function, and its local value
  overlapped   \* history: another call ran during the last one

vars == <<smartplug_switch_status, relay, powerLed, call, overlapped>>

NoCall == [at |-> "idle", value |-> 0]
Idle(c) == call[c].at = "idle"

Init ==
  /\ smartplug_switch_status = 0
  /\ relay = 0 /\ powerLed = 0
  /\ call = [c \in Callers |-> NoCall]
  /\ overlapped = FALSE

\* After a restart, smartplug_gpio_status_init has put the outputs back.
Restart ==
  /\ smartplug_switch_status' = 0
  /\ relay' = 0 /\ powerLed' = 0
  /\ call' = [c \in Callers |-> NoCall]
  /\ overlapped' = FALSE

\* A caller has made up its mind about the new value: the server's, or for
\* smartplug_key_short_press the opposite of the status it has just read.
Begin(c, value) ==
  /\ Idle(c)
  /\ call' = [call EXCEPT ![c] = [at |-> "status", value |-> value]]
  /\ overlapped' = \E other \in Callers \ {c} : ~Idle(other)
  /\ UNCHANGED <<smartplug_switch_status, relay, powerLed>>

WriteStatus(c) ==
  /\ call[c].at = "status"
  /\ smartplug_switch_status' = call[c].value
  /\ call' = [call EXCEPT ![c].at = "relay"]
  /\ UNCHANGED <<relay, powerLed, overlapped>>

\* The compiler may take the level from its register or from memory.
SwitchRelay(c) ==
  /\ call[c].at = "relay"
  /\ relay' \in {call[c].value, smartplug_switch_status}
  /\ call' = [call EXCEPT ![c].at = "branch"]
  /\ UNCHANGED <<smartplug_switch_status, powerLed, overlapped>>

Branch(c) ==
  /\ call[c].at = "branch"
  /\ call' = [call EXCEPT ![c] = [at |-> "led", value |-> smartplug_switch_status]]
  /\ UNCHANGED <<smartplug_switch_status, relay, powerLed, overlapped>>

LightOnly(value) == IF value = 1 THEN 1 ELSE powerLed    \* mutant: no else branch
Light(value) == value

SetLed(c) ==
  /\ call[c].at = "led"
  /\ powerLed' = Light(call[c].value)
  /\ call' = [call EXCEPT ![c] = NoCall]
  /\ UNCHANGED <<smartplug_switch_status, relay, overlapped>>

Step(c) == WriteStatus(c) \/ SwitchRelay(c) \/ Branch(c) \/ SetLed(c)

Next == \/ \E c \in Callers : Step(c) \/ \E value \in {0, 1} : Begin(c, value)
        \/ Restart

Spec == Init /\ [][Next]_vars

-----------------------------------------------------------------------------
\* Type invariant of the plug.
TypeOK ==
  /\ smartplug_switch_status \in {0, 1} /\ relay \in {0, 1} /\ powerLed \in {0, 1}
  /\ call \in [Callers -> [at : {"idle", "status", "relay", "branch", "led"},
                           value : {0, 1}]]
  /\ overlapped \in BOOLEAN

\* What eSmartPlugGetPower reports, the relay and the power LED are the same
\* whenever nobody is inside eSmartPlugSetPower, unless the last calls
\* overlapped; one call that runs alone puts right what they left behind.
Agrees == (\A c \in Callers : Idle(c)) /\ ~overlapped
            => relay = smartplug_switch_status /\ powerLed = smartplug_switch_status
=============================================================================
