--------------------------------- MODULE Key ---------------------------------
(***************************************************************************)
(* The push button of the smart plug: the driver in driver/key.c, the      *)
(* hardware timer it uses for long presses (driver/hw_timer.c) and the two *)
(* functions it calls (custom/user_smartplug.c).  The button pulls its pin *)
(* low and bounces.  Code runs in two interrupt handlers and in the timer  *)
(* task, which an interrupt may interrupt between any two of its steps.    *)
(***************************************************************************)
EXTENDS Integers

CONSTANTS
  Unit,       \* length of a tick, in microseconds
  LongPress,  \* microseconds key_intr_handler arms the hardware timer for
  ClaimedUs,  \* microseconds a long press is said to take
  MaxSince    \* bound: ticks of the history variable since

ASSUME KeyAssumption == /\ Unit \in Nat \ {0} /\ LongPress \in Nat
                        /\ ClaimedUs \in Nat /\ MaxSince \in Nat

VARIABLES
  pin,        \* level of the pin: 0 while the button is down
  edge,       \* the pin's bit in the GPIO status register
  intr,       \* the edge that sets it: "NEGEDGE", "POSEDGE" or "DISABLE"
  isr,        \* "enable" while key_intr_handler has yet to enable the interrupt
  key_level,
  key_50ms,   \* ticks left of the debounce timer, or Off
  key_5s,     \* ticks left of the hardware timer, or Off while it is masked
  cb,         \* step of a running key_50ms_cb, or "none"
  key_long_press_flag,
  restoring,  \* smartplug_key_long_press runs and will restart the system
  smartplug_switch_status,
  \* history
  contact,    \* the level the user has last brought the pin to
  calm,       \* 2 while the contact bounces, then ticks left until the user
              \* may act again
  effects,    \* effects since the last press began
  disturbed,  \* since the start of the program the pin did something else
  since       \* ticks since the last release the driver has accepted

pins   == <<pin, edge, intr>>
driver == <<isr, key_level, key_50ms, key_5s, cb>>
plug   == <<key_long_press_flag, restoring, smartplug_switch_status>>
user   == <<contact, calm, effects, disturbed>>
vars   == <<pins, driver, plug, user, since>>

Off == -1
Armed(timer) == timer # Off
Due(timer) == timer = 0

NoDebounce == 0 \* mutant: the pin is read at once
Debounce == 1   \* 50 ms in ticks: the driver's timer fires within this tick

\* US_TO_RTC_TIMER_TICKS at 5 MHz, for arguments above 0x35A.
ToTimerTicks(us) == (us \div 4) * 20 + (us % 4) * 5

\* The load register of the timer has 23 bits (FRC1_LOAD_DATA_MASK).
Load(us) == ToTimerTicks(us) % 2^23

\* Ticks after which a timer armed for us microseconds fires.
Delay(us) == (Load(us) \div 5 + Unit - 1) \div Unit

-----------------------------------------------------------------------------
\* The user and the contact.  An edge that the pin does not wait for is lost.

Flip == /\ pin' = 1 - pin
        /\ edge' = (edge \/ (pin = 1 /\ intr = "NEGEDGE") \/ (pin = 0 /\ intr = "POSEDGE"))
        /\ UNCHANGED <<intr, driver, plug, since>>

\* What one expects of a button: it is pressed and released, each time for two
\* ticks or more, and bounces within the tick of either.
Press ==
  /\ ~disturbed /\ contact = 1 /\ calm = 0
  /\ contact' = 0 /\ calm' = 2 /\ effects' = 0
  /\ Flip
  /\ UNCHANGED disturbed

LetGo ==
  /\ ~disturbed /\ contact = 0 /\ calm = 0
  /\ contact' = 1 /\ calm' = 2
  /\ Flip
  /\ UNCHANGED <<effects, disturbed>>

Bounce == calm = 2 /\ Flip /\ UNCHANGED user

\* But the pin may change at any moment.
Disturb == contact' = 1 /\ calm' = 0 /\ effects' = 1 /\ disturbed' = TRUE

Glitch == Flip /\ Disturb

HasEffect == /\ effects' = IF disturbed THEN effects ELSE effects + 1
             /\ UNCHANGED <<contact, calm, disturbed>>

-----------------------------------------------------------------------------
\* key_intr_handler, up to the point where it enables the interrupt again.
Interrupt ==
  /\ edge
  /\ isr = "none"
  /\ edge' = FALSE
  /\ intr' = "DISABLE"
  /\ \/ /\ key_level = 1
        /\ key_5s' = Delay(LongPress)
        /\ key_level' = 0
        /\ isr' = "enable"
        /\ UNCHANGED key_50ms
     \/ /\ key_level = 0
        /\ key_50ms' = Debounce
        /\ UNCHANGED <<key_5s, key_level, isr>>
  /\ UNCHANGED <<pin, cb, plug, user, since>>

InterruptReturns ==
  /\ isr = "enable"
  /\ isr' = "none"
  /\ intr' = "POSEDGE"
  /\ UNCHANGED <<pin, edge, key_level, key_50ms, key_5s, cb, plug, user, since>>

\* key_5s_cb and smartplug_key_long_press, in the timer's interrupt.
LongPressed ==
  /\ pin = 0
  /\ key_long_press_flag' = 1
  /\ restoring' = TRUE
  /\ HasEffect
  /\ UNCHANGED smartplug_switch_status

Key5s ==
  /\ Due(key_5s)
  /\ isr = "none"
  /\ key_5s' = Off
  /\ \/ LongPressed
     \/ pin = 1 /\ UNCHANGED <<plug, user>>
  /\ UNCHANGED <<pins, isr, key_level, key_50ms, cb, since>>

-----------------------------------------------------------------------------
\* The timer task runs when no interrupt handler does.
TaskRuns == isr = "none" /\ ~edge

Step(from, to) == /\ TaskRuns
                  /\ cb = from
                  /\ cb' = to

\* key_50ms_cb reads the pin ...
Key50ms ==
  /\ Due(key_50ms)
  /\ Step("none", IF pin = 1 THEN "release" ELSE "held")
  /\ key_50ms' = Off
  /\ UNCHANGED <<pins, isr, key_level, key_5s, plug, user, since>>

\* ... and, if the button is up, stops the long press timer, ...
KeepLongTimer == key_5s' = key_5s    \* mutant: lets it run
StopLongTimer == key_5s' = Off

Release ==
  /\ Step("release", "listen")
  /\ StopLongTimer
  /\ key_level' = 1
  /\ since' = 0
  /\ UNCHANGED <<pins, isr, key_50ms, plug, user>>

\* ... waits for the next press ...
ListenForPress ==
  /\ Step("listen", "press")
  /\ intr' = "NEGEDGE"
  /\ UNCHANGED <<pin, edge, isr, key_level, key_50ms, key_5s, plug, user, since>>

\* ... and calls smartplug_key_short_press; the release that ends a long press
\* does not switch.
CountUp(status) == status + 1    \* mutant: counts presses
Toggle(status) == 1 - status

ShortPress ==
  /\ Step("press", "none")
  /\ \/ /\ key_long_press_flag = 1
        /\ key_long_press_flag' = 0
        /\ UNCHANGED <<smartplug_switch_status, user>>
     \/ /\ key_long_press_flag = 0
        /\ smartplug_switch_status' = Toggle(smartplug_switch_status)
        /\ HasEffect
        /\ UNCHANGED key_long_press_flag
  /\ UNCHANGED <<pins, isr, key_level, key_50ms, key_5s, restoring, since>>

\* With the button still down it goes on waiting for the release.
Deaf ==    \* mutant: leaves the interrupt disabled
  /\ Step("held", "none")
  /\ UNCHANGED <<pins, isr, key_level, key_50ms, key_5s, plug, user, since>>

ListenForRelease ==
  /\ Step("held", "none")
  /\ intr' = "POSEDGE"
  /\ UNCHANGED <<pin, edge, isr, key_level, key_50ms, key_5s, plug, user, since>>

-----------------------------------------------------------------------------
\* system_restart, with the button up or down; key_init.  A restart under a button
\* that is down, or bounces, takes what is left of the press for a new one.
Restart ==
  /\ restoring
  /\ edge' = FALSE /\ intr' = "NEGEDGE"
  /\ isr' = "none" /\ key_level' = 1 /\ key_50ms' = Off /\ key_5s' = Off /\ cb' = "none"
  /\ key_long_press_flag' = 0 /\ restoring' = FALSE /\ smartplug_switch_status' = 0
  /\ contact' = 1 /\ calm' = 0 /\ effects' = 1
  /\ disturbed' = (pin = 0 \/ contact = 0 \/ calm = 2)
  /\ since' = 0
  /\ UNCHANGED pin

CountDown(timer) == IF Armed(timer) THEN timer - 1 ELSE timer

\* A tick passes once everything due has happened.
Tick ==
  /\ TaskRuns /\ cb = "none"
  /\ ~Due(key_50ms) /\ ~Due(key_5s)
  /\ key_50ms' = CountDown(key_50ms)
  /\ key_5s' = CountDown(key_5s)
  /\ since' = IF since < MaxSince THEN since + 1 ELSE since
  /\ IF calm = 2 /\ pin # contact
     THEN Disturb
     ELSE /\ calm' = IF calm = 0 THEN 0 ELSE calm - 1
          /\ UNCHANGED <<contact, effects, disturbed>>
  /\ UNCHANGED <<pins, isr, key_level, cb, plug>>

-----------------------------------------------------------------------------
\* After power-on, the button up or down.
Init ==
  /\ pin \in {0, 1} /\ edge = FALSE /\ intr = "NEGEDGE"
  /\ isr = "none" /\ key_level = 1 /\ key_50ms = Off /\ key_5s = Off /\ cb = "none"
  /\ key_long_press_flag = 0 /\ restoring = FALSE /\ smartplug_switch_status = 0
  /\ contact = 1 /\ calm = 0 /\ effects = 1 /\ disturbed = (pin = 0)
  /\ since = 0

InterruptStep == Interrupt \/ InterruptReturns \/ Key5s
TaskStep == \/ Key50ms \/ Release \/ ListenForPress \/ ShortPress \/ ListenForRelease

Next == \/ Press \/ LetGo \/ Bounce \/ Glitch
        \/ InterruptStep \/ TaskStep \/ Restart \/ Tick

Spec == Init /\ [][Next]_vars

\* Interrupts are served, the timer task runs and time passes; nothing is
\* assumed of the user.
FairSpec == /\ Spec
            /\ WF_vars(InterruptStep) /\ WF_vars(TaskStep) /\ WF_vars(Tick)

-----------------------------------------------------------------------------
\* Type invariant of the pin, the driver and the plug.
TypeOK ==
  /\ pin \in {0, 1} /\ edge \in BOOLEAN /\ intr \in {"NEGEDGE", "POSEDGE", "DISABLE"}
  /\ isr \in {"none", "enable"} /\ key_level \in {0, 1}
  /\ key_50ms \in {Off} \cup 0..Debounce
  /\ key_5s \in {Off} \cup 0..Delay(LongPress)
  /\ cb \in {"none", "release", "held", "listen", "press"}
  /\ key_long_press_flag \in {0, 1} /\ restoring \in BOOLEAN
  /\ smartplug_switch_status \in {0, 1}
  /\ contact \in {0, 1} /\ calm \in 0..2 /\ effects \in Nat /\ disturbed \in BOOLEAN
  /\ since \in 0..MaxSince

\* A press has one effect, no more and no less: by the time of the next it has
\* switched the plug once or reset it, never both and never twice, however the
\* contact bounces at the press and at the release, and whichever of its edges are
\* lost in the handlers.  This holds as long as the pin does nothing else: no
\* glitch, no bounce that outlasts the debounce time, no press or pause shorter than
\* two such times, and no restart under a button that is down.
OneEffectPerPress ==
  [][~disturbed' => /\ effects' <= 1
                    /\ contact = 1 /\ contact' = 0 => effects = 1]_vars

\* The driver always listens for the edge its key_level expects, or is on the
\* way to: a key whose interrupt is disabled has a debounce or a handler under
\* way that will enable it, and the long press timer runs only between a press
\* and its release.
Listening ==
  /\ intr = "NEGEDGE" => key_level = 1
  /\ intr = "POSEDGE" => key_level = 0
  /\ intr = "DISABLE" => \/ isr = "enable" \/ Armed(key_50ms)
                         \/ cb \in {"release", "listen", "held"}
  /\ Armed(key_5s) => key_level = 0

\* A long press never inherits the time of an earlier press: it is not called
\* before the timer has run its full course since the last accepted release.
LongPressOwnTime == [][~restoring /\ restoring' => since >= Delay(LongPress)]_vars

\* A key whose interrupt has been disabled is enabled again.
ListensAgain == intr = "DISABLE" ~> intr # "DISABLE"

\* "this gpio has been in low state for 5s, then call long_press function"
\* (key.c:105): since the last accepted release, or since power-on, at least
\* that long has passed, so the gpio can have been low that long.
LongPressTakes5s == [][~restoring /\ restoring' => since * Unit >= ClaimedUs]_vars
=============================================================================
