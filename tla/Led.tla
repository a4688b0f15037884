-------------------------------- MODULE Led --------------------------------
(***************************************************************************)
(* The RGB LED (led.c).  Two writers share its PWM outputs: the interrupt  *)
(* of the real-time clock blinks it in the colour of the connection's      *)
(* state, and the handlers of the shadow give every colour its level.      *)
(*                                                                         *)
(* Abstracted: PWM compare values, as levels from 0 (off) to Full.  The    *)
(* pins are routed to the timer, so the port levels that turnOnLED and     *)
(* turnOffLED write have no effect.                                        *)
(***************************************************************************)
EXTENDS Naturals

CONSTANTS
  Leds,       \* the colours, by the names of their shadow keys
  StateLeds,  \* the colours led_ctrl_set_color chose for the connection's state
  Full        \* a PWM output that is always on

ASSUME LedAssumption == StateLeds \subseteq Leds /\ Full \in Nat \ {0}

VARIABLES
  gu8LedMode,     \* what the LED is for
  gu8OnOffState,  \* phase of the blinking
  pwm             \* level of each colour

ledVars == << gu8LedMode, gu8OnOffState, pwm >>

Blinks == {"LED_MODE_BLINK_NORMAL", "LED_MODE_BLINK_FAST"}

\* configure_tcc starts with all colours lit; main sets the mode.
LedInit ==
  /\ gu8LedMode = "LED_MODE_BLINK_NORMAL" /\ gu8OnOffState = 0
  /\ pwm = [c \in Leds |-> Full]

LedRestarts ==
  /\ gu8LedMode' = "LED_MODE_BLINK_NORMAL" /\ gu8OnOffState' = 0
  /\ pwm' = [c \in Leds |-> Full]

\* toggleLED, which rtc_overflow_callback calls in the blinking modes.
toggleLED ==
  /\ gu8LedMode \in Blinks
  /\ gu8OnOffState' = 1 - gu8OnOffState
  /\ pwm' = [c \in Leds |->
               IF gu8OnOffState = 0 /\ c \in StateLeds THEN Full ELSE 0]
  /\ UNCHANGED gu8LedMode

\* led_ctrl_set_mode: the outputs stay as the last blink left them.
led_ctrl_set_mode(mode) ==
  /\ gu8LedMode' = mode
  /\ gu8OnOffState' = IF mode = "LED_MODE_TURN_ON" THEN 1 ELSE gu8OnOffState
  /\ UNCHANGED pwm

\* setColor for each colour of levels; the others keep theirs.
setColor(levels) ==
  /\ pwm' = [c \in Leds |-> IF c \in DOMAIN levels THEN levels[c] ELSE pwm[c]]
  /\ UNCHANGED << gu8LedMode, gu8OnOffState >>

LedTypeOK ==
  /\ gu8LedMode \in Blinks \cup {"LED_MODE_TURN_ON"}
  /\ gu8OnOffState \in {0, 1}
  /\ pwm \in [Leds -> Nat]
=============================================================================
