------------------------------- MODULE Ticks -------------------------------
(***************************************************************************)
(* The part of the main loop that time drives: MQTTYield, which spins      *)
(* until its timer expires, and button_check (button.c), which runs only   *)
(* between two turns of wifiTaskExecute, while the RTC interrupt counts    *)
(* and the user presses a button.                                          *)
(*                                                                         *)
(* One button stands for the three, which share nothing but the tick.      *)
(* Abstracted: the callbacks, of which only the calls are counted; what    *)
(* else the task does in a turn, which takes any time.                     *)
(***************************************************************************)
EXTENDS Timer

CONSTANTS
  Step,       \* what rtc_overflow_callback adds, 20
  Debounce,   \* TIMEOUT_COUNTER_BUTTON_DEBOUNCE, 50
  Long,       \* TIMEOUT_COUNTER_5S, 5000
  YieldTime   \* timeout of cloud_mqtt_yield, 100

ASSUME TimesAssumption ==
  /\ Step \in Nat \ {0} /\ Debounce \in Nat \ {0} /\ Long \in Nat /\ YieldTime \in Nat
  /\ Debounce < Long /\ Long < Wrap
  /\ YieldTime > 0 /\ YieldTime + Step < Wrap

VARIABLES
  pc,          \* "task", "yield" or "buttons"
  ms_ticks,
  timer,       \* the timer of MQTTYield
  level,       \* whether the button is down
  pre_tick, press_time, sw_index, prev_state,
  since,       \* time since timer was set, up to YieldTime + Step
  shorts, longs  \* callbacks since the button was last seen up

button == << pre_tick, press_time, sw_index, prev_state, shorts, longs >>
vars == << pc, ms_ticks, timer, level, button, since >>

Least(a, b) == IF a < b THEN a ELSE b

Init ==
  /\ pc = "task" /\ ms_ticks = 0 /\ timer = InitTimer /\ level = FALSE
  /\ pre_tick = 0 /\ press_time = 0 /\ sw_index = 1 /\ prev_state = 0
  /\ since = 0 /\ shorts = 0 /\ longs = 0

\* rtc_overflow_callback
RtcTick ==
  /\ ms_ticks' = Plus(ms_ticks, Step)
  /\ since' = Least(since + Step, YieldTime + Step)
  /\ UNCHANGED << pc, timer, level, pre_tick, press_time, sw_index, prev_state, shorts, longs >>

User == level' = ~level /\ UNCHANGED << pc, ms_ticks, timer, button, since >>

\* wifiTaskExecute: a turn that yields, or one that does not.
TaskYields ==
  /\ pc = "task" /\ pc' = "yield"
  /\ timer' = CountdownMs(ms_ticks, YieldTime) /\ since' = 0
  /\ UNCHANGED << ms_ticks, level, button >>

TaskReturns ==
  /\ pc = "task" /\ pc' = "buttons"
  /\ UNCHANGED << ms_ticks, timer, level, button, since >>

\* while (!expired(&timer))
YieldReturns ==
  /\ pc = "yield" /\ Expired(timer, ms_ticks) /\ pc' = "buttons"
  /\ UNCHANGED << ms_ticks, timer, level, button, since >>

----------------------------------------------------------------------------
(* button_check *)

SeenUp ==
  /\ ~level
  /\ prev_state' = 0 /\ pre_tick' = 0 /\ sw_index' = 1
  /\ shorts' = 0 /\ longs' = 0
  /\ UNCHANGED press_time

SeenDown ==
  /\ level /\ pre_tick = 0
  /\ pre_tick' = ms_ticks
  /\ UNCHANGED << press_time, sw_index, prev_state, shorts, longs >>

PressTime == IF ms_ticks > pre_tick THEN ms_ticks - pre_tick ELSE press_time
ShortDue == PressTime >= Debounce /\ prev_state = 0
LongDue  == PressTime >= sw_index * Long

\* Mutant: the long callbacks come first, and mark the press as reported.
StillDown_LongFirst ==
  /\ level /\ pre_tick # 0
  /\ press_time' = PressTime
  /\ prev_state' = IF ShortDue \/ LongDue THEN 1 ELSE prev_state
  /\ sw_index'   = IF LongDue THEN sw_index + 1 ELSE sw_index
  /\ shorts'     = IF ShortDue /\ ~LongDue THEN shorts + 1 ELSE shorts
  /\ longs'      = IF LongDue THEN longs + 1 ELSE longs
  /\ UNCHANGED pre_tick

\* The short callbacks, then the long ones.
StillDown ==
  /\ level /\ pre_tick # 0
  /\ press_time' = PressTime
  /\ prev_state' = IF ShortDue \/ LongDue THEN 1 ELSE prev_state
  /\ sw_index'   = IF LongDue THEN sw_index + 1 ELSE sw_index
  /\ shorts'     = IF ShortDue THEN shorts + 1 ELSE shorts
  /\ longs'      = IF LongDue THEN longs + 1 ELSE longs
  /\ UNCHANGED pre_tick

ButtonCheck ==
  /\ pc = "buttons" /\ pc' = "task"
  /\ SeenUp \/ SeenDown \/ StillDown
  /\ UNCHANGED << ms_ticks, timer, level, since >>

Next == RtcTick \/ User \/ TaskYields \/ TaskReturns \/ YieldReturns \/ ButtonCheck

Spec == Init /\ [][Next]_vars

----------------------------------------------------------------------------
(* Properties. *)

TypeOK ==
  /\ pc \in {"task", "yield", "buttons"} /\ level \in BOOLEAN
  /\ ms_ticks \in Instant /\ timer \in TimerType
  /\ pre_tick \in Instant /\ press_time \in Instant
  /\ sw_index \in Nat \ {0} /\ prev_state \in {0, 1}
  /\ since \in 0 .. YieldTime + Step
  /\ shorts \in Nat /\ longs \in Nat

\* A yield lasts longer than its time, also when ms_ticks wraps meanwhile: the
\* MQTT client never takes a full wait for over too early.
YieldLastsItsTime ==
  [][ pc = "yield" /\ pc' # "yield" => since > YieldTime ]_vars

\* A press is reported by the short callbacks once, and before any long ones,
\* whatever the time between the checks that see it.
ReportedOnce == shorts <= 1 /\ (longs > 0 => shorts = 1)
=============================================================================
