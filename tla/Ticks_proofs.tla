---------------------------- MODULE Ticks_proofs ----------------------------
(***************************************************************************)
(* Theorems about Timer and Ticks, for every width of the counter and      *)
(* every value of the times.                                               *)
(***************************************************************************)
EXTENDS Ticks, TLAPS

(***************************************************************************)
(* Timer                                                                   *)
(***************************************************************************)

\* The sum of two instants is an instant.
LEMMA PlusInstant == ASSUME NEW a \in Instant, NEW b \in Instant
                     PROVE  Plus(a, b) \in Instant
  BY WrapAssumption DEF Plus, Instant

\* countdown_ms returns a timer.
LEMMA CountdownTyped ==
  ASSUME NEW now \in Instant, NEW timeout \in Instant
  PROVE  CountdownMs(now, timeout) \in TimerType
  BY WrapAssumption DEF CountdownMs, TimerType, Plus, Instant

\* expired of timer.c, for a timer of countdown_ms that is polled after any
\* time shorter than the counter's period.  A time-out that ends beyond the
\* wrap of ms_ticks is measured exactly; one that ends before the wrap is
\* found over only until the counter wraps.  So a timer is never over early,
\* but one whose last milliseconds before the wrap are not polled is missed.
THEOREM ExpiredExactly ==
  ASSUME NEW now \in Instant, NEW timeout \in Instant \ {0}, NEW e \in Instant
  PROVE  Expired(CountdownMs(now, timeout), Plus(now, e))
           <=> /\ e > timeout
               /\ now + timeout < Wrap => now + e < Wrap
<1>1. CASE now + timeout < Wrap
  <2>1. CountdownMs(now, timeout) = [end_time |-> now + timeout, offset |-> 0]
    BY <1>1, WrapAssumption DEF CountdownMs, Plus, Instant
  <2>2. Expired(CountdownMs(now, timeout), Plus(now, e)) <=> Plus(Plus(now, e), 0) > now + timeout
    BY <2>1 DEF Expired, Instant
  <2>3. Plus(Plus(now, e), 0) = Plus(now, e)
    BY WrapAssumption DEF Plus, Instant
  <2> QED
    BY <1>1, <2>2, <2>3, WrapAssumption DEF Plus, Instant
<1>2. CASE ~(now + timeout < Wrap)
  <2>1. CountdownMs(now, timeout) = [end_time |-> timeout, offset |-> Wrap - now]
    BY <1>2, WrapAssumption DEF CountdownMs, Plus, Instant
  <2>2. Expired(CountdownMs(now, timeout), Plus(now, e))
          <=> Plus(Plus(now, e), Wrap - now) > timeout
    BY <2>1 DEF Expired, Instant
  <2>3. now > 0
    BY <1>2, WrapAssumption DEF Instant
  <2>4. Plus(Plus(now, e), Wrap - now) = e
    BY <2>3, WrapAssumption DEF Plus, Instant
  <2> QED
    BY <1>2, <2>2, <2>4
<1> QED
  BY <1>1, <1>2

(***************************************************************************)
(* Types                                                                   *)
(***************************************************************************)

\* Every variable of the loop keeps its type.
THEOREM TicksTyped == Spec => []TypeOK
<1>1. Init => TypeOK
  <2> SUFFICES ASSUME Init PROVE TypeOK
    OBVIOUS
  <2>1. 0 \in Instant /\ InitTimer \in TimerType
    BY WrapAssumption DEF Instant, TimerType, InitTimer
  <2>2. 0 \in 0 .. YieldTime + Step /\ 0 \in 0 .. Long
    BY TimesAssumption
  <2>3. level \in BOOLEAN
    BY DEF Init
  <2>4. pc \in {"task", "yield", "buttons"} /\ prev_state \in {0, 1} /\ sw_index \in Nat \ {0}
        /\ shorts \in Nat /\ longs \in Nat
    BY DEF Init
  <2>5. timer \in TimerType /\ ms_ticks \in Instant /\ pre_tick \in Instant /\ press_time \in Instant
        /\ since \in 0 .. YieldTime + Step
    BY <2>1, <2>2 DEF Init
  <2> QED BY <2>3, <2>4, <2>5 DEF TypeOK
<1>2. TypeOK /\ [Next]_vars => TypeOK'
  <2> SUFFICES ASSUME TypeOK, [Next]_vars PROVE TypeOK'
    OBVIOUS
  <2> USE WrapAssumption, TimesAssumption
  <2>1. CASE RtcTick
    <3>1. Plus(ms_ticks, Step) \in Instant
      BY PlusInstant DEF TypeOK, Instant
    <3> QED BY <2>1, <3>1 DEF RtcTick, TypeOK, Least
  <2>2. CASE User
    BY <2>2 DEF User, TypeOK, button
  <2>3. CASE TaskYields
    <3>1. CountdownMs(ms_ticks, YieldTime) \in TimerType
      BY CountdownTyped DEF TypeOK, Instant
    <3> QED BY <2>3, <3>1 DEF TaskYields, TypeOK, button
  <2>4. CASE TaskReturns
    BY <2>4 DEF TaskReturns, TypeOK, button
  <2>5. CASE YieldReturns
    BY <2>5 DEF YieldReturns, TypeOK, button
  <2>6. CASE ButtonCheck
    <3>1. CASE SeenUp
      BY <2>6, <3>1 DEF ButtonCheck, SeenUp, TypeOK, Instant
    <3>2. CASE SeenDown
      BY <2>6, <3>2 DEF ButtonCheck, SeenDown, TypeOK, Instant
    <3>3. CASE StillDown
      BY <2>6, <3>3 DEF ButtonCheck, StillDown, PressTime, TypeOK, Instant
    <3> QED BY <2>6, <3>1, <3>2, <3>3 DEF ButtonCheck
  <2>7. CASE UNCHANGED vars
    BY <2>7 DEF vars, button, TypeOK
  <2> QED BY <2>1, <2>2, <2>3, <2>4, <2>5, <2>6, <2>7 DEF Next
<1> QED BY <1>1, <1>2, PTL DEF Spec

(***************************************************************************)
(* The yield                                                               *)
(***************************************************************************)

\* While the client yields, its timer is the one set when the yield began, and
\* as long as the history has not run into its bound, ms_ticks is that
\* instant plus the time since.
YieldInv ==
  pc = "yield" =>
    \E start \in Instant :
      /\ timer = CountdownMs(start, YieldTime)
      /\ since < YieldTime + Step => ms_ticks = Plus(start, since)

\* Two sums in a row are one.
LEMMA PlusTwice ==
  ASSUME NEW a \in Instant, NEW b \in Instant, NEW c \in Instant, b + c < Wrap
  PROVE  Plus(Plus(a, b), c) = Plus(a, b + c)
  BY WrapAssumption DEF Plus, Instant

LEMMA YieldInvInductive == TypeOK /\ YieldInv /\ [Next]_vars => YieldInv'
<1> SUFFICES ASSUME TypeOK, YieldInv, [Next]_vars, pc' = "yield"
             PROVE  YieldInv'
  BY DEF YieldInv
<1> USE WrapAssumption, TimesAssumption
<1>1. CASE RtcTick
  <2>1. pc = "yield" /\ timer' = timer /\ ms_ticks' = Plus(ms_ticks, Step)
    BY <1>1 DEF RtcTick
  <2>2. PICK start \in Instant :
          /\ timer = CountdownMs(start, YieldTime)
          /\ since < YieldTime + Step => ms_ticks = Plus(start, since)
    BY <2>1 DEF YieldInv
  <2>3. since' < YieldTime + Step => since + Step < YieldTime + Step /\ since' = since + Step
    BY <1>1 DEF RtcTick, Least, TypeOK
  <2>4. since' < YieldTime + Step => ms_ticks' = Plus(start, since')
    <3> SUFFICES ASSUME since' < YieldTime + Step PROVE ms_ticks' = Plus(start, since')
      OBVIOUS
    <3>1. since \in Instant /\ Step \in Instant /\ since + Step < Wrap
      BY <2>3 DEF TypeOK, Instant
    <3>2. ms_ticks = Plus(start, since)
      BY <2>2, <2>3 DEF TypeOK
    <3> QED BY <2>1, <2>3, <3>1, <3>2, PlusTwice
  <2> QED BY <2>1, <2>2, <2>4 DEF YieldInv
<1>2. CASE User
  BY <1>2 DEF User, YieldInv
<1>3. CASE TaskYields
  <2>1. timer' = CountdownMs(ms_ticks, YieldTime) /\ since' = 0 /\ ms_ticks' = ms_ticks
    BY <1>3 DEF TaskYields
  <2>2. ms_ticks \in Instant /\ Plus(ms_ticks, 0) = ms_ticks
    BY DEF TypeOK, Plus, Instant
  <2> QED BY <2>1, <2>2 DEF YieldInv
<1>4. CASE TaskReturns \/ YieldReturns \/ ButtonCheck
  BY <1>4 DEF TaskReturns, YieldReturns, ButtonCheck
<1>5. CASE UNCHANGED vars
  BY <1>5 DEF vars, YieldInv
<1> QED BY <1>1, <1>2, <1>3, <1>4, <1>5 DEF Next

\* MQTTYield never returns before its time is over, wherever in the range of
\* ms_ticks it starts.
THEOREM YieldLasts == Spec => YieldLastsItsTime
<1>1. Init => YieldInv
  BY DEF Init, YieldInv
<1>2. TypeOK /\ YieldInv /\ [Next]_vars
        => (pc = "yield" /\ pc' # "yield" => since > YieldTime)
  <2> SUFFICES ASSUME TypeOK, YieldInv, [Next]_vars, pc = "yield", pc' # "yield"
               PROVE  since > YieldTime
    OBVIOUS
  <2>1. Expired(timer, ms_ticks)
    BY DEF Next, vars, RtcTick, User, TaskYields, TaskReturns, YieldReturns, ButtonCheck
  <2>2. PICK start \in Instant :
          /\ timer = CountdownMs(start, YieldTime)
          /\ since < YieldTime + Step => ms_ticks = Plus(start, since)
    BY DEF YieldInv
  <2>3. CASE since < YieldTime + Step
    <3>1. since \in Instant /\ YieldTime \in Instant \ {0}
      BY WrapAssumption, TimesAssumption DEF TypeOK, Instant
    <3> QED BY <2>1, <2>2, <2>3, <3>1, ExpiredExactly
  <2>4. CASE ~(since < YieldTime + Step)
    BY <2>4, TimesAssumption DEF TypeOK
  <2> QED BY <2>3, <2>4
<1>3. TypeOK /\ YieldInv /\ [Next]_vars
        => [pc = "yield" /\ pc' # "yield" => since > YieldTime]_vars
  BY <1>2
<1> QED BY <1>1, <1>3, YieldInvInductive, TicksTyped, PTL DEF Spec, YieldLastsItsTime

(***************************************************************************)
(* The callbacks                                                           *)
(***************************************************************************)

\* prev_state says whether the press was reported, and only a reported press
\* has long callbacks.
ReportInv ==
  /\ shorts = prev_state
  /\ longs > 0 => prev_state = 1

\* A press gets its short callbacks once, and before any long one.
THEOREM ReportedOnceHolds == Spec => []ReportedOnce
<1>1. Init => ReportInv
  BY DEF Init, ReportInv
<1>2. TypeOK /\ ReportInv /\ [Next]_vars => ReportInv'
  <2> SUFFICES ASSUME TypeOK, ReportInv, [Next]_vars PROVE ReportInv'
    OBVIOUS
  <2>1. CASE RtcTick \/ User \/ TaskYields \/ TaskReturns \/ YieldReturns \/ UNCHANGED vars
    BY <2>1 DEF RtcTick, User, TaskYields, TaskReturns, YieldReturns, vars, button, ReportInv
  <2>2. CASE ButtonCheck
    <3>1. CASE SeenUp
      BY <3>1 DEF SeenUp, ReportInv
    <3>2. CASE SeenDown
      BY <3>2 DEF SeenDown, ReportInv
    <3>3. CASE StillDown
      <4>1. PressTime \in Nat /\ sw_index \in Nat \ {0}
        BY DEF PressTime, TypeOK, Instant
      <4>2. LongDue => ShortDue \/ prev_state = 1
        <5>1. sw_index * Long >= Long
          BY <4>1, TimesAssumption
        <5> QED BY <4>1, <5>1, TimesAssumption DEF LongDue, ShortDue, TypeOK
      <4>3. CASE ShortDue
        BY <3>3, <4>3 DEF StillDown, ShortDue, ReportInv
      <4>4. CASE ~ShortDue
        BY <3>3, <4>2, <4>4 DEF StillDown, ReportInv, TypeOK
      <4> QED BY <4>3, <4>4
    <3> QED BY <2>2, <3>1, <3>2, <3>3 DEF ButtonCheck
  <2> QED BY <2>1, <2>2 DEF Next
<1>3. TypeOK /\ ReportInv => ReportedOnce
  BY DEF TypeOK, ReportInv, ReportedOnce
<1> QED BY <1>1, <1>2, <1>3, TicksTyped, PTL DEF Spec
=============================================================================
