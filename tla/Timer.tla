------------------------------- MODULE Timer -------------------------------
(***************************************************************************)
(* The countdown timers of the AWS client (timer.c) over ms_ticks, the     *)
(* 32-bit millisecond counter of the RTC.  Pure: a timer is a record, and  *)
(* the counter's value is a parameter.                                     *)
(***************************************************************************)
EXTENDS Integers

CONSTANT Wrap   \* 2^32, the range of ms_ticks

ASSUME WrapAssumption == Wrap \in Nat /\ Wrap > 1

Instant == 0 .. Wrap - 1
TimerType == [end_time : Instant, offset : Instant]

InitTimer == [end_time |-> 0, offset |-> 0]

\* Mutant: a sum wider than the counter.
Plus_Wide(a, b) == a + b

\* The sum of two 32-bit values.
Plus(a, b) == IF a + b < Wrap THEN a + b ELSE a + b - Wrap

\* Mutant: the offset is forgotten when the end lies beyond the wrap.
CountdownMs_NoOffset(now, timeout) ==
  [end_time |-> Plus(now, timeout), offset |-> 0]

\* countdown_ms and countdown.  An end beyond the wrap is counted from the
\* moment the timer is set.
CountdownMs(now, timeout) ==
  IF Plus(now, timeout) < now
  THEN [end_time |-> Plus(Plus(now, timeout), Wrap - now), offset |-> Wrap - now]
  ELSE [end_time |-> Plus(now, timeout), offset |-> 0]

Expired(t, now) == t.end_time > 0 /\ Plus(now, t.offset) > t.end_time
=============================================================================
