------------------------- MODULE ShadowApp_proofs -------------------------
(***************************************************************************)
(* Proofs about ShadowApp for every set of colours, buttons, ports,        *)
(* sensors and readings, of requests and of bounds on them, and however    *)
(* often the registration function is invoked for one event.               *)
(***************************************************************************)
EXTENDS ShadowApp, SequenceTheorems, TLAPS

----------------------------------------------------------------------------
(* The registration of a board's certificate. *)

\* How far each invocation has come says what it has made.
Registered ==
  /\ next \in [Invocations -> 0 .. 9]
  /\ \A i \in Invocations :
       /\ next[i] > 4 => "thing" \in made
       /\ next[i] > 5 => "member" \in made
       /\ next[i] > 6 => "policy" \in made
       /\ next[i] > 7 => "attached" \in made
  /\ ActiveIsComplete

JitrNext ==
  ConnectRefused \/ \E i \in Invocations : Invoked(i) \/ Call(i) \/ Raises(i)

\* The registration takes no other steps.
LEMMA OnlyJitrRegisters ==
  ASSUME [Next]_vars
  PROVE  JitrNext \/ UNCHANGED jitrVars
<1>1. Board => UNCHANGED jitrVars
  BY DEF Board, SysTime, CloudConnect, SubscribeGet, SubscribeDelta, Reconnect, Receive, jitrVars
<1>2. Refused \/ LambdaRuns \/ LambdaRaises => JitrNext
  BY DEF Refused, LambdaRuns, LambdaRaises, JitrNext
<1>3. CloudTakes \/ Toggle \/ Dhcp \/ LinkLost \/ PowerCycle => UNCHANGED jitrVars
  BY DEF CloudTakes, Toggle, Dhcp, LinkLost, PowerCycle, jitrVars
<1>4. /\ \A b \in Buttons : Press(b) => UNCHANGED jitrVars
      /\ \A data \in [Sensors -> Readings] : SensorTurn(data) => UNCHANGED jitrVars
      /\ \A upd \in Desirable : Ask(upd) => UNCHANGED jitrVars
  BY DEF Press, SensorTurn, Ask, jitrVars
<1>5. ShadowNext => JitrNext \/ UNCHANGED jitrVars
  BY <1>1, <1>2, <1>3, <1>4 DEF ShadowNext
<1>6. App \/ Refreshes \/ Closes => UNCHANGED jitrVars
  BY DEF App, AppReceives, Layout, Refreshes, Closes, jitrVars
<1>7. \A colour \in Positions : Picks(colour) => UNCHANGED jitrVars
  BY DEF Picks, jitrVars
<1>8. UNCHANGED vars => UNCHANGED jitrVars
  BY DEF vars, shadowVars, jitrVars
<1> QED
  BY <1>5, <1>6, <1>7, <1>8 DEF Next

\* The calls are made in their order, and each makes what it is named for.
LEMMA RegisteredStep ==
  ASSUME Registered, JitrNext
  PROVE  Registered'
<1>1. CASE ConnectRefused
  BY <1>1 DEF ConnectRefused, Registered, ActiveIsComplete
<1>2. ASSUME NEW i \in Invocations, Invoked(i) \/ Raises(i)
      PROVE  Registered'
  BY <1>2 DEF Invoked, Raises, Registered, ActiveIsComplete
<1>3. ASSUME NEW i \in Invocations, Call(i)
      PROVE  Registered'
  <2> DEFINE call == Calls[next[i]]
  <2>1. /\ next[i] \in 1 .. 8
        /\ next' = [next EXCEPT ![i] = next[i] + 1]
        /\ certificate' = IF call = "activate" THEN "ACTIVE" ELSE certificate
        /\ made' = IF call \in {"describe", "activate"} THEN made ELSE made \cup {call}
    BY <1>3 DEF Call, Calls
  <2>2. /\ next[i] = 4 => call = "thing"
        /\ next[i] = 5 => call = "member"
        /\ next[i] = 6 => call = "policy"
        /\ next[i] = 7 => call = "attached"
        /\ call = "activate" => next[i] = 8
    BY <2>1 DEF Calls
  <2> HIDE DEF call
  <2>3. made \subseteq made'
    BY <2>1
  <2>4. /\ next[i] = 4 => "thing" \in made'
        /\ next[i] = 5 => "member" \in made'
        /\ next[i] = 6 => "policy" \in made'
        /\ next[i] = 7 => "attached" \in made'
    BY <2>1, <2>2
  <2>5. next' \in [Invocations -> 0 .. 9]
    BY <2>1 DEF Registered
  <2>6. ASSUME NEW j \in Invocations
        PROVE  /\ next'[j] > 4 => "thing" \in made'
               /\ next'[j] > 5 => "member" \in made'
               /\ next'[j] > 6 => "policy" \in made'
               /\ next'[j] > 7 => "attached" \in made'
    <3>1. next[j] \in 0 .. 9
      BY DEF Registered
    <3>2. CASE j = i
      BY <2>1, <2>3, <2>4, <3>1, <3>2 DEF Registered
    <3>3. CASE j # i
      BY <2>1, <2>3, <3>1, <3>3 DEF Registered
    <3> QED
      BY <3>2, <3>3
  <2>7. ActiveIsComplete'
    <3>1. CASE call = "activate"
      <4>1. next[i] = 8
        BY <2>2, <3>1
      <4> QED
        BY <2>3, <4>1 DEF Registered, ActiveIsComplete
    <3>2. CASE call # "activate"
      BY <2>1, <2>3, <3>2 DEF Registered, ActiveIsComplete
    <3> QED
      BY <3>1, <3>2
  <2> QED
    BY <2>5, <2>6, <2>7 DEF Registered
<1> QED
  BY <1>1, <1>2, <1>3 DEF JitrNext

\* A certificate that is active has its policy, its thing and its group,
\* however often the function is invoked and wherever it is cut short.
THEOREM ActiveIsAlwaysComplete ==
  Spec => []ActiveIsComplete
<1>1. AppInit => Registered
  <2>1. Len(Calls) = 8
    BY DEF Calls
  <2> QED
    BY <2>1 DEF AppInit, Init, JitrInit, Registered, ActiveIsComplete
<1>2. ASSUME Registered, [Next]_vars
      PROVE  Registered'
  <2>1. UNCHANGED jitrVars => Registered'
    BY <1>2 DEF jitrVars, Registered, ActiveIsComplete
  <2> QED
    BY <1>2, <2>1, OnlyJitrRegisters, RegisteredStep
<1>3. Registered => ActiveIsComplete
  BY DEF Registered
<1> QED
  BY <1>1, <1>2, <1>3, PTL DEF Spec

----------------------------------------------------------------------------
(* The sensors. *)

\* Only a turn of the sensors uses one up.
LEMMA OnlySensorsTurn ==
  ASSUME [Next]_vars, turns' # turns
  PROVE  \E data \in [Sensors -> Readings] : SensorTurn(data)
<1>1. Board => UNCHANGED turns
  BY DEF Board, SysTime, CloudConnect, SubscribeGet, SubscribeDelta, Reconnect, Receive, bounds
<1>2. Refused \/ LambdaRuns \/ LambdaRaises => UNCHANGED turns
  BY DEF Refused, LambdaRuns, LambdaRaises, bounds
<1>3. CloudTakes \/ Toggle \/ Dhcp \/ LinkLost \/ PowerCycle => UNCHANGED turns
  BY DEF CloudTakes, Toggle, Dhcp, LinkLost, PowerCycle, bounds
<1>4. /\ \A b \in Buttons : Press(b) => UNCHANGED turns
      /\ \A upd \in Desirable : Ask(upd) => UNCHANGED turns
  BY DEF Press, Ask
<1>5. App \/ Refreshes \/ Closes => UNCHANGED turns
  BY DEF App, AppReceives, Layout, Refreshes, Closes, bounds
<1>6. \A colour \in Positions : Picks(colour) => UNCHANGED turns
  BY DEF Picks
<1>7. UNCHANGED vars => UNCHANGED turns
  BY DEF vars, shadowVars, bounds
<1> QED
  BY <1>1, <1>2, <1>3, <1>4, <1>5, <1>6, <1>7 DEF Next, ShadowNext

\* A reading is displayed only when it came twice, where the sensor has to be
\* steady: what one failed transfer leaves behind stays hidden.
THEOREM OneBadReadingIsHidden ==
  Spec => OneBadReadingHidden
<1>1. ASSUME [Next]_vars, turns' # turns,
             NEW s \in Sensors, Needed[s] > 0, disp'[s] # disp[s]
      PROVE  pre[s] = pre'[s] /\ disp'[s] = pre[s]
  <2>1. PICK data \in [Sensors -> Readings] : SensorTurn(data)
    BY <1>1, OnlySensorsTurn
  <2>2. /\ pre' = data
        /\ disp' = [t \in Sensors |-> IF t \in Updates(data) THEN data[t] ELSE disp[t]]
    BY <2>1 DEF SensorTurn, env_sensor_execute
  <2>3. s \in Updates(data) /\ disp'[s] = data[s]
    BY <1>1, <2>2
  <2>4. Counted(data, s) >= Needed[s] /\ Needed[s] \in Nat
    BY <2>3, SensorAssumption DEF Updates
  <2>5. data[s] = pre[s]
    BY <1>1, <2>4 DEF Counted
  <2> QED
    BY <2>2, <2>3, <2>5
<1>2. [Next]_vars =>
        [ \A s \in Sensors :
            turns' # turns /\ Needed[s] > 0 /\ disp'[s] # disp[s] =>
              pre[s] = pre'[s] /\ disp'[s] = pre[s] ]_vars
  BY <1>1
<1> QED
  BY <1>2, PTL DEF Spec, OneBadReadingHidden

----------------------------------------------------------------------------
(* The levels of the LED. *)

\* Between two blinks the outputs follow the values kept.
Lit ==
  /\ val = [k \in InitKeys |-> val[k]]
  /\ applied \subseteq Leds
  /\ LitAsKept

\* An update gives every colour the level its new values ask for.
LEMMA AppliesLight ==
  ASSUME Lit, NEW upd, NEW S, Applies(Only(upd, S))
  PROVE  Lit'
<1> DEFINE known == Only(upd, S)
           kept == Only(known, Settings)
<1>1. /\ val' = Merge(kept, val)
      /\ pwm' = [c \in Leds |-> IF c \in DOMAIN Levels(known) THEN Levels(known)[c] ELSE pwm[c]]
      /\ applied' = applied \cup Recoloured(known)
  BY DEF Applies, setColor
<1>2. /\ DOMAIN known \subseteq S
      /\ DOMAIN kept = DOMAIN known \cap Settings
      /\ \A k \in DOMAIN kept : kept[k] = known[k]
  BY DEF Only, Restrict
<1> HIDE DEF known, kept
<1>3. DOMAIN val = InitKeys /\ Settings \subseteq InitKeys /\ DOMAIN kept \subseteq InitKeys
  BY <1>2 DEF Lit, InitKeys
<1>4. val' = [k \in InitKeys |-> IF k \in DOMAIN kept THEN kept[k] ELSE val[k]]
  BY <1>1, <1>3 DEF Merge
<1>5. Recoloured(known) \subseteq Leds /\ Leds \subseteq Settings /\ {"Light", "LED_INTENSITY"} \subseteq Settings
  BY DEF Recoloured, Settings
<1>6. DOMAIN Levels(known) = Recoloured(known)
  BY DEF Levels
<1>7. ASSUME NEW c \in applied', val'["Light"] # 0
      PROVE  pwm'[c] = IF val'[c] = 0 THEN 0 ELSE val'["LED_INTENSITY"]
  <2>1. c \in Leds
    BY <1>1, <1>5, <1>7 DEF Lit
  <2>2. CASE c \in Recoloured(known)
    <3>1. pwm'[c] = Levels(known)[c]
      BY <1>1, <1>6, <2>1, <2>2
    <3> QED
      BY <1>7, <2>2, <3>1 DEF Levels
  <2>3. CASE c \notin Recoloured(known)
    <3>1. pwm'[c] = pwm[c] /\ c \in applied
      BY <1>1, <1>6, <1>7, <2>1, <2>3
    <3>2. c \notin DOMAIN known /\ "LED_INTENSITY" \notin DOMAIN known /\ "Light" \notin DOMAIN known
      BY <2>1, <2>3 DEF Recoloured
    <3>3. val'[c] = val[c] /\ val'["LED_INTENSITY"] = val["LED_INTENSITY"] /\ val'["Light"] = val["Light"]
      BY <1>2, <1>3, <1>4, <1>5, <2>1, <3>2
    <3> QED
      BY <1>7, <3>1, <3>3 DEF Lit, LitAsKept
  <2> QED
    BY <2>2, <2>3
<1>8. val' = [k \in InitKeys |-> val'[k]]
  BY <1>4
<1> QED
  BY <1>1, <1>5, <1>7, <1>8 DEF Lit, LitAsKept

\* A message changes the values and the levels together.
LEMMA ReceiveLights ==
  ASSUME Lit, NEW i \in DOMAIN inbox, Receive(i)
  PROVE  Lit'
<1> DEFINE state == inbox[i].state
<1>1. HandleDelta(state) \/ HandleGet(state) \/ UNCHANGED << val, applied, ledVars >>
  BY DEF Receive
<1>2. CASE HandleDelta(state)
  BY <1>2, AppliesLight DEF HandleDelta
<1>3. CASE HandleGet(state)
  BY <1>3, AppliesLight DEF HandleGet
<1>4. CASE UNCHANGED << val, applied, ledVars >>
  BY <1>4 DEF Lit, LitAsKept, ledVars
<1> QED
  BY <1>1, <1>2, <1>3, <1>4

\* A button changes none of the values the levels follow.
LEMMA PressLights ==
  ASSUME Lit, NEW b \in Buttons, Press(b)
  PROVE  Lit'
<1>1. val' = [val EXCEPT ![b] = 1 - val[b]] /\ applied' = applied /\ pwm' = pwm
  BY DEF Press, ledVars
<1>2. \A k \in Settings : k # b /\ k \in InitKeys
  BY ShadowAssumption DEF InitKeys
<1>3. /\ val' = [k \in InitKeys |-> val'[k]]
      /\ \A k \in Settings : val'[k] = val[k]
  BY <1>1, <1>2 DEF Lit
<1>4. Leds \subseteq Settings /\ "Light" \in Settings /\ "LED_INTENSITY" \in Settings
  BY DEF Settings
<1> QED
  BY <1>1, <1>3, <1>4 DEF Lit, LitAsKept

\* The blinking interrupt, and a restart, take all levels back.
LEMMA BlinkLights ==
  ASSUME Lit, Toggle \/ PowerCycle
  PROVE  Lit'
<1>1. applied' = {}
  BY DEF Toggle, PowerCycle
<1>2. val' = val \/ val' = InitialVal
  BY DEF Toggle, PowerCycle, boardVars
<1>3. val' = [k \in InitKeys |-> val'[k]]
  BY <1>2 DEF Lit, InitialVal
<1> QED
  BY <1>1, <1>3 DEF Lit, LitAsKept

\* While the light is on, every colour that was set since the last blink is as
\* bright as the values kept for it say, whatever updates came in what order.
THEOREM LitAsKeptAlways ==
  Spec => []LitAsKept
<1>1. AppInit => Lit
  BY DEF AppInit, Init, InitialVal, Lit, LitAsKept
<1>2. ASSUME Lit, [Next]_vars
      PROVE  Lit'
  <2>1. CASE UNCHANGED << val, applied, pwm >>
    BY <1>2, <2>1 DEF Lit, LitAsKept
  <2>2. SysTime \/ CloudConnect \/ SubscribeGet \/ SubscribeDelta \/ Reconnect
          => UNCHANGED << val, applied, pwm >>
    BY DEF SysTime, CloudConnect, SubscribeGet, SubscribeDelta, Reconnect, led_ctrl_set_mode, ledVars,
           boardVars
  <2>3. Refused \/ LambdaRuns \/ LambdaRaises \/ CloudTakes \/ Dhcp \/ LinkLost
          => UNCHANGED << val, applied, pwm >>
    BY DEF Refused, LambdaRuns, LambdaRaises, CloudTakes, Dhcp, LinkLost, led_ctrl_set_mode, ledVars,
           boardVars
  <2>4. /\ \A data \in [Sensors -> Readings] : SensorTurn(data) => UNCHANGED << val, applied, pwm >>
        /\ \A upd \in Desirable : Ask(upd) => UNCHANGED << val, applied, pwm >>
        /\ \A colour \in Positions : Picks(colour) => UNCHANGED << val, applied, pwm >>
    BY DEF SensorTurn, Ask, Picks, ledVars, boardVars
  <2>5. App \/ Refreshes \/ Closes => UNCHANGED << val, applied, pwm >>
    BY DEF App, AppReceives, Layout, Refreshes, Closes, ledVars, boardVars
  <2>6. UNCHANGED vars => UNCHANGED << val, applied, pwm >>
    BY DEF vars, shadowVars, boardVars, ledVars
  <2>7. \/ UNCHANGED << val, applied, pwm >> \/ Toggle \/ PowerCycle
        \/ (\E b \in Buttons : Press(b)) \/ (\E i \in DOMAIN inbox : Receive(i))
    BY <1>2, <2>2, <2>3, <2>4, <2>5, <2>6 DEF Next, ShadowNext, Board
  <2> QED
    BY <1>2, <2>1, <2>7, ReceiveLights, PressLights, BlinkLights
<1>3. Lit => LitAsKept
  BY DEF Lit
<1> QED
  BY <1>1, <1>2, <1>3, PTL DEF Spec

----------------------------------------------------------------------------
(* Messages on the way. *)

Elements(s) == {s[i] : i \in DOMAIN s}
IsSeq(s) == s \in Seq(Elements(s))

LEMMA SeqFacts ==
  ASSUME NEW s, IsSeq(s)
  PROVE  Len(s) \in Nat /\ DOMAIN s = 1 .. Len(s)
<1> QED
  BY LenProperties DEF IsSeq

LEMMA ElementsOf ==
  ASSUME NEW S, NEW s \in Seq(S)
  PROVE  IsSeq(s)
<1>1. s \in [1 .. Len(s) -> S] /\ Len(s) \in Nat /\ DOMAIN s = 1 .. Len(s)
  BY LenProperties
<1>2. s \in [1 .. Len(s) -> Elements(s)]
  BY <1>1 DEF Elements
<1> QED
  BY <1>1, <1>2, SeqDef DEF IsSeq

\* A message is added at the end.
LEMMA AppendFacts ==
  ASSUME NEW s, IsSeq(s), NEW e
  PROVE  /\ IsSeq(Append(s, e))
         /\ DOMAIN Append(s, e) = 1 .. Len(s) + 1
         /\ Append(s, e)[Len(s) + 1] = e
         /\ \A i \in 1 .. Len(s) : Append(s, e)[i] = s[i]
<1> DEFINE S == Elements(s) \cup {e}
<1>1. s \in Seq(S)
  BY SeqMonotonic DEF IsSeq
<1>2. /\ Append(s, e) \in Seq(S) /\ Len(Append(s, e)) = Len(s) + 1
      /\ Append(s, e)[Len(s) + 1] = e
      /\ \A i \in 1 .. Len(s) : Append(s, e)[i] = s[i]
  BY <1>1, AppendProperties
<1> QED
  BY <1>2, ElementsOf, LenProperties

\* The first message is taken.
LEMMA TailFacts ==
  ASSUME NEW s, IsSeq(s), s # << >>
  PROVE  /\ IsSeq(Tail(s)) /\ Len(s) >= 1
         /\ Head(s) = s[1]
         /\ DOMAIN Tail(s) = 1 .. Len(s) - 1
         /\ \A i \in 1 .. Len(s) - 1 : Tail(s)[i] = s[i + 1]
<1>1. s \in Seq(Elements(s))
  BY DEF IsSeq
<1>2. /\ Tail(s) \in Seq(Elements(s)) /\ Len(Tail(s)) = Len(s) - 1
      /\ \A i \in 1 .. Len(Tail(s)) : Tail(s)[i] = s[i + 1]
  BY <1>1, HeadTailProperties
<1>3. Head(s) = s[1] /\ Len(s) \in Nat \ {0}
  BY <1>1, EmptySeq
<1>4. IsSeq(Tail(s)) /\ DOMAIN Tail(s) = 1 .. Len(Tail(s))
  BY <1>2, ElementsOf, LenProperties
<1> QED
  BY <1>2, <1>3, <1>4

\* A message is taken from anywhere.
LEMMA RemoveFacts ==
  ASSUME NEW s, IsSeq(s), NEW i \in DOMAIN s
  PROVE  /\ IsSeq(RemoveAt(s, i))
         /\ Elements(RemoveAt(s, i)) \subseteq Elements(s)
         /\ Elements(s) \subseteq Elements(RemoveAt(s, i)) \cup {s[i]}
<1> DEFINE a == SubSeq(s, 1, i - 1)
           b == SubSeq(s, i + 1, Len(s))
           t == RemoveAt(s, i)
           S == Elements(s)
<1>1. s \in Seq(S) /\ Len(s) \in Nat /\ DOMAIN s = 1 .. Len(s) /\ i \in 1 .. Len(s)
  BY SeqFacts DEF IsSeq
<1>2. \A j \in 1 .. Len(s) : s[j] \in S
  BY <1>1
<1>3. a \in Seq(S) /\ Len(a) = i - 1 /\ \A j \in 1 .. i - 1 : a[j] = s[j]
  <2>1. \A j \in 1 .. i - 1 : s[j] \in S
    BY <1>1, <1>2
  <2>2. /\ SubSeq(s, 1, i - 1) \in Seq(S)
        /\ Len(SubSeq(s, 1, i - 1)) = IF 1 <= i - 1 THEN i - 1 - 1 + 1 ELSE 0
        /\ \A j \in 1 .. i - 1 - 1 + 1 : SubSeq(s, 1, i - 1)[j] = s[1 + j - 1]
    BY <1>1, <2>1, SubSeqProperties
  <2> QED
    BY <1>1, <2>2
<1>4. /\ b \in Seq(S) /\ Len(b) = Len(s) - i
      /\ \A j \in 1 .. Len(s) - i : b[j] = s[i + j]
  <2>1. \A j \in i + 1 .. Len(s) : s[j] \in S
    BY <1>1, <1>2
  <2>2. /\ SubSeq(s, i + 1, Len(s)) \in Seq(S)
        /\ Len(SubSeq(s, i + 1, Len(s))) = IF i + 1 <= Len(s) THEN Len(s) - (i + 1) + 1 ELSE 0
        /\ \A j \in 1 .. Len(s) - (i + 1) + 1 : SubSeq(s, i + 1, Len(s))[j] = s[i + 1 + j - 1]
    BY <1>1, <2>1, SubSeqProperties
  <2> QED
    BY <1>1, <2>2
<1> HIDE DEF a, b, S
<1>5. t = a \o b
  BY DEF RemoveAt, a, b
<1>6. /\ t \in Seq(S) /\ Len(t) = Len(s) - 1
      /\ \A j \in 1 .. Len(s) - 1 : t[j] = IF j < i THEN s[j] ELSE s[j + 1]
  <2>1. /\ a \o b \in Seq(S) /\ Len(a \o b) = Len(a) + Len(b)
        /\ \A j \in 1 .. Len(a) + Len(b) :
             (a \o b)[j] = IF j <= Len(a) THEN a[j] ELSE b[j - Len(a)]
    BY <1>3, <1>4, ConcatProperties
  <2> HIDE DEF t
  <2>2. ASSUME NEW j \in 1 .. Len(s) - 1
        PROVE  t[j] = IF j < i THEN s[j] ELSE s[j + 1]
    <3>1. CASE j < i
      <4>1. j \in 1 .. i - 1 /\ j <= Len(a) /\ j \in 1 .. Len(a) + Len(b)
        BY <1>1, <1>3, <1>4, <3>1
      <4> QED
        BY <1>3, <1>5, <2>1, <3>1, <4>1
    <3>2. CASE j >= i
      <4>0. i \in Nat /\ j \in Nat /\ Len(s) \in Nat /\ j <= Len(s) - 1 /\ i <= Len(s)
        BY <1>1
      <4>1. /\ j - (i - 1) \in 1 .. Len(s) - i /\ ~(j < i) /\ ~(j <= i - 1)
            /\ i + (j - (i - 1)) = j + 1
            /\ j \in 1 .. (i - 1) + (Len(s) - i)
        BY <3>2, <4>0
      <4>2. t[j] = b[j - (i - 1)]
        BY <1>3, <1>4, <1>5, <2>1, <4>1
      <4> QED
        BY <1>4, <4>1, <4>2
    <3> QED
      BY <1>1, <3>1, <3>2
  <2> QED
    BY <1>1, <1>3, <1>4, <1>5, <2>1, <2>2
<1> HIDE DEF t
<1>7. DOMAIN t = 1 .. Len(s) - 1
  BY <1>6, LenProperties
<1>8. ASSUME NEW j \in DOMAIN s, j # i
      PROVE  s[j] \in Elements(t)
  <2>1. CASE j < i
    BY <1>1, <1>6, <1>7, <2>1 DEF Elements
  <2>2. CASE j > i
    <3>1. j - 1 \in 1 .. Len(s) - 1 /\ t[j - 1] = s[j]
      BY <1>1, <1>6, <2>2
    <3> QED
      BY <1>7, <3>1 DEF Elements
  <2> QED
    BY <1>1, <1>8, <2>1, <2>2
<1>9. Elements(s) \subseteq Elements(t) \cup {s[i]}
  BY <1>8 DEF Elements
<1>10. Elements(t) \subseteq S
  <2>1. ASSUME NEW j \in DOMAIN t
        PROVE  t[j] \in S
    BY <1>1, <1>2, <1>6, <1>7, <2>1
  <2> QED
    BY <2>1 DEF Elements
<1> QED
  BY <1>6, <1>9, <1>10, ElementsOf DEF t, S

----------------------------------------------------------------------------
(* Types. *)

\* An update names keys of the board, those of the LED with numbers.
IsUpdate(f) == DOMAIN f \subseteq AllKeys /\ \A k \in Settings \cap DOMAIN f : f[k] \in Nat

\* A get names nothing.
IsMessage(m) == IsUpdate(m.state) /\ (m.kind = "get" => m.state = Nothing)

InboxTyped == IsSeq(inbox) /\ \A i \in DOMAIN inbox : IsUpdate(inbox[i].state)
OutboxTyped == IsSeq(outbox) /\ \A i \in DOMAIN outbox : IsMessage(outbox[i])

Typed ==
  /\ TypeOK /\ InboxTyped /\ OutboxTyped
  /\ IsUpdate(desired) /\ IsUpdate(reported)
  /\ \A b \in Buttons : val[b] \in {0, 1}
  /\ link # "up" => subs = {}

LEMMA KeySets ==
  /\ Leds \subseteq Settings /\ "Light" \in Settings /\ "LED_INTENSITY" \in Settings
  /\ Settings \subseteq InitKeys /\ Buttons \subseteq InitKeys /\ InitKeys = Settings \cup Buttons
  /\ InitKeys \subseteq AllKeys /\ Ports \subseteq AllKeys /\ Sensors \subseteq AllKeys
<1> QED
  BY DEF Settings, InitKeys, AllKeys

LEMMA NothingIsUpdate ==
  IsUpdate(Nothing) /\ DOMAIN Nothing = {}
<1>1. DOMAIN << >> = {}
  OBVIOUS
<1> QED
  BY <1>1 DEF IsUpdate, Nothing

LEMMA OnlyFacts ==
  ASSUME NEW f, NEW S
  PROVE  /\ DOMAIN Only(f, S) = DOMAIN f \cap S
         /\ \A k \in DOMAIN f \cap S : Only(f, S)[k] = f[k]
         /\ IsUpdate(f) => IsUpdate(Only(f, S))
<1>1. /\ DOMAIN Only(f, S) = DOMAIN f \cap S
      /\ \A k \in DOMAIN f \cap S : Only(f, S)[k] = f[k]
  BY DEF Only, Restrict
<1> QED
  BY <1>1 DEF IsUpdate

LEMMA MergeFacts ==
  ASSUME NEW f, NEW g
  PROVE  /\ DOMAIN Merge(f, g) = DOMAIN f \cup DOMAIN g
         /\ \A k \in DOMAIN f : Merge(f, g)[k] = f[k]
         /\ \A k \in DOMAIN g \ DOMAIN f : Merge(f, g)[k] = g[k]
         /\ IsUpdate(f) /\ IsUpdate(g) => IsUpdate(Merge(f, g))
<1>1. /\ DOMAIN Merge(f, g) = DOMAIN f \cup DOMAIN g
      /\ \A k \in DOMAIN f : Merge(f, g)[k] = f[k]
      /\ \A k \in DOMAIN g \ DOMAIN f : Merge(f, g)[k] = g[k]
  BY DEF Merge
<1>2. ASSUME IsUpdate(f), IsUpdate(g), NEW k \in Settings \cap (DOMAIN f \cup DOMAIN g)
      PROVE  Merge(f, g)[k] \in Nat
  BY <1>1, <1>2 DEF IsUpdate
<1>3. IsUpdate(f) /\ IsUpdate(g) => IsUpdate(Merge(f, g))
  BY <1>1, <1>2 DEF IsUpdate
<1> QED
  BY <1>1, <1>3

\* The difference is part of what is desired, and all that is not reported.
LEMMA DeltaFacts ==
  ASSUME NEW d, NEW r
  PROVE  /\ DOMAIN Delta(d, r) \subseteq DOMAIN d
         /\ \A k \in DOMAIN Delta(d, r) : Delta(d, r)[k] = d[k]
         /\ \A k \in DOMAIN d : k \notin DOMAIN Delta(d, r) => k \in DOMAIN r /\ r[k] = d[k]
         /\ IsUpdate(d) => IsUpdate(Delta(d, r))
<1> DEFINE S == {k \in DOMAIN d : k \notin DOMAIN r \/ d[k] # r[k]}
<1>1. Delta(d, r) = Only(d, S)
  BY DEF Delta
<1>2. S \subseteq DOMAIN d /\ DOMAIN d \cap S = S /\ \A k \in DOMAIN d \ S : k \in DOMAIN r /\ r[k] = d[k]
  OBVIOUS
<1> HIDE DEF S
<1>3. /\ DOMAIN Only(d, S) = DOMAIN d \cap S
      /\ \A k \in DOMAIN d \cap S : Only(d, S)[k] = d[k]
      /\ IsUpdate(d) => IsUpdate(Only(d, S))
  BY OnlyFacts
<1> QED
  BY <1>1, <1>2, <1>3

LEMMA NotNothing ==
  ASSUME NEW f, NEW k \in DOMAIN f
  PROVE  f # Nothing
<1> QED
  BY NothingIsUpdate

\* A message for the board.
LEMMA TellsTyped ==
  ASSUME InboxTyped, NEW topic, NEW state, IsUpdate(state), Tells(topic, state)
  PROVE  InboxTyped'
<1> DEFINE m == [topic |-> topic, state |-> state]
<1>1. CASE inbox' = inbox
  BY <1>1 DEF InboxTyped
<1>2. CASE inbox' = Append(inbox, m)
  <2>1. IsUpdate(m.state)
    OBVIOUS
  <2> HIDE DEF m
  <2>2. /\ IsSeq(inbox') /\ DOMAIN inbox' = 1 .. Len(inbox) + 1
        /\ inbox'[Len(inbox) + 1] = m
        /\ \A i \in 1 .. Len(inbox) : inbox'[i] = inbox[i]
    BY <1>2, AppendFacts DEF InboxTyped
  <2>3. DOMAIN inbox = 1 .. Len(inbox) /\ Len(inbox) \in Nat
    BY SeqFacts DEF InboxTyped
  <2>4. ASSUME NEW i \in DOMAIN inbox' PROVE IsUpdate(inbox'[i].state)
    BY <2>1, <2>2, <2>3 DEF InboxTyped
  <2> QED
    BY <2>2, <2>4 DEF InboxTyped
<1> QED
  BY <1>1, <1>2 DEF Tells

\* A message of the board.
LEMMA AppendTyped ==
  ASSUME OutboxTyped, NEW m, IsMessage(m)
  PROVE  /\ IsSeq(Append(outbox, m))
         /\ \A i \in DOMAIN Append(outbox, m) : IsMessage(Append(outbox, m)[i])
<1> DEFINE box == Append(outbox, m)
<1>1. /\ IsSeq(box) /\ DOMAIN box = 1 .. Len(outbox) + 1 /\ box[Len(outbox) + 1] = m
      /\ \A i \in 1 .. Len(outbox) : box[i] = outbox[i]
  BY AppendFacts DEF OutboxTyped
<1>2. DOMAIN outbox = 1 .. Len(outbox) /\ Len(outbox) \in Nat
  BY SeqFacts DEF OutboxTyped
<1> HIDE DEF box
<1>3. ASSUME NEW i \in DOMAIN box PROVE IsMessage(box[i])
  BY <1>1, <1>2, <1>3 DEF OutboxTyped
<1> QED
  BY <1>1, <1>3 DEF box

Report(u) == [kind |-> "report", state |-> u]

LEMMA ReportIsMessage ==
  ASSUME NEW u, IsUpdate(u)
  PROVE  IsMessage(Report(u)) /\ Report(u).kind = "report" /\ Report(u).state = u
<1> QED
  BY DEF IsMessage, Report

LEMMA LostFacts ==
  ASSUME NEW ms, NEW k
  PROVE  k \in Lost(ms) <=>
           k \in Ports \cup Sensors /\ \E i \in DOMAIN ms : k \in DOMAIN ms[i].state
<1> DEFINE named == {DOMAIN ms[i].state : i \in DOMAIN ms}
<1>1. ASSUME k \in UNION named
      PROVE  \E i \in DOMAIN ms : k \in DOMAIN ms[i].state
  BY <1>1
<1>2. ASSUME NEW i \in DOMAIN ms, k \in DOMAIN ms[i].state
      PROVE  k \in UNION named
  <2>1. DOMAIN ms[i].state \in named
    OBVIOUS
  <2> QED
    BY <1>2, <2>1
<1>3. Lost(ms) = (UNION named) \cap (Ports \cup Sensors)
  BY DEF Lost
<1> QED
  BY <1>1, <1>2, <1>3

\* What the handlers report goes to the end of outbox, or is lost.
LEMMA ReportsFacts ==
  ASSUME IsSeq(outbox), NEW u, NEW w
  PROVE  /\ Reports(<< >>) /\ link = "up" => outbox' = outbox /\ stale' = stale
         /\ Reports(<< u >>) =>
              IF link = "up" THEN outbox' = Append(outbox, Report(u)) /\ stale' = stale
              ELSE outbox' = outbox /\ stale' = stale \cup (DOMAIN u \cap (Ports \cup Sensors))
         /\ Reports(<< u, w >>) /\ link = "up" =>
              outbox' = Append(Append(outbox, Report(u)), Report(w)) /\ stale' = stale
<1> DEFINE S == Elements(outbox) \cup {Report(u), Report(w)}
           Of(upds) == [i \in DOMAIN upds |-> [kind |-> "report", state |-> upds[i]]]
<1>1. outbox \in Seq(S) /\ Report(u) \in S /\ Report(w) \in S
  BY SeqMonotonic DEF IsSeq
<1>2. Of(<< >>) = << >>
  OBVIOUS
<1>3. Of(<< u >>) = << Report(u) >>
  BY DEF Report
<1>4. Of(<< u, w >>) = << Report(u), Report(w) >>
  BY DEF Report
<1> HIDE DEF S
<1>5. ASSUME link = "up", Reports(<< >>)
      PROVE  outbox' = outbox /\ stale' = stale
  <2>1. outbox' = outbox \o Of(<< >>) /\ stale' = stale
    BY <1>5 DEF Reports
  <2> QED
    BY <1>1, <1>2, <2>1, ConcatEmptySeq
<1>6. ASSUME Reports(<< u >>)
      PROVE  IF link = "up" THEN outbox' = Append(outbox, Report(u)) /\ stale' = stale
             ELSE outbox' = outbox /\ stale' = stale \cup (DOMAIN u \cap (Ports \cup Sensors))
  <2>1. CASE link = "up"
    <3>1. outbox' = outbox \o Of(<< u >>) /\ stale' = stale
      BY <1>6, <2>1 DEF Reports
    <3>2. outbox \o << Report(u) >> = Append(outbox, Report(u))
      BY <1>1
    <3> QED
      BY <1>3, <2>1, <3>1, <3>2
  <2>2. CASE link # "up"
    <3>1. outbox' = outbox
          /\ stale' = stale \cup Lost([i \in DOMAIN << u >> |-> [state |-> << u >>[i]]])
      BY <1>6, <2>2 DEF Reports
    <3>2. [i \in DOMAIN << u >> |-> [state |-> << u >>[i]]] = << [state |-> u] >>
      OBVIOUS
    <3>3. Lost(<< [state |-> u] >>) = DOMAIN u \cap (Ports \cup Sensors)
      <4> DEFINE ms == << [state |-> u] >>
      <4>1. DOMAIN ms = {1} /\ ms[1].state = u
        OBVIOUS
      <4> HIDE DEF ms
      <4>2. \A k : k \in Lost(ms) <=> k \in Ports \cup Sensors /\ k \in DOMAIN u
        BY <4>1, LostFacts
      <4> QED
        BY <4>2 DEF ms
    <3> QED
      BY <2>2, <3>1, <3>2, <3>3
  <2> QED
    BY <2>1, <2>2
<1>7. ASSUME link = "up", Reports(<< u, w >>)
      PROVE  outbox' = Append(Append(outbox, Report(u)), Report(w)) /\ stale' = stale
  <2>1. outbox' = outbox \o Of(<< u, w >>) /\ stale' = stale
    BY <1>7 DEF Reports
  <2>2. outbox \o << Report(u), Report(w) >> = Append(Append(outbox, Report(u)), Report(w))
    BY <1>1
  <2> QED
    BY <1>4, <2>1, <2>2
<1> QED
  BY <1>5, <1>6, <1>7

\* What the board applies.
LEMMA AppliesFacts ==
  ASSUME Typed, NEW upd, NEW S, IsUpdate(upd), Settings \subseteq S, Applies(Only(upd, S))
  PROVE  /\ val' \in [InitKeys -> Nat] /\ LedTypeOK'
         /\ \A k \in InitKeys :
              val'[k] = IF k \in Settings \cap DOMAIN upd THEN upd[k] ELSE val[k]
<1> DEFINE known == Only(upd, S)
           kept == Only(known, Settings)
<1>1. /\ val' = Merge(kept, val)
      /\ pwm' = [c \in Leds |-> IF c \in DOMAIN Levels(known) THEN Levels(known)[c] ELSE pwm[c]]
      /\ UNCHANGED << gu8LedMode, gu8OnOffState >>
  BY DEF Applies, setColor
<1>2. /\ DOMAIN kept = Settings \cap DOMAIN upd
      /\ \A k \in Settings \cap DOMAIN upd : kept[k] = upd[k] /\ upd[k] \in Nat
  <2>1. DOMAIN known = DOMAIN upd \cap S /\ \A k \in DOMAIN upd \cap S : known[k] = upd[k]
    BY OnlyFacts
  <2> HIDE DEF known
  <2>2. /\ DOMAIN kept = DOMAIN known \cap Settings
        /\ \A k \in DOMAIN known \cap Settings : kept[k] = known[k]
    BY OnlyFacts
  <2> HIDE DEF kept
  <2> QED
    BY <2>1, <2>2 DEF IsUpdate
<1> HIDE DEF known, kept
<1>3. DOMAIN val = InitKeys /\ \A k \in InitKeys : val[k] \in Nat
  BY DEF Typed, TypeOK
<1>4. val' = [k \in InitKeys |-> IF k \in Settings \cap DOMAIN upd THEN upd[k] ELSE val[k]]
  BY <1>1, <1>2, <1>3, KeySets DEF Merge
<1>5. val' \in [InitKeys -> Nat]
  BY <1>2, <1>3, <1>4
<1>6. \A c \in DOMAIN Levels(known) : Levels(known)[c] \in Nat
  <2>1. val'["LED_INTENSITY"] \in Nat
    BY <1>5, KeySets
  <2> QED
    BY <2>1 DEF Levels
<1>7. pwm' \in [Leds -> Nat]
  BY <1>1, <1>6 DEF Typed, TypeOK, LedTypeOK
<1> QED
  BY <1>1, <1>4, <1>5, <1>7 DEF Typed, TypeOK, LedTypeOK

\* One report, or none, keeps the messages in form.
LEMMA OneReportTyped ==
  ASSUME OutboxTyped, NEW u, IsUpdate(u), outbox' = outbox \/ Reports(<< u >>)
  PROVE  OutboxTyped' /\ (link # "up" => outbox' = outbox)
<1>1. outbox' = outbox \/ (link = "up" /\ outbox' = Append(outbox, Report(u)))
  BY ReportsFacts DEF OutboxTyped
<1> QED
  BY <1>1, ReportIsMessage, AppendTyped DEF OutboxTyped

\* So do the two of a get.
GetReports(known, all) ==
  (IF known = Nothing THEN << >> ELSE << known >>)
    \o (IF g_publish_init_state THEN << all >> ELSE << >>)

LEMMA GetReportsFacts ==
  ASSUME IsSeq(outbox), link = "up", NEW known, NEW all, Reports(GetReports(known, all))
  PROVE  /\ stale' = stale
         /\ \/ known = Nothing /\ ~g_publish_init_state /\ outbox' = outbox
            \/ known # Nothing /\ ~g_publish_init_state /\ outbox' = Append(outbox, Report(known))
            \/ known = Nothing /\ g_publish_init_state /\ outbox' = Append(outbox, Report(all))
            \/ /\ known # Nothing /\ g_publish_init_state
               /\ outbox' = Append(Append(outbox, Report(known)), Report(all))
<1> DEFINE msgs == GetReports(known, all)
<1>1. CASE known = Nothing /\ ~g_publish_init_state
  <2>1. msgs = << >>
    BY <1>1 DEF GetReports
  <2> QED
    BY <1>1, <2>1, ReportsFacts
<1>2. CASE known # Nothing /\ ~g_publish_init_state
  <2>1. msgs = << known >>
    BY <1>2 DEF GetReports
  <2> QED
    BY <1>2, <2>1, ReportsFacts
<1>3. CASE known = Nothing /\ g_publish_init_state
  <2>1. msgs = << all >>
    BY <1>3 DEF GetReports
  <2> QED
    BY <1>3, <2>1, ReportsFacts
<1>4. CASE known # Nothing /\ g_publish_init_state
  <2>1. msgs = << known >> \o << all >>
    BY <1>4 DEF GetReports
  <2>2. << known >> \o << all >> = << known, all >>
    <3> DEFINE S == {known, all}
               s == << known >> \o << all >>
    <3>1. << known >> \in Seq(S) /\ << all >> \in Seq(S) /\ << known, all >> \in Seq(S)
      OBVIOUS
    <3>2. /\ s \in Seq(S) /\ Len(s) = 2
          /\ \A i \in 1 .. 2 : s[i] = IF i <= 1 THEN << known >>[i] ELSE << all >>[i - 1]
      BY <3>1, ConcatProperties
    <3> HIDE DEF s
    <3>3. s[1] = known /\ s[2] = all
      BY <3>2
    <3>4. \A i \in 1 .. 2 : s[i] = << known, all >>[i]
      BY <3>3
    <3>5. s = << known, all >>
      BY <3>1, <3>2, <3>4, SeqEqual
    <3> QED
      BY <3>5 DEF s
  <2> QED
    BY <1>4, <2>1, <2>2, ReportsFacts
<1> QED
  BY <1>1, <1>2, <1>3, <1>4

LEMMA GetReportsTyped ==
  ASSUME OutboxTyped, link = "up", NEW known, NEW all, IsUpdate(known), IsUpdate(all),
         Reports(GetReports(known, all))
  PROVE  OutboxTyped'
<1>1. IsMessage(Report(known)) /\ IsMessage(Report(all))
  BY ReportIsMessage
<1> DEFINE one == Append(outbox, Report(known))
           other == Append(outbox, Report(all))
           two == Append(one, Report(all))
<1>2. /\ IsSeq(one) /\ \A i \in DOMAIN one : IsMessage(one[i])
      /\ IsSeq(other) /\ \A i \in DOMAIN other : IsMessage(other[i])
  BY <1>1, AppendTyped
<1>3. IsSeq(two) /\ \A i \in DOMAIN two : IsMessage(two[i])
  <2> HIDE DEF one
  <2>1. /\ IsSeq(two) /\ DOMAIN two = 1 .. Len(one) + 1 /\ two[Len(one) + 1] = Report(all)
        /\ \A i \in 1 .. Len(one) : two[i] = one[i]
    BY <1>2, AppendFacts
  <2>2. DOMAIN one = 1 .. Len(one) /\ Len(one) \in Nat
    BY <1>2, SeqFacts
  <2> HIDE DEF two
  <2>3. ASSUME NEW i \in DOMAIN two PROVE IsMessage(two[i])
    BY <1>1, <1>2, <2>1, <2>2
  <2> QED
    BY <2>1, <2>3
<1>4. outbox' \in {outbox, one, other, two}
  BY GetReportsFacts DEF OutboxTyped
<1> HIDE DEF one, other, two
<1> QED
  BY <1>2, <1>3, <1>4 DEF OutboxTyped

\* An update of desired, and one of reported.
LEMMA DesiresTyped ==
  ASSUME Typed, NEW upd, IsUpdate(upd), Desires(upd)
  PROVE  InboxTyped' /\ IsUpdate(desired') /\ UNCHANGED reported
<1>1. desired' = Merge(upd, desired) /\ reported' = reported
  BY DEF Desires
<1>2. IsUpdate(desired')
  BY <1>1, MergeFacts DEF Typed
<1>3. IsUpdate(Delta(desired', reported))
  BY <1>2, DeltaFacts
<1>4. inbox' = inbox \/ Tells("delta", Delta(desired', reported))
  BY DEF Desires
<1>5. inbox' = inbox => InboxTyped'
  BY DEF Typed, InboxTyped
<1> QED
  BY <1>1, <1>2, <1>3, <1>4, <1>5, TellsTyped DEF Typed

LEMMA AcceptsTyped ==
  ASSUME Typed, NEW upd, IsUpdate(upd), Accepts(upd)
  PROVE  InboxTyped' /\ IsUpdate(reported') /\ UNCHANGED desired
<1>1. reported' = Merge(upd, reported) /\ desired' = desired
  BY DEF Accepts
<1>2. IsUpdate(reported')
  BY <1>1, MergeFacts DEF Typed
<1>3. IsUpdate(Delta(desired, reported'))
  BY DeltaFacts DEF Typed
<1>4. inbox' = inbox \/ Tells("delta", Delta(desired, reported'))
  BY DEF Accepts
<1>5. inbox' = inbox => InboxTyped'
  BY DEF Typed, InboxTyped
<1> QED
  BY <1>1, <1>2, <1>3, <1>4, <1>5, TellsTyped DEF Typed

\* Only a connection carries messages.
LEMMA OnlyWhileUp ==
  ASSUME Typed
  PROVE  /\ (\E i \in DOMAIN inbox : TRUE) => link = "up"
         /\ outbox # << >> => link = "up"
<1>1. DOMAIN << >> = {}
  OBVIOUS
<1> QED
  BY <1>1 DEF Typed, TypeOK

LEMMA TellsWhileUp ==
  ASSUME NEW topic, NEW state, Tells(topic, state)
  PROVE  inbox' = inbox \/ topic \in subs
<1> QED
  BY DEF Tells

\* What people ask for names keys of the board.
LEMMA DesirableIsUpdate ==
  ASSUME NEW upd \in Desirable
  PROVE  IsUpdate(upd)
<1>1. CASE \E w \in Words : upd = setLEDState(w)
  BY <1>1, KeySets DEF setLEDState, IsUpdate
<1>2. CASE upd \in Direct
  BY <1>2, RequestsAssumption DEF IsUpdate
<1>3. CASE \E g \in Gpios, s \in {"set", "clear"} : upd = setGPIO(g[1], g[2], s)
  <2>1. PICK g \in Gpios : DOMAIN upd = {g[1]}
    BY <1>3 DEF setGPIO
  <2>2. g[1] \in Ports /\ g[1] \notin Settings
    BY RequestsAssumption, ShadowAssumption, KeySets
  <2> QED
    BY <2>1, <2>2, KeySets DEF IsUpdate
<1> QED
  BY <1>1, <1>2, <1>3 DEF Desirable

LEMMA PositionIsUpdate ==
  ASSUME NEW colour \in Positions
  PROVE  IsUpdate(colour)
<1> QED
  BY KeySets DEF Positions, IsUpdate

\* The steps of the connection.
LEMMA ConnectionTyped ==
  ASSUME Typed, SysTime \/ CloudConnect \/ SubscribeGet \/ SubscribeDelta \/ Reconnect \/ Dhcp
                \/ LinkLost \/ PowerCycle, UNCHANGED appVars
  PROVE  Typed'
<1>1. CASE SysTime \/ Dhcp
  BY <1>1 DEF SysTime, Dhcp, led_ctrl_set_mode, Typed, TypeOK, InboxTyped, OutboxTyped, LedTypeOK,
              SensorTypeOK, connVars, cloudVars, sensorVars, ledVars, appVars, Blinks
<1>2. IsSeq(<< >>) /\ DOMAIN << >> = {}
  <2>1. DOMAIN << >> = {} /\ << >> \in Seq({})
    OBVIOUS
  <2> QED
    BY <2>1, ElementsOf
<1>3. CASE CloudConnect \/ LinkLost
  BY <1>2, <1>3 DEF CloudConnect, LinkLost, led_ctrl_set_mode, Typed, TypeOK, InboxTyped, OutboxTyped,
              LedTypeOK, SensorTypeOK, boardVars, cloudVars, sensorVars, ledVars, appVars, Blinks
<1>4. CASE Reconnect
  BY <1>4 DEF Reconnect, Typed, TypeOK, InboxTyped, OutboxTyped, LedTypeOK, SensorTypeOK, boardVars,
              cloudVars, sensorVars, ledVars, appVars
<1>5. CASE PowerCycle
  <2>1. val' = InitialVal /\ InitialVal \in [InitKeys -> Nat]
        /\ \A b \in Buttons : InitialVal[b] \in {0, 1}
    BY <1>5, LedAssumption, ShadowAssumption, KeySets DEF PowerCycle, InitialVal
  <2>2. LedTypeOK'
    BY <1>5, LedAssumption DEF PowerCycle, LedRestarts, LedTypeOK, Blinks
  <2>3. SensorTypeOK'
    BY <1>5, SensorAssumption DEF PowerCycle, SensorsRestart, SensorTypeOK
  <2> QED
    BY <1>2, <1>5, <2>1, <2>2, <2>3 DEF PowerCycle, Typed, TypeOK, InboxTyped, OutboxTyped, cloudVars,
       appVars
<1>6. CASE SubscribeGet
  BY <1>6 DEF SubscribeGet, Subscribes, Topics, Typed, TypeOK, InboxTyped, OutboxTyped, LedTypeOK,
              SensorTypeOK, cloudVars, sensorVars, ledVars, appVars
<1>7. CASE SubscribeDelta
  <2> DEFINE get == [kind |-> "get", state |-> Nothing]
  <2>1. IsMessage(get)
    BY NothingIsUpdate DEF IsMessage
  <2>2. outbox' = IF link = "up" THEN Append(outbox, get) ELSE outbox
    BY <1>7 DEF SubscribeDelta
  <2> HIDE DEF get
  <2>3. OutboxTyped'
    BY <2>1, <2>2, AppendTyped DEF Typed, OutboxTyped
  <2>4. link' = link /\ (link # "up" => outbox' = outbox)
    BY <1>7, <2>2 DEF SubscribeDelta, Subscribes
  <2> QED
    BY <1>7, <2>3, <2>4 DEF SubscribeDelta, Subscribes, Topics, Typed, TypeOK, InboxTyped, LedTypeOK,
       SensorTypeOK, cloudVars, sensorVars, ledVars, appVars
<1> QED
  BY <1>1, <1>3, <1>4, <1>5, <1>6, <1>7

\* The service's, and people's.
LEMMA ServiceTyped ==
  ASSUME Typed, CloudTakes, UNCHANGED appVars
  PROVE  Typed'
<1>1. outbox # << >> /\ outbox' = Tail(outbox) /\ link = "up"
  BY OnlyWhileUp DEF CloudTakes
<1>2. OutboxTyped' /\ IsMessage(Head(outbox))
  <2>1. /\ IsSeq(Tail(outbox)) /\ Len(outbox) >= 1 /\ Head(outbox) = outbox[1]
        /\ DOMAIN Tail(outbox) = 1 .. Len(outbox) - 1
        /\ \A i \in 1 .. Len(outbox) - 1 : Tail(outbox)[i] = outbox[i + 1]
    BY <1>1, TailFacts DEF Typed, OutboxTyped
  <2>2. DOMAIN outbox = 1 .. Len(outbox) /\ Len(outbox) \in Nat
    BY SeqFacts DEF Typed, OutboxTyped
  <2>3. ASSUME NEW i \in 1 .. Len(outbox) - 1
        PROVE  IsMessage(Tail(outbox)[i])
    <3>1. i + 1 \in DOMAIN outbox
      BY <2>2
    <3> QED
      BY <2>1, <3>1 DEF Typed, OutboxTyped
  <2> QED
    BY <1>1, <2>1, <2>2, <2>3 DEF Typed, OutboxTyped
<1>3. InboxTyped' /\ IsUpdate(desired') /\ IsUpdate(reported')
  <2>1. CASE Accepts(Head(outbox).state)
    BY <1>2, <2>1, AcceptsTyped DEF IsMessage, Typed
  <2>2. CASE Answers /\ UNCHANGED << desired, reported >>
    <3>1. CASE UNCHANGED inbox
      BY <2>2, <3>1 DEF Typed, InboxTyped
    <3>2. CASE Tells("get", desired)
      BY <2>2, <3>2, TellsTyped DEF Typed
    <3> QED
      BY <2>2, <3>1, <3>2 DEF Answers
  <2> QED
    BY <2>1, <2>2 DEF CloudTakes
<1>4. IsUpdate(desired') /\ IsUpdate(reported') => DOMAIN desired' \cup DOMAIN reported' \subseteq AllKeys
  BY DEF IsUpdate
<1> QED
  BY <1>1, <1>2, <1>3, <1>4 DEF CloudTakes, Typed, TypeOK, LedTypeOK, SensorTypeOK, boardVars, connVars,
     ledVars, sensorVars, appVars

\* An update of desired goes to the board, if there is a connection.
LEMMA AskTyped ==
  ASSUME Typed, NEW upd, IsUpdate(upd), Desires(upd),
         UNCHANGED << boardVars, connVars, outbox, ledVars, sensorVars, spinner >>
  PROVE  Typed'
<1>1. InboxTyped' /\ IsUpdate(desired') /\ UNCHANGED reported
  BY DesiresTyped
<1>2. inbox' = inbox \/ "delta" \in subs
  BY TellsWhileUp DEF Desires
<1>3. DOMAIN desired' \subseteq AllKeys
  BY <1>1 DEF IsUpdate
<1> QED
  BY <1>1, <1>2, <1>3 DEF Typed, TypeOK, LedTypeOK, SensorTypeOK, OutboxTyped, boardVars, connVars,
     ledVars, sensorVars

\* The board's handlers.
LEMMA HandlersTyped ==
  ASSUME Typed, NEW i \in DOMAIN inbox, Receive(i), UNCHANGED appVars
  PROVE  Typed'
<1> DEFINE state == inbox[i].state
<1>1. link = "up" /\ IsUpdate(state) /\ IsSeq(outbox)
  BY OnlyWhileUp DEF Typed, InboxTyped, OutboxTyped
<1>2. InboxTyped'
  <2>1. inbox' = RemoveAt(inbox, i) /\ IsSeq(inbox)
    BY DEF Receive, Typed, InboxTyped
  <2>2. IsSeq(inbox') /\ Elements(inbox') \subseteq Elements(inbox)
    BY <2>1, RemoveFacts
  <2>3. ASSUME NEW j \in DOMAIN inbox'
        PROVE  IsUpdate(inbox'[j].state)
    <3>1. inbox'[j] \in Elements(inbox)
      BY <2>2 DEF Elements
    <3>2. PICK n \in DOMAIN inbox : inbox'[j] = inbox[n]
      BY <3>1 DEF Elements
    <3> QED
      BY <3>2 DEF Typed, InboxTyped
  <2> QED
    BY <2>2, <2>3 DEF InboxTyped
<1>3. /\ OutboxTyped' /\ val' \in [InitKeys -> Nat] /\ \A b \in Buttons : val'[b] = val[b]
      /\ LedTypeOK' /\ g_publish_init_state' \in BOOLEAN
  <2>1. CASE HandleDelta(state)
    <3> DEFINE known == Only(state, Settings \cup Ports)
    <3>1. Applies(known) /\ g_publish_init_state' = g_publish_init_state
      BY <2>1 DEF HandleDelta
    <3>2. /\ val' \in [InitKeys -> Nat] /\ LedTypeOK'
          /\ \A k \in InitKeys : val'[k] = IF k \in Settings \cap DOMAIN state THEN state[k] ELSE val[k]
      BY <1>1, <3>1, AppliesFacts
    <3>3. outbox' = outbox \/ Reports(<< known >>)
      BY <2>1 DEF HandleDelta
    <3>4. IsUpdate(known)
      BY <1>1, OnlyFacts
    <3> HIDE DEF known
    <3>5. outbox' = outbox \/ outbox' = Append(outbox, Report(known))
      BY <1>1, <3>3, ReportsFacts
    <3>6. OutboxTyped'
      BY <3>4, <3>5, ReportIsMessage, AppendTyped DEF Typed, OutboxTyped
    <3> QED
      BY <3>1, <3>2, <3>6, ShadowAssumption, KeySets DEF Typed, TypeOK
  <2>2. CASE HandleGet(state)
    <3> DEFINE known == Only(state, Settings)
    <3>1. Applies(known) /\ g_publish_init_state' = FALSE
      BY <2>2 DEF HandleGet
    <3>2. /\ val' \in [InitKeys -> Nat] /\ LedTypeOK'
          /\ \A k \in InitKeys : val'[k] = IF k \in Settings \cap DOMAIN state THEN state[k] ELSE val[k]
      BY <1>1, <3>1, AppliesFacts
    <3>3. IsUpdate(known) /\ IsUpdate(InitialState)
      BY <1>1, <3>2, OnlyFacts, KeySets DEF InitialState, IsUpdate
    <3>4. Reports(GetReports(known, InitialState))
      BY <2>2 DEF HandleGet, GetReports
    <3> HIDE DEF known
    <3>5. OutboxTyped'
      BY <1>1, <3>3, <3>4, GetReportsTyped DEF Typed
    <3> QED
      BY <3>1, <3>2, <3>5, ShadowAssumption, KeySets DEF Typed, TypeOK
  <2>3. CASE UNCHANGED << val, g_publish_init_state, outbox, ledVars >>
    BY <2>3 DEF Typed, TypeOK, OutboxTyped, LedTypeOK, ledVars
  <2> QED
    BY <2>1, <2>2, <2>3 DEF Receive
<1> QED
  BY <1>1, <1>2, <1>3, KeySets DEF Receive, Typed, TypeOK, SensorTypeOK, connVars, cloudVars, sensorVars, appVars

\* A button.
LEMMA PressTyped ==
  ASSUME Typed, NEW b \in Buttons, Press(b), UNCHANGED appVars
  PROVE  Typed'
<1> DEFINE u == [k \in {b} |-> val'[k]]
<1>1. val' = [val EXCEPT ![b] = 1 - val[b]] /\ Reports(<< u >>)
  BY DEF Press
<1>2. /\ val' \in [InitKeys -> Nat] /\ \A c \in Buttons : val'[c] \in {0, 1}
  BY <1>1, KeySets DEF Typed, TypeOK
<1>3. IsUpdate(u)
  BY <1>2, KeySets, ShadowAssumption DEF IsUpdate
<1> HIDE DEF u
<1>4. OutboxTyped' /\ (link # "up" => outbox' = outbox)
  BY <1>1, <1>3, OneReportTyped DEF Typed
<1> QED
  BY <1>2, <1>4 DEF Press, Typed, TypeOK, InboxTyped, LedTypeOK, SensorTypeOK, connVars, cloudVars, ledVars,
     sensorVars, appVars

\* The sensors.
LEMMA SensorsTyped ==
  ASSUME Typed, NEW data \in [Sensors -> Readings], SensorTurn(data), UNCHANGED appVars
  PROVE  Typed'
<1> DEFINE u == Restrict(data, Updates(data))
<1>1. outbox' = outbox \/ Reports(<< u >>)
  BY DEF SensorTurn
<1>2. Updates(data) \subseteq Sensors /\ DOMAIN u = Updates(data)
  BY DEF Updates, Restrict
<1>3. IsUpdate(u)
  BY <1>2, KeySets, ShadowAssumption DEF IsUpdate
<1> HIDE DEF u
<1>4. OutboxTyped' /\ (link # "up" => outbox' = outbox)
  BY <1>1, <1>3, OneReportTyped DEF Typed, OutboxTyped
<1>5. SensorTypeOK'
  <2>1. \A s \in Sensors : Counted(data, s) \in Nat
    BY SensorAssumption DEF Counted, Typed, TypeOK, SensorTypeOK
  <2> QED
    BY <1>2, <2>1 DEF SensorTurn, env_sensor_execute, Typed, TypeOK, SensorTypeOK
<1> QED
  BY <1>4, <1>5 DEF SensorTurn, Typed, TypeOK, InboxTyped, LedTypeOK, boardVars, connVars, cloudVars,
     ledVars, appVars

\* The application.
LEMMA AppTyped ==
  ASSUME Typed, AppReceives \/ Layout \/ Refreshes \/ Closes \/ \E colour \in Positions : Picks(colour)
  PROVE  Typed'
<1>1. First \in Positions
  BY ListAssumption DEF First, Positions
<1>2. \A state, now : now \in Positions => Shown(state, now) \in Positions
  BY DEF Shown
<1>3. CASE AppReceives
  BY <1>2, <1>3 DEF AppReceives, Typed, TypeOK, InboxTyped, OutboxTyped, LedTypeOK, SensorTypeOK,
     boardVars, connVars, ledVars, sensorVars
<1>4. CASE Closes \/ \E colour \in Positions : Picks(colour)
  BY <1>4 DEF Closes, Picks, Typed, TypeOK, InboxTyped, OutboxTyped, LedTypeOK, SensorTypeOK,
     boardVars, connVars, cloudVars, ledVars, sensorVars
<1>5. CASE Refreshes
  <2>1. InboxTyped' /\ (inbox' = inbox \/ "get" \in subs)
    <3>1. CASE UNCHANGED inbox
      BY <3>1 DEF Typed, InboxTyped
    <3>2. CASE Tells("get", desired)
      BY <3>2, TellsTyped, TellsWhileUp DEF Typed
    <3> QED
      BY <1>5, <3>1, <3>2 DEF Refreshes
  <2> QED
    BY <1>1, <1>5, <2>1 DEF Refreshes, Typed, TypeOK, OutboxTyped, LedTypeOK, SensorTypeOK,
       boardVars, connVars, ledVars, sensorVars
<1>6. CASE Layout
  <2>1. CASE Desires(spinner)
    <3>1. IsUpdate(spinner)
      BY PositionIsUpdate DEF Typed, TypeOK
    <3> QED
      BY <1>6, <2>1, <3>1, AskTyped DEF Layout
  <2>2. CASE UNCHANGED << desired, reported, inbox >>
    BY <1>6, <2>2 DEF Layout, Typed, TypeOK, InboxTyped, OutboxTyped, LedTypeOK, SensorTypeOK,
       boardVars, connVars, ledVars, sensorVars
  <2> QED
    BY <1>6, <2>1, <2>2 DEF Layout
<1> QED
  BY <1>3, <1>4, <1>5, <1>6

LEMMA InitTyped ==
  ASSUME AppInit
  PROVE  Typed
<1>1. IsSeq(<< >>) /\ DOMAIN << >> = {}
  <2>1. DOMAIN << >> = {} /\ << >> \in Seq({})
    OBVIOUS
  <2> QED
    BY <2>1, ElementsOf
<1>2. InitialVal \in [InitKeys -> Nat] /\ \A b \in Buttons : InitialVal[b] \in {0, 1}
  BY LedAssumption, ShadowAssumption, KeySets DEF InitialVal
<1>3. First \in Positions
  BY ListAssumption DEF First, Positions
<1>4. LedTypeOK
  BY LedAssumption DEF AppInit, Init, LedInit, LedTypeOK, Blinks
<1>5. SensorTypeOK
  BY SensorAssumption DEF AppInit, Init, SensorInit, SensorTypeOK
<1> QED
  BY <1>1, <1>2, <1>3, <1>4, <1>5, NothingIsUpdate DEF AppInit, Init, Typed, TypeOK, InboxTyped, OutboxTyped,
     Topics

LEMMA TypedStep ==
  ASSUME Typed, [Next]_vars
  PROVE  Typed'
<1>1. CASE UNCHANGED << boardVars, connVars, inbox, outbox, desired, reported, ledVars, sensorVars, spinner >>
  BY <1>1 DEF Typed, TypeOK, InboxTyped, OutboxTyped, LedTypeOK, SensorTypeOK, boardVars, connVars,
     ledVars, sensorVars
<1>2. ASSUME ShadowNext, UNCHANGED appVars
      PROVE  Typed'
  <2>1. CASE Board
    BY <1>2, <2>1, ConnectionTyped, HandlersTyped DEF Board
  <2>2. CASE Dhcp \/ LinkLost \/ PowerCycle
    BY <1>2, <2>2, ConnectionTyped
  <2>3. CASE CloudTakes
    BY <1>2, <2>3, ServiceTyped
  <2>4. CASE Toggle
    BY <1>2, <2>4, LedAssumption DEF Toggle, toggleLED, Typed, TypeOK, InboxTyped, OutboxTyped, LedTypeOK, SensorTypeOK,
       boardVars, connVars, cloudVars, sensorVars, appVars, Blinks
  <2>5. CASE Refused \/ LambdaRuns \/ LambdaRaises
    BY <1>1, <1>2, <2>5 DEF Refused, LambdaRuns, LambdaRaises, cloudVars, appVars
  <2>6. CASE \E b \in Buttons : Press(b)
    BY <1>2, <2>6, PressTyped
  <2>7. CASE \E data \in [Sensors -> Readings] : SensorTurn(data)
    BY <1>2, <2>7, SensorsTyped
  <2>8. CASE \E upd \in Desirable : Ask(upd)
    BY <1>2, <2>8, DesirableIsUpdate, AskTyped DEF Ask, appVars
  <2> QED
    BY <1>2, <2>1, <2>2, <2>3, <2>4, <2>5, <2>6, <2>7, <2>8 DEF ShadowNext
<1>3. UNCHANGED vars => Typed'
  BY <1>1 DEF vars, shadowVars, cloudVars, appVars
<1> QED
  BY <1>2, <1>3, AppTyped DEF Next, App

\* Every variable the properties speak of keeps its type: the board keeps only
\* its own keys, and numbers for them.
THEOREM TypeCorrect ==
  Spec => []TypeOK
<1>1. Typed => TypeOK
  BY DEF Typed
<1> QED
  BY <1>1, InitTyped, TypedStep, PTL DEF Spec

----------------------------------------------------------------------------
(* Board and shadow agree. *)

\* Some message in box says what k is; the last one says that it is v.
NamedIn(box, k) == \E i \in DOMAIN box : k \in DOMAIN box[i].state
LastIn(box, k, v) ==
  \E i \in DOMAIN box :
    /\ k \in DOMAIN box[i].state /\ box[i].state[k] = v
    /\ \A j \in DOMAIN box : j > i => k \notin DOMAIN box[j].state

\* The service will know k as v once it has taken all messages in box; state is
\* what it knows now.
Heard(box, state, k, v) ==
  LastIn(box, k, v) \/ (~NamedIn(box, k) /\ k \in DOMAIN state /\ state[k] = v)

\* Port p, of which the pins in high are set, is as v says.
Fits(high, p, v) == IF v > 0 THEN << p, v >> \in high ELSE << p, -v >> \notin high

\* A session that reported its state is connected and hears every difference.
Session == clean => link = "up" /\ "delta" \in table \cap subs

\* What the service will know is what the board has.
Mirrored == clean => \A k \in InitKeys : Heard(outbox, reported, k, val[k])

\* It is what the board displays, and how its pins are, where the last report
\* of them was not lost, or another one is on the way.
Displayed ==
  \A s \in Sensors : s \notin stale \/ NamedIn(outbox, s) =>
    \/ Heard(outbox, reported, s, disp[s])
    \/ ~NamedIn(outbox, s) /\ s \notin DOMAIN reported /\ disp[s] = 0
Pinned ==
  \A p \in Ports : p \notin stale \/ NamedIn(outbox, p) =>
    \A v : Heard(outbox, reported, p, v) => Fits(pins, p, v)

\* What people asked for is reported, or a difference that says it is on the way
\* to the board, or a report that lets the service find one is on the way to it.
Told(k) ==
  \E m \in Elements(inbox) : m.topic = "delta" /\ k \in DOMAIN m.state /\ m.state[k] = desired[k]
Asked ==
  clean =>
    \/ \E i \in DOMAIN outbox : outbox[i].kind = "report"
    \/ \A k \in (Settings \cup Ports) \cap DOMAIN desired :
         (k \in DOMAIN reported /\ reported[k] = desired[k]) \/ Told(k)

Agreement == Typed /\ Session /\ Mirrored /\ Displayed /\ Pinned /\ Asked

LEMMA AgreementAgrees ==
  ASSUME Agreement
  PROVE  AgreeWhenQuiet
<1> SUFFICES ASSUME Quiet, clean
             PROVE  AgreeWhenQuiet
  BY DEF AgreeWhenQuiet
<1>1. DOMAIN << >> = {}
  OBVIOUS
<1>2. DOMAIN outbox = {} /\ Elements(inbox) = {}
  BY <1>1 DEF Quiet, Elements
<1>3. \A k, v : Heard(outbox, reported, k, v) <=> k \in DOMAIN reported /\ reported[k] = v
  BY <1>2 DEF Heard, LastIn, NamedIn
<1>4. \A k \in InitKeys : k \in DOMAIN reported /\ reported[k] = val[k]
  BY <1>3 DEF Agreement, Mirrored
<1>5. \A k \in (Settings \cup Ports) \cap DOMAIN desired : k \in DOMAIN reported /\ reported[k] = desired[k]
  BY <1>2 DEF Agreement, Asked, Told
<1>6. \A k \in Settings \cap DOMAIN desired : desired[k] = val[k]
  BY <1>4, <1>5, KeySets
<1>7. ASSUME NEW p \in (Ports \cap DOMAIN desired) \ stale
      PROVE  /\ p \in DOMAIN reported /\ reported[p] = desired[p]
             /\ IF desired[p] > 0 THEN << p, desired[p] >> \in pins ELSE << p, -desired[p] >> \notin pins
  <2>1. p \in DOMAIN reported /\ reported[p] = desired[p]
    BY <1>5
  <2>2. Fits(pins, p, desired[p])
    BY <1>3, <2>1 DEF Agreement, Pinned
  <2> QED
    BY <2>1, <2>2 DEF Fits
<1>8. \A s \in Sensors \ stale : disp[s] = IF s \in DOMAIN reported THEN reported[s] ELSE 0
  BY <1>3 DEF Agreement, Displayed
<1> QED
  BY <1>4, <1>6, <1>7, <1>8 DEF AgreeWhenQuiet

\* A message is added: it says what it names, and nothing else changes.
LEMMA HeardAppend ==
  ASSUME NEW box, IsSeq(box), NEW state, NEW m, NEW k
  PROVE  /\ k \in DOMAIN m.state =>
              /\ NamedIn(Append(box, m), k)
              /\ \A v : Heard(Append(box, m), state, k, v) <=> m.state[k] = v
         /\ k \notin DOMAIN m.state =>
              /\ NamedIn(Append(box, m), k) <=> NamedIn(box, k)
              /\ \A v : Heard(Append(box, m), state, k, v) <=> Heard(box, state, k, v)
<1> DEFINE t == Append(box, m)
           n == Len(box)
<1>1. /\ DOMAIN t = 1 .. n + 1 /\ t[n + 1] = m /\ \A i \in 1 .. n : t[i] = box[i]
      /\ DOMAIN box = 1 .. n /\ n \in Nat
  BY AppendFacts, SeqFacts
<1> HIDE DEF t, n
<1>2. CASE k \in DOMAIN m.state
  <2>1. NamedIn(t, k)
    BY <1>1, <1>2 DEF NamedIn
  <2>2. \A v : LastIn(t, k, v) => m.state[k] = v
    BY <1>1, <1>2 DEF LastIn
  <2>3. \A v : m.state[k] = v => LastIn(t, k, v)
    BY <1>1, <1>2 DEF LastIn
  <2> QED
    BY <1>2, <2>1, <2>2, <2>3 DEF Heard, t
<1>3. CASE k \notin DOMAIN m.state
  <2>1. NamedIn(t, k) <=> NamedIn(box, k)
    BY <1>1, <1>3 DEF NamedIn
  <2>2. ASSUME NEW v PROVE LastIn(t, k, v) => LastIn(box, k, v)
    BY <1>1, <1>3 DEF LastIn
  <2>3. ASSUME NEW v PROVE LastIn(box, k, v) => LastIn(t, k, v)
    BY <1>1, <1>3 DEF LastIn
  <2> QED
    BY <1>3, <2>1, <2>2, <2>3 DEF Heard, t
<1> QED
  BY <1>2, <1>3

\* The service takes a message, and knows what it says.
LEMMA HeardTail ==
  ASSUME NEW box, IsSeq(box), box # << >>, NEW state, NEW state2, NEW k,
         k \in DOMAIN Head(box).state => k \in DOMAIN state2 /\ state2[k] = Head(box).state[k],
         k \notin DOMAIN Head(box).state =>
           /\ k \in DOMAIN state2 <=> k \in DOMAIN state
           /\ k \in DOMAIN state => state2[k] = state[k]
  PROVE  /\ \A v : Heard(Tail(box), state2, k, v) <=> Heard(box, state, k, v)
         /\ NamedIn(box, k) <=> NamedIn(Tail(box), k) \/ k \in DOMAIN Head(box).state
<1> DEFINE t == Tail(box)
           n == Len(box)
<1>1. /\ DOMAIN t = 1 .. n - 1 /\ Head(box) = box[1] /\ \A i \in 1 .. n - 1 : t[i] = box[i + 1]
      /\ DOMAIN box = 1 .. n /\ n \in Nat /\ n >= 1
  BY TailFacts, SeqFacts
<1> HIDE DEF t, n
<1>2. NamedIn(t, k) => NamedIn(box, k)
  <2> SUFFICES ASSUME NEW i \in DOMAIN t, k \in DOMAIN t[i].state
               PROVE  NamedIn(box, k)
    BY DEF NamedIn
  <2>1. i + 1 \in DOMAIN box /\ t[i] = box[i + 1]
    BY <1>1
  <2> QED
    BY <2>1 DEF NamedIn
<1>3. NamedIn(box, k) => NamedIn(t, k) \/ k \in DOMAIN Head(box).state
  <2> SUFFICES ASSUME NEW i \in DOMAIN box, k \in DOMAIN box[i].state, i # 1
               PROVE  NamedIn(t, k)
    BY <1>1 DEF NamedIn
  <2>1. i - 1 \in DOMAIN t /\ t[i - 1] = box[i]
    BY <1>1
  <2> QED
    BY <2>1 DEF NamedIn
<1>4. k \in DOMAIN Head(box).state => NamedIn(box, k)
  BY <1>1 DEF NamedIn
<1>5. ASSUME NEW v, LastIn(t, k, v)
      PROVE  LastIn(box, k, v)
  <2>1. PICK i \in DOMAIN t : /\ k \in DOMAIN t[i].state /\ t[i].state[k] = v
                              /\ \A j \in DOMAIN t : j > i => k \notin DOMAIN t[j].state
    BY <1>5 DEF LastIn
  <2>2. i + 1 \in DOMAIN box /\ box[i + 1] = t[i]
    BY <1>1
  <2>3. ASSUME NEW j \in DOMAIN box, j > i + 1
        PROVE  k \notin DOMAIN box[j].state
    <3>1. j - 1 \in DOMAIN t /\ t[j - 1] = box[j] /\ j - 1 > i
      BY <1>1, <2>3
    <3> QED
      BY <2>1, <3>1
  <2> QED
    BY <2>1, <2>2, <2>3 DEF LastIn
<1>6. ASSUME NEW v, LastIn(box, k, v), NamedIn(t, k)
      PROVE  LastIn(t, k, v)
  <2>1. PICK i \in DOMAIN box : /\ k \in DOMAIN box[i].state /\ box[i].state[k] = v
                                /\ \A j \in DOMAIN box : j > i => k \notin DOMAIN box[j].state
    BY <1>6 DEF LastIn
  <2>2. PICK e \in DOMAIN t : k \in DOMAIN t[e].state
    BY <1>6 DEF NamedIn
  <2>3. e + 1 \in DOMAIN box /\ box[e + 1] = t[e] /\ e >= 1
    BY <1>1
  <2>4. i >= e + 1 /\ i \in 1 .. n /\ e \in Nat
    BY <1>1, <2>1, <2>2, <2>3
  <2>5. i - 1 \in DOMAIN t /\ t[i - 1] = box[i]
    BY <1>1, <2>3, <2>4
  <2>6. ASSUME NEW j \in DOMAIN t, j > i - 1
        PROVE  k \notin DOMAIN t[j].state
    <3>1. j + 1 \in DOMAIN box /\ t[j] = box[j + 1] /\ j + 1 > i
      BY <1>1, <2>4, <2>6
    <3> QED
      BY <2>1, <3>1
  <2> QED
    BY <2>1, <2>5, <2>6 DEF LastIn
<1>7. ASSUME ~NamedIn(t, k), k \in DOMAIN Head(box).state, NEW v
      PROVE  LastIn(box, k, v) <=> Head(box).state[k] = v
  <2>1. ASSUME NEW j \in DOMAIN box, j # 1
        PROVE  k \notin DOMAIN box[j].state
    <3>1. j - 1 \in DOMAIN t /\ t[j - 1] = box[j]
      BY <1>1, <2>1
    <3> QED
      BY <1>7, <3>1 DEF NamedIn
  <2>2. 1 \in DOMAIN box /\ \A j \in DOMAIN box : j > 1 => j # 1
    BY <1>1
  <2> QED
    BY <1>1, <1>7, <2>1, <2>2 DEF LastIn
<1>8. \A v : LastIn(t, k, v) => NamedIn(t, k)
  BY DEF LastIn, NamedIn
<1>9. \A v : LastIn(box, k, v) => NamedIn(box, k)
  BY DEF LastIn, NamedIn
<1>10. ASSUME NEW v
       PROVE  Heard(t, state2, k, v) <=> Heard(box, state, k, v)
  <2>1. CASE NamedIn(t, k)
    BY <1>2, <1>5, <1>6, <2>1 DEF Heard
  <2>2. CASE ~NamedIn(t, k) /\ k \in DOMAIN Head(box).state
    BY <1>4, <1>7, <1>8, <2>2 DEF Heard
  <2>3. CASE ~NamedIn(t, k) /\ k \notin DOMAIN Head(box).state
    BY <1>3, <1>8, <1>9, <2>3 DEF Heard
  <2> QED
    BY <2>1, <2>2, <2>3
<1> QED
  BY <1>2, <1>3, <1>4, <1>10 DEF t

AgreedVars == << val, pins, inbox, outbox, desired, reported, clean, stale, disp >>

LEMMA Unaffected ==
  ASSUME Agreement, Typed', UNCHANGED AgreedVars, Session'
  PROVE  Agreement'
<1> USE DEF AgreedVars
<1>1. Mirrored' /\ Displayed' /\ Pinned'
  BY DEF Agreement, Mirrored, Displayed, Pinned
<1>2. \A k : Told(k)' <=> Told(k)
  BY DEF Told
<1>3. Asked'
  BY <1>2 DEF Agreement, Asked
<1> QED
  BY <1>1, <1>3 DEF Agreement

\* The connection is lost, and with it the messages.
LEMMA LossAgrees ==
  ASSUME Agreement, Typed', outbox' = << >>, ~clean', UNCHANGED reported,
         \/ stale' = stale \cup Lost(outbox) /\ UNCHANGED << pins, disp >>
         \/ stale' = Ports \cup Sensors
  PROVE  Agreement'
<1>1. DOMAIN outbox' = {}
  OBVIOUS
<1>2. \A k : ~NamedIn(outbox', k)
  BY <1>1 DEF NamedIn
<1>3. \A k, v : ~LastIn(outbox', k, v)
  BY <1>1 DEF LastIn
<1>4. \A k \in Ports \cup Sensors : k \notin stale' => k \notin stale /\ ~NamedIn(outbox, k)
  BY LostFacts DEF NamedIn
<1>5. \A k, v : LastIn(outbox, k, v) => NamedIn(outbox, k)
  BY DEF LastIn, NamedIn
<1>6. Displayed'
  <2>1. ASSUME NEW s \in Sensors, s \notin stale' \/ NamedIn(outbox', s)
        PROVE  \/ Heard(outbox', reported', s, disp'[s])
               \/ ~NamedIn(outbox', s) /\ s \notin DOMAIN reported' /\ disp'[s] = 0
    <3>1. s \notin stale /\ ~NamedIn(outbox, s) /\ disp' = disp
      BY <1>2, <1>4, <2>1
    <3>2. \/ Heard(outbox, reported, s, disp[s])
          \/ s \notin DOMAIN reported /\ disp[s] = 0
      BY <3>1 DEF Agreement, Displayed
    <3> QED
      BY <1>2, <1>5, <3>1, <3>2 DEF Heard
  <2> QED
    BY <2>1 DEF Displayed
<1>7. Pinned'
  <2>1. ASSUME NEW p \in Ports, p \notin stale' \/ NamedIn(outbox', p), NEW v,
               Heard(outbox', reported', p, v)
        PROVE  Fits(pins', p, v)
    <3>1. p \notin stale /\ ~NamedIn(outbox, p) /\ pins' = pins
      BY <1>2, <1>4, <2>1
    <3>2. Heard(outbox, reported, p, v)
      BY <1>3, <2>1, <3>1 DEF Heard
    <3> QED
      BY <3>1, <3>2 DEF Agreement, Pinned
  <2> QED
    BY <2>1 DEF Pinned
<1> QED
  BY <1>6, <1>7 DEF Agreement, Session, Mirrored, Asked

\* Messages to the board are only added.
LEMMA ToldStill ==
  ASSUME IsSeq(inbox), NEW topic, NEW state, inbox' = inbox \/ Tells(topic, state)
  PROVE  Elements(inbox) \subseteq Elements(inbox')
<1> DEFINE m == [topic |-> topic, state |-> state]
<1>1. CASE inbox' = inbox
  BY <1>1
<1>2. CASE inbox' = Append(inbox, m)
  <2> HIDE DEF m
  <2>1. /\ DOMAIN inbox' = 1 .. Len(inbox) + 1 /\ \A i \in 1 .. Len(inbox) : inbox'[i] = inbox[i]
        /\ DOMAIN inbox = 1 .. Len(inbox) /\ Len(inbox) \in Nat
    BY <1>2, AppendFacts, SeqFacts
  <2> QED
    BY <2>1 DEF Elements
<1> QED
  BY <1>1, <1>2 DEF Tells

\* A difference that is sent tells the board all that is not reported.
LEMMA DeltaTells ==
  ASSUME IsSeq(inbox), "delta" \in subs, NEW d, NEW r,
         IF Delta(d, r) = Nothing THEN UNCHANGED inbox ELSE Tells("delta", Delta(d, r)),
         NEW k \in DOMAIN d
  PROVE  \/ k \in DOMAIN r /\ r[k] = d[k]
         \/ \E m \in Elements(inbox') : m.topic = "delta" /\ k \in DOMAIN m.state /\ m.state[k] = d[k]
<1>1. CASE k \in DOMAIN Delta(d, r)
  <2> DEFINE m == [topic |-> "delta", state |-> Delta(d, r)]
  <2>1. inbox' = Append(inbox, m)
    BY <1>1, NotNothing DEF Tells
  <2>2. m.topic = "delta" /\ k \in DOMAIN m.state /\ m.state[k] = d[k]
    BY <1>1, DeltaFacts
  <2> HIDE DEF m
  <2>3. DOMAIN inbox' = 1 .. Len(inbox) + 1 /\ inbox'[Len(inbox) + 1] = m /\ Len(inbox) \in Nat
    BY <2>1, AppendFacts, SeqFacts
  <2>4. m \in Elements(inbox')
    BY <2>3 DEF Elements
  <2> QED
    BY <2>2, <2>4
<1>2. CASE k \notin DOMAIN Delta(d, r)
  BY <1>2, DeltaFacts
<1> QED
  BY <1>1, <1>2

\* An update of desired.
LEMMA DesiresAgrees ==
  ASSUME Agreement, Typed', NEW upd, Desires(upd),
         UNCHANGED << boardVars, connVars, outbox, clean, stale, disp >>
  PROVE  Agreement'
<1>1. UNCHANGED << val, pins, link, table, subs, reported >>
  BY DEF Desires, boardVars, connVars
<1>2. Session' /\ Mirrored' /\ Displayed' /\ Pinned'
  BY <1>1 DEF Agreement, Session, Mirrored, Displayed, Pinned
<1>3. Asked'
  <2>1. ASSUME clean', NEW k \in (Settings \cup Ports) \cap DOMAIN desired'
        PROVE  (k \in DOMAIN reported' /\ reported'[k] = desired'[k]) \/ Told(k)'
    <3>1. IsSeq(inbox) /\ "delta" \in subs
      BY <2>1 DEF Agreement, Typed, InboxTyped, Session
    <3>2. IF Delta(desired', reported) = Nothing THEN UNCHANGED inbox
          ELSE Tells("delta", Delta(desired', reported))
      BY DEF Desires
    <3>3. \/ k \in DOMAIN reported /\ reported[k] = desired'[k]
          \/ \E m \in Elements(inbox') :
               m.topic = "delta" /\ k \in DOMAIN m.state /\ m.state[k] = desired'[k]
      BY <3>1, <3>2, DeltaTells
    <3> QED
      BY <1>1, <3>3 DEF Told
  <2> QED
    BY <2>1 DEF Asked
<1> QED
  BY <1>2, <1>3 DEF Agreement

\* An answer to somebody's get.
LEMMA AnswerAgrees ==
  ASSUME Agreement, Typed', inbox' = inbox \/ Tells("get", desired),
         UNCHANGED << boardVars, connVars, outbox, desired, reported, clean, stale, disp >>
  PROVE  Agreement'
<1>1. UNCHANGED << val, pins, link, table, subs >>
  BY DEF boardVars, connVars
<1>2. Session' /\ Mirrored' /\ Displayed' /\ Pinned'
  BY <1>1 DEF Agreement, Session, Mirrored, Displayed, Pinned
<1>3. Elements(inbox) \subseteq Elements(inbox')
  BY ToldStill DEF Agreement, Typed, InboxTyped
<1>4. \A k : Told(k) => Told(k)'
  BY <1>3 DEF Told
<1>5. Asked'
  BY <1>4 DEF Agreement, Asked
<1> QED
  BY <1>2, <1>5 DEF Agreement

\* The service takes a message.
LEMMA ServiceAgrees ==
  ASSUME Agreement, Typed', CloudTakes
  PROVE  Agreement'
<1> DEFINE h == Head(outbox)
<1>1. /\ outbox # << >> /\ outbox' = Tail(outbox) /\ IsSeq(outbox) /\ IsSeq(inbox)
      /\ UNCHANGED << val, pins, link, table, subs, clean, disp >>
  BY DEF CloudTakes, boardVars, connVars, sensorVars, Agreement, Typed, OutboxTyped, InboxTyped
<1>2. /\ DOMAIN outbox' = 1 .. Len(outbox) - 1 /\ h = outbox[1]
      /\ \A i \in 1 .. Len(outbox) - 1 : outbox'[i] = outbox[i + 1]
      /\ DOMAIN outbox = 1 .. Len(outbox) /\ Len(outbox) \in Nat /\ Len(outbox) >= 1
  BY <1>1, TailFacts, SeqFacts
<1>3. CASE h.kind = "report" /\ Accepts(h.state)
  <2>1. reported' = Merge(h.state, reported) /\ stale' = stale \ DOMAIN h.state /\ desired' = desired
    BY <1>3 DEF Accepts
  <2>2. /\ DOMAIN reported' = DOMAIN h.state \cup DOMAIN reported
        /\ \A k \in DOMAIN h.state : reported'[k] = h.state[k]
        /\ \A k \in DOMAIN reported \ DOMAIN h.state : reported'[k] = reported[k]
    <3> DEFINE upd == h.state
    <3>1. reported' = Merge(upd, reported)
      BY <2>1
    <3> HIDE DEF upd
    <3>2. /\ DOMAIN Merge(upd, reported) = DOMAIN upd \cup DOMAIN reported
          /\ \A k \in DOMAIN upd : Merge(upd, reported)[k] = upd[k]
          /\ \A k \in DOMAIN reported \ DOMAIN upd : Merge(upd, reported)[k] = reported[k]
      BY MergeFacts
    <3> QED
      BY <3>1, <3>2 DEF upd
  <2>3. ASSUME NEW k
        PROVE  /\ \A v : Heard(outbox', reported', k, v) <=> Heard(outbox, reported, k, v)
               /\ NamedIn(outbox, k) <=> NamedIn(outbox', k) \/ k \in DOMAIN h.state
    <3>1. /\ k \in DOMAIN h.state => k \in DOMAIN reported' /\ reported'[k] = h.state[k]
          /\ k \notin DOMAIN h.state =>
               /\ k \in DOMAIN reported' <=> k \in DOMAIN reported
               /\ k \in DOMAIN reported => reported'[k] = reported[k]
      BY <2>2
    <3> QED
      BY <1>1, <3>1, HeardTail
  <2>4. Session' /\ Mirrored'
    BY <1>1, <2>3 DEF Agreement, Session, Mirrored
  <2>5. Displayed'
    <3>1. ASSUME NEW s \in Sensors, s \notin stale' \/ NamedIn(outbox', s)
          PROVE  \/ Heard(outbox', reported', s, disp'[s])
                 \/ ~NamedIn(outbox', s) /\ s \notin DOMAIN reported' /\ disp'[s] = 0
      <4>1. s \notin stale \/ NamedIn(outbox, s)
        BY <2>1, <2>3, <3>1
      <4>2. \/ Heard(outbox, reported, s, disp[s])
            \/ ~NamedIn(outbox, s) /\ s \notin DOMAIN reported /\ disp[s] = 0
        BY <4>1 DEF Agreement, Displayed
      <4>3. CASE Heard(outbox, reported, s, disp[s])
        BY <1>1, <2>3, <4>3
      <4>4. CASE ~NamedIn(outbox, s) /\ s \notin DOMAIN reported /\ disp[s] = 0
        BY <1>1, <2>3, <2>2, <4>4
      <4> QED
        BY <4>2, <4>3, <4>4
    <3> QED
      BY <3>1 DEF Displayed
  <2>6. Pinned'
    <3>1. ASSUME NEW p \in Ports, p \notin stale' \/ NamedIn(outbox', p)
          PROVE  p \notin stale \/ NamedIn(outbox, p)
      BY <2>1, <2>3, <3>1
    <3> QED
      BY <1>1, <2>3, <3>1 DEF Agreement, Pinned
  <2>7. Asked'
    <3>1. ASSUME clean', NEW k \in (Settings \cup Ports) \cap DOMAIN desired'
          PROVE  (k \in DOMAIN reported' /\ reported'[k] = desired'[k]) \/ Told(k)'
      <4>1. "delta" \in subs
        BY <1>1, <3>1 DEF Agreement, Session
      <4>2. IF Delta(desired, reported') = Nothing THEN UNCHANGED inbox
            ELSE Tells("delta", Delta(desired, reported'))
        BY <1>3 DEF Accepts
      <4>3. \/ k \in DOMAIN reported' /\ reported'[k] = desired[k]
            \/ \E m \in Elements(inbox') :
                 m.topic = "delta" /\ k \in DOMAIN m.state /\ m.state[k] = desired[k]
        BY <1>1, <2>1, <3>1, <4>1, <4>2, DeltaTells
      <4> QED
        BY <2>1, <4>3 DEF Told
    <3> QED
      BY <3>1 DEF Asked
  <2> QED
    BY <2>4, <2>5, <2>6, <2>7 DEF Agreement
<1>4. CASE h.kind = "get" /\ Answers /\ UNCHANGED << desired, reported, stale >>
  <2>1. h.state = Nothing /\ DOMAIN h.state = {}
    BY <1>2, <1>4, NothingIsUpdate DEF Agreement, Typed, OutboxTyped, IsMessage
  <2>2. ASSUME NEW k
        PROVE  /\ \A v : Heard(outbox', reported', k, v) <=> Heard(outbox, reported, k, v)
               /\ NamedIn(outbox, k) <=> NamedIn(outbox', k)
    BY <1>1, <1>4, <2>1, HeardTail
  <2>3. Session' /\ Mirrored' /\ Displayed' /\ Pinned'
    BY <1>1, <1>4, <2>2 DEF Agreement, Session, Mirrored, Displayed, Pinned
  <2>4. Elements(inbox) \subseteq Elements(inbox')
    BY <1>1, <1>4, ToldStill DEF Answers
  <2>5. \A k : Told(k) => Told(k)'
    BY <1>4, <2>4 DEF Told
  <2>6. ASSUME NEW i \in DOMAIN outbox, outbox[i].kind = "report"
        PROVE  \E j \in DOMAIN outbox' : outbox'[j].kind = "report"
    <3>1. i # 1
      BY <1>2, <1>4, <2>6
    <3>2. i - 1 \in DOMAIN outbox' /\ outbox'[i - 1] = outbox[i]
      BY <1>2, <3>1
    <3> QED
      BY <2>6, <3>2
  <2>7. Asked'
    BY <1>1, <1>4, <2>5, <2>6 DEF Agreement, Asked
  <2> QED
    BY <2>3, <2>7 DEF Agreement
<1> QED
  BY <1>3, <1>4 DEF CloudTakes

\* What a message that is added says; the others stay.
LEMMA Added ==
  ASSUME NEW box, IsSeq(box), NEW m
  PROVE  /\ \E i \in DOMAIN Append(box, m) : Append(box, m)[i] = m
         /\ \A i \in DOMAIN box : i \in DOMAIN Append(box, m) /\ Append(box, m)[i] = box[i]
<1>1. /\ DOMAIN Append(box, m) = 1 .. Len(box) + 1
      /\ Append(box, m)[Len(box) + 1] = m
      /\ \A i \in 1 .. Len(box) : Append(box, m)[i] = box[i]
      /\ Len(box) \in Nat /\ DOMAIN box = 1 .. Len(box)
  BY AppendFacts, SeqFacts
<1> DEFINE t == Append(box, m)
<1> HIDE DEF t
<1>2. Len(box) + 1 \in DOMAIN t /\ \A i \in DOMAIN box : i \in DOMAIN t
  BY <1>1 DEF t
<1> QED
  BY <1>1, <1>2 DEF t

\* The pins after an update are as it says, the others as they were.
LEMMA PinsSet ==
  ASSUME NEW upd, SetsPins(upd), NEW p \in Ports
  PROVE  /\ p \in DOMAIN upd => Fits(pins', p, upd[p])
         /\ p \notin DOMAIN upd => \A v : Fits(pins, p, v) => Fits(pins', p, v)
<1> DEFINE cmds == {<< q, upd[q] >> : q \in Ports \cap DOMAIN upd}
           high == {c \in cmds : c[2] > 0}
           cleared == {<< c[1], -c[2] >> : c \in cmds \ high}
<1>1. pins' = (pins \cup high) \ cleared
  BY DEF SetsPins
<1>2. ASSUME p \in DOMAIN upd, upd[p] > 0
      PROVE  << p, upd[p] >> \in pins'
  <2>1. << p, upd[p] >> \in high
    BY <1>2
  <2>2. ASSUME NEW c \in cmds \ high, << c[1], -c[2] >> = << p, upd[p] >>
        PROVE  FALSE
    BY <1>2, <2>2
  <2> QED
    BY <1>1, <2>1, <2>2
<1>3. ASSUME p \in DOMAIN upd, ~(upd[p] > 0)
      PROVE  << p, -upd[p] >> \notin pins'
  <2> DEFINE c == << p, upd[p] >>
  <2>1. c \in cmds \ high /\ c[1] = p /\ c[2] = upd[p]
    BY <1>3
  <2>2. << p, -upd[p] >> \in cleared
    BY <2>1
  <2> QED
    BY <1>1, <2>2
<1>4. ASSUME p \notin DOMAIN upd, NEW x
      PROVE  << p, x >> \in pins' <=> << p, x >> \in pins
  <2>1. << p, x >> \notin high
    BY <1>4
  <2>2. << p, x >> \notin cleared
    BY <1>4
  <2> QED
    BY <1>1, <2>1, <2>2
<1> QED
  BY <1>2, <1>3, <1>4 DEF Fits

\* The handler of the differences.
LEMMA DeltaAgrees ==
  ASSUME Agreement, Typed', NEW i \in DOMAIN inbox, Receive(i), inbox[i].topic = "delta",
         HandleDelta(inbox[i].state)
  PROVE  Agreement'
<1> DEFINE state == inbox[i].state
           known == Only(state, Settings \cup Ports)
<1>1. /\ link = "up" /\ IsUpdate(state) /\ IsSeq(outbox) /\ IsSeq(inbox)
      /\ inbox' = RemoveAt(inbox, i)
      /\ UNCHANGED << link, table, subs, desired, reported, clean, disp >>
  BY OnlyWhileUp DEF Agreement, Typed, InboxTyped, OutboxTyped, Receive, HandleDelta, connVars,
     cloudVars, sensorVars
<1>2. Elements(inbox) \subseteq Elements(inbox') \cup {inbox[i]}
  BY <1>1, RemoveFacts
<1>3. \A k \in InitKeys : val'[k] = IF k \in Settings \cap DOMAIN state THEN state[k] ELSE val[k]
  <2>1. Applies(known)
    BY DEF HandleDelta
  <2> QED
    BY <1>1, <2>1, AppliesFacts DEF Agreement
<1>4. /\ DOMAIN known = DOMAIN state \cap (Settings \cup Ports)
      /\ \A k \in DOMAIN known : known[k] = state[k]
  <2> HIDE DEF state
  <2>1. /\ DOMAIN Only(state, Settings \cup Ports) = DOMAIN state \cap (Settings \cup Ports)
        /\ \A k \in DOMAIN state \cap (Settings \cup Ports) : Only(state, Settings \cup Ports)[k] = state[k]
    BY OnlyFacts
  <2> QED
    BY <2>1
<1>5. \/ known = Nothing /\ outbox' = outbox /\ stale' = stale
      \/ Reports(<< known >>)
  BY DEF HandleDelta
<1>6. SetsPins(known)
  BY DEF HandleDelta
<1> HIDE DEF known
<1>7. \A p \in Ports : /\ p \in DOMAIN known => Fits(pins', p, known[p])
                       /\ p \notin DOMAIN known => \A v : Fits(pins, p, v) => Fits(pins', p, v)
  BY <1>6, PinsSet
<1>8. Session'
  BY <1>1 DEF Agreement, Session
<1>9. CASE known = Nothing /\ outbox' = outbox /\ stale' = stale
  <2>1. \A k \in Settings \cup Ports : k \notin DOMAIN state
    BY <1>4, <1>9, NothingIsUpdate
  <2>2. \A k \in InitKeys : val'[k] = val[k]
    BY <1>3, <2>1
  <2>3. Mirrored' /\ Displayed'
    BY <1>1, <1>9, <2>2 DEF Agreement, Mirrored, Displayed
  <2>4. Pinned'
    BY <1>1, <1>4, <1>7, <1>9, <2>1 DEF Agreement, Pinned
  <2>5. \A k \in Settings \cup Ports : Told(k) => Told(k)'
    BY <1>1, <1>2, <2>1 DEF Told
  <2>6. Asked'
    BY <1>1, <1>9, <2>5 DEF Agreement, Asked
  <2> QED
    BY <1>8, <2>3, <2>4, <2>6 DEF Agreement
<1>10. CASE Reports(<< known >>)
  <2> DEFINE m == Report(known)
  <2>1. outbox' = Append(outbox, m) /\ stale' = stale
    BY <1>1, <1>10, ReportsFacts
  <2>2. m.state = known /\ m.kind = "report"
    BY DEF Report
  <2> HIDE DEF m
  <2>3. ASSUME NEW k
        PROVE  /\ k \in DOMAIN known =>
                    NamedIn(outbox', k) /\ \A v : Heard(outbox', reported', k, v) <=> known[k] = v
               /\ k \notin DOMAIN known =>
                    /\ NamedIn(outbox', k) <=> NamedIn(outbox, k)
                    /\ \A v : Heard(outbox', reported', k, v) <=> Heard(outbox, reported, k, v)
    BY <1>1, <2>1, <2>2, HeardAppend
  <2>4. Mirrored'
    <3>1. ASSUME clean', NEW k \in InitKeys
          PROVE  Heard(outbox', reported', k, val'[k])
      <4>1. CASE k \in DOMAIN known
        <5>1. k \in Settings \cap DOMAIN state
          BY <1>4, <4>1, ShadowAssumption
        <5> QED
          BY <1>3, <1>4, <2>3, <4>1, <5>1
      <4>2. CASE k \notin DOMAIN known
        <5>1. val'[k] = val[k]
          BY <1>3, <1>4, <4>2
        <5>2. Heard(outbox, reported, k, val[k])
          BY <1>1, <3>1 DEF Agreement, Mirrored
        <5> QED
          BY <2>3, <4>2, <5>1, <5>2
      <4> QED
        BY <4>1, <4>2
    <3> QED
      BY <3>1 DEF Mirrored
  <2>5. Displayed'
    <3>1. \A s \in Sensors : s \notin DOMAIN known
      BY <1>4, KeySets, ShadowAssumption
    <3> QED
      BY <1>1, <2>1, <2>3, <3>1 DEF Agreement, Displayed
  <2>6. Pinned'
    <3>1. ASSUME NEW p \in Ports, p \notin stale' \/ NamedIn(outbox', p), NEW v,
                 Heard(outbox', reported', p, v)
          PROVE  Fits(pins', p, v)
      <4>1. CASE p \in DOMAIN known
        BY <1>7, <2>3, <3>1, <4>1
      <4>2. CASE p \notin DOMAIN known
        BY <1>7, <2>1, <2>3, <3>1, <4>2 DEF Agreement, Pinned
      <4> QED
        BY <4>1, <4>2
    <3> QED
      BY <3>1 DEF Pinned
  <2>7. Asked'
    BY <1>1, <2>1, <2>2, Added DEF Asked
  <2> QED
    BY <1>8, <2>4, <2>5, <2>6, <2>7 DEF Agreement
<1> QED
  BY <1>5, <1>9, <1>10

\* The handler of the shadow the board asked for.
LEMMA GetAgrees ==
  ASSUME Agreement, Typed', NEW i \in DOMAIN inbox, Receive(i), inbox[i].topic = "get",
         HandleGet(inbox[i].state)
  PROVE  Agreement'
<1> DEFINE state == inbox[i].state
           known == Only(state, Settings)
           all == InitialState
           g == g_publish_init_state
<1>1. /\ link = "up" /\ IsUpdate(state) /\ IsSeq(outbox) /\ IsSeq(inbox)
      /\ inbox' = RemoveAt(inbox, i)
      /\ UNCHANGED << link, table, subs, desired, reported, disp, pins >>
      /\ clean' = (clean \/ (g /\ "delta" \in table \cap subs))
  BY OnlyWhileUp DEF Agreement, Typed, InboxTyped, OutboxTyped, Receive, HandleGet, connVars,
     cloudVars, sensorVars
<1>2. Elements(inbox) \subseteq Elements(inbox') \cup {inbox[i]}
  BY <1>1, RemoveFacts
<1>3. \A k \in InitKeys : val'[k] = IF k \in Settings \cap DOMAIN state THEN state[k] ELSE val[k]
  <2>1. Applies(known)
    BY DEF HandleGet
  <2> QED
    BY <1>1, <2>1, AppliesFacts DEF Agreement
<1>4. /\ DOMAIN known = DOMAIN state \cap Settings
      /\ \A k \in DOMAIN known : known[k] = state[k]
  <2> HIDE DEF state
  <2>1. /\ DOMAIN Only(state, Settings) = DOMAIN state \cap (Settings)
        /\ \A k \in DOMAIN state \cap (Settings) : Only(state, Settings)[k] = state[k]
    BY OnlyFacts
  <2> QED
    BY <2>1
<1>5. DOMAIN all = InitKeys /\ \A k \in InitKeys : all[k] = val'[k]
  BY DEF InitialState
<1>6. Reports(GetReports(known, all))
  BY DEF HandleGet, GetReports
<1> HIDE DEF known, all
<1>7. /\ stale' = stale
      /\ \/ known = Nothing /\ ~g /\ outbox' = outbox
         \/ known # Nothing /\ ~g /\ outbox' = Append(outbox, Report(known))
         \/ known = Nothing /\ g /\ outbox' = Append(outbox, Report(all))
         \/ known # Nothing /\ g /\ outbox' = Append(Append(outbox, Report(known)), Report(all))
  BY <1>1, <1>6, GetReportsFacts
<1> DEFINE one == Append(outbox, Report(known))
<1>8. /\ Report(known).state = known /\ Report(known).kind = "report"
      /\ Report(all).state = all /\ Report(all).kind = "report"
  BY DEF Report
<1>9. IsSeq(one)
  BY <1>1, AppendFacts
<1>10. ASSUME NEW k
       PROVE  /\ k \in DOMAIN known =>
                   NamedIn(one, k) /\ \A v : Heard(one, reported, k, v) <=> known[k] = v
              /\ k \notin DOMAIN known =>
                   /\ NamedIn(one, k) <=> NamedIn(outbox, k)
                   /\ \A v : Heard(one, reported, k, v) <=> Heard(outbox, reported, k, v)
  BY <1>1, <1>8, HeardAppend
<1> HIDE DEF one
\* What the last report names is as it says; what none of the two names, as it was.
<1>11. ASSUME NEW box, IsSeq(box), NEW k
       PROVE  /\ k \in InitKeys =>
                   \A v : Heard(Append(box, Report(all)), reported, k, v) <=> val'[k] = v
              /\ k \notin InitKeys =>
                   /\ NamedIn(Append(box, Report(all)), k) <=> NamedIn(box, k)
                   /\ \A v : Heard(Append(box, Report(all)), reported, k, v) <=> Heard(box, reported, k, v)
  BY <1>5, <1>8, <1>11, HeardAppend
<1>12. \A k \in Ports \cup Sensors : k \notin InitKeys /\ k \notin DOMAIN known
  BY <1>4, KeySets, ShadowAssumption
<1>13. ASSUME NEW k, k \notin InitKeys, k \notin DOMAIN known
       PROVE  /\ NamedIn(outbox', k) <=> NamedIn(outbox, k)
              /\ \A v : Heard(outbox', reported', k, v) <=> Heard(outbox, reported, k, v)
  <2>1. CASE outbox' = outbox
    BY <1>1, <2>1
  <2>2. CASE outbox' = one
    BY <1>1, <1>10, <1>13, <2>2
  <2>3. CASE outbox' = Append(outbox, Report(all))
    BY <1>1, <1>11, <1>13, <2>3
  <2>4. CASE outbox' = Append(one, Report(all))
    BY <1>1, <1>9, <1>10, <1>11, <1>13, <2>4
  <2> QED
    BY <1>7, <2>1, <2>2, <2>3, <2>4 DEF one
<1>14. Session'
  BY <1>1 DEF Agreement, Session
<1>15. Mirrored'
  <2>1. ASSUME clean', NEW k \in InitKeys
        PROVE  Heard(outbox', reported', k, val'[k])
    <3>1. CASE g
      <4>1. outbox' = Append(outbox, Report(all)) \/ outbox' = Append(one, Report(all))
        BY <1>7, <3>1 DEF one
      <4>2. CASE outbox' = Append(outbox, Report(all))
        BY <1>1, <1>11, <4>2
      <4>3. CASE outbox' = Append(one, Report(all))
        BY <1>1, <1>9, <1>11, <4>3
      <4> QED
        BY <4>1, <4>2, <4>3
    <3>2. CASE ~g
      <4>1. Heard(outbox, reported, k, val[k])
        BY <1>1, <2>1, <3>2 DEF Agreement, Mirrored
      <4>2. \/ known = Nothing /\ outbox' = outbox
            \/ outbox' = one
        BY <1>7, <3>2 DEF one
      <4>3. k \in DOMAIN known => known[k] = val'[k]
        BY <1>3, <1>4
      <4>4. k \notin DOMAIN known => val[k] = val'[k]
        BY <1>3, <1>4
      <4> QED
        BY <1>1, <1>10, <4>1, <4>2, <4>3, <4>4, NothingIsUpdate
    <3> QED
      BY <3>1, <3>2
  <2> QED
    BY <2>1 DEF Mirrored
<1>16. Displayed'
  BY <1>1, <1>7, <1>12, <1>13 DEF Agreement, Displayed
<1>17. Pinned'
  BY <1>1, <1>7, <1>12, <1>13 DEF Agreement, Pinned
<1>18. Asked'
  <2>1. CASE known # Nothing \/ g
    <3>1. \E n \in DOMAIN outbox' : outbox'[n].kind = "report"
      BY <1>1, <1>7, <1>8, <1>9, <2>1, Added DEF one
    <3> QED
      BY <3>1 DEF Asked
  <2>2. CASE known = Nothing /\ ~g
    <3>1. outbox' = outbox /\ (clean' => clean)
      BY <1>1, <1>7, <2>2
    <3>2. \A k : Told(k) => Told(k)'
      BY <1>1, <1>2 DEF Told
    <3> QED
      BY <1>1, <3>1, <3>2 DEF Agreement, Asked
  <2> QED
    BY <2>1, <2>2
<1> QED
  BY <1>14, <1>15, <1>16, <1>17, <1>18 DEF Agreement

\* A message comes; one whose topic has no handler is dropped, and then it is
\* no difference of a session that reported its state.
LEMMA HandlersAgree ==
  ASSUME Agreement, Typed', NEW i \in DOMAIN inbox, Receive(i)
  PROVE  Agreement'
<1>1. CASE inbox[i].topic = "delta" /\ HandleDelta(inbox[i].state)
  BY <1>1, DeltaAgrees
<1>2. CASE inbox[i].topic = "get" /\ HandleGet(inbox[i].state)
  BY <1>2, GetAgrees
<1>3. CASE /\ inbox[i].topic \notin table
           /\ UNCHANGED << val, pins, outbox, clean, stale >>
  <2>1. /\ inbox' = RemoveAt(inbox, i) /\ IsSeq(inbox)
        /\ UNCHANGED << link, table, subs, desired, reported, disp >>
    BY DEF Receive, Agreement, Typed, InboxTyped, connVars, cloudVars, sensorVars
  <2>2. Elements(inbox) \subseteq Elements(inbox') \cup {inbox[i]}
    BY <2>1, RemoveFacts
  <2>3. Session' /\ Mirrored' /\ Displayed' /\ Pinned'
    BY <1>3, <2>1 DEF Agreement, Session, Mirrored, Displayed, Pinned
  <2>4. ASSUME clean, NEW k, Told(k)
        PROVE  Told(k)'
    <3>1. inbox[i].topic # "delta"
      BY <1>3, <2>4 DEF Agreement, Session
    <3> QED
      BY <2>1, <2>2, <2>4, <3>1 DEF Told
  <2>5. Asked'
    BY <1>3, <2>1, <2>4 DEF Agreement, Asked
  <2> QED
    BY <2>3, <2>5 DEF Agreement
<1> QED
  BY <1>1, <1>2, <1>3 DEF Receive

\* A button.
LEMMA PressAgrees ==
  ASSUME Agreement, Typed', NEW b \in Buttons, Press(b)
  PROVE  Agreement'
<1> DEFINE u == [k \in {b} |-> val'[k]]
           m == Report(u)
<1>1. /\ IsSeq(outbox) /\ Reports(<< u >>)
      /\ UNCHANGED << pins, link, table, subs, inbox, desired, reported, clean, disp >>
  BY DEF Agreement, Typed, OutboxTyped, Press, connVars, cloudVars, sensorVars
<1>2. \A k \in InitKeys : k # b => val'[k] = val[k]
  BY DEF Press, Agreement, Typed, TypeOK
<1>3. DOMAIN u = {b} /\ u[b] = val'[b]
  OBVIOUS
<1>4. \A k \in Ports \cup Sensors : k # b
  BY KeySets, ShadowAssumption
<1> HIDE DEF u
<1>5. m.state = u /\ m.kind = "report"
  BY DEF Report
<1>6. Session'
  BY <1>1 DEF Agreement, Session
<1>7. CASE link = "up"
  <2>1. outbox' = Append(outbox, m) /\ stale' = stale
    BY <1>1, <1>7, ReportsFacts
  <2> HIDE DEF m
  <2>2. ASSUME NEW k
        PROVE  /\ k = b => \A v : Heard(outbox', reported', k, v) <=> val'[b] = v
               /\ k # b =>
                    /\ NamedIn(outbox', k) <=> NamedIn(outbox, k)
                    /\ \A v : Heard(outbox', reported', k, v) <=> Heard(outbox, reported, k, v)
    <3>1. DOMAIN m.state = {b} /\ m.state[b] = val'[b]
      BY <1>3, <1>5
    <3>2. /\ k \in DOMAIN m.state => \A v : Heard(outbox', reported', k, v) <=> m.state[k] = v
          /\ k \notin DOMAIN m.state =>
               /\ NamedIn(outbox', k) <=> NamedIn(outbox, k)
               /\ \A v : Heard(outbox', reported', k, v) <=> Heard(outbox, reported, k, v)
      BY <1>1, <2>1, HeardAppend
    <3> QED
      BY <3>1, <3>2
  <2>3. Mirrored'
    BY <1>1, <1>2, <2>2 DEF Agreement, Mirrored
  <2>4. Displayed' /\ Pinned'
    BY <1>1, <1>4, <2>1, <2>2 DEF Agreement, Displayed, Pinned
  <2>5. Asked'
    BY <1>1, <1>5, <2>1, Added DEF Asked
  <2> QED
    BY <1>6, <2>3, <2>4, <2>5 DEF Agreement
<1>8. CASE link # "up"
  <2>1. outbox' = outbox /\ stale' = stale \cup (DOMAIN u \cap (Ports \cup Sensors))
    BY <1>1, <1>8, ReportsFacts
  <2>2. stale' = stale
    BY <1>3, <1>4, <2>1
  <2>3. ~clean'
    BY <1>1, <1>8 DEF Agreement, Session
  <2>4. Displayed' /\ Pinned'
    BY <1>1, <2>1, <2>2 DEF Agreement, Displayed, Pinned
  <2> QED
    BY <1>6, <2>3, <2>4 DEF Agreement, Mirrored, Asked
<1> QED
  BY <1>7, <1>8

\* A turn of the sensors.
LEMMA SensorsAgree ==
  ASSUME Agreement, Typed', NEW data, SensorTurn(data)
  PROVE  Agreement'
<1> DEFINE u == Restrict(data, Updates(data))
           m == Report(u)
<1>1. /\ IsSeq(outbox)
      /\ UNCHANGED << val, pins, link, table, subs, inbox, desired, reported, clean >>
  BY DEF Agreement, Typed, OutboxTyped, SensorTurn, boardVars, connVars, cloudVars
<1>2. \A s \in Sensors : disp'[s] = IF s \in Updates(data) THEN data[s] ELSE disp[s]
  BY DEF SensorTurn, env_sensor_execute
<1>3. /\ DOMAIN u = Updates(data) /\ Updates(data) \subseteq Sensors
      /\ \A s \in Updates(data) : u[s] = data[s]
  BY DEF Restrict, Updates
<1>4. \A k \in InitKeys \cup Ports : k \notin Updates(data)
  BY <1>3, ShadowAssumption
<1>5. \/ Updates(data) = {} /\ outbox' = outbox /\ stale' = stale
      \/ Updates(data) # {} /\ Reports(<< u >>)
  BY DEF SensorTurn
<1> HIDE DEF u
<1>6. m.state = u /\ m.kind = "report"
  BY DEF Report
<1>7. Session'
  BY <1>1 DEF Agreement, Session
<1>8. CASE Updates(data) = {} /\ outbox' = outbox /\ stale' = stale
  <2>1. \A s \in Sensors : disp'[s] = disp[s]
    BY <1>2, <1>8
  <2>2. Mirrored' /\ Pinned' /\ Displayed'
    BY <1>1, <1>8, <2>1 DEF Agreement, Mirrored, Pinned, Displayed
  <2>3. \A k : Told(k)' <=> Told(k)
    BY <1>1 DEF Told
  <2>4. Asked'
    BY <1>1, <1>8, <2>3 DEF Agreement, Asked
  <2> QED
    BY <1>7, <2>2, <2>4 DEF Agreement
<1>9. CASE Reports(<< u >>) /\ link = "up"
  <2>1. outbox' = Append(outbox, m) /\ stale' = stale
    BY <1>1, <1>9, ReportsFacts
  <2> HIDE DEF m
  <2>2. ASSUME NEW k
        PROVE  /\ k \in Updates(data) => \A v : Heard(outbox', reported', k, v) <=> u[k] = v
               /\ k \notin Updates(data) =>
                    /\ NamedIn(outbox', k) <=> NamedIn(outbox, k)
                    /\ \A v : Heard(outbox', reported', k, v) <=> Heard(outbox, reported, k, v)
    BY <1>1, <1>3, <1>6, <2>1, HeardAppend
  <2>3. Mirrored' /\ Pinned'
    BY <1>1, <1>4, <2>1, <2>2 DEF Agreement, Mirrored, Pinned
  <2>4. Displayed'
    <3>1. ASSUME NEW s \in Sensors, s \notin stale' \/ NamedIn(outbox', s)
          PROVE  \/ Heard(outbox', reported', s, disp'[s])
                 \/ ~NamedIn(outbox', s) /\ s \notin DOMAIN reported' /\ disp'[s] = 0
      <4>1. CASE s \in Updates(data)
        BY <1>2, <1>3, <2>2, <4>1
      <4>2. CASE s \notin Updates(data)
        BY <1>1, <1>2, <2>1, <2>2, <3>1, <4>2 DEF Agreement, Displayed
      <4> QED
        BY <4>1, <4>2
    <3> QED
      BY <3>1 DEF Displayed
  <2>5. Asked'
    BY <1>1, <1>6, <2>1, Added DEF Asked
  <2> QED
    BY <1>7, <2>3, <2>4, <2>5 DEF Agreement
<1>10. CASE Reports(<< u >>) /\ link # "up"
  <2>1. outbox' = outbox /\ stale' = stale \cup (DOMAIN u \cap (Ports \cup Sensors))
    BY <1>1, <1>10, ReportsFacts
  <2>2. stale' = stale \cup Updates(data)
    BY <1>3, <2>1
  <2>3. ~clean'
    BY <1>1, <1>10 DEF Agreement, Session
  <2>4. outbox = << >> /\ DOMAIN << >> = {}
    BY <1>10, OnlyWhileUp DEF Agreement
  <2>5. \A k : ~NamedIn(outbox', k)
    BY <2>1, <2>4 DEF NamedIn
  <2>6. Displayed'
    <3>1. ASSUME NEW s \in Sensors, s \notin stale'
          PROVE  \/ Heard(outbox', reported', s, disp'[s])
                 \/ ~NamedIn(outbox', s) /\ s \notin DOMAIN reported' /\ disp'[s] = 0
      <4>1. s \notin stale /\ disp'[s] = disp[s]
        BY <1>2, <2>2, <3>1
      <4> QED
        BY <1>1, <2>1, <4>1 DEF Agreement, Displayed
    <3> QED
      BY <2>5, <3>1 DEF Displayed
  <2>7. Pinned'
    <3>1. \A p \in Ports : p \notin stale' \/ NamedIn(outbox', p) => p \notin stale
      BY <2>2, <2>5
    <3> QED
      BY <1>1, <2>1, <3>1 DEF Agreement, Pinned
  <2> QED
    BY <1>7, <2>3, <2>6, <2>7 DEF Agreement, Mirrored, Asked
<1> QED
  BY <1>5, <1>8, <1>9, <1>10

\* The board asks for the shadow: a message that says nothing.
LEMMA SubscribeAgrees ==
  ASSUME Agreement, Typed', SubscribeDelta
  PROVE  Agreement'
<1> DEFINE get == [kind |-> "get", state |-> Nothing]
<1>1. /\ IsSeq(outbox) /\ link' = link /\ table \subseteq table' /\ subs \subseteq subs'
      /\ outbox' = IF link = "up" THEN Append(outbox, get) ELSE outbox
      /\ UNCHANGED << val, pins, inbox, desired, reported, clean, stale, disp >>
  BY DEF Agreement, Typed, OutboxTyped, SubscribeDelta, Subscribes, cloudVars, sensorVars
<1>2. DOMAIN get.state = {}
  BY NothingIsUpdate
<1> HIDE DEF get
<1>3. ASSUME NEW k
      PROVE  /\ NamedIn(outbox', k) <=> NamedIn(outbox, k)
             /\ \A v : Heard(outbox', reported', k, v) <=> Heard(outbox, reported, k, v)
  BY <1>1, <1>2, HeardAppend
<1>4. Session' /\ Mirrored' /\ Displayed' /\ Pinned'
  BY <1>1, <1>3 DEF Agreement, Session, Mirrored, Displayed, Pinned
<1>5. \A i \in DOMAIN outbox : i \in DOMAIN outbox' /\ outbox'[i] = outbox[i]
  BY <1>1, Added
<1>6. \A k : Told(k)' <=> Told(k)
  BY <1>1 DEF Told
<1>7. Asked'
  BY <1>1, <1>5, <1>6 DEF Agreement, Asked
<1> QED
  BY <1>4, <1>7 DEF Agreement

\* A new list shows its first colour, and the board its first state.
LEMMA InitAgrees ==
  ASSUME AppInit
  PROVE  Agreement
<1>1. DOMAIN << >> = {} /\ DOMAIN Nothing = {}
  BY NothingIsUpdate
<1>2. outbox = << >> /\ reported = Nothing /\ ~clean /\ \A s \in Sensors : disp[s] = 0
  BY DEF AppInit, Init, SensorInit
<1>3. \A k, v : ~NamedIn(outbox, k) /\ ~Heard(outbox, reported, k, v) /\ k \notin DOMAIN reported
  BY <1>1, <1>2 DEF NamedIn, LastIn, Heard
<1>4. Session /\ Mirrored /\ Asked
  BY <1>2 DEF Session, Mirrored, Asked
<1>5. Displayed /\ Pinned
  BY <1>2, <1>3 DEF Displayed, Pinned
<1> QED
  BY <1>4, <1>5, InitTyped DEF Agreement

LEMMA AgreementStep ==
  ASSUME Agreement, [Next]_vars
  PROVE  Agreement'
<1>1. Typed'
  BY TypedStep DEF Agreement
<1>2. ASSUME UNCHANGED << AgreedVars, link, table, subs >>
      PROVE  Agreement'
  <2>1. Session'
    BY <1>2 DEF Agreement, Session, AgreedVars
  <2> QED
    BY <1>1, <1>2, <2>1, Unaffected
<1>3. ASSUME ShadowNext
      PROVE  Agreement'
  <2>1. CASE SysTime \/ Dhcp
    BY <1>2, <2>1 DEF SysTime, Dhcp, connVars, cloudVars, sensorVars, AgreedVars
  <2>2. CASE CloudConnect \/ LinkLost
    BY <1>1, <2>2, LossAgrees DEF CloudConnect, LinkLost, boardVars, cloudVars, sensorVars
  <2>3. CASE PowerCycle
    BY <1>1, <2>3, LossAgrees DEF PowerCycle, cloudVars
  <2>4. CASE SubscribeGet
    <3>1. UNCHANGED AgreedVars
      BY <2>4 DEF SubscribeGet, cloudVars, sensorVars, AgreedVars
    <3>2. Session'
      BY <2>4 DEF SubscribeGet, Subscribes, Agreement, Session
    <3> QED
      BY <1>1, <3>1, <3>2, Unaffected
  <2>5. CASE SubscribeDelta
    BY <1>1, <2>5, SubscribeAgrees
  <2>6. CASE Reconnect
    <3>1. UNCHANGED AgreedVars
      BY <2>6 DEF Reconnect, boardVars, cloudVars, sensorVars, AgreedVars
    <3>2. Session'
      BY <2>6 DEF Reconnect, Agreement, Session
    <3> QED
      BY <1>1, <3>1, <3>2, Unaffected
  <2>7. CASE \E i \in DOMAIN inbox : Receive(i)
    BY <1>1, <2>7, HandlersAgree
  <2>8. CASE CloudTakes
    BY <1>1, <2>8, ServiceAgrees
  <2>9. CASE Toggle \/ Refused \/ LambdaRuns \/ LambdaRaises
    BY <1>2, <2>9 DEF Toggle, Refused, LambdaRuns, LambdaRaises, boardVars, connVars, cloudVars,
       sensorVars, AgreedVars
  <2>10. CASE \E b \in Buttons : Press(b)
    BY <1>1, <2>10, PressAgrees
  <2>11. CASE \E data \in [Sensors -> Readings] : SensorTurn(data)
    BY <1>1, <2>11, SensorsAgree
  <2>12. CASE \E upd \in Desirable : Ask(upd)
    BY <1>1, <2>12, DesiresAgrees DEF Ask, sensorVars
  <2> QED
    BY <1>3, <2>1, <2>2, <2>3, <2>4, <2>5, <2>6, <2>7, <2>8, <2>9, <2>10, <2>11, <2>12
       DEF ShadowNext, Board
<1>4. CASE AppReceives \/ Closes \/ \E colour \in Positions : Picks(colour)
  BY <1>2, <1>4 DEF AppReceives, Closes, Picks, boardVars, connVars, cloudVars, sensorVars, AgreedVars
<1>5. CASE Layout
  <2>1. CASE Desires(spinner)
    BY <1>1, <1>5, <2>1, DesiresAgrees DEF Layout, sensorVars
  <2>2. CASE UNCHANGED << desired, reported, inbox >>
    BY <1>2, <1>5, <2>2 DEF Layout, boardVars, connVars, sensorVars, AgreedVars
  <2> QED
    BY <1>5, <2>1, <2>2 DEF Layout
<1>6. CASE Refreshes
  BY <1>1, <1>6, AnswerAgrees DEF Refreshes, sensorVars
<1>7. CASE UNCHANGED vars
  BY <1>2, <1>7 DEF vars, shadowVars, boardVars, connVars, cloudVars, sensorVars, AgreedVars
<1> QED
  BY <1>3, <1>4, <1>5, <1>6, <1>7 DEF Next, App

\* In a session that has lost nothing, and once every message has arrived, the
\* shadow and the board agree.
THEOREM AgreeWhenQuietAlways ==
  Spec => []AgreeWhenQuiet
<1> QED
  BY InitAgrees, AgreementStep, AgreementAgrees, PTL DEF Spec
=============================================================================
