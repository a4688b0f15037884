------------------------------- MODULE Shadow -------------------------------
(***************************************************************************)
(* The device shadow: the board's handlers of winc15x0.c, the shadow       *)
(* service as they use it, and the skill that asks for colours and pins.   *)
(*                                                                         *)
(* The service keeps what people ask for (desired) and what the board      *)
(* reports (reported), and sends the board the difference.  The board      *)
(* subscribes to the difference and to the answer of its one get per       *)
(* session; every message is sent once (QoS 0) and may be overtaken.       *)
(*                                                                         *)
(* Abstracted: JSON, versions and time stamps, which the board ignores;    *)
(* the COUNT key; how the client connects, which is Mqtt's.                *)
(***************************************************************************)
EXTENDS Integers, SequencesExt, Led, EnvSensor, Jitr

CONSTANTS
  Buttons,      \* by the names of their shadow keys
  Ports,        \* likewise, the keys that set or clear a pin
  Words,        \* the colours the skill is asked for
  Gpios,        \* the pins it is asked to set or clear, with their ports
  Direct,       \* what is written to desired past the skill and the application
  Loads         \* bounds: how often people ask, things fail, buttons are pressed
                \* and sensors read in a behaviour; each a choice for Init

Settings  == Leds \cup {"LED_INTENSITY", "Light"}

InitKeys  == Settings \cup Buttons
AllKeys   == InitKeys \cup Ports \cup Sensors

\* Every key of the shadow stands for one thing.
ASSUME ShadowAssumption ==
  /\ Buttons \cap Settings = {} /\ Ports \cap InitKeys = {}
  /\ Sensors \cap (InitKeys \cup Ports) = {}

\* What is written to desired are keys of the board, the LED's with numbers.
ASSUME RequestsAssumption ==
  /\ \A g \in Gpios : g[1] \in Ports
  /\ \A upd \in Direct :
       DOMAIN upd \subseteq AllKeys /\ \A k \in Settings \cap DOMAIN upd : upd[k] \in Nat
Topics    == {"get", "delta"}

VARIABLES
  task,      \* wifi_states, from OFFLINE to MQTT_RUNNING
  timeAsked, \* GET_SYS_TIME is to come
  val,       \* g_red_led_value, ..., g_light_state, g_button1_state, ...
  pins,      \* the pins that are high, each with its port
  g_publish_init_state,
  link,      \* the connection to the service
  table,     \* topics the client has a handler for
  subs,      \* topics the service has subscribed
  inbox, outbox,      \* messages on the way to the board, and from it
  desired, reported,  \* the shadow, partial functions of keys
  feed,      \* what was accepted and the app, while it listens, has not seen
  listening, \* the app listens
  clean,     \* nothing was lost since the initial state was reported
  stale,     \* sensors and ports whose last report was lost, or that a restart reset
  applied,   \* colours given a level since the last blink
  asks, faults, presses, turns  \* how many of each are left

boardVars == << task, timeAsked, val, pins, g_publish_init_state >>
connVars  == << link, table, subs >>
cloudVars == << desired, reported, feed, listening >>
bounds    == << asks, faults, presses, turns >>
shadowVars == << boardVars, connVars, inbox, outbox, cloudVars, clean, stale, applied,
                 bounds, ledVars, sensorVars, jitrVars >>

Nothing == << >>
Only(f, S) == Restrict(f, DOMAIN f \cap S)

\* An update leaves alone what it does not name.
Merge(upd, state) ==
  [k \in DOMAIN upd \cup DOMAIN state |-> IF k \in DOMAIN upd THEN upd[k] ELSE state[k]]

InitialVal ==
  [k \in InitKeys |-> CASE k = "LED_B" -> 1 [] k = "Light" -> 1
                        [] k = "LED_INTENSITY" -> Full [] OTHER -> 0]

Init ==
  /\ task = "OFFLINE" /\ timeAsked = FALSE /\ val = InitialVal /\ pins = {}
  /\ g_publish_init_state = FALSE
  /\ link = "none" /\ table = {} /\ subs = {} /\ inbox = << >> /\ outbox = << >>
  /\ desired = Nothing /\ reported = Nothing /\ feed = << >> /\ listening = FALSE
  /\ clean = FALSE /\ stale = {} /\ applied = {}
  /\ \E l \in Loads : /\ asks = l.asks /\ faults = l.faults
                      /\ presses = l.presses /\ turns = l.turns
                      /\ certificate = l.certificate
  /\ LedInit /\ SensorInit /\ JitrInit

----------------------------------------------------------------------------
(* The shadow service. *)

Delta(d, r) == Only(d, {k \in DOMAIN d : k \notin DOMAIN r \/ d[k] # r[k]})

\* A message to the board, if it is subscribed.
Tells(topic, state) ==
  inbox' = IF topic \in subs THEN Append(inbox, [topic |-> topic, state |-> state]) ELSE inbox

\* The app hears of it as well, if it listens.
Hears(d, r) ==
  feed' = IF listening THEN Append(feed, [desired |-> d, reported |-> r]) ELSE feed

\* An update of desired, by the skill or the app.
Desires(upd) ==
  /\ desired' = Merge(upd, desired)
  /\ IF Delta(desired', reported) = Nothing
     THEN UNCHANGED inbox ELSE Tells("delta", Delta(desired', reported))
  /\ Hears(upd, Nothing)
  /\ UNCHANGED reported

\* An update of reported, by the board.
Accepts(upd) ==
  /\ reported' = Merge(upd, reported)
  /\ IF Delta(desired, reported') = Nothing
     THEN UNCHANGED inbox ELSE Tells("delta", Delta(desired, reported'))
  /\ Hears(Nothing, upd)
  /\ stale' = stale \ DOMAIN upd
  /\ UNCHANGED desired

\* A get.  Both topics of get/accepted are one: each hears the other's answer.
\* Of a shadow that does not exist there is none.
Answers ==
  IF desired = Nothing /\ reported = Nothing THEN UNCHANGED << inbox, feed >>
  ELSE Tells("get", desired) /\ Hears(desired, reported)

\* The service takes the next message of the board.
CloudTakes ==
  /\ outbox # << >>
  /\ outbox' = Tail(outbox)
  /\ \/ Head(outbox).kind = "report" /\ Accepts(Head(outbox).state)
     \/ Head(outbox).kind = "get" /\ Answers /\ UNCHANGED << desired, reported, stale >>
  /\ UNCHANGED << boardVars, connVars, listening, clean, applied, bounds, ledVars,
                  sensorVars, jitrVars >>

LightStates ==
  [red |-> {"LED_R"}, green |-> {"LED_G"}, blue |-> {"LED_B"}, yellow |-> {"LED_R", "LED_G"},
   white |-> {"LED_R", "LED_G", "LED_B"}, off |-> {}]

setLEDState(word) == [c \in Leds |-> IF c \in LightStates[word] THEN 1 ELSE 0]
setGPIO(port, pin, ioState) == [k \in {port} |-> IF ioState = "clear" THEN -pin ELSE pin]

Desirable ==
  {setLEDState(w) : w \in Words} \cup Direct
    \cup {setGPIO(g[1], g[2], s) : g \in Gpios, s \in {"set", "clear"}}

\* The skill, or whoever writes to the shadow itself, updates desired.
Ask(upd) ==
  /\ asks > 0 /\ asks' = asks - 1
  /\ Desires(upd)
  /\ UNCHANGED << boardVars, connVars, outbox, listening, clean, stale, applied,
                  faults, presses, turns, ledVars, sensorVars, jitrVars >>

----------------------------------------------------------------------------
(* The board's connection. *)

Lost(msgs) == (UNION {DOMAIN msgs[i].state : i \in DOMAIN msgs}) \cap (Ports \cup Sensors)

\* DHCP_CONF in station mode, on the first lease or on another association.
Dhcp ==
  /\ task = "OFFLINE" \/ faults > 0
  /\ ~timeAsked /\ timeAsked' = TRUE
  /\ faults' = IF task = "OFFLINE" THEN faults ELSE faults - 1
  /\ led_ctrl_set_mode("LED_MODE_BLINK_FAST")
  /\ UNCHANGED << task, val, pins, g_publish_init_state, connVars, inbox, outbox,
                  cloudVars, clean, stale, applied, asks, presses, turns, sensorVars, jitrVars >>

\* GET_SYS_TIME; MQTT_SUBSCRIBE overwrites a state that is set while it waits.
SysTime ==
  /\ timeAsked /\ timeAsked' = FALSE
  /\ task' = IF task = "SUBSCRIBING" THEN task ELSE "CONNECT_CLOUD"
  /\ UNCHANGED << val, pins, g_publish_init_state, connVars, inbox, outbox,
                  cloudVars, clean, stale, applied, bounds, ledVars, sensorVars, jitrVars >>

\* CONNECT_CLOUD succeeds: a new client on a new connection.
CloudConnect ==
  /\ task = "CONNECT_CLOUD" /\ certificate = "ACTIVE"
  /\ task' = "MQTT_SUBSCRIBE"
  /\ link' = "up" /\ table' = {} /\ subs' = {} /\ inbox' = << >> /\ outbox' = << >>
  /\ clean' = FALSE /\ stale' = stale \cup Lost(outbox)
  /\ led_ctrl_set_mode("LED_MODE_TURN_ON")
  /\ UNCHANGED << timeAsked, val, pins, g_publish_init_state, cloudVars, applied, bounds,
                  sensorVars, jitrVars >>

\* The rest of Jitr: what becomes of a connection the service refuses.
Refused ==
  /\ task = "CONNECT_CLOUD" /\ ConnectRefused
  /\ UNCHANGED << boardVars, connVars, inbox, outbox, cloudVars, clean, stale, applied, bounds,
                  ledVars, sensorVars >>

LambdaRuns ==
  /\ \E i \in Invocations : Invoked(i) \/ Call(i)
  /\ UNCHANGED << boardVars, connVars, inbox, outbox, cloudVars, clean, stale, applied, bounds,
                  ledVars, sensorVars >>

LambdaRaises ==
  /\ faults > 0 /\ faults' = faults - 1
  /\ \E i \in Invocations : Raises(i)
  /\ UNCHANGED << boardVars, connVars, inbox, outbox, cloudVars, clean, stale, applied, asks,
                  presses, turns, ledVars, sensorVars >>

\* cloud_mqtt_subscribe, whose result nobody looks at.
Subscribes(topic) ==
  \/ link = "up" /\ table' = table \cup {topic} /\ subs' = subs \cup {topic}
     /\ UNCHANGED << link, faults >>
  \/ /\ link # "up" \/ faults > 0
     /\ faults' = IF link = "up" THEN faults - 1 ELSE faults
     /\ subs' \in {subs, IF link = "up" THEN subs \cup {topic} ELSE subs}
     /\ UNCHANGED << link, table >>

\* The first half of MQTT_SUBSCRIBE ...
SubscribeGet ==
  /\ task = "MQTT_SUBSCRIBE" /\ task' = "SUBSCRIBING"
  /\ Subscribes("get")
  /\ UNCHANGED << timeAsked, val, pins, g_publish_init_state, inbox, outbox, cloudVars,
                  clean, stale, applied, asks, presses, turns, ledVars, sensorVars, jitrVars >>

\* Mutant: the task does not ask for the shadow.
SubscribeDelta_NoGet ==
  /\ task = "SUBSCRIBING" /\ task' = "MQTT_RUNNING"
  /\ Subscribes("delta")
  /\ g_publish_init_state' = TRUE
  /\ UNCHANGED << timeAsked, val, pins, inbox, outbox, cloudVars, clean, stale, applied, asks,
                  presses, turns, ledVars, sensorVars, jitrVars >>

\* ... and the second, which asks for the shadow.
SubscribeDelta ==
  /\ task = "SUBSCRIBING" /\ task' = "MQTT_RUNNING"
  /\ Subscribes("delta")
  /\ outbox' = IF link = "up" THEN Append(outbox, [kind |-> "get", state |-> Nothing]) ELSE outbox
  /\ g_publish_init_state' = TRUE
  /\ UNCHANGED << timeAsked, val, pins, inbox, cloudVars, clean, stale, applied, asks,
                  presses, turns, ledVars, sensorVars, jitrVars >>

\* The connection is lost, with what was on the way.
LinkLost ==
  /\ link = "up" /\ faults > 0
  /\ link' = "gone" /\ subs' = {} /\ faults' = faults - 1
  /\ inbox' = << >> /\ outbox' = << >>
  /\ clean' = FALSE /\ stale' = stale \cup Lost(outbox)
  /\ UNCHANGED << boardVars, table, cloudVars, applied, asks, presses, turns, ledVars,
                  sensorVars, jitrVars >>

\* The client's own reconnection: it subscribes again, and asks for nothing.
Reconnect ==
  /\ link = "gone" /\ task = "MQTT_RUNNING"
  /\ link' = "up" /\ subs' = table
  /\ UNCHANGED << boardVars, table, inbox, outbox, cloudVars, clean, stale, applied, bounds,
                  ledVars, sensorVars, jitrVars >>

PowerCycle ==
  /\ faults > 0 /\ faults' = faults - 1
  /\ task' = "OFFLINE" /\ timeAsked' = FALSE /\ val' = InitialVal /\ pins' = {}
  /\ g_publish_init_state' = FALSE
  /\ link' = "none" /\ table' = {} /\ subs' = {} /\ inbox' = << >> /\ outbox' = << >>
  /\ clean' = FALSE /\ applied' = {}
  /\ stale' = Ports \cup Sensors
  /\ LedRestarts /\ SensorsRestart
  /\ UNCHANGED << cloudVars, asks, presses, turns, jitrVars >>

----------------------------------------------------------------------------
(* The board's handlers. *)

\* cloud_mqtt_publish: without a connection the report is lost.
Reports(upds) ==
  /\ outbox' = IF link = "up"
               THEN outbox \o [i \in DOMAIN upds |-> [kind |-> "report", state |-> upds[i]]]
               ELSE outbox
  /\ stale' = IF link = "up" THEN stale ELSE stale \cup Lost([i \in DOMAIN upds |-> [state |-> upds[i]]])

\* Mutant: a new intensity waits for the next colour.
Recoloured_NotByIntensity(upd) ==
  IF "Light" \in DOMAIN upd THEN Leds ELSE Leds \cap DOMAIN upd

\* The colours an update sets anew: all, when the intensity or the light
\* itself changes.
Recoloured(upd) ==
  IF {"LED_INTENSITY", "Light"} \cap DOMAIN upd # {} THEN Leds ELSE Leds \cap DOMAIN upd

\* Their levels; a colour that comes alone does not ask whether the light is on.
Levels(upd) ==
  [c \in Recoloured(upd) |->
     IF val'[c] = 0 \/ ("Light" \in DOMAIN upd /\ val'["Light"] = 0)
     THEN 0 ELSE val'["LED_INTENSITY"]]

\* Mutant: a key the board does not keep is kept.
Applies_AnyKey(upd) ==
  /\ val' = Merge(upd, val)
  /\ setColor(Levels(upd))
  /\ applied' = applied \cup Recoloured(upd)

Applies(upd) ==
  /\ val' = Merge(Only(upd, Settings), val)
  /\ setColor(Levels(upd))
  /\ applied' = applied \cup Recoloured(upd)

\* "PA" and "PB": n sets pin n, -n clears it; a pin the board has not is
\* reported all the same.
SetsPins(upd) ==
  LET cmds == {<< p, upd[p] >> : p \in Ports \cap DOMAIN upd}
      high == {c \in cmds : c[2] > 0}
  IN pins' = (pins \cup high) \ {<< c[1], -c[2] >> : c \in cmds \ high}

\* Mutant: the report says what the values were.
HandleDelta_ReportsOld(upd) ==
  LET known == Only(upd, Settings \cup Ports)
  IN /\ Applies(known) /\ SetsPins(known)
     /\ IF known = Nothing THEN UNCHANGED << outbox, stale >>
        ELSE Reports(<< [k \in DOMAIN known |-> IF k \in Settings THEN val[k] ELSE known[k]] >>)
     /\ UNCHANGED << g_publish_init_state, clean >>

\* MQTTSubscribeCBCallbackHandler_shadow.
HandleDelta(upd) ==
  LET known == Only(upd, Settings \cup Ports)
  IN /\ Applies(known) /\ SetsPins(known)
     /\ IF known = Nothing THEN UNCHANGED << outbox, stale >> ELSE Reports(<< known >>)
     /\ UNCHANGED << g_publish_init_state, clean >>

InitialState == [k \in InitKeys |-> val'[k]]

\* MQTTSubscribeCBCallbackHandler_shadow_get: the ports are not restored.
HandleGet(state) ==
  LET known == Only(state, Settings)
  IN /\ Applies(known)
     /\ Reports((IF known = Nothing THEN << >> ELSE << known >>)
                  \o (IF g_publish_init_state THEN << InitialState >> ELSE << >>))
     /\ g_publish_init_state' = FALSE
     /\ clean' = (clean \/ (g_publish_init_state /\ "delta" \in table \cap subs))
     /\ UNCHANGED pins

\* deliverMessage, in any order of what is on the way; a message whose topic
\* has no handler is dropped.
Receive(i) ==
  /\ task \in {"MQTT_SUBSCRIBE", "SUBSCRIBING", "MQTT_RUNNING"}
  /\ inbox' = RemoveAt(inbox, i)
  /\ LET m == inbox[i]
     IN \/ m.topic \in table /\ m.topic = "delta" /\ HandleDelta(m.state)
        \/ m.topic \in table /\ m.topic = "get" /\ HandleGet(m.state)
        \/ /\ m.topic \notin table
           /\ UNCHANGED << val, pins, g_publish_init_state, outbox, clean, stale, applied,
                           ledVars >>
  /\ UNCHANGED << task, timeAsked, connVars, cloudVars, bounds, sensorVars, jitrVars >>

\* buttonSW1Handle and its like.
Press(b) ==
  /\ presses > 0 /\ presses' = presses - 1
  /\ val' = [val EXCEPT ![b] = 1 - @]
  /\ Reports(<< [k \in {b} |-> val'[k]] >>)
  /\ UNCHANGED << task, timeAsked, pins, g_publish_init_state, connVars, inbox, cloudVars,
                  clean, applied, asks, faults, turns, ledVars, sensorVars, jitrVars >>

\* main looks at the sensors every 2 seconds while the task runs, and
\* EnvSensorCallbackHandler reports.
SensorTurn(data) ==
  /\ task = "MQTT_RUNNING" /\ turns > 0 /\ turns' = turns - 1
  /\ env_sensor_execute(data)
  /\ IF Updates(data) = {} THEN UNCHANGED << outbox, stale >>
     ELSE Reports(<< Restrict(data, Updates(data)) >>)
  /\ UNCHANGED << boardVars, connVars, inbox, cloudVars, clean, applied, asks, faults,
                  presses, ledVars, jitrVars >>

\* The interrupt of the real-time clock.
Toggle ==
  /\ toggleLED /\ applied' = {}
  /\ UNCHANGED << boardVars, connVars, inbox, outbox, cloudVars, clean, stale, bounds,
                  sensorVars, jitrVars >>

Board ==
  \/ SysTime \/ CloudConnect \/ SubscribeGet \/ SubscribeDelta \/ Reconnect
  \/ \E i \in DOMAIN inbox : Receive(i)

ShadowNext ==
  \/ Board \/ CloudTakes \/ Toggle
  \/ Refused \/ LambdaRuns \/ LambdaRaises
  \/ Dhcp \/ LinkLost \/ PowerCycle
  \/ \E b \in Buttons : Press(b)
  \/ \E data \in [Sensors -> Readings] : SensorTurn(data)
  \/ \E upd \in Desirable : Ask(upd)
=============================================================================
