----------------------------- MODULE ShadowApp -----------------------------
(***************************************************************************)
(* The screen of the mobile application that shows and sets the colour     *)
(* (WINC1500SecureWiFiBoardActivity.java), beside the board, the service   *)
(* and the skill of Shadow.                                                *)
(*                                                                         *)
(* The list of colours is set by the user and by every update the screen   *)
(* hears of; onItemSelected, which Android calls at the next layout, does  *)
(* not know which of the two it was.                                       *)
(*                                                                         *)
(* Abstracted: the other fields of the screen; the application's own       *)
(* connection, which is taken to be reliable.                              *)
(***************************************************************************)
EXTENDS Shadow

\* The first colour of the list is the blue one.
ASSUME ListAssumption == "LED_B" \in Leds

VARIABLES
  spinner,  \* the colour the list shows
  laidOut,  \* the colour of the last layout
  requestGetDevState,
  opens  \* bound: how often it may still be opened or refreshed

appVars == << spinner, laidOut, requestGetDevState, opens >>
vars == << shadowVars, appVars >>

\* A list position is one of the colours; there is none for an LED that is off.
Positions == [Leds -> {0, 1}] \ {[c \in Leds |-> 0]}
First == [c \in Leds |-> IF c = "LED_B" THEN 1 ELSE 0]

AppInit ==
  /\ Init
  /\ spinner = First /\ laidOut = Nothing /\ requestGetDevState = FALSE
  /\ \E l \in Loads : /\ asks = l.asks /\ faults = l.faults /\ presses = l.presses
                      /\ turns = l.turns /\ certificate = l.certificate
                      /\ opens = l.opens

\* updateLEDColorOnUi, from a state whose missing colours are taken as 0.
Shown(state, now) ==
  LET colour == [c \in Leds |-> IF c \in DOMAIN state THEN state[c] ELSE 0]
  IN IF Leds \cap DOMAIN state # {} /\ colour \in Positions THEN colour ELSE now

\* onReceive: the reported state first, then the desired one.
AppReceives ==
  /\ feed # << >>
  /\ feed' = Tail(feed)
  /\ requestGetDevState' = FALSE
  /\ spinner' = Shown(Head(feed).desired, Shown(Head(feed).reported, spinner))
  /\ UNCHANGED << laidOut, opens, boardVars, connVars, inbox, outbox, desired, reported,
                  listening, clean, stale, applied, bounds, ledVars, sensorVars, jitrVars >>

\* onItemSelected, changeLEDColor.
Layout ==
  /\ listening /\ spinner # laidOut
  /\ laidOut' = spinner
  /\ IF requestGetDevState THEN UNCHANGED << desired, reported, feed, inbox >>
     ELSE Desires(spinner)
  /\ UNCHANGED << spinner, requestGetDevState, opens, boardVars, connVars, outbox, listening,
                  clean, stale, applied, bounds, ledVars, sensorVars, jitrVars >>

Picks(colour) ==
  /\ listening /\ asks > 0 /\ asks' = asks - 1
  /\ spinner' = colour
  /\ UNCHANGED << laidOut, requestGetDevState, opens, boardVars, connVars, inbox, outbox,
                  cloudVars, clean, stale, applied, faults, presses, turns, ledVars,
                  sensorVars, jitrVars >>

\* onRefresh, which onResume calls too: the get may be sent before the
\* service has subscribed the screen to its answer.
Refreshes ==
  /\ opens > 0 /\ opens' = opens - 1
  /\ listening' = TRUE /\ requestGetDevState' = TRUE
  /\ \/ desired = Nothing /\ reported = Nothing /\ UNCHANGED << inbox, feed >>
     \/ /\ desired # Nothing \/ reported # Nothing
        /\ Tells("get", desired)
        /\ feed' \in {feed, Append(feed, [desired |-> desired, reported |-> reported])}
  /\ \/ UNCHANGED << spinner, laidOut >>
     \/ ~listening /\ spinner' = First /\ laidOut' = Nothing
  /\ UNCHANGED << boardVars, connVars, outbox, desired, reported, clean, stale, applied,
                  bounds, ledVars, sensorVars, jitrVars >>

\* onPause.
Closes ==
  /\ listening /\ listening' = FALSE /\ feed' = << >> /\ requestGetDevState' = FALSE
  /\ UNCHANGED << spinner, laidOut, opens, boardVars, connVars, inbox, outbox, desired, reported,
                  clean, stale, applied, bounds, ledVars, sensorVars, jitrVars >>

App == AppReceives \/ Layout

Next ==
  \/ ShadowNext /\ UNCHANGED appVars
  \/ App \/ Refreshes \/ Closes
  \/ \E colour \in Positions : Picks(colour)

Spec == AppInit /\ [][Next]_vars

\* The board's loop runs, the service answers, the screen is drawn.
FairSpec ==
  Spec /\ WF_vars(Board /\ UNCHANGED appVars) /\ WF_vars(CloudTakes /\ UNCHANGED appVars)
       /\ WF_vars(App) /\ WF_vars(LambdaRuns /\ UNCHANGED appVars)

----------------------------------------------------------------------------
(* Properties. *)

Quiet == task = "MQTT_RUNNING" /\ link = "up" /\ inbox = << >> /\ outbox = << >>

TypeOK ==
  /\ task \in {"OFFLINE", "CONNECT_CLOUD", "MQTT_SUBSCRIBE", "SUBSCRIBING", "MQTT_RUNNING"}
  /\ timeAsked \in BOOLEAN /\ g_publish_init_state \in BOOLEAN
  /\ val \in [InitKeys -> Nat] /\ DOMAIN desired \cup DOMAIN reported \subseteq AllKeys
  /\ link \in {"none", "up", "gone"} /\ table \subseteq Topics /\ subs \subseteq Topics
  /\ link # "up" => inbox = << >> /\ outbox = << >>
  /\ LedTypeOK /\ SensorTypeOK
  /\ spinner \in Positions

\* In a session that has lost nothing since the board reported its state, once
\* every message has arrived, in whatever order, the service and the board
\* agree: on the colours and the buttons, on what was asked, on the pins, and
\* on the readings displayed.
AgreeWhenQuiet ==
  Quiet /\ clean =>
    /\ \A k \in InitKeys : k \in DOMAIN reported /\ reported[k] = val[k]
    /\ \A k \in Settings \cap DOMAIN desired : desired[k] = val[k]
    /\ \A p \in (Ports \cap DOMAIN desired) \ stale :
         p \in DOMAIN reported /\ reported[p] = desired[p] /\
         IF desired[p] > 0 THEN << p, desired[p] >> \in pins ELSE << p, -desired[p] >> \notin pins
    /\ \A s \in Sensors \ stale :
         disp[s] = IF s \in DOMAIN reported THEN reported[s] ELSE 0

\* A colour the handlers have set since the last blink shines as bright as the
\* values kept for it say, while the light is on.
LitAsKept ==
  val["Light"] # 0 =>
    \A c \in applied : pwm[c] = IF val[c] = 0 THEN 0 ELSE val["LED_INTENSITY"]

\* A reading that was not read twice is not displayed, where the sensor has to
\* be steady: the reading of one failed transfer stays hidden.
OneBadReadingHidden ==
  [][ \A s \in Sensors :
        turns' # turns /\ Needed[s] > 0 /\ disp'[s] # disp[s] =>
          pre[s] = pre'[s] /\ disp'[s] = pre[s] ]_vars

\* A certificate that was registered is activated, after every retry.
RegistrationCompletes == certificate = "PENDING_ACTIVATION" ~> certificate = "ACTIVE"

\* A session that begins when nothing more goes wrong ends with the initial
\* state reported and every message handled, if the shadow exists.
SessionRepairs ==
  /\ faults = 0 /\ task = "MQTT_SUBSCRIBE" /\ link = "up"
  /\ desired # Nothing \/ reported # Nothing
  ~> Quiet /\ clean
=============================================================================
