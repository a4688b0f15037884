# Verification of the WINC1500 Secure Wi-Fi board firmware

TLA+ models of the firmware in `src/mcu-firmware/saml21g18b_sensor_board_demo/src`
(below: FW), with TLC configurations and TLAPS proofs.  The board is a SAML21
microcontroller with a WINC1500 Wi-Fi controller, an ATECCx08A secure element,
three buttons, sensors and a USB port; the firmware provisions it (over USB or
over its own soft AP) and connects it to AWS IoT.

## 1. Inventory

| Component (source) | State it keeps | Operations | Interacts with |
|---|---|---|---|
| Wi-Fi task (`winc15x0.c`, `main.c`) | `wifi_states`, `gu8WiFiMode`, `gAPEnabled`, `gbConnectedWifi`, `receivedTime`, server socket | `wifiTaskExecute`, `wifi_cb`, `m2m_wifi_socket_handler`, role switches, button handlers | controller (requests, event callbacks), cloud wrapper, stores, buttons |
| Provisioning protocol (`wifi_prov.c`) | `prov_state`, `gDefaultSSID/Key`, `gAuthType` | `parse_iot_cmd`: DISCOVER, CONFIG, CONDONE | called from the socket callback; writes slot 8 |
| Credential stores (`nvm_handle.c`, slot 8 via `ecc_provisioning_task.c`) | flash record, slot 8 of the ATECCx08A | store, read | Wi-Fi task, provisioning, USB host |
| MQTT client (`MQTTClient.c`, `cloud_wrapper.c`) | connected / manually disconnected flags, reconnect interval, ping, subscription table | connect, yield, subscribe, publish, disconnect | TLS port, Wi-Fi task |
| TLS port (`network_winc1500tls_wrapper.c`, `timer.c`) | last event, error, socket, receive buffer | connect, read, write, `wait_for_event` | runs the controller's callbacks while it waits |
| USB kit protocol (`usb_hid.c`, `kit_protocol_*.c`, `ecc_provisioning_task.c`) | report buffer, message counter, provisioning state, `aws_iot_status` | report interrupt, `zero_touch_provisioning_task`, kit commands | USB host, secure element |
| Buttons (`button.c`) | per button: previous state, tick of the press, press time, index of the next long press | `button_check`, `buttonTaskExecute`, registrations | RTC tick, Wi-Fi task |
| Shadow (`winc15x0.c`, `iot_message.c`) | light state, colours, intensity, buttons, `g_publish_init_state` | `MQTTSubscribeCBCallbackHandler_shadow`, `..._shadow_get`, the short presses, `EnvSensorCallbackHandler` | MQTT client, LED, buttons, sensors |
| LED (`led.c`, `rtc.c`) | mode, phase of the blinking, PWM outputs | `toggleLED` (interrupt), `led_ctrl_set_mode`, `setColor` | shadow handlers, Wi-Fi task, RTC interrupt |
| Environment sensors (`env_sensor.c`) | last, counted and displayed readings | `env_sensor_execute` every two seconds | shadow |
| Just-in-time registration (`ZTLambdaJITR.py`) | certificate, thing, policy (in AWS) | `lambda_handler` | the board's first connection |
| Alexa skill (`index.js`) | none | `setLEDState`, `setGPIO` and readers | shadow |
| Mobile application (`WINC1500SecureWiFiBoardActivity.java`) | the screen's list of colours, `requestGetDevState` | `onReceive`, `onItemSelected`, `onRefresh`, `onPause` | shadow |
| Provisioning scripts (`ProvisionScripts`) | files, AWS resources | sequential commands | USB, AWS |

The firmware has one thread: `main` calls `zero_touch_provisioning_task`,
`wifiTaskExecute`, `buttonTaskExecute` and, every two seconds,
`env_sensor_execute`, for ever.  What is hard about it:

* callbacks of the controller run inside `m2m_wifi_handle_events`, which is
  called at the start of `wifiTaskExecute` **and** by every blocking operation of
  the MQTT client, so the task's state changes under a cloud operation;
* requests to the controller are asynchronous: their answers arrive in later
  turns, in an order the host does not choose, after the board may have changed
  its role;
* the USB and RTC interrupts share data with the loop;
* requests fail, and most results are not looked at;
* power fails between the writes of the two credential stores;
* the shadow of the board has three writers (board, skill, application), its messages are
  sent once and overtake each other, and two of the writers answer what they hear;
* the LED has two writers, one of them an interrupt.

What would make each component correct: the radio has one role at a time and
the host knows which; the unauthenticated provisioning server is open only in AP
mode; a station that lost its association gets it back; what is committed to
flash passed the checks; the MQTT client neither believes in a dead connection
for good nor gives up a live one; every complete USB command is answered once;
a press of a button has one effect; shadow and board agree once every message has arrived; a
board whose certificate is active may use its shadow.

## 2. Modules

| Module | What it is |
|---|---|
| `Winc` | The WINC1500 and its environment (access point, DHCP server, phone), **external**: what the driver's headers promise and `winc15x0.c` relies on. The controller is one record; each host request is an operator from record to record. |
| `WifiTask` | The main loop: Wi-Fi task, callbacks, soft-AP provisioning, stores, long press, USB `setWifi`, power cycles. Composes `Winc`. |
| `Mqtt` | The MQTT client (`MQTTClient.c` and its two wrappers) under the states of the task that drive it, with a broker and a link that fails. |
| `PacketStream` | Abstract: what the port promises to the client, whole packets in order, each byte once. |
| `TlsPort` | The port of the client to the controller's sockets, byte by byte, with `readPacket` as its reader. Implements `PacketStream`. |
| `Timer` | The countdown timers over the wrapping millisecond counter; pure operators. |
| `Ticks` | What time drives in the main loop: the yield's timer and the buttons, against the RTC interrupt. EXTENDS `Timer`. |
| `KitChannel` | Abstract: what the kit protocol promises between a script and the board; the executions are a sequence, so that a repeated one is a step and not a stutter. |
| `UsbKit` | The transport of the kit protocol: report interrupt, shared buffer and count, main loop, a script as the host. Implements `KitChannel`. |
| `EccProvisioning` | Detection and configuration of the ATECCx08A and the provisioning commands, call by call. |
| `Led` | The RGB LED: PWM outputs shared by the blinking interrupt and the shadow handlers. |
| `EnvSensor` | When a reading is displayed and reported, with reads that fail. |
| `Jitr` | The registration function in AWS: its calls, repeated, concurrent or cut short. |
| `Shadow` | The board's shadow handlers, the shadow service and the skill. EXTENDS `Led`, `EnvSensor` and `Jitr` and composes them with the connection in its effects. |
| `ShadowApp` | The application's screen beside them. EXTENDS `Shadow`; states the properties. |
| `MCWifiTask`, `MCMqtt`, `MCEccProvisioning`, `MCShadow` | Values of the constants for TLC. |
| `WifiTask_proofs`, `Mqtt_proofs`, `TlsPort_proofs`, `Ticks_proofs`, `UsbKit_proofs`, `EccProvisioning_proofs`, `ShadowApp_proofs` | Theorems. |

`Mqtt` sees of the task only its cloud states, `WifiTask` sees of the client only
whether it is connected and whether a call has returned; `TlsPort` says what
`Mqtt` may assume of `Sends` and `Receives` (`PacketStream`: packets whole, in order, each once,
those left in the buffer first), and when an operation may never return.
`EccProvisioning` takes from `UsbKit` that a command is executed whole, once and in
order (`KitChannel`); `WifiTask` sees of both only that `setWifi` writes slot 8.  `Shadow` takes from
`Mqtt` that a session subscribes the topics of its table again after a lost link, and loses what was
on the way; a connection succeeds only with an active certificate, which is `Jitr`'s part.

### Correspondence of `WifiTask`

`pc` is the place in the loop: `usb` (`zero_touch_provisioning_task`), `poll`
(`m2m_wifi_handle_events` at the start of `wifiTaskExecute`), `task` (its
switch), `buttons` (`buttonTaskExecute` and the sensors); `connect`, `subscribe`,
`yield` and `disconnect` are the blocking cloud operations, and `halted` is a
`while (1)` after a failed request.  The other variables carry the names of the
C globals (`wifi_states`, `gu8WiFiMode`, `gAPEnabled`, `gbConnectedWifi`,
`receivedTime`, `prov_state`); `cred` is `gDefaultSSID/Key/gAuthType`, `ecc` slot 8,
`nvm` the flash record, `sockCb` the registered socket handler, `mqtt` what the
task can see of the client, `hifq` the events waiting in the host interface, and
`winc` the controller.

One action is one callback (`Dispatch`), one case of the switch (`Task...`), one
return of a blocking operation (`...Returns`), one USB command (`ZeroTouch`), or
one round of the buttons.  A controller notice is first *due* and then *raised*
into `hifq`: between the two the host may take any number of steps, which is how
stale answers arise.  `WifiSwitchtoSTA` is the whole function with its early
return and its `while (1)`; `SockRecv` is a whole frame, with the commit to flash
and the role switch that `parse_cmd_frame` makes when `prov_state` is `PROV_DONE`.

Abstracted: LEDs, logging, topics, payloads, uuid; frames that fail the length or
start-of-frame test (no effect); LISTEN, SEND and CONNECTED events (their
handlers change nothing the model keeps: LISTEN is folded into `SockBind`).

### Correspondence of `Mqtt`

`pc` is where the one thread is: `app` (the task, outside any call), `tls`
(`iot_tls_init` and `iot_tls_connect`), `connack`, `suback`, `resuback` (`waitfor`), `subscribe`
and `resub` (between topics), `loop` and `keepalive` (a turn of `MQTTYield`).  `task` is
`wifi_states`; `AWAY` stands for the states of AP mode and of association.  The
flags, timers, `interval` and the table carry the names of the fields of `Client`;
`sockets` counts the driver's sockets and `mine` says whether `my_socket` is one of
them.  `rx` holds the packets of the last receive event that were not read: it is
the only variable that neither `Reset` nor `ClosesSocket` touches.  An attempt to
connect that fails, a wait that ends and a resubscription that fails each continue
as their caller does (`ConnectFails`, `ResubscribeFails`), in the same step.  `SysTime` is
`wifi_cb` inside any wait.

The broker's side is external: it answers CONNECT, SUBSCRIBE and PINGREQ in
order and publishes to subscribed topics.  `faults`, chosen once from `FaultSets`, says what
may go wrong in a behaviour; the module lists what each name means.  A liveness property can so
be stated for the behaviours with few faults (`Fair`) in the same run as the safety ones for all.

### Correspondence of `TlsPort`

`waiting` is the event `wait_for_event` spins for; `owed` counts the replies the
controller owes, `hif` holds those it has raised.  `HandleEvent` is one callback
(`resolve_cb` or `socket_cb`) run by `m2m_wifi_handle_events`; `polling` is true from the first
callback of a poll until the poll returns.  Any number of replies may be handled in
one poll, and only then is `state` compared, as in the code: `StillWaiting` goes round
again, `AfterDns`, `AfterConnect`, `AfterSend` and `AfterRecv` (`WaitEnds`) are the rest of the operation
that was waiting.  Outside any operation the main loop polls, with nobody waiting.  `received_bytes`
is taken modulo `Wrap`, `buf_ptr` is an offset.  A byte is a record of its
connection, its place in the stream, and its place in a packet of a given size; the
contents do not matter.  `faithful` is a history variable.

`PacketStream` keeps of all this a cursor, how many bytes after it are `held`, and the `rest`
of a packet that was begun.  `held` is `Unread`: `received_bytes`, but none while a read waits, for
an event handled in that wait is taken in by the read it answers, in one step with the first
byte.  `rest` is `Rest`: what `readPacket` has yet to ask for, which between header and length stands
only in the byte to be read next.  A step of the port is one of `PacketStream`'s (`Opens`, `Closes`, `Sends`,
`Begins`, `Continues`) or a stutter.

### Correspondence of `Timer` and `Ticks`

`Timer` translates `timer.c` operator by operator; `Plus` is the 32-bit sum.  In
`Ticks`, `pc` says whether the loop is in `wifiTaskExecute`, in a yield, or at
`buttonTaskExecute`; `RtcTick` may happen at any point.  The variables of one button
carry the names of its array elements.  `since` is a history variable: the time
since the yield's timer was set.

### Correspondence of `UsbKit`

`g_usb_buffer` is the buffer up to its length, as the pieces (reports) in it;
`g_usb_message_received` is the count, and `board` holds the place of the loop and the locals of
`usb_send_response_message`.  `ReportOut` is the interrupt and may strike between any
two steps of the loop; the end of an answer is four of them (`ClearBuffer`,
`ResetLength`, `LoadCount`, `StoreCount`), because the memset, the length and the decrement
are not protected.  `Handle` goes to the end of the parser, `Execute` covers
`kit_board_application` and the serialisation of its result over the buffer; a message that does
not parse is sent back as it is, as `zero_touch_provisioning_task` does.
`inbox` is what the host's driver holds; `HostBegins`, `ReportOut`, `HostReads` and `HostAccepts`
are `kit_write_app` and `kit_read_app` of `mchp_aws_zt_kit.py`, and `HostRestarts` another script.

`habit` says how the scripts are used.  Those of the repository sleep for two or
three seconds between commands (`kit_set_wifi.py:36`, `kit_get_thing_id.py:21`), in
which the board gets back to its loop: "patient" is a host that starts a command
only then.  A "hasty" one starts it as soon as it has the last answer, which
the board is still clearing away.

### Correspondence of `EccProvisioning`

`g_provisioning_state` is the global of that name, `status` whether `g_aws_iot_status` holds
`AWS_STATUS_SUCCESS`, `metadata` the handler's local copy of slot 8, `chip` the ATECCx08A.
A command is `command` with `todo`, the calls of cryptoauthlib it has yet to make: the
operators `...Calls` are the bodies of the handlers, in order.  `Call` makes the next one,
`CallFails` has it fail, with or without its effect, and ends the command as the
handlers' `break` does; `Answer` is the end of `kit_board_application`.  `PowerCycle` may come
anywhere, and the chip changes its address only at a power cycle or a sleep.
The module is the ECC508 build, in which `main` serves kit commands only; in the
other one, the same handlers of `init`, `setWifi` and `getThingID` run in the main loop.
`told` is a history variable: what the answers have told the host is stored.

### Correspondence of `Shadow`, `ShadowApp`, `Led`, `EnvSensor` and `Jitr`

`task` is the part of `wifi_states` from GET_SYS_TIME to MQTT_RUNNING (`OFFLINE` before), and
`SUBSCRIBING` the place in MQTT_SUBSCRIBE between its two subscriptions, where `SysTime` may set
a state that is then overwritten.  `val` is one variable for the globals `g_red_led_value`,
`g_light_state`, `g_button1_state` and so on, by the names of their shadow keys.  `HandleDelta` and `HandleGet`
are the two subscription handlers, from the parsing of the keys to the last publication;
`Receive` takes any message on the way, not only the first.  `Reports` is `cloud_mqtt_publish`:
without a connection the report is lost, and nobody looks.  `SubscribeGet` and `SubscribeDelta` are the
two halves of MQTT_SUBSCRIBE, whose results are not looked at either.

The shadow service is external: `Desires` and `Accepts` merge an update into one half of the
shadow and send the difference to a subscribed board; `Answers` is a get.  `Ask` is the skill
(`setLEDState`, `setGPIO`), or somebody who writes to desired directly.  `listening`, `feed` and the variables of
`ShadowApp` are the application's screen: `onItemSelected` is called at the layout that follows a change of
the list, whether the user or `onReceive` made it, and `requestGetDevState` is what the code
uses to tell the two apart.

`Led` keeps the PWM compare values as levels; `toggleLED` is the interrupt's.  `EnvSensor`
chooses any reading at each turn: a failed read leaves the local variable uninitialised.
`Jitr` is one list of calls; `next[i]` is how far invocation `i` has come, `Raises` an exception
other than the ones the function catches.  `clean`, `stale` and `applied` are history variables.

## 3. Runs

| Run | Instance | Shows |
|---|---|---|
| `wifi_faults` | one data connection, two queued events; every request and every access to slot 8 may fail, a USB host writes slot 8, power fails | the type invariant; `OneRole`, `ServerOnlyInApMode`, `StateFitsMode`, `StoredCredentialsValid` |
| `wifi_live` | two queued events, refused binds, fairness | `NoLostReconnect`, `StoresAgree`, `StationComesBack` (the first two hold only while requests succeed) |
| `wifi_commit` | no faults, fairness | **finding**: an event queued behind CONDONE makes the board forget to switch to station mode |
| `mqtt_faults` | two topics, a table of two, four sockets, up to three failed attempts in a row; one set with all faults, one without `offline`, one without the returns to CONNECT_CLOUD, one without `send` and `slow`, one with `link`, `dns` and `offline` alone; fairness | the type invariant; `ConnectedMayReconnect`, `PingAccounted`, `ResubscribedSoFar` under all faults; `TableHasNoTwins` in the other sets, each of which lacks one of three faults (`Orderly`); without `send` and `slow`, `TableIsSubscribed` with reconnections, role switches and re-associations; where only links, addresses and the station connection fail, `DeadConnectionNoticed` and `Recovers` |
| `mqtt_socket` | a link lost before CONNACK | **finding**: the socket of a failed attempt is never closed |
| `tls_bytes` | two connections of up to 8 bytes in packets of 2 to 4, a 6-byte buffer, events of whole packets | the type invariant; `StreamFaithful`, `BufferHoldsUnread`, `WaitsBetweenPackets`, `StreamSpec` (refinement) |
| `tls_split` | one packet of 4 bytes, split over events | **finding**: the count of bytes wraps and more bytes are reported than there were |
| `tls_wait` | one connection with a late DNS reply | **finding**: `wait_for_event` never returns |
| `ticks_safety` | a counter of 17 values in steps of 2, times 3, 4 and 6 | the type invariant; `ReportedOnce`, `YieldLastsItsTime` |
| `kit_transport` | three commands of one or two reports, answers of two, one retry, patient and hasty hosts, any number of restarted scripts; fairness | the type invariant; `ChannelSpec` (refinement), `AnswerIsOwn`, `FlagTellsMessage`, `WaitEnds` |
| `shadow` | two colours, a button, a port, a thermometer; seven loads of requests, failures, presses, readings and openings of the screen; fairness | the type invariant; `AgreeWhenQuiet`, `LitAsKept`, `ActiveIsComplete`, `OneBadReadingHidden`, `RegistrationCompletes`, `SessionRepairs` |
| `ecc_safety` | one network, two device keys, three offers (one badly signed); any call may fail, power may fail anywhere | the type invariant; `ToldIsKept`, `FlagIsLast`, `LockIsLast` |

### Bounds

* `WifiTask`: `MaxEvents` bounds the event queue: two is what the interleavings need
  in which a stale answer overtakes a frame or a DISCONNECTED. `MaxConns` bounds the
  data connections of one visit of the phone. One network name and one pass
  phrase, with none, give every case of the checks (valid, invalid, open,
  protected, empty slot).
* `Mqtt`: two topics are those the firmware subscribes to, and `MinWait` and `MaxWait` are the code's own
  values. A table of two (`MaxHandlers`, five in the code) is full with them, so a third entry would overflow it, and
  four sockets (`MaxSockets`, seven in the code) can be lost one by one to the last; with the code's
  values all faults together are beyond TLC, and the theorems hold for every value. `MaxInFlight` bounds only what the
  broker publishes on its own: one message is enough to stand before an answer.
  `MaxRefusals` bounds failed attempts in a row; three is what the back-off
  (1, 2, 4, 8 seconds) survives.
* `TlsPort`: a 6-byte buffer holds one, two or three packets, and two connections let
  one inherit what the other left. At most two requests for an address are
  outstanding. Events are no larger than the buffer and hold whole packets:
  larger ones lose bytes (`Fill` models it) and split ones wrap the count
  (`tls_split`), so both are limits of the code and not of the model.
* `Ticks`: the width is not a multiple of the step, as 2^32 is not of 20, so the
  counter takes every phase; `Debounce < Long < Wrap` as in the code, and several
  presses fit between two wraps.
* `UsbKit`: `MaxCommands` bounds the commands sent in all: three let one be executed, one
  be lost or left in the buffer, and one meet what remained. Two reports are
  what it takes for an interrupt to fall inside a message. `Retries` is one instead of
  five: what matters is whether retries remain. `CHECK_DEADLOCK FALSE`, because after the last
  command everything may have been done.
* `EccProvisioning`: two keys tell the present key from the one a certificate is for,
  the three offers have a right and a wrong certificate for one key, and one for
  the other. Failures, power cuts, commands and presses of SW1 are not bounded.
* `ShadowApp`: `Loads` bounds, per behaviour, how often people ask (`asks`), something fails
  (`faults`: a lost link or subscription, a power cycle, a re-association, an exception of the function),
  a button is pressed, a sensor read and the screen opened. Each load combines those that
  interact: two requests that overtake each other around a failure, a press or a reading whose report is lost, a
  request or a press under an open screen, a first registration with two failures. All of them
  together in one behaviour are beyond TLC; the theorems do not depend on them. Two colours
  make every shape of an update (one, both, none), one pin tells set from clear.
  `CHECK_DEADLOCK FALSE`, because the bounds run out.

### Fairness

`WifiTask`: `WF(Turn)`: the loop never pauses. `WF(Dispatch)`: events are handled in the
poll and while a blocking operation waits. `SF(ControllerRaises(k))`: a notice the
controller owes is raised in the end; strong, because the queue may be full at
times. Nothing is assumed of the blocking operations (they may hang for ever),
the joins, the phone or the user.

`Mqtt`: `WF(Client)`: the thread goes on, which takes for granted that every operation of
the port returns. That is not true of all runs of the code: `tls_wait` shows when
one does not. `WF` of the two timers: time passes; of `BrokerHandles`: a broker that is
reachable answers. Nothing is assumed of the link, and no new SYS_TIME is.

`UsbKit`: `WF(MainLoop)`: the loop never stops, and every send of a report returns (accepted
or not). `WF` of `ReportOut` and of `HostReads \/ HostAccepts`: a script in the middle of a message
goes on, and one that waits takes what has arrived. Nobody has to send a
command, nor to start a script.

`ShadowApp`: `WF` of the board's own steps (the loop goes on, a lost link is reconnected by the yield, and
a message that has arrived is delivered), of `CloudTakes` (the service takes what it is sent), of the
screen's callbacks, and of the registration function (an event that invokes it is retried
until it has run). None of who asks, presses, opens, nor of the failures.

`EccProvisioning` has no liveness property and no fairness: a call may
fail for ever.

### What the runs leave open

* `TableHasNoTwins` is stated for behaviours without one of late answers (`slow`), `offline` and a return to
  CONNECT_CLOUD (`away` or `again`: a role switch, a re-association); its premise `Orderly` says so. With all three
  the code registers a topic twice: a subscription times out, its SUBACK answers that of the next topic,
  and the other SUBACK stays in the buffer. The link dies unnoticed, and the next CONNECT_CLOUD finds no station connection and
  leaves table and buffer as they are, so `MQTTSubscribe` goes through the topics once more and the
  SUBACK that was left enters its topic again. The run has a set with all faults, so the other
  invariants are checked there too; no text of the repository speaks of the table, so this is no finding.
* `TableIsSubscribed` is stated for behaviours without failing sends and late answers
  (`Unfailing`). With them `MQTTResubscribe` may stop half-way: the client then counts
  as connected, and nothing subscribes the rest of its table until the connection is lost again.
* `Recovers` needs the refused and lost attempts to be few: each leaves one of
  `MaxSockets` sockets open (`mqtt_socket`), and without sockets no attempt succeeds.
* A late SUBACK answers the next subscription: `waitfor` does not compare packet
  identifiers, so a topic may be registered before the broker knows of it.
* A hasty script loses commands: a report that arrives while the last answer is
  cleared away is wiped or its count is lost (`usb_hid.c:123-126`), and the script then
  waits for ever. `ChannelSpec` shows that even then nothing is executed twice, late or in
  part: `log.executed` lists every execution, and each is of a newer command than all before it; `AnswerIsOwn`, `FlagTellsMessage` and `WaitEnds` are stated for the pauses the scripts make.
* `press_time` (`button.c:152`) is not reset when the button is up: a touch within the tick
  that follows a long press counts as long at its second check, where `button.h:10`
  speaks of five seconds. `ReportedOnce` says what holds all the same.
* A timer whose end lies before the wrap of `ms_ticks` and is polled after it is missed
  (`timer.c:16`); `ExpiredExactly` says when.
* A chip whose pre-configuration was cut short after its new address is taken for
  configured at the next power on (`cryptoauthlib_init` returns `ATCA_SUCCESS` for a chip that is not
  locked, `ecc_provisioning_task.c:280`), and no command succeeds on it.
* `getStatus` resets the status before it reads it (`ecc_provisioning_task.c:576`), so its answer is
  always a success.
* After a refused `saveCredentials` the flag and host name of earlier credentials may stay
  over certificates that do not verify; `FlagIsLast` says only that something was written.
* The application's screen answers what it hears. `onItemSelected` cannot tell a report
  of the board from the user's finger unless a get is outstanding, so it writes the colour
  shown to desired. The board reports only what an update names: white asked of a board that is
  blue is reported as the keys that changed, the list shows those alone (the others count as 0), and what is
  written back in the end is yellow. `AgreeWhenQuiet` holds all the same: board and shadow agree, on a
  colour nobody asked for.
* `led_ctrl_set_mode(LED_MODE_TURN_ON)` stops the blinking and leaves the outputs as they are: half the time
  the LED is dark once the cloud is connected, where `___Procedure_to_commission_board.txt:38` expects
  it "steady green when connected". `LitAsKept` speaks of colours set since the last blink only.
* Asked for a colour while `Light` is 0, the board lights it all the same (`setColor` of a single
  colour does not ask); `LitAsKept` is stated for a light that is on.
* The pins are not restored after a restart (the get handler skips `PA` and `PB`), nor is a report of theirs that
  was lost ever repeated: `AgreeWhenQuiet` excepts them (`stale`). The same holds for readings: one whose
  report was lost is not reported again until it changes.
* The shadow of a new thing does not exist, the service does not answer the get, and so the initial state
  is never reported in the first session; `SessionRepairs` speaks of shadows that exist.
* The uv sensor needs no second reading (`Needed` is 0), so a failed read of it is displayed and
  reported; `OneBadReadingHidden` is about the others.
* The get handler collects what it reports in `node_info[4]` (`winc15x0.c:1040`) and handles five settings; a get
  that names all five overflows it. (The handler of differences has seven places for its seven keys,
  `winc15x0.c:802`.) `Shadow` keeps what is reported whole; its instance has four settings, and the skill and
  the screen write at most three to desired.
* The task never waits for the phone's DISCONNECTED before it leaves AP mode
  (`winc15x0.c:1307` says it does); taken in station mode, that event restarts the
  association, which `NoLostReconnect` shows to be harmless.

## 4. Proofs

`WifiTask_proofs` proves, for all networks, pass phrases, offers, bounds and sets of
faults, under the named assumptions of `Winc` and `WifiTask` on the constants:

| Theorem | Property | Argument |
|---|---|---|
| `TypeCorrect` | `TypeOK` | inductive as it stands; the controller's operators are closed on `WincState` |
| `OneRoleHolds`, `ServerOnlyInApModeHolds`, `StateFitsModeHolds` | the same names | `RoleInv`: the three properties, and "SWITCHING_TO_STA is reached only with the soft AP off and the server closed", without which the turn that takes the station role could leave either on |
| `StoredCredentialsValidHolds`, `StoresAgreeHolds` | the same names | `CredInv`: between an accepted CONFIG and the commit, the credentials in memory are valid and equal slot 8, even if they are read back in between |
| `NoLostReconnectHolds` | `NoLostReconnect` | `ReconnectInv`: besides, the first turn starts with nothing queued or owed, so that the initial association cannot be lost |

`Ticks_proofs` proves, for every width of the counter and all times (under
`WrapAssumption` and `TimesAssumption`: the yield and a step fit into the range):

| Theorem | Property | Argument |
|---|---|---|
| `ExpiredExactly` | (about `Timer`) | by cases on whether the end lies beyond the wrap: there the timer counts from its start and is exact; before the wrap it compares absolute values, and is missed when polled after it. Both directions, so it says exactly which timers are missed |
| `TicksTyped` | `TypeOK` | inductive |
| `YieldLasts` | `YieldLastsItsTime` | `YieldInv`: the timer is the one set when the yield began, and until the history variable reaches its bound `ms_ticks` is that instant plus the time since; then `ExpiredExactly` |
| `ReportedOnceHolds` | `ReportedOnce` | `ReportInv`: `prev_state` counts the short callbacks, and a long one implies `prev_state = 1`, because the first long time exceeds the debounce time |

`Mqtt_proofs` proves, for every sequence of topics, size of the table, number of sockets and set of
faults (under the assumptions on the constants of `Mqtt`, which bound nothing from above):

| Theorem | Property | Argument |
|---|---|---|
| `TypeCorrect` | `TypeOK` | inductive; every sequence operation by a lemma of its own (`Part`, `Cut`, `Received`), because packets move between three sequences |
| `ConnectedMayAlwaysReconnect` | `ConnectedMayReconnect` | `Connection`: a socket of one's own stays open until the client disconnects, and the flags say so at each place of the thread |
| `PingAlwaysAccounted` | `PingAccounted` | inductive with `Network` and `Handshake`: before CONNACK nothing of an earlier session but what is left in `rx` can be an answer to a ping |
| `ResubscriptionIsComplete` | `ResubscribedSoFar` | `Resubscription`: counts the SUBSCRIBEs on the way and the SUBACKs owed, among which those left in `rx` have to be told apart; only then does "any SUBACK" imply "this topic's" |
| `TableIsAlwaysSubscribed` | `TableIsSubscribed` | `Heard`: before CONNACK the table is empty unless the thread comes from `MQTTYield`, and then it passes through `MQTTResubscribe`, for which `ResubscribedSoFar` speaks; while `MQTTSubscribe` waits, one SUBSCRIBE of its topic is on the way, or the SUBACK of one that the broker has handled, and at no other time is there either |
| `NoTwinsIfOrderly` | `TableHasNoTwins` | where cloud_connect always finds the station connection or the task never returns to CONNECT_CLOUD, `Table`: a pass over the topics starts with an empty table, and registers each topic at most once; where answers are never late, `Owed`: a SUBACK is on the way or in the buffer only while the client waits for it, so the pass after a CONNECT_CLOUD that did nothing subscribes nothing (`Dead`) and leaves the table as it was (`TableLeft`) |

`EccProvisioning_proofs` proves, for every set of networks, device keys and offers, any call failing
before or after its effect, and power failing between any two:

| Theorem | Property | Argument |
|---|---|---|
| `TypeCorrect` | `TypeOK` | inductive, with "`todo` is the end of the list of the command's calls" (`InOrder`) |
| `FlagIsLastAlways` | `FlagIsLast` | `FlagStage`: while the write of the flag is among the calls made, so are those before it, and their results are in the chip |
| `LockIsLastAlways` | `LockIsLast` | `PreconfigureStage`, `AddressIsKept`: the same for the configuration, over a power cycle in between |
| `ToldIsKeptAlways` | `ToldIsKept` | `Kept` and one stage per command (`WifiStage`, `UnsetStage`, `CloudStage`): slot 8 differs from what was told only while the command that changes it is in progress, and then its copy in `metadata` has the rest |

`TlsPort_proofs` proves, for every size of the buffer, of packets and of streams, any number of
connections and any set of replies handled in one poll, all but the first under `Limits`: an event of the
controller holds whole packets and is no larger than the buffer (without the first,
`tls_split` is the counterexample; without the second, `Fill` loses the pieces before the last).
The types need no limit.

| Theorem | Property | Argument |
|---|---|---|
| `TypeCorrect` | `TypeOK` | `Typed`: a connection is made only when one more is allowed, a body that is read is never empty, and an event that brings data brings some; so a read asks for at least one byte, `Fill` leaves bytes of the stream or what was there, and the count may wrap but stays in its 32 bits |
| `StreamIsFaithful` | `StreamFaithful` | `IInv`: the bytes in the buffer, in an event on the way and at the broker are consecutive places of a connection (`Run`) that make up whole packets (`Closed`); the byte in the buffer that is next fits the phase of `readPacket` (`Between`) |
| `BufferAlwaysHoldsUnread` | `BufferHoldsUnread` | `Between`, and `Receiving` during a read: what was read, what one event holds and what the broker has kept add up to what was sent |
| `WaitsOnlyBetweenPackets` | `WaitsBetweenPackets` | `Between`: an empty buffer means that the reader is between packets; `Waits`: each reply but a DNS one is owed once, to the operation that waits for it, so no late answer fills the buffer |
| `ImplementsStream` | `StreamSpec` | `StreamStep`, one case per action, from `IInv`: a read of the buffer is `Begins` or `Continues` because the byte to be read next says how long its packet is and all of the packet is in the buffer (`BufferStreams`); the read that an event ends takes all of it in and its first byte (`RecvStreams`); a connection is closed between packets; the rest stutters |

`UsbKit_proofs` proves, for every number and length of commands and answers, and of retries:

| Theorem | Property | Argument |
|---|---|---|
| `TypeCorrect` | `TypeOK` | with `BoardCounts`: the interrupt only adds to the count between `LoadCount` and `StoreCount`, so the decrement never takes it below zero |
| `ImplementsChannel` | `ChannelSpec` | `PiecesHonest`, `AnswersHonest`, `SentInOrder`: a command whole in the buffer is newer than every one executed (`Executed`, the range of the sequence of executions), so that executing it only ever appends a newer one, and every piece of an answer is of an executed one; then step by step, for patient and hasty scripts |
| `AnswerIsItsOwn`, `FlagIsRight` | `AnswerIsOwn`, `FlagTellsMessage` | `PatientInv`: the board is in one of four phases (`Collecting`, `HasCommand`, `Answering`, `Clearing`), each of which fits the command the script sent last |

`ShadowApp_proofs` proves, for all sets of colours, sensors, readings, requests and loads, under
`ShadowAssumption` (a key of the shadow stands for one thing: `winc15x0.c` names them apart),
`RequestsAssumption` (what is asked for are keys of the board, those of the LED with numbers: the handlers
read nothing else, and cJSON gives them numbers) and `ListAssumption` (the screen has a blue):

| Theorem | Property | Argument |
|---|---|---|
| `ActiveIsAlwaysComplete` | `ActiveIsComplete` | `Registered`: how far any invocation has come says what exists; nothing is ever taken away |
| `OneBadReadingIsHidden` | `OneBadReadingHidden` | an action property of every step; a lemma that only `SensorTurn` and a power cycle touch the readings |
| `LitAsKeptAlways` | `LitAsKept` | inductive with the types it needs (`Lit`): an update that changes the light or the intensity sets every colour anew |
| `TypeCorrect` | `TypeOK` | `Typed`: besides, every message on the way names keys of the board, with numbers for the LED's, and only one to the board is a difference or an answer; without it what a handler stores could be anything |
| `AgreeWhenQuietAlways` | `AgreeWhenQuiet` | `Agreement`, below |

`AgreeWhenQuiet` speaks of moments with no message on the way, and messages overtake each other on
the way to the board; `Agreement` says at every moment which message makes up for a difference:

* `Session`: who has reported its state is connected and hears every difference, so no message
  of either kind is lost unseen.
* `Mirrored`: what the last report on the way that names a key says (`Heard`), or the shadow if none
  does, is what the board has. Reports stay in order, so the last one wins.
* `Displayed`, `Pinned`: the same of readings and pins, except those whose last report was lost and has no
  later one. A pin is told by two values of its port, and fits whatever of them is heard.
* `Asked`: what is desired is reported, or a difference that says so is on its way to the board, or some
  report is on its way to the service. The last is what makes overtaking harmless: the board may have applied
  an older difference after a newer one, but then it has reported that, and the service
  will compare and send the newer one again. A board that applied it and did not
  report would break this conjunct; reports that say what was asked instead of what is kept,
  `Mirrored`.

Only model-checked: the liveness properties (`StationComesBack`,
`DeadConnectionNoticed`, `Recovers`, `WaitEnds`, `RegistrationCompletes`, `SessionRepairs`; fairness and
ENABLED are beyond the prover) and the findings.  Every safety property of the passing runs is a theorem,
those of `TlsPort` under the limits named above.

## 5. Not modelled

* `aws_wifi_ssl_callback`, `ecc_transfer_certificates` and the ECDSA helpers: glue
  between two vendored libraries, without state of their own.
* Peripheral drivers, the vendored Wi-Fi, cryptography and JSON libraries: nearly all of the repository's
  lines, among them the controller's host driver, whose behaviour `Winc` and `TlsPort` state as
  far as the firmware relies on it.
* The `board:` commands but `board:app`, and the `device:` commands that pass bytes to the chip:
  no script sends them.
* The pages of the flash record: `store_data_in_flash` is one step in `WifiTask`. The record is read
  only when slot 8 cannot be, and `StoresAgree` is about commits that complete.
* The skill's intents that read and speak, the accounts and lists of devices of the
  mobile application, the desktop application and the deployment templates: no state shared with
  the board but the messages modelled as its environment.

## 6. Plan

Done: the main loop, the MQTT client, the TLS port, timers and buttons, the USB
transport, the provisioning of the chip, the shadow with its three writers, the LED, the sensors and the
registration; the theorems of section 4.  What is left, in this order:

1. `FlashRecord`: `store_data_in_flash` page by page under power failure, refining the
   atomic `nvm` of `WifiTask`.
2. Abstract specifications: `RadioRole` (one role, switched only through
   none), implemented by `WifiTask`; `Session` (connected or not, subscribed set), implemented
   by `Mqtt` and taken by `Shadow`.

The project keeps to a dozen runs; related questions about one module share a run.
