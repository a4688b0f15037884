----------------------------- MODULE EnvSensor -----------------------------
(***************************************************************************)
(* The environment sensors (env_sensor.c): a reading is displayed, and     *)
(* reported, when it has come often enough in a row and is far enough from *)
(* the one displayed.                                                      *)
(*                                                                         *)
(* Abstracted: units.  A read that fails leaves the reading uninitialised, *)
(* so a turn may find any reading, whatever the chip measures.             *)
(***************************************************************************)
EXTENDS Naturals

CONSTANTS
  Sensors,   \* by the names of their shadow keys
  Readings,  \* what a sensor may read; 0 is among them
  Needed,    \* Needed[s]: TEMP_DISP_COUNTER and its like; 0 for uv
  Far        \* Far[s]: the pairs of a displayed and a new reading to report

ASSUME SensorAssumption ==
  /\ 0 \in Readings
  /\ Needed \in [Sensors -> Nat]
  /\ Far \in [Sensors -> SUBSET (Readings \X Readings)]
  /\ \A s \in Sensors, r \in Readings : << r, r >> \notin Far[s]

VARIABLES
  pre,   \* the last reading
  same,  \* turns it has come again (temp_cnt, ...), counted to Needed
  disp   \* the reading displayed

sensorVars == << pre, same, disp >>

SensorInit ==
  /\ pre = [s \in Sensors |-> 0] /\ same = [s \in Sensors |-> 0]
  /\ disp = [s \in Sensors |-> 0]

SensorsRestart ==
  /\ pre' = [s \in Sensors |-> 0] /\ same' = [s \in Sensors |-> 0]
  /\ disp' = [s \in Sensors |-> 0]

Counted(data, s) ==
  IF data[s] # pre[s] THEN 0
  ELSE IF same[s] < Needed[s] THEN same[s] + 1 ELSE Needed[s]

\* Mutant: a reading that has not come again counts.
Updates_Unsteady(data) == {s \in Sensors : << disp[s], data[s] >> \in Far[s]}

\* updateFlag: the sensors whose new reading is to be reported.
Updates(data) ==
  {s \in Sensors : Counted(data, s) >= Needed[s] /\ << disp[s], data[s] >> \in Far[s]}

\* env_sensor_execute.
env_sensor_execute(data) ==
  /\ pre' = data
  /\ same' = [s \in Sensors |-> Counted(data, s)]
  /\ disp' = [s \in Sensors |-> IF s \in Updates(data) THEN data[s] ELSE disp[s]]

SensorTypeOK ==
  /\ pre \in [Sensors -> Readings] /\ disp \in [Sensors -> Readings]
  /\ same \in [Sensors -> Nat]
=============================================================================
