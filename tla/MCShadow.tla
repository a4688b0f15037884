------------------------------ MODULE MCShadow ------------------------------
(***************************************************************************)
(* A small board for the run of ShadowApp: two colours, a button, a port   *)
(* with one pin and a thermometer.                                         *)
(***************************************************************************)
EXTENDS ShadowApp

MCLeds == {"LED_R", "LED_B"}
MCStateLeds == {"LED_B"}
MCSensors == {"temp"}
MCNeeded == [s \in MCSensors |-> 1]
MCReadings == {0, 20}
MCFar == [s \in MCSensors |-> {<< 0, 20 >>, << 20, 0 >>}]
MCGpios == {<< "PA", 17 >>}
MCDirect == {[k \in {"LED_INTENSITY"} |-> 1]}

Load(c, a, f, p, t, o) ==
  [certificate |-> c, asks |-> a, faults |-> f, presses |-> p, turns |-> t, opens |-> o]
MCLoads ==
  { Load("ACTIVE", 2, 1, 0, 0, 0), Load("ACTIVE", 1, 1, 1, 0, 0),
    Load("ACTIVE", 1, 2, 0, 0, 0), Load("ACTIVE", 0, 1, 1, 3, 0),
    Load("ACTIVE", 1, 0, 0, 0, 1), Load("ACTIVE", 0, 1, 1, 0, 1),
    Load("UNKNOWN", 0, 2, 0, 0, 0) }
=============================================================================
