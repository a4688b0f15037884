------------------------------- MODULE MCMqtt -------------------------------
(***************************************************************************)
(* The two topics of MQTT_SUBSCRIBE and the faults, for the runs of Mqtt.  *)
(***************************************************************************)
EXTENDS Mqtt

MCTopics == << "shadow_get", "shadow" >>

\* All faults together; without each of two faults of the three that Orderly
\* excludes; without those that Unfailing excludes, "slow" among them; and what
\* liveness is asked under.
AllFaults ==
  {"link", "early", "dns", "refused", "send", "slow", "away", "again", "offline"}
MCFaultSets ==
  {AllFaults, AllFaults \ {"offline"}, AllFaults \ {"away", "again"},
   AllFaults \ {"send", "slow"}, {"link", "dns", "offline"}}

EarlyLoss == {{"link", "early"}}
=============================================================================
