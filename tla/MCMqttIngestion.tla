--------------------------- MODULE MCMqttIngestion --------------------------
(* Small instances of MqttIngestion for TLC.                               *)
EXTENDS MqttIngestion
=============================================================================
