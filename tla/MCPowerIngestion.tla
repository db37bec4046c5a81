-------------------------- MODULE MCPowerIngestion --------------------------
(* Small instances of PowerIngestion for TLC.                              *)
EXTENDS PowerIngestion
CONSTANTS a, b, m1, m2
=============================================================================
