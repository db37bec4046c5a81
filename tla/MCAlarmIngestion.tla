-------------------------- MODULE MCAlarmIngestion --------------------------
(* Small instances of AlarmIngestion for TLC.                              *)
EXTENDS AlarmIngestion
=============================================================================
