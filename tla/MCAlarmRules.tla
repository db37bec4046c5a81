---------------------------- MODULE MCAlarmRules ----------------------------
(* Small instance of AlarmRules for TLC.                                   *)
EXTENDS AlarmRules

\* The device begins as it left the factory, but for rule 0.
MCInit == Init /\ \A i \in Indexes \ {0} : device[i] = Factory

MCSpec == MCInit /\ [][Next]_vars /\ Fairness
=============================================================================
