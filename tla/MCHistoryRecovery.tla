------------------------- MODULE MCHistoryRecovery -------------------------
(* Small instances of HistoryRecovery for TLC.                             *)
EXTENDS HistoryRecovery
=============================================================================
