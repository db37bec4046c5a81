--------------------------- MODULE HistoryImport ---------------------------
(***************************************************************************)
(* What the recovery of a device's local history promises: the records are *)
(* imported in the order of their sequence numbers, without a hole and     *)
(* never twice, and the device is told to forget only what was imported.   *)
(***************************************************************************)
EXTENDS Naturals

VARIABLES
    produced,       \* number of the newest record
    imported,       \* numbers of the imported records
    acked           \* everything up to this number is acknowledged

vars == <<produced, imported, acked>>

Init == produced = 0 /\ imported = {} /\ acked = 0

Produce == produced' = produced + 1 /\ UNCHANGED <<imported, acked>>

Import ==
    \E n \in 1 .. produced :
       /\ n \notin imported
       /\ imported' = 1 .. n
       /\ UNCHANGED <<produced, acked>>

Acknowledge ==
    \E n \in imported :
       /\ n > acked
       /\ acked' = n
       /\ UNCHANGED <<produced, imported>>

Next == Produce \/ Import \/ Acknowledge

Spec == Init /\ [][Next]_vars
=============================================================================
