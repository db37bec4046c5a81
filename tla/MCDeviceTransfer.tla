-------------------------- MODULE MCDeviceTransfer --------------------------
(* Small instances of DeviceTransfer for TLC.                              *)
EXTENDS DeviceTransfer, TLC

\* Accounts are interchangeable, and so are requests and worker runs.
Symmetry == Permutations(Users) \cup Permutations(Requests)
                \cup Permutations(Workers)
=============================================================================
