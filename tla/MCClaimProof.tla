---------------------------- MODULE MCClaimProof ----------------------------
(* Small instances of ClaimProof for TLC.                                  *)
EXTENDS ClaimProof, TLC

\* Requests and users are only ever compared.
Symmetry == Permutations(Requests) \cup Permutations(Users) \cup Permutations(MqttIds)
=============================================================================
