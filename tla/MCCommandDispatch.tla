------------------------- MODULE MCCommandDispatch --------------------------
(* Small instances of CommandDispatch for TLC.                             *)
EXTENDS CommandDispatch, TLC

CONSTANTS q1, q2, d1, d2

Call(d, c) == [device |-> d, command |-> c]

\* A critical command and a read of one device; a service and an unsigned
\* command of two.
MCMixes ==
    {(q1 :> Call(d1, "restart")     @@ q2 :> Call(d1, "get_config")),
     (q1 :> Call(d1, "get_history") @@ q2 :> Call(d2, "ping"))}
=============================================================================
