---------------------------- MODULE RemoteCall ------------------------------
(***************************************************************************)
(* What a command to a device promises its caller, whatever is lost,       *)
(* repeated or late in between: the device executes a command at most      *)
(* once, a result that is told is the result the device gave, and a caller *)
(* who is told that the command was refused knows that it never runs.  A   *)
(* caller who is told "unknown" knows nothing.                             *)
(***************************************************************************)
CONSTANTS Calls, None

VARIABLES
    did,        \* what the device did with each command
    told        \* what each caller was told

Results == {"ack", "nack"}

Init ==
    /\ did  = [c \in Calls |-> None]
    /\ told = [c \in Calls |-> None]

Execute(c) ==
    /\ did[c] = None /\ told[c] # "refused"
    /\ \E x \in Results : did' = [did EXCEPT ![c] = x]
    /\ UNCHANGED told

TellResult(c) ==
    /\ told[c] = None /\ did[c] # None
    /\ told' = [told EXCEPT ![c] = did[c]]
    /\ UNCHANGED did

TellRefused(c) ==
    /\ told[c] = None /\ did[c] = None
    /\ told' = [told EXCEPT ![c] = "refused"]
    /\ UNCHANGED did

TellUnknown(c) ==
    /\ told[c] = None
    /\ told' = [told EXCEPT ![c] = "unknown"]
    /\ UNCHANGED did

Next == \E c \in Calls : Execute(c) \/ TellResult(c) \/ TellRefused(c) \/ TellUnknown(c)

Spec == Init /\ [][Next]_<<did, told>>
=============================================================================
