--------------------------- MODULE OwnershipEpochs ---------------------------
(***************************************************************************)
(* What the ownership of a device promises, without tables, clocks that    *)
(* are read early, locks or brokers: the device always has one owner; an   *)
(* heir is designated, the device is frozen until the heir takes over and  *)
(* opens the next epoch; a measurement is recorded only outside a freeze,  *)
(* for the owner of the running epoch, and is newer than every measurement *)
(* of an earlier epoch.                                                    *)
(***************************************************************************)
EXTENDS Naturals

CONSTANTS Accounts, Nobody, Instants

VARIABLES
    owner,      \* the account the device belongs to
    epoch,      \* how often it has changed hands
    heir,       \* who takes over next, Nobody when no transfer is pending
    log         \* measurements with the owner and epoch they belong to

vars == <<owner, epoch, heir, log>>

Frozen == heir # Nobody

Init == owner \in Accounts /\ epoch = 0 /\ heir = Nobody /\ log = {}

Designate(u) ==
    /\ ~Frozen
    /\ u # owner
    /\ heir' = u
    /\ UNCHANGED <<owner, epoch, log>>

TakeOver ==
    /\ Frozen
    /\ owner' = heir
    /\ epoch' = epoch + 1
    /\ heir' = Nobody
    /\ UNCHANGED log

Record(at) ==
    /\ ~Frozen
    /\ \A m \in log : m.epoch < epoch => m.at < at
    /\ log' = log \cup {[at |-> at, owner |-> owner, epoch |-> epoch]}
    /\ UNCHANGED <<owner, epoch, heir>>

Next ==
    \/ \E u \in Accounts : Designate(u)
    \/ TakeOver
    \/ \E at \in Instants : Record(at)

Spec == Init /\ [][Next]_vars
=============================================================================
