------------------------------ MODULE WindowLedger ------------------------------
(***************************************************************************)
(* What the population of the position history promises: every window of a *)
(* vehicle is stored once, and every window stored for a population run is *)
(* charged to it, within its budget, while it is open.                     *)
(***************************************************************************)
EXTENDS Naturals

CONSTANTS
    Runs,      \* population runs
    Windows    \* the windows of the horizon, by slice, vehicle and position

VARIABLES
    stored,    \* windows stored
    phase,     \* NONE, OPEN or CLOSED, by run
    quota,     \* the budget of each run
    charged    \* the windows charged to each run

ledger == <<stored, phase, quota, charged>>

Init ==
    /\ stored = {}
    /\ phase = [r \in Runs |-> "NONE"]
    /\ quota = [r \in Runs |-> 0]
    /\ charged = [r \in Runs |-> 0]

\* Only one run is open at a time.
Open(r) ==
    /\ phase[r] = "NONE"
    /\ \A o \in Runs : phase[o] # "OPEN"
    /\ phase' = [phase EXCEPT ![r] = "OPEN"]
    /\ quota'[r] \in Nat \ {0}
    /\ quota' = [quota EXCEPT ![r] = quota'[r]]
    /\ UNCHANGED <<stored, charged>>

\* A window stored for a run is charged to it.
StoreFor(r, x) ==
    /\ phase[r] = "OPEN"
    /\ charged[r] < quota[r]
    /\ x \notin stored
    /\ stored' = stored \union {x}
    /\ charged' = [charged EXCEPT ![r] = @ + 1]
    /\ UNCHANGED <<phase, quota>>

\* A window an operator stored by hand is charged to nobody.
StoreByHand(x) ==
    /\ x \notin stored
    /\ stored' = stored \union {x}
    /\ UNCHANGED <<phase, quota, charged>>

Close(r) ==
    /\ phase[r] = "OPEN"
    /\ phase' = [phase EXCEPT ![r] = "CLOSED"]
    /\ UNCHANGED <<stored, quota, charged>>

OpenSome == \E r \in Runs : Open(r)
StoreForSome == \E r \in Runs, x \in Windows : StoreFor(r, x)
StoreSomeByHand == \E x \in Windows : StoreByHand(x)
CloseSome == \E r \in Runs : Close(r)

Next == OpenSome \/ StoreForSome \/ StoreSomeByHand \/ CloseSome

Spec == Init /\ [][Next]_ledger
=============================================================================
