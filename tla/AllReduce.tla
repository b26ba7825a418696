----------------------------- MODULE AllReduce -----------------------------
(***************************************************************************)
(* What _allreduce_tensor promises to the members of a group, whatever the *)
(* schedule: a call that returns a tensor returns the sum of what every    *)
(* member put in; a call that raises returns nothing and fails the group   *)
(* on that member; members may see different outcomes of one collective.   *)
(***************************************************************************)
EXTENDS Naturals

CONSTANTS Ranks, MaxColl

VARIABLES
    coll,     \* how many collectives each rank has entered
    inside,   \* is the rank in a call
    outcome,  \* how its last call ended: "none", "ok" or "raised"
    failed,   \* _failed
    summed    \* whose inputs the tensor it got back contains

absVars == <<coll, inside, outcome, failed, summed>>

Init ==
    /\ coll = [r \in Ranks |-> 0]
    /\ inside = [r \in Ranks |-> FALSE]
    /\ outcome = [r \in Ranks |-> "none"]
    /\ failed = [r \in Ranks |-> FALSE]
    /\ summed = [r \in Ranks |-> {}]

Enter(r) ==
    /\ ~inside[r] /\ ~failed[r] /\ coll[r] < MaxColl
    /\ coll' = [coll EXCEPT ![r] = @ + 1]
    /\ inside' = [inside EXCEPT ![r] = TRUE]
    /\ outcome' = [outcome EXCEPT ![r] = "none"]
    /\ summed' = [summed EXCEPT ![r] = {}]
    /\ UNCHANGED failed

\* The sum needs everybody's input, so everybody must have entered.
Return(r) ==
    /\ inside[r]
    /\ \A k \in Ranks : coll[k] >= coll[r]
    /\ inside' = [inside EXCEPT ![r] = FALSE]
    /\ outcome' = [outcome EXCEPT ![r] = "ok"]
    /\ summed' = [summed EXCEPT ![r] = Ranks \X {coll[r]}]
    /\ UNCHANGED <<coll, failed>>

Raise(r) ==
    /\ inside[r]
    /\ inside' = [inside EXCEPT ![r] = FALSE]
    /\ outcome' = [outcome EXCEPT ![r] = "raised"]
    /\ failed' = [failed EXCEPT ![r] = TRUE]
    /\ UNCHANGED <<coll, summed>>

\* The group is revoked between two calls.
Revoke(r) ==
    /\ ~inside[r]
    /\ failed' = [failed EXCEPT ![r] = TRUE]
    /\ UNCHANGED <<coll, inside, outcome, summed>>

Next == \E r \in Ranks : Enter(r) \/ Return(r) \/ Raise(r) \/ Revoke(r)

Spec == Init /\ [][Next]_absVars

=============================================================================
