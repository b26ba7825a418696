--------------------------- MODULE BatchTransfer ---------------------------
(***************************************************************************)
(* What RdmaReadScheduler promises its caller: one batch at a time, every  *)
(* byte of a successful batch moved exactly once before the caller is told *)
(* of the success, and none after.  A failed batch promises nothing: the   *)
(* adapter may still be moving its bytes.                                  *)
(***************************************************************************)
EXTENDS Integers

CONSTANTS Batches, Plans  \* Plans: the sets of bytes a batch may ask for

VARIABLES status, landed  \* landed[b]: how often each byte wanted was moved

vars == <<status, landed>>

Init ==
    /\ status = [b \in Batches |-> "new"]
    /\ landed = [b \in Batches |-> [x \in {} |-> 0]]

Idle == \A b \in Batches : status[b] # "active"

\* A batch without bytes succeeds at once.
Begin(b, plan) ==
    /\ status[b] = "new" /\ Idle
    /\ status' = [status EXCEPT ![b] = IF plan = {} THEN "ok" ELSE "active"]
    /\ landed' = [landed EXCEPT ![b] = [x \in plan |-> 0]]

\* Some bytes that were not moved before are moved, each of them once.
Move(b) ==
    /\ status[b] \in {"active", "failed"}
    /\ landed' = [landed EXCEPT ![b] = landed'[b]]
    /\ DOMAIN landed'[b] = DOMAIN landed[b]
    /\ \A x \in DOMAIN landed[b] :
        landed'[b][x] # landed[b][x] => landed[b][x] = 0 /\ landed'[b][x] = 1
    /\ UNCHANGED status

Succeed(b) ==
    /\ status[b] = "active"
    /\ \A x \in DOMAIN landed[b] : landed[b][x] = 1
    /\ status' = [status EXCEPT ![b] = "ok"]
    /\ UNCHANGED landed

Fail(b) ==
    /\ status[b] = "active"
    /\ status' = [status EXCEPT ![b] = "failed"]
    /\ UNCHANGED landed

Next ==
    \E b \in Batches :
        \/ \E plan \in Plans : Begin(b, plan)
        \/ Move(b)
        \/ Succeed(b)
        \/ Fail(b)

Spec == Init /\ [][Next]_vars
=============================================================================
