--------------------------- MODULE MCRingLayout ---------------------------
(***************************************************************************)
(* Lays out every tensor of a bounded size, with a narrow Int32.           *)
(***************************************************************************)
EXTENDS RingLayout

CONSTANTS MaxCount, ItemSizes, MaxSms, MaxWorld

VARIABLES input, laid, pieces

vars == <<input, laid, pieces>>

Inputs == [count : 1..MaxCount, itemsize : ItemSizes, sms : 1..MaxSms, world : 2..MaxWorld]

TheLayout == Layout(input.count, input.itemsize, input.sms)

Init == input \in Inputs /\ laid = FALSE /\ pieces = {}

Next == ~ laid /\ laid' = TRUE /\ pieces' = Pieces(TheLayout, input.world) /\ UNCHANGED input

Spec == Init /\ [][Next]_vars

\* "all-reduce supports at most 2**31 - 1 elements": every element of a tensor that
\* _allreduce_tensor accepts lies in a piece that is put and reduced where it lies
\* in the buffer, the Int32 product of element and item size being the true byte
\* offset.
ElementsAddressed ==
    laid => \A e \in 0..(input.count - 1) : \E p \in pieces :
                /\ e \in p.start..(p.start + p.len - 1)
                /\ ByteOffset(TheLayout, p) = p.start * input.itemsize
=============================================================================
