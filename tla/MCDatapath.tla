----------------------------- MODULE MCDatapath -----------------------------
(* Datapath with one caller of ibverbs, two of EFA, and a program of EFA that *)
(* waits for events.  Threads are interchangeable.                            *)
EXTENDS Datapath

OneAndTwo ==
    {[binding |-> "ibverbs", callers |-> 1], [binding |-> "efa", callers |-> 2],
     [binding |-> "efa", callers |-> 0]}

Symmetry == Permutations(Threads)
=============================================================================
