-------------------------- MODULE MCFlowTransport --------------------------
(* Small instances of FlowTransport for TLC. *)
EXTENDS FlowTransport

Scene(mode, iterations, rival, faults) ==
    [mode |-> mode, iterations |-> iterations, rival |-> rival, faults |-> faults]

\* Both modes, two iterations without faults and one with them, and in thread
\* mode a rival whose tensor has the size of the receiver's.
Mixed == {Scene(m, 2, 0, FALSE) : m \in {"thread", "process"}}
         \cup {Scene(m, 1, 0, TRUE) : m \in {"thread", "process"}}
         \cup {Scene("thread", 1, NUnits, TRUE)}
=============================================================================
