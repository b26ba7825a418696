-------------------------- MODULE MCVerbsLifecycle --------------------------
(* DeviceExport, and with it VerbsLifecycle, with interchangeable CQs and QPs: *)
(* the doorbells of all queues are on one page, and the rings of the QPs too.  *)
EXTENDS DeviceExport, TLC

SharedDoorbells ==
    [o \in QPs \cup CQs |-> IF o \in QPs THEN {"doorbells", "rings"} ELSE {"doorbells"}]

Symmetry == Permutations(CQs) \cup Permutations(QPs)
=============================================================================
