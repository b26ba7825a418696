-------------------------- MODULE MCNvmeController --------------------------
(* NvmeController on targets that differ in what bounds a queue and a command. *)
EXTENDS NvmeController

Good == [limit |-> 4, maxcmd |-> 0, crq |-> 4, mdts |-> 0, lba |-> 2, reject |-> "none"]

MCTargets ==
    {Good,
     [Good EXCEPT !.limit = 2, !.mdts = 1],
     [Good EXCEPT !.maxcmd = 2, !.mdts = 2, !.lba = 3],
     [Good EXCEPT !.crq = 1, !.mdts = 1, !.lba = 1],
     [Good EXCEPT !.maxcmd = 1],
     [Good EXCEPT !.mdts = 1, !.lba = 5]}
    \cup {[Good EXCEPT !.reject = r] :
              r \in {"nqn", "auth", "fatal", "slow", "id", "sgl", "icdoff", "nsid", "format", "metadata"}}

MCOffsets == {-1, 0, 1, 2}
=============================================================================
