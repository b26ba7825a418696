---------------------------- MODULE DeviceExport ----------------------------
(***************************************************************************)
(* DeviceQP of ibverbs/src/ibverbs/gpunetio/_runtime.py on top of the      *)
(* objects: export() and close() with the host pages of the queues, which  *)
(* are registered with CUDA and counted over all handles of the process,   *)
(* since mlx5 puts the doorbell records of several queues on one page.     *)
(*                                                                         *)
(* What the code does under _host_memory_lock is one step; between steps   *)
(* other threads export, close handles or close QPs.  A handle is closed   *)
(* by one thread at a time.  A program either exports QPs or waits for     *)
(* events: a QP that was exported has no events any more.  One that        *)
(* exports makes the PDs, CQs and QPs that an export needs, and no others. *)
(***************************************************************************)
EXTENDS VerbsLifecycle

CONSTANTS
    Pages,
    PagesOf,      \* the pages of the queue memory of a QP or CQ
    MaxWithEvents \* bound: objects of a program that waits for events

ASSUME PagesAssumption ==
    PagesOf \in [QPs \cup CQs -> SUBSET Pages] /\ MaxWithEvents \in Nat

VARIABLES
    exports,      \* the program exports QPs
    pageRefs,     \* _host_memory_refs
    registered,   \* pages that CUDA has registered
    mapped,       \* _CudaHostMappings._pages of the export or handle of a QP
    orphaned,     \* references of mappings that nobody has any more
    stage         \* of the export or handle: "none", "undo" (registering failed),
                  \* "mapped", "open", "unmapped" (closed up to the mappings)

pageVars == <<pageRefs, registered, mapped, orphaned, stage>>
deviceVars == <<exports, pageVars>>

QueuePages(q) == UNION {PagesOf[o] : o \in QueuesOf(q)}

Plus(counts, S) == [p \in Pages |-> IF p \in S THEN counts[p] + 1 ELSE counts[p]]

\* mutant: the page is unregistered with every reference.
CloseMappingsAll(S, failing) ==
    /\ pageRefs' = [p \in Pages |-> IF p \in S \ failing THEN pageRefs[p] - 1 ELSE pageRefs[p]]
    /\ registered' = registered \ (S \ failing)
\* _CudaHostMappings.close over the pages S: one reference each; the last one
\* unregisters the page, and stays if CUDA refuses.
CloseMappings(S, failing) ==
    /\ pageRefs' = [p \in Pages |-> IF p \in S \ failing THEN pageRefs[p] - 1 ELSE pageRefs[p]]
    /\ registered' = registered \ {p \in S \ failing : pageRefs[p] = 1}

\* Pages of S that cuMemHostUnregister may refuse.
LastHeld(S) == {p \in S : pageRefs[p] = 1}

\* export() up to _mlx5dv_bridge_info; the checks before it change nothing.
StartExport(q) ==
    /\ BridgeInfo(q)
    /\ UNCHANGED deviceVars

\* The layout is not supported, the CQs are not fresh, or CUDA is not there.
ExportRefused(q) ==
    /\ stage[q] = "none"
    /\ ExportFails(q)
    /\ UNCHANGED deviceVars

\* _register_queue_memory, one section of the lock.
RegisterQueueMemory(q) ==
    /\ Running
    /\ q \in exporting /\ stage[q] = "none"
    /\ \E got \in SUBSET QueuePages(q) :
          /\ got # QueuePages(q) => \E p \in QueuePages(q) \ got : pageRefs[p] = 0
          /\ mapped' = [mapped EXCEPT ![q] = got]
          /\ stage' = [stage EXCEPT ![q] = IF got = QueuePages(q) THEN "mapped" ELSE "undo"]
          /\ pageRefs' = Plus(pageRefs, got)
          /\ registered' = registered \cup got
    /\ UNCHANGED <<vars, exports, orphaned>>

\* mutant: the pages that could not be acquired are closed, too.
ClosedOnFailureAll(q) == {p \in QueuePages(q) : pageRefs[p] > 0}
\* The pages that a failing export closes.
ClosedOnFailure(q) == mapped[q]

\* The mappings are closed in another section of the lock, whether registering,
\* the pointers, the GPU library or _acquire_external_datapath failed; what CUDA
\* refuses to unregister stays with nobody.
UndoExport(q) ==
    /\ stage[q] \in {"undo", "mapped"}
    /\ ExportFails(q)
    /\ \E failing \in SUBSET LastHeld(ClosedOnFailure(q)) :
          /\ CloseMappings(ClosedOnFailure(q), failing)
          /\ orphaned' = Plus(orphaned, failing)
    /\ mapped' = [mapped EXCEPT ![q] = {}]
    /\ stage' = [stage EXCEPT ![q] = "none"]
    /\ UNCHANGED exports

\* The end of export()
FinishExport(q) ==
    /\ stage[q] = "mapped"
    /\ Acquire(q)
    /\ stage' = [stage EXCEPT ![q] = "open"]
    /\ UNCHANGED <<exports, pageRefs, registered, mapped, orphaned>>

\* DeviceQP.close: the mappings; the handle keeps the pages that are left, for
\* another close().
CloseHandle(q) ==
    /\ Running
    /\ stage[q] = "open"
    /\ \E failing \in SUBSET LastHeld(mapped[q]) :
          /\ CloseMappings(mapped[q], failing)
          /\ mapped' = [mapped EXCEPT ![q] = failing]
          /\ stage' = [stage EXCEPT ![q] = IF failing = {} THEN "unmapped" ELSE "open"]
    /\ UNCHANGED <<vars, exports, orphaned>>

\* The rest of close(): if unexport fails, nothing changes and close() may be
\* called again; doca_gpu_destroy cannot keep the handle.
Unexport(q) ==
    /\ stage[q] = "unmapped"
    /\ Release(q)
    /\ stage' = [stage EXCEPT ![q] = "none"]
    /\ UNCHANGED <<exports, pageRefs, registered, mapped, orphaned>>

DeviceInit ==
    /\ Init
    /\ exports \in BOOLEAN
    /\ pageRefs = [p \in Pages |-> 0] /\ orphaned = [p \in Pages |-> 0]
    /\ registered = {}
    /\ mapped = [q \in QPs |-> {}] /\ stage = [q \in QPs |-> "none"]

DeviceSteps == \E q \in QPs :
    \/ StartExport(q) \/ ExportRefused(q) \/ RegisterQueueMemory(q) \/ UndoExport(q)
    \/ FinishExport(q) \/ CloseHandle(q) \/ Unexport(q)

MakeQueues ==
    \/ Open
    \/ \E pd \in PDs : AllocPD(pd)
    \/ \E cq \in CQs : CreateCQ(cq, {})
    \/ \E q \in QPs, pd \in PDs, scq, rcq \in CQs : CreateQP(q, pd, scq, rcq, {})

Few == Cardinality({o \in Objects \ {Ctx, Cmid} : wrapper[o] # "absent"}) < MaxWithEvents

\* As a bound, ack_events is called for CQs with a channel, and makes the count of
\* one CQ at a time negative.
AcksFew ==
    /\ \A cq \in CQs : unacked'[cq] # unacked[cq] => refs[cq] \cap Channels # {}
    /\ Cardinality({cq \in CQs : unacked'[cq] < 0}) <= 1

DeviceNext ==
    \/ (End \/ Collect) /\ UNCHANGED deviceVars
    \/ ~ exports /\ ((Few /\ Make) \/ (Events /\ AcksFew) \/ AsyncEvents) /\ UNCHANGED deviceVars
    \/ exports /\ ((MakeQueues /\ UNCHANGED deviceVars) \/ DeviceSteps)

DeviceSpec == DeviceInit /\ [][DeviceNext]_<<vars, deviceVars>>

-----------------------------------------------------------------------------
\* _host_memory_refs counts the mappings that hold a page, those that a failing
\* export left behind included, and a page is registered with CUDA exactly while
\* it has a count: no handle unregisters a page under another one.
PagesCounted ==
    \A p \in Pages :
        /\ pageRefs[p] = Cardinality({q \in QPs : p \in mapped[q]}) + orphaned[p]
        /\ p \in registered <=> pageRefs[p] > 0

\* A kernel may use a DeviceQP until its close() begins: the pages of all its
\* queues are registered, and the QP is pinned; it stays pinned until unexport
\* has succeeded.
HandlePinned ==
    \A q \in QPs :
        /\ stage[q] = "open" /\ mapped[q] = QueuePages(q) => QueuePages(q) \subseteq registered
        /\ stage[q] \in {"open", "unmapped"} => q \in device /\ QueuesOf(q) \subseteq native
=============================================================================
