--------------------------- MODULE BindingsProofs ---------------------------
(***************************************************************************)
(* Proofs about what is built on the verbs objects: DeviceExport, which    *)
(* hands QPs to the GPU, and Datapath, the calls of both bindings.  Either *)
(* is a use of the objects like any other: each of its steps is a step of  *)
(* VerbsLifecycle or leaves its variables alone, so what is proved there   *)
(* holds here, LifeInv above all: an open wrapper has its native object,   *)
(* and an object keeps its parents.                                        *)
(*                                                                         *)
(* Of an export: the counts of the host pages, and what pins the queues of *)
(* a handle.                                                               *)
(*                                                                         *)
(* Of the data path: BatchWhole is not inductive, as it speaks of calls    *)
(* that are back, and what the provider took of them is known only if no   *)
(* other call has the same requests and none was taken before the native   *)
(* call (RequestsApart).  CompletionsOnce needs that a request waits in    *)
(* one queue only and is not completed there (QueuesOnce), that a CQ with  *)
(* entries has a QP, so that the entries end with it (EntriesOnce), and    *)
(* that a call reads once and no more than it may (ReadLimited).           *)
(***************************************************************************)
EXTENDS DeviceExport, Datapath, VerbsLifecycleProofs, SequenceTheorems, TLAPS

-----------------------------------------------------------------------------
(* Exports *)

\* What a program makes to export it is something that Make makes.
LEMMA QueuesAreMade == MakeQueues => Make
<1> SUFFICES ASSUME MakeQueues PROVE Make
  OBVIOUS
<1> USE DEF Optional
<1>1. CASE Open \/ \E pd \in PDs : AllocPD(pd)
  BY <1>1 DEF Make
<1>2. CASE \E cq \in CQs : CreateCQ(cq, {})
  BY <1>2 DEF Make
<1>3. ASSUME NEW q \in QPs, NEW pd \in PDs, NEW scq \in CQs, NEW rcq \in CQs,
             CreateQP(q, pd, scq, rcq, {})
      PROVE  Make
  BY <1>3 DEF Make
<1> QED BY <1>1, <1>2, <1>3 DEF MakeQueues

\* export() and close() of a DeviceQP: a step of the export of VerbsLifecycle,
\* or work on the pages alone.
LEMMA DeviceStepsExport == DeviceSteps => Export \/ UNCHANGED vars
<1> SUFFICES ASSUME NEW q \in QPs,
                    \/ StartExport(q) \/ ExportRefused(q) \/ RegisterQueueMemory(q)
                    \/ UndoExport(q) \/ FinishExport(q) \/ CloseHandle(q) \/ Unexport(q)
             PROVE  Export \/ UNCHANGED vars
  BY DEF DeviceSteps
<1>1. \/ BridgeInfo(q) \/ ExportFails(q) \/ Acquire(q) \/ Release(q)
      \/ UNCHANGED vars
  BY DEF StartExport, ExportRefused, RegisterQueueMemory, UndoExport, FinishExport,
         CloseHandle, Unexport
<1> QED BY <1>1 DEF Export

\* DeviceExport implements VerbsLifecycle.
THEOREM DeviceImplementsLifecycle == DeviceSpec => Spec
<1>1. DeviceInit => Init
  BY DEF DeviceInit
<1>2. [DeviceNext]_<<vars, deviceVars>> => [Next]_vars
  <2> SUFFICES ASSUME DeviceNext PROVE Next \/ UNCHANGED vars
    OBVIOUS
  <2>1. CASE End \/ Collect \/ Make \/ Events \/ AsyncEvents
    BY <2>1 DEF Next
  <2>2. CASE MakeQueues
    BY <2>2, QueuesAreMade DEF Next
  <2>3. CASE DeviceSteps
    BY <2>3, DeviceStepsExport DEF Next
  <2> QED BY <2>1, <2>2, <2>3 DEF DeviceNext
<1> QED BY <1>1, <1>2, PTL DEF DeviceSpec, Spec

\* With exports, too, a close waits only for an event that was not acknowledged,
\* the counts of children and of completion events are exact, nothing native
\* loses what it is built on, and leaks and events have the owners they should.
THEOREM DeviceKeepsObjects ==
    DeviceSpec => [](/\ ChildrenExact /\ EventsAccounted /\ BlockedOnlyByEvents
                     /\ NoOrphans /\ LeaksExplained /\ EventNamesLiveCQ)
BY DeviceImplementsLifecycle, ChildrenExactHolds, EventsAccountedHolds,
   BlockedOnlyByEventsHolds, NoOrphansHolds, LeaksExplainedHolds, EventNamesLiveCQHolds, PTL

-----------------------------------------------------------------------------
Stages == {"none", "undo", "mapped", "open", "unmapped"}

\* The exports and handles that hold a page.
Holders(p) == {q \in QPs : p \in mapped[q]}

PageTypes ==
    /\ pageRefs \in [Pages -> Nat] /\ orphaned \in [Pages -> Nat]
    /\ mapped \in [QPs -> SUBSET Pages] /\ stage \in [QPs -> Stages]

\* PagesCounted, made inductive: who has no pages yet, or no more, holds none.
PageInv ==
    /\ PageTypes
    /\ \A q \in QPs : stage[q] \in {"none", "unmapped"} => mapped[q] = {}
    /\ PagesCounted

\* The QPs that are being exported, or have a handle.
Away == exporting \cup device

\* Where an export or handle is; its QP is exported once.
StagesExact ==
    /\ exporting \subseteq QPs /\ device \subseteq QPs /\ exporting \cap device = {}
    /\ \A q \in QPs : /\ stage[q] \in {"open", "unmapped"} <=> q \in device
                      /\ stage[q] \in {"undo", "mapped"} => q \in exporting

\* Two exports or handles share no queue, since _external_datapath is never cleared.
QueuesApart ==
    /\ \A q \in Away : QueuesOf(q) \subseteq external /\ wrapper[q] # "absent"
    /\ \A q, r \in Away : q # r => QueuesOf(q) \cap QueuesOf(r) = {}

\* What a handle uses is counted, so that close() refuses.
UsersCounted ==
    /\ users \in [QPs \cup CQs -> Nat]
    /\ \A q \in device : \A o \in QueuesOf(q) : users[o] > 0

\* The CQs of an open QP are open, and so is the QP of a handle.
OpenAbove ==
    /\ \A q \in QPs : wrapper[q] = "open" => \A c \in refs[q] \cap CQs : wrapper[c] = "open"
    /\ \A q \in device : wrapper[q] = "open"

\* HandlePinned, made inductive.
PinInv ==
    /\ stage \in [QPs -> Stages]
    /\ StagesExact /\ QueuesApart /\ UsersCounted /\ OpenAbove
-----------------------------------------------------------------------------
(* Pages. *)

\* Finitely many QPs hold a page.
LEMMA HoldersCounted ==
    \A p : IsFiniteSet(Holders(p)) /\ Cardinality(Holders(p)) \in Nat
<1>1. QPs \subseteq Objects /\ IsFiniteSet(Objects)
  BY ObjectsAssumption DEF Objects
<1>2. \A p : Holders(p) \subseteq Objects
  BY <1>1 DEF Holders
<1> QED BY <1>1, <1>2, FS_Subset, FS_CardinalityType

\* The pages of a QP and its CQs.
LEMMA QueuePagesType ==
    ASSUME NEW q \in QPs
    PROVE  QueuePages(q) \subseteq Pages
BY PagesAssumption DEF QueuePages, QueuesOf

\* One export or handle has other pages than before.
LEMMA HoldersChange ==
    ASSUME PageInv, NEW q \in QPs, NEW S \in SUBSET Pages,
           mapped' = [mapped EXCEPT ![q] = S], NEW p
    PROVE  /\ (p \in S <=> p \in mapped[q])
                => Cardinality(Holders(p)') = Cardinality(Holders(p))
           /\ p \in S /\ p \notin mapped[q]
                => Cardinality(Holders(p)') = Cardinality(Holders(p)) + 1
           /\ p \notin S /\ p \in mapped[q]
                => Cardinality(Holders(p)') = Cardinality(Holders(p)) - 1
<1>1. mapped \in [QPs -> SUBSET Pages]
  BY DEF PageInv, PageTypes
<1>2. \A r \in QPs : mapped'[r] = IF r = q THEN S ELSE mapped[r]
  BY <1>1
<1>3. IsFiniteSet(Holders(p)) /\ Cardinality(Holders(p)) \in Nat
  BY HoldersCounted
<1>4. CASE p \in S <=> p \in mapped[q]
  <2>1. Holders(p)' = Holders(p)
    BY <1>2, <1>4 DEF Holders
  <2> QED BY <1>4, <2>1
<1>5. CASE p \in S /\ p \notin mapped[q]
  <2>1. Holders(p)' = Holders(p) \cup {q} /\ q \notin Holders(p)
    BY <1>2, <1>5 DEF Holders
  <2> QED BY <1>3, <1>5, <2>1, FS_AddElement
<1>6. CASE p \notin S /\ p \in mapped[q]
  <2>1. Holders(p)' = Holders(p) \ {q} /\ q \in Holders(p)
    BY <1>2, <1>6 DEF Holders
  <2> QED BY <1>3, <1>6, <2>1, FS_RemoveElement
<1> QED BY <1>4, <1>5, <1>6

\* The count of a page, by its holders.
LEMMA PageCount ==
    ASSUME PageInv, NEW p \in Pages
    PROVE  /\ pageRefs[p] \in Nat /\ orphaned[p] \in Nat /\ Cardinality(Holders(p)) \in Nat
           /\ pageRefs[p] = Cardinality(Holders(p)) + orphaned[p]
           /\ p \in registered <=> pageRefs[p] > 0
           /\ \A q \in QPs : p \in mapped[q] => pageRefs[p] > 0
<1>1. PageTypes /\ PagesCounted
  BY DEF PageInv
<1>2. pageRefs[p] \in Nat /\ orphaned[p] \in Nat /\ Cardinality(Holders(p)) \in Nat
  BY <1>1, HoldersCounted DEF PageTypes
<1>3. pageRefs[p] = Cardinality(Holders(p)) + orphaned[p] /\ (p \in registered <=> pageRefs[p] > 0)
  BY <1>1 DEF PagesCounted, Holders
<1>4. ASSUME NEW q \in QPs, p \in mapped[q] PROVE pageRefs[p] > 0
  <2>1. Holders(p) # {}
    BY <1>4 DEF Holders
  <2>2. Cardinality(Holders(p)) # 0
    BY <2>1, HoldersCounted, FS_EmptySet
  <2> QED BY <1>2, <1>3, <2>2
<1> QED BY <1>2, <1>3, <1>4

\* The counts follow a change of the pages of q to S.
CountsFollow(q, S) ==
    \A p \in Pages :
        /\ (p \in S <=> p \in mapped[q])
             => pageRefs'[p] - orphaned'[p] = pageRefs[p] - orphaned[p]
        /\ p \in S /\ p \notin mapped[q]
             => pageRefs'[p] - orphaned'[p] = pageRefs[p] - orphaned[p] + 1
        /\ p \notin S /\ p \in mapped[q]
             => pageRefs'[p] - orphaned'[p] = pageRefs[p] - orphaned[p] - 1
        /\ p \in registered' <=> pageRefs'[p] > 0

\* What a step on the pages of one QP has to do.
LEMMA PageChange ==
    ASSUME PageInv, NEW q \in QPs, NEW S \in SUBSET Pages, NEW st \in Stages,
           mapped' = [mapped EXCEPT ![q] = S], stage' = [stage EXCEPT ![q] = st],
           st \in {"none", "unmapped"} => S = {},
           pageRefs' \in [Pages -> Nat], orphaned' \in [Pages -> Nat],
           CountsFollow(q, S)
    PROVE  PageInv'
<1>1. PageTypes'
  BY DEF PageInv, PageTypes
<1>2. \A r \in QPs : stage'[r] \in {"none", "unmapped"} => mapped'[r] = {}
  BY DEF PageInv, PageTypes
<1>3. PagesCounted'
  <2> SUFFICES ASSUME NEW p \in Pages
               PROVE  pageRefs'[p] = Cardinality(Holders(p)') + orphaned'[p]
    BY DEF PagesCounted, Holders, CountsFollow
  <2>1. /\ pageRefs[p] \in Nat /\ orphaned[p] \in Nat /\ Cardinality(Holders(p)) \in Nat
        /\ pageRefs[p] = Cardinality(Holders(p)) + orphaned[p]
    BY PageCount
  <2>2. pageRefs'[p] \in Nat /\ orphaned'[p] \in Nat
    OBVIOUS
  <2> DEFINE a == Cardinality(Holders(p))
             b == Cardinality(Holders(p)')
  <2>3. /\ (p \in S <=> p \in mapped[q]) => b = a
        /\ p \in S /\ p \notin mapped[q] => b = a + 1
        /\ p \notin S /\ p \in mapped[q] => b = a - 1
    BY HoldersChange
  <2>4. a \in Nat /\ pageRefs[p] = a + orphaned[p]
    BY <2>1
  <2> SUFFICES pageRefs'[p] = b + orphaned'[p]
    OBVIOUS
  <2> HIDE DEF a, b
  <2>5. CASE p \in S <=> p \in mapped[q]
    BY <2>1, <2>2, <2>3, <2>4, <2>5 DEF CountsFollow
  <2>6. CASE p \in S /\ p \notin mapped[q]
    BY <2>1, <2>2, <2>3, <2>4, <2>6 DEF CountsFollow
  <2>7. CASE p \notin S /\ p \in mapped[q]
    BY <2>1, <2>2, <2>3, <2>4, <2>7 DEF CountsFollow
  <2> QED BY <2>5, <2>6, <2>7
<1> QED BY <1>1, <1>2, <1>3 DEF PageInv

\* The pages are as before, and no stage becomes "none" with pages left.
LEMMA PageQuiet ==
    ASSUME PageInv, UNCHANGED <<pageRefs, registered, mapped, orphaned>>,
           stage' \in [QPs -> Stages],
           \A q \in QPs : stage'[q] \in {"none", "unmapped"} => mapped[q] = {}
    PROVE  PageInv'
BY DEF PageInv, PageTypes, PagesCounted

\* _register_queue_memory, also if it stops in the middle.
LEMMA PageRegister ==
    ASSUME PageInv, NEW q \in QPs, RegisterQueueMemory(q)
    PROVE  PageInv'
<1>1. stage[q] = "none" /\ mapped[q] = {} /\ orphaned' = orphaned /\ PageTypes
  BY DEF RegisterQueueMemory, PageInv
<1>2. PICK got \in SUBSET QueuePages(q) :
          /\ mapped' = [mapped EXCEPT ![q] = got]
          /\ stage' = [stage EXCEPT ![q] = IF got = QueuePages(q) THEN "mapped" ELSE "undo"]
          /\ pageRefs' = Plus(pageRefs, got)
          /\ registered' = registered \cup got
  BY DEF RegisterQueueMemory
<1>3. got \in SUBSET Pages
  BY QueuePagesType
<1>4. /\ pageRefs' \in [Pages -> Nat]
      /\ \A p \in Pages : pageRefs'[p] = IF p \in got THEN pageRefs[p] + 1 ELSE pageRefs[p]
  BY <1>1, <1>2 DEF Plus, PageTypes
<1>5. \A p \in Pages : p \in registered' <=> pageRefs'[p] > 0
  BY <1>2, <1>4, PageCount
<1>6. \A p \in Pages :
         /\ p \in got => pageRefs'[p] - orphaned'[p] = pageRefs[p] - orphaned[p] + 1
         /\ p \notin got => pageRefs'[p] - orphaned'[p] = pageRefs[p] - orphaned[p]
  BY <1>1, <1>4, PageCount
<1>7. \E st \in Stages : stage' = [stage EXCEPT ![q] = st] /\ st \notin {"none", "unmapped"}
  BY <1>2 DEF Stages
<1>8. orphaned' \in [Pages -> Nat]
  BY <1>1 DEF PageTypes
<1>9. CountsFollow(q, got)
  BY <1>1, <1>5, <1>6 DEF CountsFollow
<1> QED BY <1>2, <1>3, <1>4, <1>7, <1>8, <1>9, PageChange

\* What _CudaHostMappings.close does to the counts.
LEMMA MappingsClosed ==
    ASSUME PageInv, NEW q \in QPs, NEW failing \in SUBSET LastHeld(mapped[q]),
           CloseMappings(mapped[q], failing)
    PROVE  /\ failing \subseteq mapped[q] /\ mapped[q] \subseteq Pages
           /\ pageRefs' \in [Pages -> Nat]
           /\ \A p \in Pages :
                 /\ pageRefs'[p] = IF p \in mapped[q] \ failing THEN pageRefs[p] - 1 ELSE pageRefs[p]
                 /\ p \in registered' <=> pageRefs'[p] > 0
<1>1. failing \subseteq mapped[q] /\ mapped[q] \subseteq Pages
  BY DEF LastHeld, PageInv, PageTypes
<1>2. \A p \in Pages :
         pageRefs'[p] = IF p \in mapped[q] \ failing THEN pageRefs[p] - 1 ELSE pageRefs[p]
  BY DEF CloseMappings
<1>3. \A p \in Pages : p \in mapped[q] => pageRefs[p] > 0
  BY PageCount
<1>4. \A p \in Pages : pageRefs[p] \in Nat /\ (p \in registered <=> pageRefs[p] > 0)
  BY PageCount
<1>5. \A p \in Pages : pageRefs'[p] \in Nat
  BY <1>2, <1>3, <1>4
<1>6. pageRefs' \in [Pages -> Nat]
  BY <1>5 DEF CloseMappings
<1>7. registered' = registered \ {p \in mapped[q] \ failing : pageRefs[p] = 1}
  BY DEF CloseMappings
<1>8. ASSUME NEW p \in Pages PROVE p \in registered' <=> pageRefs'[p] > 0
  <2>1. CASE p \in mapped[q] \ failing
    BY <1>2, <1>3, <1>4, <1>7, <2>1
  <2>2. CASE p \notin mapped[q] \ failing
    BY <1>2, <1>4, <1>7, <2>2
  <2> QED BY <2>1, <2>2
<1> QED BY <1>1, <1>2, <1>6, <1>8

\* A failing export lets go of its pages; what stays has no owner.
LEMMA PageUndo ==
    ASSUME PageInv, NEW q \in QPs, UndoExport(q)
    PROVE  PageInv'
<1>1. PageTypes /\ mapped' = [mapped EXCEPT ![q] = {}] /\ stage' = [stage EXCEPT ![q] = "none"]
  BY DEF UndoExport, PageInv
<1>2. PICK failing \in SUBSET LastHeld(mapped[q]) :
          CloseMappings(mapped[q], failing) /\ orphaned' = Plus(orphaned, failing)
  BY DEF UndoExport, ClosedOnFailure
<1>3. /\ failing \subseteq mapped[q] /\ mapped[q] \subseteq Pages /\ pageRefs' \in [Pages -> Nat]
      /\ \A p \in Pages :
            /\ pageRefs'[p] = IF p \in mapped[q] \ failing THEN pageRefs[p] - 1 ELSE pageRefs[p]
            /\ p \in registered' <=> pageRefs'[p] > 0
  BY <1>2, MappingsClosed
<1>4. /\ orphaned' \in [Pages -> Nat]
      /\ \A p \in Pages : orphaned'[p] = IF p \in failing THEN orphaned[p] + 1 ELSE orphaned[p]
  BY <1>1, <1>2 DEF Plus, PageTypes
<1>5. \A p \in Pages :
         /\ p \notin mapped[q] => pageRefs'[p] - orphaned'[p] = pageRefs[p] - orphaned[p]
         /\ p \in mapped[q] => pageRefs'[p] - orphaned'[p] = pageRefs[p] - orphaned[p] - 1
  BY <1>3, <1>4, PageCount
<1>6. "none" \in Stages /\ {} \in SUBSET Pages
  BY DEF Stages
<1>7. CountsFollow(q, {})
  BY <1>3, <1>5 DEF CountsFollow
<1>8. stage' = [stage EXCEPT ![q] = "none"] /\ pageRefs' \in [Pages -> Nat]
  BY <1>1, <1>3
<1> QED BY <1>1, <1>4, <1>6, <1>7, <1>8, PageChange

\* close() of a handle, which keeps the pages that CUDA did not unregister.
LEMMA PageCloseHandle ==
    ASSUME PageInv, NEW q \in QPs, CloseHandle(q)
    PROVE  PageInv'
<1>1. PageTypes /\ orphaned' = orphaned
  BY DEF CloseHandle, PageInv
<1>2. PICK failing \in SUBSET LastHeld(mapped[q]) :
          /\ CloseMappings(mapped[q], failing) /\ mapped' = [mapped EXCEPT ![q] = failing]
          /\ stage' = [stage EXCEPT ![q] = IF failing = {} THEN "unmapped" ELSE "open"]
  BY DEF CloseHandle
<1>3. /\ failing \subseteq mapped[q] /\ mapped[q] \subseteq Pages /\ pageRefs' \in [Pages -> Nat]
      /\ \A p \in Pages :
            /\ pageRefs'[p] = IF p \in mapped[q] \ failing THEN pageRefs[p] - 1 ELSE pageRefs[p]
            /\ p \in registered' <=> pageRefs'[p] > 0
  BY <1>2, MappingsClosed
<1>4. orphaned' \in [Pages -> Nat]
  BY <1>1 DEF PageTypes
<1>5. \A p \in Pages :
         /\ (p \in failing <=> p \in mapped[q])
              => pageRefs'[p] - orphaned'[p] = pageRefs[p] - orphaned[p]
         /\ p \notin failing /\ p \in mapped[q]
              => pageRefs'[p] - orphaned'[p] = pageRefs[p] - orphaned[p] - 1
         /\ ~ (p \in failing /\ p \notin mapped[q])
  BY <1>1, <1>3, PageCount
<1>7. failing \in SUBSET Pages
  BY <1>3
<1>8. CountsFollow(q, failing)
  BY <1>3, <1>5 DEF CountsFollow
<1>10. mapped' = [mapped EXCEPT ![q] = failing] /\ pageRefs' \in [Pages -> Nat]
  BY <1>2, <1>3
<1>11. CASE failing = {}
  <2>1. stage' = [stage EXCEPT ![q] = "unmapped"] /\ "unmapped" \in Stages
    BY <1>2, <1>11 DEF Stages
  <2> QED BY <1>4, <1>7, <1>8, <1>10, <1>11, <2>1, PageChange
<1>12. CASE failing # {}
  <2>1. /\ stage' = [stage EXCEPT ![q] = "open"] /\ "open" \in Stages
        /\ "open" \notin {"none", "unmapped"}
    BY <1>2, <1>12 DEF Stages
  <2> QED BY <1>4, <1>7, <1>8, <1>10, <2>1, PageChange
<1> QED BY <1>11, <1>12

\* Every step of DeviceNext, and stuttering.
LEMMA PageInvStep == PageInv /\ [DeviceNext]_<<vars, deviceVars>> => PageInv'
<1> SUFFICES ASSUME PageInv, [DeviceNext]_<<vars, deviceVars>> PROVE PageInv'
  OBVIOUS
<1> USE DEF pageVars, deviceVars
<1>1. CASE UNCHANGED pageVars
  BY <1>1, PageQuiet DEF PageInv, PageTypes
<1>2. ASSUME NEW q \in QPs,
             \/ StartExport(q) \/ ExportRefused(q) \/ RegisterQueueMemory(q) \/ UndoExport(q)
             \/ FinishExport(q) \/ CloseHandle(q) \/ Unexport(q)
      PROVE  PageInv'
  <2>1. CASE StartExport(q) \/ ExportRefused(q)
    BY <1>1, <2>1 DEF StartExport, ExportRefused
  <2>2. CASE RegisterQueueMemory(q) \/ UndoExport(q) \/ CloseHandle(q)
    BY <2>2, PageRegister, PageUndo, PageCloseHandle
  <2>3. CASE FinishExport(q)
    <3>1. stage' = [stage EXCEPT ![q] = "open"] /\ UNCHANGED <<pageRefs, registered, mapped, orphaned>>
      BY <2>3 DEF FinishExport
    <3>2. stage' \in [QPs -> Stages] /\ \A r \in QPs : stage'[r] \in {"none", "unmapped"} => stage[r] = stage'[r]
      BY <3>1 DEF PageInv, PageTypes, Stages
    <3> QED BY <3>1, <3>2, PageQuiet DEF PageInv
  <2>4. CASE Unexport(q)
    <3>1. /\ stage[q] = "unmapped" /\ stage' = [stage EXCEPT ![q] = "none"]
          /\ UNCHANGED <<pageRefs, registered, mapped, orphaned>>
      BY <2>4 DEF Unexport
    <3>2. /\ stage' \in [QPs -> Stages]
          /\ \A r \in QPs : r = q \/ stage[r] = stage'[r]
      BY <3>1 DEF PageInv, PageTypes, Stages
    <3>3. mapped[q] = {}
      BY <3>1 DEF PageInv
    <3> QED BY <3>1, <3>2, <3>3, PageQuiet DEF PageInv
  <2> QED BY <1>2, <2>1, <2>2, <2>3, <2>4
<1>3. CASE DeviceSteps
  BY <1>2, <1>3 DEF DeviceSteps
<1> QED BY <1>1, <1>3 DEF DeviceNext
\* The inductive invariant of the pages.
THEOREM PageInvHolds == DeviceSpec => []PageInv
<1>1. DeviceInit => PageInv
  <2> SUFFICES ASSUME DeviceInit PROVE PageInv
    OBVIOUS
  <2>1. PageTypes /\ \A q \in QPs : stage[q] \in {"none", "unmapped"} => mapped[q] = {}
    BY DEF DeviceInit, PageTypes, Stages
  <2>2. \A p \in Pages : {q \in QPs : p \in mapped[q]} = {}
    BY DEF DeviceInit
  <2>3. PagesCounted
    BY <2>2, FS_EmptySet DEF PagesCounted, DeviceInit
  <2> QED BY <2>1, <2>3 DEF PageInv
<1> QED BY <1>1, PageInvStep, PTL DEF DeviceSpec

\* _host_memory_refs is exact over all handles and failed exports, and a page is
\* registered with CUDA exactly while it has a count.
THEOREM PagesCountedHolds == DeviceSpec => []PagesCounted
<1>1. PageInv => PagesCounted
  BY DEF PageInv
<1> QED BY <1>1, PageInvHolds, PTL

-----------------------------------------------------------------------------
(* Pins. *)

\* A step of the objects: who is away keeps its queues, and the QPs that are open
\* after it are on open CQs.
LEMMA PinLifecycle ==
    ASSUME PinInv, UNCHANGED <<stage, external, users, exporting, device>>,
           \A q \in QPs : wrapper[q] # "absent" =>
               wrapper'[q] # "absent" /\ refs'[q] \cap CQs = refs[q] \cap CQs,
           \A q \in QPs : wrapper'[q] = "open" => \A c \in refs'[q] \cap CQs : wrapper'[c] = "open",
           \A q \in device : wrapper'[q] = "open"
    PROVE  PinInv'
<1>1. StagesExact /\ QueuesApart /\ UsersCounted /\ OpenAbove
  BY DEF PinInv
<1>2. Away' = Away /\ device \subseteq Away /\ Away \subseteq QPs
  BY <1>1 DEF Away, StagesExact
<1>3. \A q \in Away : QueuesOf(q)' = QueuesOf(q) /\ wrapper'[q] # "absent"
  BY <1>1, <1>2 DEF QueuesApart, QueuesOf
<1>4. StagesExact'
  BY <1>1 DEF StagesExact
<1>5. QueuesApart'
  <2>1. \A q \in Away : QueuesOf(q)' \subseteq external /\ wrapper'[q] # "absent"
    BY <1>1, <1>3 DEF QueuesApart
  <2>2. \A q, r \in Away : q # r => QueuesOf(q)' \cap QueuesOf(r)' = {}
    BY <1>1, <1>3 DEF QueuesApart
  <2> QED BY <1>2, <2>1, <2>2 DEF QueuesApart
<1>6. UsersCounted'
  BY <1>1, <1>2, <1>3 DEF UsersCounted
<1>7. OpenAbove'
  BY DEF OpenAbove
<1> QED BY <1>4, <1>5, <1>6, <1>7 DEF PinInv

\* A step that closes no QP or CQ, opens no QP, and leaves their references alone.
LEMMA PinQuiet ==
    ASSUME PinInv, UNCHANGED <<stage, external, users, exporting, device>>,
           \A q \in QPs : refs'[q] \cap CQs = refs[q] \cap CQs,
           \A x \in QPs \cup CQs : /\ wrapper[x] = "open" => wrapper'[x] = "open"
                                   /\ wrapper[x] # "absent" => wrapper'[x] # "absent",
           \A q \in QPs : wrapper'[q] = "open" => wrapper[q] = "open"
    PROVE  PinInv'
<1>1. OpenAbove /\ device \subseteq QPs
  BY DEF PinInv, StagesExact
<1>2. \A q \in device : wrapper'[q] = "open"
  BY <1>1 DEF OpenAbove
<1>3. \A q \in QPs : wrapper'[q] = "open" => \A c \in refs'[q] \cap CQs : wrapper'[c] = "open"
  BY <1>1 DEF OpenAbove
<1> QED BY <1>2, <1>3, PinLifecycle

\* QPs, CQs and other objects.
LEMMA QueuesAmongObjects ==
    /\ QPs \subseteq Objects /\ CQs \subseteq Objects /\ QPs \cap CQs = {}
    /\ Ctx \notin QPs \cup CQs /\ Cmid \notin QPs \cup CQs
    /\ (PDs \cup Channels \cup OnPD) \cap (QPs \cup CQs) = {}
    /\ PDs \cup Channels \cup OnPD \subseteq Objects
BY ObjectsAssumption DEF Objects, Counted

\* Everything but the making and the end of QPs and CQs.
LEMMA PinOthers ==
    ASSUME PinInv, LifeInv, stage' = stage,
           \/ Open \/ Resolve \/ CloseContext \/ CloseCM \/ CollectContext \/ CollectCM
           \/ \E o \in PDs \cup Channels \cup OnPD :
                 \/ CloseObject(o) \/ \E ok \in BOOLEAN : CollectObject(o, ok)
                 \/ \E parents \in SUBSET Objects : Wrap(o, parents)
           \/ \E o \in Objects : Drop(o) \/ CollectClosed(o)
           \/ Events \/ AsyncEvents \/ UNCHANGED vars
    PROVE  PinInv'
<1> USE QueuesAmongObjects DEF exportVars
<1>1. wrapper \in [Objects -> WrapperStates] /\ refs \in [Objects -> SUBSET Objects]
  BY DEF LifeInv, LifeTypes, RefTypes
<1>2. CASE Open \/ Resolve \/ CloseContext \/ CloseCM \/ CollectContext \/ CollectCM
  <2>1. UNCHANGED <<external, users, exporting, device>>
    BY <1>2 DEF Open, Resolve, CloseContext, CloseCM, CollectContext, CollectCM
  <2>2. \A q \in QPs : refs'[q] = refs[q]
    BY <1>1, <1>2 DEF Open, Resolve, CloseContext, CloseCM, CollectContext, CollectCM
  <2>3. \A x \in QPs \cup CQs : wrapper'[x] = wrapper[x]
    BY <1>1, <1>2 DEF Open, Resolve, CloseContext, CloseCM, CollectContext, CollectCM
  <2> QED BY <2>1, <2>2, <2>3, PinQuiet
<1>3. ASSUME NEW o \in PDs \cup Channels \cup OnPD,
             \/ CloseObject(o) \/ \E ok \in BOOLEAN : CollectObject(o, ok)
             \/ \E parents \in SUBSET Objects : Wrap(o, parents)
      PROVE  PinInv'
  <2>1. UNCHANGED <<external, users, exporting, device>>
    BY <1>3 DEF CloseObject, CollectObject, Wrap
  <2>2. refs' = refs \/ \E parents \in SUBSET Objects : refs' = [refs EXCEPT ![o] = parents]
    BY <1>3 DEF CloseObject, CollectObject, Wrap
  <2>3. \A q \in QPs : refs'[q] = refs[q]
    BY <1>1, <2>2
  <2>4. \E state : wrapper' = [wrapper EXCEPT ![o] = state]
    BY <1>3 DEF CloseObject, CollectObject, Wrap
  <2>5. \A x \in QPs \cup CQs : wrapper'[x] = wrapper[x]
    BY <1>1, <2>4
  <2> QED BY <2>1, <2>3, <2>5, PinQuiet
<1>4. ASSUME NEW o \in Objects, CollectClosed(o) PROVE PinInv'
  <2>1. /\ UNCHANGED <<external, users, exporting, device, refs>>
        /\ wrapper[o] = "closed" /\ wrapper' = [wrapper EXCEPT ![o] = "collected"]
    BY <1>4 DEF CollectClosed
  <2>2. \A x \in QPs \cup CQs : /\ wrapper[x] = "open" <=> wrapper'[x] = "open"
                                /\ wrapper[x] # "absent" => wrapper'[x] # "absent"
    BY <1>1, <2>1
  <2> QED BY <2>1, <2>2, PinQuiet
<1>5. CASE (\E o \in Objects : Drop(o)) \/ Events \/ AsyncEvents \/ UNCHANGED vars
  <2>1. UNCHANGED <<external, users, exporting, device, refs, wrapper>>
    BY <1>5 DEF Drop, Events, ReqNotify, HwEvent, TakeEvent, GetEvent, CountEvent, AckEvents,
       AsyncEvents, TakeAsync, ReturnAsync, AckAsync, vars, objVars
  <2> QED BY <2>1, PinQuiet
<1> QED BY <1>2, <1>3, <1>4, <1>5

\* A CQ or QP is made.
LEMMA PinMakeQueue ==
    ASSUME PinInv, LifeInv, stage' = stage, NEW x \in QPs \cup CQs,
           NEW parents \in SUBSET Objects, Wrap(x, parents),
           x \in QPs => \A p \in parents : wrapper[p] = "open"
    PROVE  PinInv'
<1> USE QueuesAmongObjects DEF exportVars
<1>1. wrapper \in [Objects -> WrapperStates] /\ refs \in [Objects -> SUBSET Objects]
  BY DEF LifeInv, LifeTypes, RefTypes
<1>2. /\ UNCHANGED <<external, users, exporting, device>> /\ wrapper[x] = "absent"
      /\ wrapper' = [wrapper EXCEPT ![x] = "open"] /\ refs' = [refs EXCEPT ![x] = parents]
  BY DEF Wrap
<1>3. CASE x \in CQs
  <2>1. \A q \in QPs : refs'[q] = refs[q] /\ wrapper'[q] = wrapper[q]
    BY <1>1, <1>2, <1>3
  <2>2. \A c \in CQs : /\ wrapper[c] = "open" => wrapper'[c] = "open"
                       /\ wrapper[c] # "absent" => wrapper'[c] # "absent"
    BY <1>1, <1>2
  <2> QED BY <1>2, <2>1, <2>2, PinQuiet
<1>4. CASE x \in QPs
  <2>1. \A c \in CQs : wrapper'[c] = wrapper[c]
    BY <1>1, <1>2, <1>4
  <2>2. \A q \in QPs : q # x => wrapper'[q] = wrapper[q] /\ refs'[q] = refs[q]
    BY <1>1, <1>2
  <2>3. refs'[x] = parents /\ wrapper'[x] = "open"
    BY <1>1, <1>2
  <2>4. OpenAbove /\ device \subseteq QPs
    BY DEF PinInv, StagesExact
  <2>5. \A q \in QPs : wrapper'[q] = "open" => \A c \in refs'[q] \cap CQs : wrapper'[c] = "open"
    <3> TAKE q \in QPs
    <3>1. CASE q = x
      BY <1>4, <2>1, <2>3, <3>1
    <3>2. CASE q # x
      BY <2>1, <2>2, <2>4, <3>2 DEF OpenAbove
    <3> QED BY <3>1, <3>2
  <2>6. \A q \in device : wrapper'[q] = "open"
    BY <2>2, <2>3, <2>4 DEF OpenAbove
  <2>7. \A q \in QPs : wrapper[q] # "absent" =>
               wrapper'[q] # "absent" /\ refs'[q] \cap CQs = refs[q] \cap CQs
    BY <1>2, <2>2
  <2> QED BY <1>2, <2>5, <2>6, <2>7, PinLifecycle
<1> QED BY <1>3, <1>4

\* A QP that has a handle is neither closed nor collected.
LEMMA PinEndQP ==
    ASSUME PinInv, LifeInv, stage' = stage, NEW q \in QPs, NEW ok \in BOOLEAN,
           CloseQP(q) \/ CollectQP(q, ok)
    PROVE  PinInv'
<1> USE QueuesAmongObjects DEF exportVars
<1>1. wrapper \in [Objects -> WrapperStates] /\ refs \in [Objects -> SUBSET Objects]
  BY DEF LifeInv, LifeTypes, RefTypes
<1>2. UNCHANGED <<external, users, exporting, device>>
  BY DEF CloseQP, CollectQP
<1>3. \A r \in QPs : refs'[r] \cap CQs = refs[r] \cap CQs
  BY <1>1 DEF CloseQP, CollectQP
<1>4. CASE wrapper' = wrapper
  BY <1>2, <1>3, <1>4, PinQuiet
<1>5. CASE \E state \in {"closed", "collected"} : wrapper' = [wrapper EXCEPT ![q] = state]
  <2>1. q \notin device
    <3>1. CASE CloseQP(q)
      <4>1. users[q] = 0
        BY <3>1 DEF CloseQP
      <4> QED BY <4>1 DEF PinInv, UsersCounted, QueuesOf
    <3>2. CASE CollectQP(q, ok)
      BY <3>2 DEF CollectQP, Collectable, Garbage
    <3> QED BY <3>1, <3>2
  <2>2. /\ \A c \in CQs : wrapper'[c] = wrapper[c]
        /\ \A r \in QPs : r # q => wrapper'[r] = wrapper[r]
        /\ wrapper'[q] \in {"closed", "collected"}
    BY <1>1, <1>5
  <2>3. OpenAbove /\ device \subseteq QPs
    BY DEF PinInv, StagesExact
  <2>4. \A r \in QPs : wrapper'[r] = "open" => \A c \in refs'[r] \cap CQs : wrapper'[c] = "open"
    BY <1>3, <2>2, <2>3 DEF OpenAbove
  <2>5. \A r \in device : wrapper'[r] = "open"
    BY <2>1, <2>2, <2>3 DEF OpenAbove
  <2>6. \A r \in QPs : wrapper[r] # "absent" => wrapper'[r] # "absent"
    BY <2>2
  <2> QED BY <1>2, <1>3, <2>4, <2>5, <2>6, PinLifecycle
<1> QED BY <1>4, <1>5 DEF CloseQP, CollectQP

\* A CQ with an open QP on it stays open: it is busy, and it is not garbage.
LEMMA PinEndCQ ==
    ASSUME PinInv, LifeInv, stage' = stage, NEW cq \in CQs, NEW ok \in BOOLEAN,
           CloseCQ(cq) \/ CollectCQ(cq, ok)
    PROVE  PinInv'
<1> USE QueuesAmongObjects DEF exportVars
<1>1. wrapper \in [Objects -> WrapperStates] /\ refs \in [Objects -> SUBSET Objects] /\ Backed
  BY DEF LifeInv, LifeTypes, RefTypes
<1>2. UNCHANGED <<external, users, exporting, device, refs>>
  BY DEF CloseCQ, CollectCQ
<1>3. CASE wrapper' = wrapper
  BY <1>2, <1>3, PinQuiet
<1>4. CASE \E state \in {"closed", "collected"} : wrapper' = [wrapper EXCEPT ![cq] = state]
  <2>1. /\ \A c \in CQs : c # cq => wrapper'[c] = wrapper[c]
        /\ \A r \in QPs : wrapper'[r] = wrapper[r]
    BY <1>1, <1>4
  <2>2. wrapper' # wrapper
    BY <1>1, <1>4 DEF CloseCQ, CollectCQ
  <2>3. ASSUME NEW q \in QPs, wrapper[q] = "open", cq \in refs[q] PROVE FALSE
    <3>1. CASE CloseCQ(cq)
      <4>1. q \in native /\ cq \in Uses(q)
        BY <1>1, <2>3 DEF Backed, Uses
      <4>2. Busy(cq)
        BY <4>1 DEF Busy
      <4> QED BY <2>2, <3>1, <4>2 DEF CloseCQ
    <3>2. CASE CollectCQ(cq, ok)
      <4>1. cq \in Garbage
        BY <3>2 DEF CollectCQ, Collectable
      <4>2. Alive(q) /\ q \in Objects
        BY <2>3 DEF Alive
      <4> QED BY <2>3, <4>1, <4>2 DEF Garbage
    <3> QED BY <3>1, <3>2
  <2>4. OpenAbove /\ device \subseteq QPs
    BY DEF PinInv, StagesExact
  <2>5. \A r \in QPs : wrapper'[r] = "open" => \A c \in refs'[r] \cap CQs : wrapper'[c] = "open"
    BY <1>2, <2>1, <2>3, <2>4 DEF OpenAbove
  <2>6. \A r \in device : wrapper'[r] = "open"
    BY <2>1, <2>4 DEF OpenAbove
  <2> QED BY <1>2, <2>1, <2>5, <2>6, PinLifecycle
<1> QED BY <1>3, <1>4 DEF CloseCQ, CollectCQ, FreeCQ

\* export() and close() of a DeviceQP.
LEMMA PinDevice ==
    ASSUME PinInv, LifeInv, DeviceSteps
    PROVE  PinInv'
<1> USE DEF objVars, pageVars, deviceVars
<1>1. stage \in [QPs -> Stages] /\ StagesExact /\ QueuesApart /\ UsersCounted /\ OpenAbove
  BY DEF PinInv
<1>2. PICK q \in QPs : \/ StartExport(q) \/ ExportRefused(q) \/ RegisterQueueMemory(q)
                       \/ UndoExport(q) \/ FinishExport(q) \/ CloseHandle(q) \/ Unexport(q)
  BY DEF DeviceSteps
<1>3. UNCHANGED <<wrapper, refs>>
  BY <1>2 DEF StartExport, ExportRefused, RegisterQueueMemory, UndoExport, FinishExport,
     CloseHandle, Unexport, BridgeInfo, ExportFails, Acquire, Release, vars
<1>4. \A r : QueuesOf(r)' = QueuesOf(r)
  BY <1>3 DEF QueuesOf
<1>5. \A r \in QPs : QueuesOf(r) \subseteq QPs \cup CQs /\ r \in QueuesOf(r)
  BY DEF QueuesOf
<1>6. CASE StartExport(q)
  <2>1. /\ UNCHANGED <<users, device, stage>> /\ wrapper[q] = "open"
        /\ QueuesOf(q) \cap external = {}
        /\ external' = external \cup QueuesOf(q) /\ exporting' = exporting \cup {q}
    BY <1>6 DEF StartExport, BridgeInfo
  <2>2. q \notin Away /\ Away' = Away \cup {q}
    BY <1>1, <1>5, <2>1 DEF QueuesApart, Away
  <2>3. StagesExact'
    BY <1>1, <2>1, <2>2 DEF StagesExact, Away
  <2>4. QueuesApart'
    <3>1. \A r \in Away' : QueuesOf(r)' \subseteq external' /\ wrapper'[r] # "absent"
      BY <1>1, <1>3, <1>4, <2>1, <2>2 DEF QueuesApart
    <3>2. \A r \in Away : QueuesOf(r) \cap QueuesOf(q) = {}
      BY <1>1, <2>1 DEF QueuesApart
    <3>3. \A r, s \in Away' : r # s => QueuesOf(r)' \cap QueuesOf(s)' = {}
      BY <1>1, <1>4, <2>2, <3>2 DEF QueuesApart
    <3> QED BY <3>1, <3>3 DEF QueuesApart
  <2>5. UsersCounted' /\ OpenAbove'
    BY <1>1, <1>3, <1>4, <2>1 DEF UsersCounted, OpenAbove
  <2> QED BY <1>1, <2>1, <2>3, <2>4, <2>5 DEF PinInv
<1>7. CASE ExportRefused(q) \/ UndoExport(q)
  <2>1. /\ UNCHANGED <<users, device, external>> /\ exporting' = exporting \ {q} /\ q \in exporting
        /\ stage' \in [QPs -> Stages] /\ stage'[q] = "none"
        /\ \A r \in QPs : r # q => stage'[r] = stage[r]
    BY <1>1, <1>7 DEF ExportRefused, UndoExport, ExportFails, Stages
  <2>2. StagesExact'
    BY <1>1, <2>1 DEF StagesExact
  <2>3. QueuesApart' /\ UsersCounted' /\ OpenAbove'
    BY <1>1, <1>3, <1>4, <2>1 DEF QueuesApart, UsersCounted, OpenAbove, Away
  <2> QED BY <2>1, <2>2, <2>3 DEF PinInv
<1>8. CASE RegisterQueueMemory(q) \/ CloseHandle(q)
  <2>1. /\ UNCHANGED <<users, device, external, exporting>>
        /\ stage' \in [QPs -> Stages]
        /\ \A r \in QPs : r # q => stage'[r] = stage[r]
        /\ \/ q \in exporting /\ stage[q] = "none" /\ stage'[q] \in {"undo", "mapped"}
           \/ stage[q] = "open" /\ stage'[q] \in {"open", "unmapped"}
    BY <1>1, <1>8 DEF RegisterQueueMemory, CloseHandle, vars, exportVars, Stages
  <2>2. StagesExact'
    BY <1>1, <2>1 DEF StagesExact
  <2>3. QueuesApart' /\ UsersCounted' /\ OpenAbove'
    BY <1>1, <1>3, <1>4, <2>1 DEF QueuesApart, UsersCounted, OpenAbove, Away
  <2> QED BY <2>1, <2>2, <2>3 DEF PinInv
<1>9. CASE FinishExport(q)
  <2>1. /\ external' = external /\ exporting' = exporting \ {q} /\ q \in exporting
        /\ device' = device \cup {q} /\ wrapper[q] = "open"
        /\ stage' = [stage EXCEPT ![q] = "open"]
        /\ users' = [o \in DOMAIN users |-> IF o \in QueuesOf(q) THEN users[o] + 1 ELSE users[o]]
    BY <1>9 DEF FinishExport, Acquire
  <2>2. stage' \in [QPs -> Stages] /\ stage'[q] = "open" /\ \A r \in QPs : r # q => stage'[r] = stage[r]
    BY <1>1, <2>1 DEF Stages
  <2>3. StagesExact'
    BY <1>1, <2>1, <2>2 DEF StagesExact
  <2>4. Away' = Away
    BY <2>1 DEF Away
  <2>5. QueuesApart' /\ OpenAbove'
    BY <1>1, <1>3, <1>4, <2>1, <2>4 DEF QueuesApart, OpenAbove
  <2>6. /\ users' \in [QPs \cup CQs -> Nat]
        /\ \A o \in QPs \cup CQs : users[o] \in Nat /\ users'[o] >= users[o]
                                   /\ (o \in QueuesOf(q) => users'[o] > 0)
    BY <1>1, <2>1 DEF UsersCounted
  <2>7. UsersCounted'
    <3> SUFFICES ASSUME NEW r \in device', NEW o \in QueuesOf(r)' PROVE users'[o] > 0
      BY <2>6 DEF UsersCounted
    <3>1. o \in QueuesOf(r) /\ o \in QPs \cup CQs
      BY <1>1, <1>4, <1>5, <2>1 DEF StagesExact
    <3>2. CASE r = q
      BY <2>6, <3>1, <3>2
    <3>3. CASE r # q
      BY <1>1, <2>1, <2>6, <3>1, <3>3 DEF UsersCounted
    <3> QED BY <3>2, <3>3
  <2> QED BY <2>2, <2>3, <2>5, <2>7 DEF PinInv
<1>10. CASE Unexport(q)
  <2>1. /\ external' = external /\ exporting' = exporting /\ q \in device
        /\ device' = device \ {q} /\ stage' = [stage EXCEPT ![q] = "none"]
        /\ users' = [o \in DOMAIN users |-> IF o \in QueuesOf(q) THEN users[o] - 1 ELSE users[o]]
    BY <1>10 DEF Unexport, Release
  <2>2. stage' \in [QPs -> Stages] /\ stage'[q] = "none" /\ \A r \in QPs : r # q => stage'[r] = stage[r]
    BY <1>1, <2>1 DEF Stages
  <2>3. StagesExact'
    BY <1>1, <2>1, <2>2 DEF StagesExact
  <2>4. Away' \subseteq Away
    BY <2>1 DEF Away
  <2>5. QueuesApart' /\ OpenAbove'
    BY <1>1, <1>3, <1>4, <2>1, <2>4 DEF QueuesApart, OpenAbove
  <2>6. \A o \in QPs \cup CQs : /\ users[o] \in Nat
                                /\ o \in QueuesOf(q) => users[o] > 0
                                /\ o \notin QueuesOf(q) => users'[o] = users[o]
    BY <1>1, <2>1 DEF UsersCounted
  <2>7. users' \in [QPs \cup CQs -> Nat]
    BY <1>1, <2>1, <2>6 DEF UsersCounted
  <2>8. UsersCounted'
    <3> SUFFICES ASSUME NEW r \in device', NEW o \in QueuesOf(r)' PROVE users'[o] > 0
      BY <2>7 DEF UsersCounted
    <3>1. o \in QueuesOf(r) /\ o \in QPs \cup CQs /\ r \in device /\ r # q
      BY <1>1, <1>4, <1>5, <2>1 DEF StagesExact
    <3>2. o \notin QueuesOf(q)
      BY <1>1, <2>1, <3>1 DEF QueuesApart, Away
    <3> QED BY <1>1, <2>6, <3>1, <3>2 DEF UsersCounted
  <2> QED BY <2>2, <2>3, <2>5, <2>8 DEF PinInv
<1> QED BY <1>2, <1>6, <1>7, <1>8, <1>9, <1>10

\* Every step of DeviceNext, and stuttering.
LEMMA PinInvStep == PinInv /\ LifeInv /\ [DeviceNext]_<<vars, deviceVars>> => PinInv'
<1> SUFFICES ASSUME PinInv, LifeInv, [DeviceNext]_<<vars, deviceVars>> PROVE PinInv'
  OBVIOUS
<1>1. CASE DeviceSteps
  BY <1>1, PinDevice
<1>2. CASE stage' = stage /\ (End \/ Collect)
  <2>1. ASSUME NEW q \in QPs, NEW ok \in BOOLEAN, CloseQP(q) \/ CollectQP(q, ok) PROVE PinInv'
    BY <1>2, <2>1, PinEndQP
  <2>2. ASSUME NEW cq \in CQs, NEW ok \in BOOLEAN, CloseCQ(cq) \/ CollectCQ(cq, ok) PROVE PinInv'
    BY <1>2, <2>2, PinEndCQ
  <2>3. CASE \/ CloseContext \/ CloseCM \/ CollectContext \/ CollectCM
             \/ \E o \in PDs \cup Channels \cup OnPD :
                   CloseObject(o) \/ \E ok \in BOOLEAN : CollectObject(o, ok)
             \/ \E o \in Objects : Drop(o) \/ CollectClosed(o)
    BY <1>2, <2>3, PinOthers
  <2>4. CASE End
    BY <2>1, <2>2, <2>3, <2>4
       DEF End, ClosePD, CloseMR, CloseAH, CloseSRQ, CloseCompChannel, OnPD
  <2>5. CASE Collect
    BY <2>1, <2>2, <2>3, <2>5
       DEF Collect, CollectPD, CollectMR, CollectAH, CollectSRQ, CollectCompChannel, OnPD
  <2> QED BY <1>2, <2>4, <2>5
<1>3. CASE stage' = stage /\ Make
  <2>1. CASE Open \/ Resolve
    BY <1>3, <2>1, PinOthers
  <2>2. ASSUME NEW o \in PDs \cup Channels, CreateOnContext(o) PROVE PinInv'
    <3>1. Wrap(o, {Ctx}) /\ {Ctx} \in SUBSET Objects
      BY <2>2 DEF CreateOnContext, Objects
    <3> QED BY <1>3, <3>1, PinOthers
  <2>3. ASSUME NEW o \in OnPD, NEW pd \in PDs, CreateOnPD(o, pd) PROVE PinInv'
    <3>1. Wrap(o, {pd}) /\ {pd} \in SUBSET Objects
      BY <2>3, QueuesAmongObjects DEF CreateOnPD
    <3> QED BY <1>3, <3>1, PinOthers
  <2>4. ASSUME NEW cq \in CQs, NEW ch \in Optional(Channels), CreateCQ(cq, ch) PROVE PinInv'
    <3>1. Wrap(cq, {Ctx} \cup ch) /\ {Ctx} \cup ch \in SUBSET Objects /\ cq \notin QPs
      BY <2>4, QueuesAmongObjects DEF CreateCQ, Optional, Objects
    <3> QED BY <1>3, <3>1, PinMakeQueue
  <2>5. ASSUME NEW q \in QPs, NEW pd \in PDs, NEW scq \in CQs, NEW rcq \in CQs,
               NEW srq \in Optional(SRQs),
               CreateQP(q, pd, scq, rcq, srq) \/ CMCreateQP(q, pd, scq, rcq, srq)
        PROVE  PinInv'
    <3>1. srq \subseteq Objects /\ {pd, scq, rcq, Cmid} \subseteq Objects
      BY QueuesAmongObjects DEF Optional, Objects, OnPD
    <3>2. CASE CreateQP(q, pd, scq, rcq, srq)
      <4>1. /\ Wrap(q, {pd, scq, rcq} \cup srq) /\ {pd, scq, rcq} \cup srq \in SUBSET Objects
            /\ \A p \in {pd, scq, rcq} \cup srq : wrapper[p] = "open"
        BY <3>1, <3>2 DEF CreateQP, QPArguments
      <4> QED BY <1>3, <4>1, PinMakeQueue
    <3>3. CASE CMCreateQP(q, pd, scq, rcq, srq)
      <4>1. /\ Wrap(q, {pd, scq, rcq, Cmid} \cup srq)
            /\ {pd, scq, rcq, Cmid} \cup srq \in SUBSET Objects
            /\ \A p \in {pd, scq, rcq, Cmid} \cup srq : wrapper[p] = "open"
        BY <3>1, <3>3 DEF CMCreateQP, QPArguments
      <4> QED BY <1>3, <4>1, PinMakeQueue
    <3> QED BY <2>5, <3>2, <3>3
  <2> QED BY <1>3, <2>1, <2>2, <2>3, <2>4, <2>5
       DEF Make, AllocPD, CreateCompChannel, RegMR, RegDmabufMR, CreateAH, CreateSRQ, OnPD
<1>4. CASE stage' = stage /\ (Events \/ AsyncEvents \/ UNCHANGED vars)
  BY <1>4, PinOthers
<1> QED BY <1>1, <1>2, <1>3, <1>4, QueuesAreMade DEF DeviceNext, deviceVars, pageVars

\* A kernel may use a DeviceQP until close() begins: the pages of its queues are
\* registered, and QP and CQs are there, until unexport has succeeded.
THEOREM HandlePinnedHolds == DeviceSpec => []HandlePinned
<1>1. DeviceInit => PinInv
  <2> SUFFICES ASSUME DeviceInit PROVE PinInv
    OBVIOUS
  <2>1. exporting = {} /\ device = {} /\ Away = {} /\ users \in [QPs \cup CQs -> Nat]
    BY DEF DeviceInit, Init, Away
  <2>2. stage \in [QPs -> Stages] /\ \A q \in QPs : stage[q] = "none"
    BY DEF DeviceInit, Stages
  <2>3. \A q \in QPs : wrapper[q] = "absent"
    BY QueuesAmongObjects DEF DeviceInit, Init
  <2> QED BY <2>1, <2>2, <2>3 DEF PinInv, StagesExact, QueuesApart, UsersCounted, OpenAbove
<1>2. DeviceSpec => []PageInv
  BY PageInvHolds
<1>3. DeviceSpec => []LifeInv
  BY DeviceImplementsLifecycle, LifeInvHolds, PTL
<1>4. PageInv /\ LifeInv /\ PinInv => HandlePinned
  <2> SUFFICES ASSUME PageInv, LifeInv, PinInv, NEW q \in QPs
               PROVE  /\ mapped[q] = QueuePages(q) => QueuePages(q) \subseteq registered
                      /\ stage[q] \in {"open", "unmapped"} => q \in device /\ QueuesOf(q) \subseteq native
    BY DEF HandlePinned
  <2>1. ASSUME mapped[q] = QueuePages(q), NEW p \in QueuePages(q) PROVE p \in registered
    BY <2>1, QueuePagesType, PageCount
  <2>2. ASSUME stage[q] \in {"open", "unmapped"} PROVE q \in device /\ QueuesOf(q) \subseteq native
    <3>1. q \in device /\ wrapper[q] = "open"
      BY <2>2 DEF PinInv, StagesExact, OpenAbove
    <3>2. \A o \in QueuesOf(q) : wrapper[o] = "open" /\ o \in Objects
      BY <3>1, QueuesAmongObjects DEF PinInv, OpenAbove, QueuesOf
    <3> QED BY <3>1, <3>2 DEF LifeInv, Backed
  <2> QED BY <2>1, <2>2
<1> QED BY <1>1, <1>2, <1>3, <1>4, PinInvStep, PTL DEF DeviceSpec

-----------------------------------------------------------------------------
(* The data path *)


Ops == {"send", "recv"}

PostCalls ==
    [op : Ops, obj : QPs, arg : Seq(Nat), stage : {"native", "back"},
     ok : BOOLEAN, out : {<<>>}, raced : BOOLEAN]
PollCalls ==
    [op : {"poll", "pollex"}, obj : CQs, arg : Nat, stage : {"native", "cursor", "back"},
     ok : BOOLEAN, out : Seq(Nat), raced : BOOLEAN]
CMCalls ==
    [op : {"connect", "disconnect"}, obj : {Cmid}, arg : {0}, stage : {"native", "back"},
     ok : BOOLEAN, out : {<<>>}, raced : BOOLEAN]

Calls == {Idle} \cup PostCalls \cup PollCalls \cup CMCalls

DataTypes ==
    /\ call \in [Threads -> Calls]
    /\ queue \in [QPs -> [Ops -> Seq(Nat)]]
    /\ cqe \in [CQs -> Seq(Nat)]
    /\ nextId \in Nat \ {0}
    /\ accepted \subseteq 1..(nextId - 1) /\ completed \subseteq accepted

\* The requests of a call c, with n the next request: different ones, given out
\* before, none of which the provider has before the native call.
OwnRequests(c, acc, n) ==
    /\ IsInjective(c.arg) /\ c.arg # <<>> /\ Range(c.arg) \subseteq 1..(n - 1)
    /\ c.stage = "native" => Range(c.arg) \cap acc = {}

RequestsApart ==
    /\ \A t \in Threads : call[t] \in PostCalls => OwnRequests(call[t], accepted, nextId)
    /\ \A t, u \in Threads :
          t # u /\ call[t] \in PostCalls /\ call[u] \in PostCalls =>
              Range(call[t].arg) \cap Range(call[u].arg) = {}

\* BatchWhole, made inductive.
BatchInv == RequestsApart /\ BatchWhole

\* A request waits in one queue, once, and of a QP that exists.
QueuesOnce ==
    /\ \A q \in QPs : \A op \in Ops :
          /\ IsInjective(queue[q][op]) /\ Range(queue[q][op]) \subseteq accepted \ completed
          /\ queue[q][op] # <<>> => q \in native
    /\ \A q, r \in QPs : \A op, o \in Ops :
          q # r \/ op # o => Range(queue[q][op]) \cap Range(queue[r][o]) = {}

\* A CQ has no entry twice, and has entries only while a QP refers to it.
EntriesOnce ==
    \A cq \in CQs :
        /\ IsInjective(cqe[cq])
        /\ cqe[cq] # <<>> => \E q \in QPs \cap native : cq \in refs[q]

\* A call has no entries before it has read them, and then no more than it may.
ReadLimited ==
    \A t \in Threads : call[t] # Idle =>
        /\ call[t].stage # "back" => call[t].out = <<>>
        /\ call[t].op \in {"poll", "pollex"} => Len(call[t].out) <= call[t].arg

Places == [cq \in CQs |-> Range(cqe[cq])]
OnTheWay == [t \in Threads |-> IF call[t] = Idle THEN {} ELSE Range(call[t].out)]

\* Of the completions all, each is in one place of P, on one way of O, in R or
\* in L, and in one of these only.
Once(P, O, all, R, L) ==
    /\ \A x : x \in all <=>
          x \in R \/ x \in L \/ (\E cq \in CQs : x \in P[cq]) \/ (\E t \in Threads : x \in O[t])
    /\ R \cap L = {}
    /\ \A t \in Threads : O[t] \cap R = {} /\ O[t] \cap L = {}
    /\ \A cq \in CQs : P[cq] \cap R = {} /\ P[cq] \cap L = {}
    /\ \A t \in Threads : \A cq \in CQs : O[t] \cap P[cq] = {}
    /\ \A t, u \in Threads : t # u => O[t] \cap O[u] = {}
    /\ \A c, d \in CQs : c # d => P[c] \cap P[d] = {}

\* CompletionsOnce, made inductive.
CompletionInv ==
    /\ QueuesOnce /\ EntriesOnce /\ ReadLimited
    /\ Once(Places, OnTheWay, completed, returned, lost)

\* A call has its native object, unless close() ended it.
LiveCalls == \A t \in Threads : call[t] # Idle => call[t].obj \in native \/ call[t].raced

DataInv == DataTypes /\ LiveCalls /\ BatchInv /\ CompletionInv

-----------------------------------------------------------------------------
\* Each step of the bindings under the data path is one of VerbsLifecycle.
LEMMA ObjectStep == DataNext => [Next]_vars
<1> SUFFICES ASSUME DataNext PROVE [Next]_vars
  OBVIOUS
<1>1. CASE Lifecycle
  <2>1. CASE Make \/ End \/ Collect
    BY <2>1 DEF Next
  <2>2. CASE EfaMakeCQ \/ EfaMake
    <3>1. {} \in Optional(SRQs)
      BY DEF Optional
    <3>2. CASE EfaMakeCQ
      BY <3>2 DEF EfaMakeCQ, EfaCreateCQ, EfaCreateCQEx, Make, Next
    <3>3. CASE EfaMake
      <4>1. ASSUME NEW q \in QPs, NEW pd \in PDs, NEW scq \in CQs, NEW rcq \in CQs,
                   EfaCreateQP(q, pd, scq, rcq)
            PROVE  Make
        BY <4>1, <3>1 DEF EfaCreateQP, Make
      <4> QED BY <3>3, <4>1 DEF EfaMake, EfaOpen, EfaAllocPD, EfaCreateCompChannel, EfaRegMR,
                                EfaRegDmabufMR, EfaCreateAH, Make, Next
    <3> QED BY <2>2, <3>2, <3>3
  <2>3. CASE EfaEnd
    BY <2>3 DEF EfaEnd, EfaCloseContext, EfaClosePD, EfaCloseMR, EfaCloseAH,
                EfaCloseCompChannel, EfaCloseQP, EfaCloseCQ, EfaCloseCQEx, End, Next
  <2>4. CASE EfaCollect
    BY <2>4 DEF EfaCollect, EfaCollectContext, EfaCollectPD, EfaCollectMR, EfaCollectAH,
                EfaCollectCompChannel, EfaCollectQP, EfaCollectCQ, EfaCollectCQEx, Collect, Next
  <2>5. CASE EfaEvents
    BY <2>5 DEF EfaEvents, EfaReqNotify, EfaTakeEvent, EfaGetEvent, EfaCountEvent, EfaAckEvents,
                EfaTakeAsync, EfaReturnAsync, EfaAckAsync, Events, AsyncEvents, Next
  <2> QED BY <1>1, <2>1, <2>2, <2>3, <2>4, <2>5 DEF Lifecycle
<1>2. CASE States
  BY <1>2 DEF States, Modify, EfaModify, ToInit, ToRtr, ToRts, EfaToInit, EfaToRtr, EfaToRts,
              ModifyQP, Prepare, efaVars
<1>3. CASE Posting
  <2>1. ASSUME NEW t \in Threads, NEW q \in QPs, NEW n \in 1..MaxBatch,
               \/ PostSend(t, q, n) \/ PostRecv(t, q, n)
               \/ PostSendEx(t, q, n) \/ EfaPostRecv(t, q, n)
               \/ \E bad \in 1..MaxBatch : PostSendExRaises(t, q, n, bad)
        PROVE  UNCHANGED efaVars
    BY <2>1 DEF PostSend, PostRecv, PostSendEx, EfaPostRecv, PostSendExRaises, Post
  <2>2. ASSUME NEW t \in Threads, NativePost(t) \/ WrComplete(t) \/ ReturnPost(t)
        PROVE  UNCHANGED efaVars
    BY <2>2 DEF NativePost, WrComplete, ReturnPost
  <2> QED BY <1>3, <2>1, <2>2 DEF Posting, efaVars
<1>4. CASE Polling
  BY <1>4 DEF Polling, Poll, EfaPoll, PollEx, NativePoll, ReturnPoll, StartPoll, ReadCursor,
              efaVars
<1>5. CASE Connection
  BY <1>5 DEF Connection, Connect, Disconnect, NativeConnection, ReturnConnection, efaVars
<1>6. CASE \E q \in QPs : DestroySpins(q) \/ \E op \in Ops : Complete(q, op)
  BY <1>6 DEF DestroySpins, Complete, efaVars
<1> QED BY <1>1, <1>2, <1>3, <1>4, <1>5, <1>6 DEF DataNext, Ops

\* The data path implements the bindings' objects: whatever VerbsLifecycle
\* promises holds under any posting, polling and connecting.
THEOREM DatapathImplementsLifecycle == DataSpec => Spec
<1>1. DataInit => Init
  BY DEF DataInit, EfaInit
<1>2. [DataNext]_<<efaVars, dataVars>> => [Next]_vars
  BY ObjectStep DEF efaVars
<1> QED BY <1>1, <1>2, PTL DEF DataSpec, Spec

LifecycleInv == EventInv /\ ChildInv /\ LifeInv /\ HeldAlive

\* What VerbsLifecycleProofs shows of the objects holds under the data path.
LEMMA LifecycleHolds == DataSpec => []LifecycleInv
BY DatapathImplementsLifecycle, EventInvHolds, ChildInvHolds, LifeInvHolds, HeldAliveHolds, PTL
   DEF LifecycleInv

-----------------------------------------------------------------------------
(* Sequences of different requests. *)

\* Range(s) = {} only for the empty sequence.
LEMMA ElementsOfSeq ==
    ASSUME NEW s \in Seq(Nat)
    PROVE  /\ Range(s) \subseteq Nat
           /\ Range(s) = {} <=> s = <<>>
           /\ s = <<>> => IsInjective(s)
<1>1. Len(s) \in Nat /\ DOMAIN s = 1..Len(s) /\ \A i \in DOMAIN s : s[i] \in Nat
  BY LenProperties
<1>2. s = <<>> <=> Len(s) = 0
  BY EmptySeq
<1>3. Range(s) \subseteq Nat
  BY <1>1 DEF Range
<1>4. s = <<>> => Range(s) = {} /\ IsInjective(s)
  BY <1>1, <1>2 DEF Range, IsInjective
<1>5. s # <<>> => s[1] \in Range(s)
  BY <1>1, <1>2 DEF Range
<1> QED BY <1>3, <1>4, <1>5

\* A concatenation has the elements of both parts, and they are different if
\* they are in each part and nothing is in both.
LEMMA RangeOfConcat ==
    ASSUME NEW a \in Seq(Nat), NEW b \in Seq(Nat)
    PROVE  /\ Range(a \o b) = Range(a) \cup Range(b)
           /\ IsInjective(a \o b) <=>
                  IsInjective(a) /\ IsInjective(b) /\ Range(a) \cap Range(b) = {}
<1> DEFINE m == Len(a)
           n == Len(b)
           c == a \o b
<1>1. m \in Nat /\ n \in Nat /\ DOMAIN a = 1..m /\ DOMAIN b = 1..n
  BY LenProperties
<1>2. c \in Seq(Nat) /\ Len(c) = m + n
  BY ConcatProperties
<1>3. DOMAIN c = 1..(m + n)
  BY <1>2, LenProperties
<1>4. \A i \in 1..(m + n) : c[i] = IF i <= m THEN a[i] ELSE b[i - m]
  BY ConcatProperties
<1> HIDE DEF m, n, c
<1>5. \A i \in 1..m : i \in 1..(m + n) /\ c[i] = a[i]
  BY <1>1, <1>4
<1>6. \A i \in 1..n : m + i \in 1..(m + n) /\ c[m + i] = b[i]
  BY <1>1, <1>4
<1>7. \A i \in 1..(m + n) : i \in 1..m \/ (i - m \in 1..n /\ c[i] = b[i - m])
  BY <1>1, <1>4
<1>8. Range(c) = Range(a) \cup Range(b)
  <2>1. Range(c) \subseteq Range(a) \cup Range(b)
    BY <1>1, <1>3, <1>5, <1>7 DEF Range
  <2>2. Range(a) \subseteq Range(c)
    BY <1>1, <1>3, <1>5 DEF Range
  <2>3. Range(b) \subseteq Range(c)
    BY <1>1, <1>3, <1>6 DEF Range
  <2> QED BY <2>1, <2>2, <2>3
<1>9. ASSUME IsInjective(c)
      PROVE  IsInjective(a) /\ IsInjective(b) /\ Range(a) \cap Range(b) = {}
  <2>1. \A i, j \in 1..(m + n) : c[i] = c[j] => i = j
    BY <1>3, <1>9 DEF IsInjective
  <2>2. IsInjective(a)
    BY <1>1, <1>5, <2>1 DEF IsInjective
  <2>3. IsInjective(b)
    <3> SUFFICES ASSUME NEW i \in 1..n, NEW j \in 1..n, b[i] = b[j] PROVE i = j
      BY <1>1 DEF IsInjective
    <3>1. c[m + i] = c[m + j] /\ m + i \in 1..(m + n) /\ m + j \in 1..(m + n)
      BY <1>6
    <3>2. m + i = m + j
      BY <3>1, <2>1
    <3> QED BY <3>2, <1>1
  <2>4. ASSUME NEW x \in Range(a) \cap Range(b) PROVE FALSE
    <3>1. PICK i \in 1..m : x = a[i]
      BY <1>1 DEF Range
    <3>2. PICK j \in 1..n : x = b[j]
      BY <1>1 DEF Range
    <3>3. i = m + j
      BY <3>1, <3>2, <1>5, <1>6, <2>1
    <3> QED BY <3>3, <1>1
  <2> QED BY <2>2, <2>3, <2>4
<1>10. ASSUME IsInjective(a), IsInjective(b), Range(a) \cap Range(b) = {}
       PROVE  IsInjective(c)
  <2> SUFFICES ASSUME NEW i \in 1..(m + n), NEW j \in 1..(m + n), c[i] = c[j] PROVE i = j
    BY <1>3 DEF IsInjective
  <2>1. CASE i \in 1..m /\ j \in 1..m
    BY <2>1, <1>1, <1>5, <1>10 DEF IsInjective
  <2>2. CASE i \notin 1..m /\ j \notin 1..m
    <3>1. i - m \in 1..n /\ j - m \in 1..n /\ b[i - m] = b[j - m]
      BY <2>2, <1>7
    <3>2. i - m = j - m
      BY <3>1, <1>1, <1>10 DEF IsInjective
    <3> QED BY <3>2, <1>1
  <2>3. CASE i \in 1..m /\ j \notin 1..m
    <3>1. c[i] \in Range(a) /\ c[j] \in Range(b)
      BY <2>3, <1>1, <1>5, <1>7 DEF Range
    <3> QED BY <3>1, <1>10
  <2>4. CASE i \notin 1..m /\ j \in 1..m
    <3>1. c[j] \in Range(a) /\ c[i] \in Range(b)
      BY <2>4, <1>1, <1>5, <1>7 DEF Range
    <3> QED BY <3>1, <1>10
  <2> QED BY <2>1, <2>2, <2>3, <2>4
<1> QED BY <1>8, <1>9, <1>10 DEF c

\* One request more at the end.
LEMMA RangeOfAppend ==
    ASSUME NEW s \in Seq(Nat), NEW x \in Nat
    PROVE  /\ Append(s, x) \in Seq(Nat)
           /\ Range(Append(s, x)) = Range(s) \cup {x}
           /\ IsInjective(s) /\ x \notin Range(s) => IsInjective(Append(s, x))
<1> DEFINE e == <<x>>
<1>1. e \in Seq(Nat) /\ Append(s, x) = s \o e
  BY AppendIsConcat
<1>2. Range(e) = {x} /\ IsInjective(e)
  BY DEF Range, IsInjective
<1> HIDE DEF e
<1>3. s \o e \in Seq(Nat)
  BY <1>1, ConcatProperties
<1>4. /\ Range(s \o e) = Range(s) \cup Range(e)
      /\ IsInjective(s \o e) <=>
             IsInjective(s) /\ IsInjective(e) /\ Range(s) \cap Range(e) = {}
  BY <1>1, RangeOfConcat
<1> QED BY <1>1, <1>2, <1>3, <1>4

\* The first request and the others.
LEMMA RangeOfTail ==
    ASSUME NEW s \in Seq(Nat), s # <<>>
    PROVE  /\ Head(s) \in Nat /\ Tail(s) \in Seq(Nat)
           /\ Range(s) = {Head(s)} \cup Range(Tail(s))
           /\ IsInjective(s) => IsInjective(Tail(s)) /\ Head(s) \notin Range(Tail(s))
<1>1. Head(s) \in Nat /\ Tail(s) \in Seq(Nat)
  BY HeadTailProperties
<1>2. <<Head(s)>> \in Seq(Nat) /\ s = <<Head(s)>> \o Tail(s)
  <2>1. Len(s) \in Nat \ {0}
    BY EmptySeq
  <2>2. SubSeq(s, 1, Len(s)) = <<s[1]>> \o SubSeq(s, 1 + 1, Len(s))
    BY <2>1, SubSeqRecursiveFirst
  <2> QED BY <1>1, <2>2, SubSeqFull, TailIsSubSeq
<1> DEFINE e == <<Head(s)>>
           r == Tail(s)
<1>3. Range(e) = {Head(s)}
  BY DEF Range
<1>4. e \in Seq(Nat) /\ r \in Seq(Nat) /\ s = e \o r
  BY <1>1, <1>2
<1> HIDE DEF e, r
<1>5. /\ Range(e \o r) = Range(e) \cup Range(r)
      /\ IsInjective(e \o r) <=>
             IsInjective(e) /\ IsInjective(r) /\ Range(e) \cap Range(r) = {}
  BY <1>4, RangeOfConcat
<1>6. /\ Range(s) = {Head(s)} \cup Range(r)
      /\ IsInjective(s) => IsInjective(r) /\ Head(s) \notin Range(r)
  BY <1>3, <1>4, <1>5
<1> QED BY <1>1, <1>6 DEF r

\* The first k requests and the others.
LEMMA RangeOfSplit ==
    ASSUME NEW s \in Seq(Nat), NEW k \in 0..Len(s)
    PROVE  /\ SubSeq(s, 1, k) \in Seq(Nat) /\ SubSeq(s, k + 1, Len(s)) \in Seq(Nat)
           /\ Len(SubSeq(s, 1, k)) = k
           /\ Range(s) = Range(SubSeq(s, 1, k)) \cup Range(SubSeq(s, k + 1, Len(s)))
           /\ IsInjective(s) =>
                  /\ IsInjective(SubSeq(s, 1, k)) /\ IsInjective(SubSeq(s, k + 1, Len(s)))
                  /\ Range(SubSeq(s, 1, k)) \cap Range(SubSeq(s, k + 1, Len(s))) = {}
<1> DEFINE n == Len(s)
<1>1. n \in Nat /\ \A i \in 1..n : s[i] \in Nat
  BY LenProperties
<1>2. k \in Nat /\ k <= n /\ k \in Int /\ k + 1 \in Int /\ n \in Int
  BY <1>1
<1>3. (\A i \in 1..k : s[i] \in Nat) /\ (\A i \in (k + 1)..n : s[i] \in Nat)
  BY <1>1, <1>2
<1>4. SubSeq(s, 1, k) \in Seq(Nat) /\ Len(SubSeq(s, 1, k)) = IF 1 <= k THEN k - 1 + 1 ELSE 0
  BY <1>2, <1>3, SubSeqProperties
<1>5. SubSeq(s, k + 1, n) \in Seq(Nat)
  BY <1>2, <1>3, SubSeqProperties
<1>6. SubSeq(s, 1, k) \o SubSeq(s, k + 1, n) = s
  <2>1. k \in 1 - 1..n /\ n \in k..n /\ 1 \in 1..n + 1
    BY <1>1, <1>2
  <2> QED BY <2>1, ConcatAdjacentSubSeq, SubSeqFull
<1>7. Len(SubSeq(s, 1, k)) = k
  BY <1>4, <1>2
<1> DEFINE a == SubSeq(s, 1, k)
           b == SubSeq(s, k + 1, n)
<1>8. a \in Seq(Nat) /\ b \in Seq(Nat) /\ a \o b = s /\ Len(a) = k
  BY <1>4, <1>5, <1>6, <1>7
<1> HIDE DEF a, b
<1>9. /\ Range(a \o b) = Range(a) \cup Range(b)
      /\ IsInjective(a \o b) <=>
             IsInjective(a) /\ IsInjective(b) /\ Range(a) \cap Range(b) = {}
  BY <1>8, RangeOfConcat
<1>10. /\ Range(s) = Range(a) \cup Range(b)
       /\ IsInjective(s) => IsInjective(a) /\ IsInjective(b) /\ Range(a) \cap Range(b) = {}
  BY <1>8, <1>9
<1> QED BY <1>8, <1>10 DEF a, b

-----------------------------------------------------------------------------
(* What a step does to one call. *)

\* The kinds of calls are told apart by their operation.
LEMMA KindsOfCalls ==
    ASSUME NEW c \in Calls
    PROVE  /\ c = Idle <=> c.op = "none"
           /\ c \in PostCalls <=> c.op \in Ops
           /\ c \in PollCalls <=> c.op \in {"poll", "pollex"}
           /\ c \in CMCalls <=> c.op \in {"connect", "disconnect"}
BY DEF Calls, PostCalls, PollCalls, CMCalls, Idle, Ops

\* A call that is not idle has the fields of one.
LEMMA FieldsOfCall ==
    ASSUME NEW c \in Calls, c # Idle
    PROVE  /\ c.obj \in QPs \cup CQs \cup {Cmid}
           /\ c.stage \in {"native", "cursor", "back"}
           /\ c.ok \in BOOLEAN /\ c.raced \in BOOLEAN /\ c.out \in Seq(Nat)
<1>1. CASE c \in PostCalls
  <2>1. c.out = <<>> /\ <<>> \in Seq(Nat)
    BY <1>1 DEF PostCalls
  <2>2. c.out \in Seq(Nat)
    BY <2>1
  <2>3. /\ c.obj \in QPs \cup CQs \cup {Cmid} /\ c.ok \in BOOLEAN /\ c.raced \in BOOLEAN
        /\ c.stage \in {"native", "cursor", "back"}
    BY <1>1 DEF PostCalls
  <2> QED BY <2>2, <2>3
<1>2. CASE c \in PollCalls
  BY <1>2 DEF PollCalls
<1>3. CASE c \in CMCalls
  <2>1. c.out = <<>> /\ <<>> \in Seq(Nat)
    BY <1>3 DEF CMCalls
  <2>2. c.out \in Seq(Nat)
    BY <2>1
  <2>3. /\ c.obj \in QPs \cup CQs \cup {Cmid} /\ c.ok \in BOOLEAN /\ c.raced \in BOOLEAN
        /\ c.stage \in {"native", "cursor", "back"}
    BY <1>3 DEF CMCalls
  <2> QED BY <2>2, <2>3
<1> QED BY <1>1, <1>2, <1>3 DEF Calls

\* The call c after its native part.
Ended(c, ok, out) == [c EXCEPT !.stage = "back", !.ok = ok, !.out = out]

\* The native part of a poll ends with entries.
LEMMA EndedPoll ==
    ASSUME NEW c \in PollCalls, NEW ok \in BOOLEAN, NEW out \in Seq(Nat), NEW d,
           d = Ended(c, ok, out)
    PROVE  /\ d \in PollCalls
           /\ d.op = c.op /\ d.obj = c.obj /\ d.arg = c.arg /\ d.stage = "back"
           /\ d.ok = ok /\ d.out = out /\ d.raced = c.raced
BY DEF PollCalls, Ended

\* The native part of a call ends without entries.
LEMMA EndedEmpty ==
    ASSUME NEW c \in Calls, c # Idle, NEW ok \in BOOLEAN, NEW d, d = Ended(c, ok, <<>>)
    PROVE  /\ d \in Calls /\ d # Idle
           /\ d.op = c.op /\ d.obj = c.obj /\ d.arg = c.arg /\ d.stage = "back"
           /\ d.ok = ok /\ d.out = <<>> /\ d.raced = c.raced
<1>1. CASE c \in PostCalls
  <2>1. d \in PostCalls
    BY <1>1 DEF PostCalls, Ended
  <2>2. d \in Calls /\ d # Idle
    BY <2>1, KindsOfCalls DEF Calls, PostCalls, Ops, Idle
  <2> QED BY <1>1, <2>2 DEF PostCalls, Ended
<1>2. CASE c \in PollCalls
  <2> DEFINE e == <<>>
  <2>1. e \in Seq(Nat) /\ d = Ended(c, ok, e) /\ d.out = e
    BY <1>2 DEF PollCalls, Ended
  <2> HIDE DEF e
  <2>2. /\ d \in PollCalls
        /\ d.op = c.op /\ d.obj = c.obj /\ d.arg = c.arg /\ d.stage = "back"
        /\ d.ok = ok /\ d.raced = c.raced
    BY <1>2, <2>1, EndedPoll
  <2>3. d \in Calls /\ d # Idle
    BY <2>2, KindsOfCalls DEF Calls, PollCalls, Idle
  <2> QED BY <2>1, <2>2, <2>3 DEF e
<1>3. CASE c \in CMCalls
  <2>1. d \in CMCalls
    BY <1>3 DEF CMCalls, Ended
  <2>2. d \in Calls /\ d # Idle
    BY <2>1, KindsOfCalls DEF Calls, CMCalls, Idle
  <2> QED BY <1>3, <2>2 DEF CMCalls, Ended
<1> QED BY <1>1, <1>2, <1>3 DEF Calls

\* Only the call of t changes, to c.
CallTo(t, c) == call' = [call EXCEPT ![t] = c]

\* The other threads keep their calls.
LEMMA CallToFacts ==
    ASSUME DataTypes, NEW t \in Threads, NEW c, CallTo(t, c)
    PROVE  /\ call'[t] = c
           /\ \A u \in Threads : u # t => call'[u] = call[u]
           /\ c \in Calls => call' \in [Threads -> Calls]
BY DEF DataTypes, CallTo

\* NativeEnds is a change of one call.
LEMMA NativeEndsTo ==
    ASSUME DataTypes, NEW t \in Threads, call[t] # Idle, NEW ok, NEW out,
           NativeEnds(t, ok, out)
    PROVE  CallTo(t, Ended(call[t], ok, out))
<1> DEFINE c == call[t]
           d == Ended(c, ok, out)
<1>1. call' = [call EXCEPT ![t] = d]
  BY DEF NativeEnds, DataTypes, Ended
<1> QED BY <1>1 DEF CallTo

-----------------------------------------------------------------------------
(* Batches. *)

\* What BatchWhole says of a call c.
Truthful(c, acc, binding) ==
    c.op \in Ops /\ c.stage = "back" =>
        /\ c.ok <=> \A i \in DOMAIN c.arg : c.arg[i] \in acc
        /\ \A i \in DOMAIN c.arg : c.arg[i] \in acc => \A j \in 1..i : c.arg[j] \in acc
        /\ binding = "efa" /\ c.op = "send" /\ ~ c.ok => Range(c.arg) \cap acc = {}

LEMMA BatchCalls ==
    ASSUME DataTypes
    PROVE  BatchWhole <=> \A t \in Threads : Truthful(call[t], accepted, scene.binding)
<1> SUFFICES ASSUME NEW t \in Threads, NEW c, c = call[t],
                    c.op \in Ops, c.stage = "back"
             PROVE  LET took == {i \in DOMAIN c.arg : c.arg[i] \in accepted} IN
                    (/\ c.ok <=> took = DOMAIN c.arg
                     /\ \A i \in took : 1..i \subseteq took
                     /\ scene.binding = "efa" /\ c.op = "send" /\ ~ c.ok => took = {})
                    <=> Truthful(c, accepted, scene.binding)
  BY DEF BatchWhole, Truthful, Ops
<1> DEFINE took == {i \in DOMAIN c.arg : c.arg[i] \in accepted}
<1>1. c \in Calls
  BY DEF DataTypes
<1>2. c.arg \in Seq(Nat)
  BY <1>1, KindsOfCalls DEF PostCalls
<1>3. DOMAIN c.arg = 1..Len(c.arg) /\ Len(c.arg) \in Nat
  BY <1>2
<1>4. took = DOMAIN c.arg <=> \A i \in DOMAIN c.arg : c.arg[i] \in accepted
  OBVIOUS
<1>5. \A i \in DOMAIN c.arg : 1..i \subseteq DOMAIN c.arg
  BY <1>3
<1>6. (\A i \in took : 1..i \subseteq took)
       <=> \A i \in DOMAIN c.arg : c.arg[i] \in accepted => \A j \in 1..i : c.arg[j] \in accepted
  BY <1>5
<1>7. took = {} <=> Range(c.arg) \cap accepted = {}
  BY DEF Range
<1> QED BY <1>4, <1>6, <1>7 DEF Truthful

LEMMA BatchCallsNext ==
    (DataTypes => (BatchWhole <=> \A t \in Threads : Truthful(call[t], accepted, scene.binding)))'
BY BatchCalls, PTL

\* Requests of other calls change nothing.
LEMMA OthersTaken ==
    ASSUME NEW c \in PostCalls, NEW acc, NEW more, NEW b, more \cap Range(c.arg) = {}
    PROVE  Truthful(c, acc, b) <=> Truthful(c, acc \cup more, b)
<1>1. \A i \in DOMAIN c.arg : c.arg[i] \in Range(c.arg)
  BY DEF Range
<1>2. \A i \in DOMAIN c.arg : c.arg[i] \in acc \cup more <=> c.arg[i] \in acc
  BY <1>1
<1>3. c.arg \in Seq(Nat)
  BY DEF PostCalls
<1>4. DOMAIN c.arg = 1..Len(c.arg) /\ Len(c.arg) \in Nat
  BY <1>3
<1>5. \A i \in DOMAIN c.arg : \A j \in 1..i : j \in DOMAIN c.arg
  BY <1>4
<1>6. Range(c.arg) \cap (acc \cup more) = {} <=> Range(c.arg) \cap acc = {}
  OBVIOUS
<1> QED BY <1>2, <1>5, <1>6 DEF Truthful

\* A step that begins, goes on with or ends a call other than a post.
LEMMA BatchOther ==
    ASSUME DataTypes, DataTypes', BatchInv, NEW t \in Threads, NEW c \in Calls, CallTo(t, c),
           c \notin PostCalls, UNCHANGED <<scene, accepted, nextId>>
    PROVE  BatchInv'
<1>1. call'[t] = c /\ \A u \in Threads : u # t => call'[u] = call[u]
  BY CallToFacts
<1>2. \A u \in Threads : call'[u] \in PostCalls => u # t /\ call'[u] = call[u]
  BY <1>1
<1>3. RequestsApart'
  BY <1>2 DEF BatchInv, RequestsApart
<1>4. \A u \in Threads : Truthful(call[u], accepted, scene.binding)
  BY BatchCalls DEF BatchInv
<1>5. Truthful(c, accepted, scene.binding)
  BY KindsOfCalls DEF Truthful
<1>6. \A u \in Threads : Truthful(call'[u], accepted, scene.binding)
  BY <1>1, <1>4, <1>5
<1>7. \A u \in Threads : Truthful(call'[u], accepted', scene'.binding)
  BY <1>6
<1> QED BY <1>3, <1>7, BatchCallsNext DEF BatchInv

\* A step that changes neither calls nor what was accepted.
LEMMA BatchSame ==
    ASSUME BatchInv, UNCHANGED <<scene, call, accepted, nextId>>
    PROVE  BatchInv'
BY DEF BatchInv, RequestsApart, BatchWhole

\* The numbers of n new requests.
LEMMA NewIds ==
    ASSUME DataTypes, NEW n \in Nat \ {0}
    PROVE  /\ Ids(n) \in Seq(Nat) /\ Ids(n) # <<>> /\ IsInjective(Ids(n))
           /\ Range(Ids(n)) = nextId..(nextId + n - 1)
<1>1. nextId \in Nat \ {0}
  BY DEF DataTypes
<1> DEFINE s == [i \in 1..n |-> nextId + i - 1]
<1>2. s \in [1..n -> Nat] /\ DOMAIN s = 1..n /\ \A i \in 1..n : s[i] = nextId + i - 1
  BY <1>1
<1>3. s \in Seq(Nat)
  <2>1. \A i \in 1..n : nextId + i - 1 \in Nat
    BY <1>1
  <2> QED BY <2>1, IsASeq
<1>4. 1 \in DOMAIN s /\ s # <<>>
  BY <1>2
<1>5. IsInjective(s)
  BY <1>1, <1>2 DEF IsInjective
<1>6. Range(s) \subseteq nextId..(nextId + n - 1)
  BY <1>1, <1>2 DEF Range
<1>7. ASSUME NEW x \in nextId..(nextId + n - 1) PROVE x \in Range(s)
  <2>1. x - nextId + 1 \in 1..n /\ s[x - nextId + 1] = x
    BY <1>1, <1>2
  <2> QED BY <2>1, <1>2 DEF Range
<1> QED BY <1>3, <1>4, <1>5, <1>6, <1>7 DEF Ids

\* A new post: its requests are nobody's yet.
LEMMA BatchBegins ==
    ASSUME DataTypes, DataTypes', BatchInv, NEW t \in Threads, NEW c \in PostCalls,
           NEW n \in Nat \ {0}, c.arg = Ids(n), CallTo(t, c), nextId' = nextId + n,
           c.stage = "native" \/ ~ c.ok, UNCHANGED <<scene, accepted>>
    PROVE  BatchInv'
<1>1. c \in Calls /\ nextId \in Nat \ {0} /\ accepted \subseteq 1..(nextId - 1)
  BY DEF DataTypes, Calls
<1>2. call'[t] = c /\ \A u \in Threads : u # t => call'[u] = call[u]
  BY CallToFacts
<1>3. c.arg # <<>> /\ IsInjective(c.arg) /\ Range(c.arg) = nextId..(nextId + n - 1)
  BY NewIds
<1>4. Range(c.arg) \cap 1..(nextId - 1) = {} /\ Range(c.arg) \subseteq 1..(nextId + n - 1)
  BY <1>1, <1>3
<1>5. Range(c.arg) \cap accepted = {}
  BY <1>1, <1>4
<1>6. \A u \in Threads : u # t /\ call'[u] \in PostCalls =>
          OwnRequests(call[u], accepted, nextId) /\ Range(call[u].arg) \cap Range(c.arg) = {}
  BY <1>2, <1>4 DEF BatchInv, RequestsApart, OwnRequests
<1>7. \A d : OwnRequests(d, accepted, nextId) => OwnRequests(d, accepted, nextId + n)
  <2> DEFINE m == nextId + n
  <2>1. 1..(nextId - 1) \subseteq 1..(m - 1)
    BY <1>1
  <2> HIDE DEF m
  <2>2. \A d : OwnRequests(d, accepted, nextId) => OwnRequests(d, accepted, m)
    BY <2>1 DEF OwnRequests
  <2> QED BY <2>2 DEF m
<1>8. OwnRequests(c, accepted, nextId + n)
  <2> DEFINE m == nextId + n
  <2>1. Range(c.arg) \subseteq 1..(m - 1)
    BY <1>1, <1>4
  <2> HIDE DEF m
  <2>2. OwnRequests(c, accepted, m)
    BY <2>1, <1>3, <1>5 DEF OwnRequests
  <2> QED BY <2>2 DEF m
<1>9. RequestsApart'
  <2>1. \A u \in Threads : call'[u] \in PostCalls => OwnRequests(call'[u], accepted', nextId')
    BY <1>2, <1>6, <1>7, <1>8
  <2>2. ASSUME NEW u \in Threads, NEW v \in Threads, u # v,
               call'[u] \in PostCalls, call'[v] \in PostCalls
        PROVE  Range(call'[u].arg) \cap Range(call'[v].arg) = {}
    BY <2>2, <1>2, <1>6 DEF BatchInv, RequestsApart
  <2> QED BY <2>1, <2>2 DEF RequestsApart
<1>10. \A u \in Threads : Truthful(call[u], accepted, scene.binding)
  BY BatchCalls DEF BatchInv
<1>11. Truthful(c, accepted, scene.binding)
  <2>1. CASE c.stage = "native"
    BY <2>1 DEF Truthful
  <2>2. CASE ~ c.ok
    <3>1. \A i \in DOMAIN c.arg : c.arg[i] \notin accepted
      BY <1>5 DEF Range
    <3>2. 1 \in DOMAIN c.arg
      <4>1. c.arg \in Seq(Nat)
        BY DEF PostCalls
      <4> QED BY <4>1, <1>3, EmptySeq, LenProperties
    <3> QED BY <2>2, <3>1, <3>2, <1>5 DEF Truthful
  <2> QED BY <2>1, <2>2
<1>12. \A u \in Threads : Truthful(call'[u], accepted', scene'.binding)
  BY <1>2, <1>10, <1>11
<1> QED BY <1>9, <1>12, BatchCallsNext DEF BatchInv

\* The provider takes the first k requests of the post of t.
LEMMA BatchEnds ==
    ASSUME DataTypes, DataTypes', BatchInv, NEW t \in Threads, NEW c, c = call[t],
           c \in PostCalls, c.stage = "native", NEW k \in 0..Len(c.arg), NEW d,
           d = Ended(c, k = Len(c.arg), <<>>), CallTo(t, d),
           scene.binding = "efa" /\ c.op = "send" => k = 0 \/ k = Len(c.arg),
           accepted' = accepted \cup Range(SubSeq(c.arg, 1, k)), UNCHANGED <<scene, nextId>>
    PROVE  BatchInv'
<1> DEFINE ids == c.arg
           more == Range(SubSeq(ids, 1, k))
           b == scene.binding
<1>1. c \in Calls /\ c # Idle /\ ids \in Seq(Nat)
  BY KindsOfCalls DEF Calls, PostCalls, Idle, Ops
<1>2. /\ d \in Calls /\ d.op = c.op /\ d.arg = ids /\ d.stage = "back"
      /\ d.ok = (k = Len(c.arg))
  <2> DEFINE all == k = Len(c.arg)
  <2>1. all \in BOOLEAN /\ d = Ended(c, all, <<>>)
    OBVIOUS
  <2> HIDE DEF all
  <2>2. d \in Calls /\ d.op = c.op /\ d.arg = c.arg /\ d.stage = "back" /\ d.ok = all
    BY <1>1, <2>1, EndedEmpty
  <2> QED BY <2>2 DEF all
<1>3. call'[t] = d /\ \A u \in Threads : u # t => call'[u] = call[u]
  BY CallToFacts
<1>4. d \in PostCalls
  BY <1>1, <1>2, KindsOfCalls
<1>5. OwnRequests(c, accepted, nextId)
  BY DEF BatchInv, RequestsApart
<1>6. IsInjective(ids) /\ ids # <<>> /\ Range(ids) \cap accepted = {}
  BY <1>5 DEF OwnRequests
<1>7. more \subseteq Range(ids)
  BY <1>1, RangeOfSplit
<1>8. \A u \in Threads : u # t /\ call[u] \in PostCalls => more \cap Range(call[u].arg) = {}
  BY <1>7 DEF BatchInv, RequestsApart
<1>9. RequestsApart'
  <2>1. OwnRequests(d, accepted', nextId)
    BY <1>2, <1>5 DEF OwnRequests
  <2>2. \A u \in Threads : u # t /\ call[u] \in PostCalls =>
            OwnRequests(call[u], accepted', nextId)
    BY <1>8 DEF BatchInv, RequestsApart, OwnRequests
  <2>3. \A u \in Threads : call'[u] \in PostCalls => OwnRequests(call'[u], accepted', nextId')
    BY <2>1, <2>2, <1>3
  <2>4. ASSUME NEW u \in Threads, NEW v \in Threads, u # v,
               call'[u] \in PostCalls, call'[v] \in PostCalls
        PROVE  Range(call'[u].arg) \cap Range(call'[v].arg) = {}
    BY <2>4, <1>2, <1>3, SMTT(30) DEF BatchInv, RequestsApart
  <2> QED BY <2>3, <2>4 DEF RequestsApart
<1>10. ASSUME NEW u \in Threads, u # t PROVE Truthful(call'[u], accepted', b)
  <2>1. Truthful(call[u], accepted, b)
    BY BatchCalls DEF BatchInv
  <2>2. CASE call[u] \in PostCalls
    <3>1. Truthful(call[u], accepted \cup more, b)
      BY <2>1, <2>2, <1>8, <1>10, OthersTaken
    <3> QED BY <3>1, <1>3, <1>10
  <2>3. CASE call[u] \notin PostCalls
    <3>1. call[u].op \notin Ops
      BY <2>3, KindsOfCalls DEF DataTypes
    <3> QED BY <3>1, <1>3, <1>10 DEF Truthful
  <2> QED BY <2>2, <2>3
<1>11. Truthful(d, accepted', b)
  <2> DEFINE n == Len(ids)
             s == SubSeq(ids, 1, k)
  <2>1. n \in Nat /\ DOMAIN ids = 1..n /\ n # 0 /\ k \in Nat /\ k <= n
    BY <1>1, <1>6, EmptySeq, LenProperties
  <2>2. s \in Seq(Nat) /\ Len(s) = k
    BY <1>1, RangeOfSplit
  <2>3. \A i \in 1..k : s[i] = ids[i]
    <3>1. \A i \in 1..k : ids[i] \in Nat
      BY <1>1, <2>1, LenProperties
    <3>2. \A i \in 1..(k - 1 + 1) : s[i] = ids[1 + i - 1]
      BY <3>1, <2>1, SubSeqProperties
    <3> QED BY <3>2, <2>1
  <2>4. DOMAIN s = 1..k
    BY <2>2, LenProperties
  <2> HIDE DEF n, s
  <2>5. \A i \in 1..n : ids[i] \in Range(s) <=> i <= k
    <3> TAKE i \in 1..n
    <3>1. CASE i <= k
      BY <3>1, <2>1, <2>3, <2>4 DEF Range
    <3>2. ASSUME ids[i] \in Range(s) PROVE i <= k
      <4>1. PICK j \in 1..k : ids[i] = s[j]
        BY <3>2, <2>4 DEF Range
      <4>2. ids[i] = ids[j] /\ j \in 1..n
        BY <4>1, <2>1, <2>3
      <4>3. i = j
        BY <4>2, <1>6, <2>1 DEF IsInjective
      <4> QED BY <4>3
    <3> QED BY <3>1, <3>2
  <2>6. \A i \in 1..n : ids[i] \in accepted' <=> i <= k
    BY <2>5, <2>1, <1>6 DEF Range, s
  <2>7. d.ok <=> \A i \in 1..n : ids[i] \in accepted'
    <3>1. d.ok <=> k = n
      BY <1>2 DEF n
    <3>2. (\A i \in 1..n : i <= k) <=> k = n
      BY <2>1
    <3> QED BY <3>1, <3>2, <2>6
  <2>8. \A i \in 1..n : ids[i] \in accepted' => \A j \in 1..i : ids[j] \in accepted'
    BY <2>1, <2>6
  <2>9. b = "efa" /\ d.op = "send" /\ ~ d.ok => Range(ids) \cap accepted' = {}
    <3> SUFFICES ASSUME b = "efa", d.op = "send", ~ d.ok PROVE Range(ids) \cap accepted' = {}
      OBVIOUS
    <3>1. k = 0
      BY <1>2
    <3>2. \A i \in 1..n : ids[i] \notin accepted'
      BY <3>1, <2>6, <2>1
    <3> QED BY <3>2, <2>1 DEF Range
  <2> QED BY <2>1, <2>7, <2>8, <2>9, <1>2 DEF Truthful
<1>12. \A u \in Threads : Truthful(call'[u], accepted', scene'.binding)
  BY <1>3, <1>10, <1>11
<1> QED BY <1>9, <1>12, BatchCallsNext DEF BatchInv

-----------------------------------------------------------------------------
(* The objects under the calls. *)

\* Two states of a call that differ in nothing but a race.
SameCall(c, d) ==
    d.op = c.op /\ d.obj = c.obj /\ d.arg = c.arg /\ d.stage = c.stage /\ d.ok = c.ok
    /\ d.out = c.out

LEMMA RacedCall ==
    ASSUME NEW c \in Calls, c # Idle, NEW d, d = [c EXCEPT !.raced = TRUE]
    PROVE  d \in Calls /\ d # Idle /\ SameCall(c, d) /\ d.raced = TRUE
<1>1. CASE c \in PostCalls
  <2>1. d \in PostCalls
    BY <1>1 DEF PostCalls
  <2> QED BY <1>1, <2>1, KindsOfCalls DEF Calls, PostCalls, Ops, Idle, SameCall
<1>2. CASE c \in PollCalls
  <2>1. d \in PollCalls
    BY <1>2 DEF PollCalls
  <2> QED BY <1>2, <2>1, KindsOfCalls DEF Calls, PollCalls, Idle, SameCall
<1>3. CASE c \in CMCalls
  <2>1. d \in CMCalls
    BY <1>3 DEF CMCalls
  <2> QED BY <1>3, <2>1, KindsOfCalls DEF Calls, CMCalls, Idle, SameCall
<1> QED BY <1>1, <1>2, <1>3 DEF Calls

\* A step of the bindings marks the calls whose object it closes, and lets go of
\* no object that a call has.
LEMMA CallsInLifecycle ==
    ASSUME DataTypes, Lifecycle
    PROVE  /\ call' \in [Threads -> Calls]
           /\ \A t \in Threads : call[t] = Idle => call'[t] = Idle
           /\ \A t \in Threads : call[t] # Idle =>
                 /\ call'[t] # Idle /\ SameCall(call[t], call'[t])
                 /\ call[t].raced \/ wrapper'[call[t].obj] = "closed" => call'[t].raced
                 /\ call[t].obj \in held'
<1> DEFINE raced(t) == call[t] # Idle /\ wrapper'[call[t].obj] = "closed"
<1>1. /\ call' = [t \in Threads |->
             IF raced(t) THEN [call[t] EXCEPT !.raced = TRUE] ELSE call[t]]
      /\ \A t \in Threads : call[t] # Idle => call[t].obj \in held'
  BY DEF Lifecycle
<1>2. ASSUME NEW t \in Threads
      PROVE  /\ call'[t] \in Calls
             /\ call[t] = Idle => call'[t] = Idle
             /\ call[t] # Idle =>
                 /\ call'[t] # Idle /\ SameCall(call[t], call'[t])
                 /\ call[t].raced \/ wrapper'[call[t].obj] = "closed" => call'[t].raced
                 /\ call[t].obj \in held'
  <2>1. call[t] \in Calls
    BY DEF DataTypes
  <2>2. CASE raced(t)
    <3>1. call'[t] = [call[t] EXCEPT !.raced = TRUE]
      BY <1>1, <2>2
    <3>2. /\ call'[t] \in Calls /\ call'[t] # Idle
          /\ SameCall(call[t], call'[t]) /\ call'[t].raced = TRUE
      BY <2>1, <2>2, <3>1, RacedCall
    <3> QED BY <1>1, <2>2, <3>2
  <2>3. CASE ~ raced(t)
    <3>1. call'[t] = call[t]
      BY <1>1, <2>3
    <3> QED BY <1>1, <2>1, <2>3, <3>1 DEF SameCall
  <2> QED BY <2>2, <2>3
<1>3. call' \in [Threads -> Calls]
  BY <1>1, <1>2
<1> QED BY <1>2, <1>3

\* The batches are as before, or nobody has one.
LEMMA BatchLifecycle ==
    ASSUME DataTypes, DataTypes', BatchInv, Lifecycle
    PROVE  BatchInv'
<1>1. nextId' = nextId /\ scene' = scene
  BY DEF Lifecycle
<1>2. accepted' = accepted \/ \A t \in Threads : call[t] = Idle
  BY DEF Lifecycle
<1>3. CASE \A t \in Threads : call[t] = Idle
  <2>1. \A t \in Threads : call'[t] = Idle
    BY <1>3, CallsInLifecycle
  <2>2. \A t \in Threads : call'[t] \notin PostCalls /\ call'[t].op \notin Ops
    BY <2>1 DEF PostCalls, Idle, Ops
  <2> QED BY <2>2 DEF BatchInv, RequestsApart, BatchWhole, Ops
<1>4. CASE accepted' = accepted
  <2>1. ASSUME NEW t \in Threads, call'[t] \in PostCalls
        PROVE  call[t] \in PostCalls /\ SameCall(call[t], call'[t])
    <3>1. call'[t] # Idle
      BY <2>1 DEF PostCalls, Idle, Ops
    <3>2. SameCall(call[t], call'[t])
      BY <3>1, CallsInLifecycle
    <3>3. call[t] \in Calls /\ call'[t].op \in Ops
      BY <2>1 DEF DataTypes, PostCalls
    <3> QED BY <3>2, <3>3, KindsOfCalls DEF SameCall
  <2>2. RequestsApart'
    BY <2>1, <1>1, <1>4 DEF BatchInv, RequestsApart, OwnRequests, SameCall
  <2>3. \A t \in Threads : Truthful(call[t], accepted, scene.binding)
    BY BatchCalls DEF BatchInv
  <2>4. \A c, d : SameCall(c, d) /\ Truthful(c, accepted, scene.binding)
                      => Truthful(d, accepted, scene.binding)
    BY DEF Truthful, SameCall
  <2>5. \A t \in Threads : SameCall(call[t], call'[t])
    BY CallsInLifecycle DEF SameCall
  <2>6. \A t \in Threads : Truthful(call'[t], accepted', scene'.binding)
    BY <2>3, <2>4, <2>5, <1>1, <1>4
  <2> QED BY <2>2, <2>6, BatchCallsNext DEF BatchInv
<1> QED BY <1>2, <1>3, <1>4
-----------------------------------------------------------------------------
(* Live objects. *)

\* Only the call of t changes: to another stage, or to a new call of a live object.
LEMMA LiveCall ==
    ASSUME DataTypes, LiveCalls, NEW t \in Threads, NEW c, CallTo(t, c),
           native' = native,
           c = Idle \/ c.obj \in native
               \/ (call[t] # Idle /\ c.obj = call[t].obj /\ c.raced = call[t].raced)
    PROVE  LiveCalls'
BY CallToFacts DEF LiveCalls

\* The wrapper of a call's object stays, since the program holds it, and without
\* its native object it is closed.
LEMMA LiveLifecycle ==
    ASSUME DataTypes, LiveCalls, Lifecycle, LifeInv', HeldAlive'
    PROVE  LiveCalls'
<1> SUFFICES ASSUME NEW t \in Threads, call'[t] # Idle, call'[t].obj \notin native'
             PROVE  call'[t].raced
  BY DEF LiveCalls
<1>1. /\ call[t] # Idle /\ call'[t].obj = call[t].obj /\ call[t].obj \in held'
      /\ call[t].raced \/ wrapper'[call[t].obj] = "closed" => call'[t].raced
  BY CallsInLifecycle DEF SameCall
<1>2. wrapper'[call[t].obj] \in {"open", "closed"} /\ call[t].obj \in Objects
  BY <1>1 DEF HeldAlive, Alive
<1>3. wrapper'[call[t].obj] # "open"
  BY <1>1, <1>2 DEF LifeInv, Backed
<1> QED BY <1>1, <1>2, <1>3

\* A native call that goes on has its object.
LEMMA LiveWhenSound ==
    ASSUME LiveCalls, Sound, NEW t \in Threads, call[t] # Idle,
           call[t].stage # "back"
    PROVE  call[t].obj \in native
BY DEF LiveCalls, Sound

-----------------------------------------------------------------------------
(* Completions. *)

\* A new completion.
LEMMA OnceCompleted ==
    ASSUME NEW P, NEW O, NEW D, NEW R, NEW L, Once(P, O, D, R, L),
           NEW cq \in CQs, NEW x, x \notin D, NEW P2, P2[cq] = P[cq] \cup {x},
           \A c \in CQs : c # cq => P2[c] = P[c]
    PROVE  Once(P2, O, D \cup {x}, R, L)
<1>1. x \notin R /\ x \notin L /\ \A c \in CQs : x \notin P[c]
  BY DEF Once
<1>2. \A t \in Threads : x \notin O[t]
  BY DEF Once
<1>3. \A c \in CQs : \A y : y \in P2[c] <=> y \in P[c] \/ (c = cq /\ y = x)
  BY DEF Once
<1>4. \A y : y \in D \cup {x} <=>
          y \in R \/ y \in L \/ (\E c \in CQs : y \in P2[c]) \/ (\E t \in Threads : y \in O[t])
  BY <1>3 DEF Once
<1>5. \A c \in CQs : P2[c] \cap R = {} /\ P2[c] \cap L = {}
  BY <1>1, <1>3 DEF Once
<1>6. \A t \in Threads : \A c \in CQs : O[t] \cap P2[c] = {}
  BY <1>2, <1>3 DEF Once
<1>7. \A c, d \in CQs : c # d => P2[c] \cap P2[d] = {}
  BY <1>1, <1>3 DEF Once
<1> QED BY <1>4, <1>5, <1>6, <1>7 DEF Once

\* A call reads entries of a CQ.
ReadsFrom(P, O, P2, O2, cq, t) ==
    /\ cq \in CQs /\ t \in Threads /\ O[t] = {}
    /\ P[cq] = O2[t] \cup P2[cq] /\ O2[t] \cap P2[cq] = {}
    /\ \A c \in CQs : c # cq => P2[c] = P[c]
    /\ \A u \in Threads : u # t => O2[u] = O[u]

LEMMA OnceRead ==
    ASSUME NEW P, NEW O, NEW D, NEW R, NEW L, Once(P, O, D, R, L),
           NEW P2, NEW O2, NEW cq, NEW t, ReadsFrom(P, O, P2, O2, cq, t)
    PROVE  Once(P2, O2, D, R, L)
<1> DEFINE a == O2[t]
           b == P2[cq]
<1> USE DEF ReadsFrom
<1>1. \A y : y \in a \/ y \in b <=> y \in P[cq]
  OBVIOUS
<1>2. \A c \in CQs : \A y : y \in P2[c] <=> y \in P[c] /\ ~ (c = cq /\ y \in a)
  OBVIOUS
<1>3. \A u \in Threads : \A y : y \in O2[u] <=> y \in O[u] \/ (u = t /\ y \in a)
  OBVIOUS
<1> HIDE DEF ReadsFrom
<1>10. cq \in CQs /\ t \in Threads
  BY DEF ReadsFrom
<1>4. \A y : y \in D <=>
          y \in R \/ y \in L \/ (\E c \in CQs : y \in P2[c]) \/ (\E u \in Threads : y \in O2[u])
  <2> TAKE y
  <2>1. CASE y \in a
    BY <2>1, <1>1, <1>3, <1>10 DEF Once
  <2>2. CASE y \notin a
    BY <2>2, <1>2, <1>3, <1>10 DEF Once
  <2> QED BY <2>1, <2>2
<1>5. \A c \in CQs : P2[c] \cap R = {} /\ P2[c] \cap L = {}
  BY <1>2 DEF Once
<1>6. \A u \in Threads : O2[u] \cap R = {} /\ O2[u] \cap L = {}
  BY <1>1, <1>3, <1>10 DEF Once
<1>7. \A u \in Threads : \A c \in CQs : O2[u] \cap P2[c] = {}
  BY <1>1, <1>2, <1>3, <1>10 DEF Once
<1>8. \A u, v \in Threads : u # v => O2[u] \cap O2[v] = {}
  BY <1>1, <1>3, <1>10 DEF Once
<1>9. \A c, d \in CQs : c # d => P2[c] \cap P2[d] = {}
  BY <1>2 DEF Once
<1> QED BY <1>4, <1>5, <1>6, <1>7, <1>8, <1>9 DEF Once

\* A call hands its entries over, to R2 or L2.
LEMMA OnceHanded ==
    ASSUME NEW P, NEW O, NEW D, NEW R, NEW L, Once(P, O, D, R, L),
           NEW t \in Threads, NEW O2, O2[t] = {}, \A u \in Threads : u # t => O2[u] = O[u]
    PROVE  Once(P, O2, D, R \cup O[t], L) /\ Once(P, O2, D, R, L \cup O[t])
<1>1. \A u \in Threads : \A y : y \in O2[u] <=> y \in O[u] /\ u # t
  OBVIOUS
<1>2. \A y : y \in D <=>
          \/ y \in R \/ y \in L \/ y \in O[t]
          \/ (\E c \in CQs : y \in P[c]) \/ (\E u \in Threads : y \in O2[u])
  BY <1>1 DEF Once
<1>3. O[t] \cap R = {} /\ O[t] \cap L = {} /\ R \cap L = {}
  BY DEF Once
<1>4. \A c \in CQs : P[c] \cap R = {} /\ P[c] \cap L = {} /\ P[c] \cap O[t] = {}
  BY DEF Once
<1>5. \A u \in Threads : O2[u] \cap R = {} /\ O2[u] \cap L = {} /\ O2[u] \cap O[t] = {}
  BY <1>1 DEF Once
<1>6. \A u \in Threads : \A c \in CQs : O2[u] \cap P[c] = {}
  BY <1>1 DEF Once
<1>7. \A u, v \in Threads : u # v => O2[u] \cap O2[v] = {}
  BY <1>1 DEF Once
<1>8. \A c, d \in CQs : c # d => P[c] \cap P[d] = {}
  BY DEF Once
<1>9. Once(P, O2, D, R \cup O[t], L)
  BY <1>2, <1>3, <1>4, <1>5, <1>6, <1>7, <1>8 DEF Once
<1>10. Once(P, O2, D, R, L \cup O[t])
  BY <1>2, <1>3, <1>4, <1>5, <1>6, <1>7, <1>8 DEF Once
<1> QED BY <1>9, <1>10

\* The entries of the CQs in S are lost.
LEMMA OncePurged ==
    ASSUME NEW P, NEW O, NEW D, NEW R, NEW L, Once(P, O, D, R, L), NEW S, NEW P2, NEW L2,
           \A c \in CQs : P2[c] = IF c \in S THEN {} ELSE P[c],
           \A x : x \in L2 <=> x \in L \/ \E c \in CQs : c \in S /\ x \in P[c]
    PROVE  Once(P2, O, D, R, L2)
<1>1. \A c \in CQs : \A y : y \in P2[c] <=> y \in P[c] /\ c \notin S
  OBVIOUS
<1>2. \A y : y \in D <=>
          y \in R \/ y \in L2 \/ (\E c \in CQs : y \in P2[c]) \/ (\E t \in Threads : y \in O[t])
  BY <1>1 DEF Once
<1>3. R \cap L2 = {}
  BY DEF Once
<1>4. \A t \in Threads : O[t] \cap R = {} /\ O[t] \cap L2 = {}
  BY DEF Once
<1>5. \A c \in CQs : P2[c] \cap R = {} /\ P2[c] \cap L2 = {}
  BY <1>1 DEF Once
<1>6. \A t \in Threads : \A c \in CQs : O[t] \cap P2[c] = {}
  BY <1>1 DEF Once
<1>7. \A t, u \in Threads : t # u => O[t] \cap O[u] = {}
  BY DEF Once
<1>8. \A c, d \in CQs : c # d => P2[c] \cap P2[d] = {}
  BY <1>1 DEF Once
<1> QED BY <1>2, <1>3, <1>4, <1>5, <1>6, <1>7, <1>8 DEF Once

\* The invariant says what CompletionsOnce says.
LEMMA CompletionsFromInv ==
    ASSUME DataTypes, CompletionInv
    PROVE  CompletionsOnce
<1> DEFINE P == [cq \in CQs |-> Range(cqe[cq])]
           O == [t \in Threads |-> IF call[t] = Idle THEN {} ELSE Range(call[t].out)]
           K == (UNION {P[cq] : cq \in CQs}) \cup (UNION {O[t] : t \in Threads})
                    \cup returned \cup lost
<1>1. Once(P, O, completed, returned, lost)
  BY DEF CompletionInv, Places, OnTheWay
<1>2. \A t \in Threads : call[t].op \in {"poll", "pollex"} => Len(call[t].out) <= call[t].arg
  BY DEF CompletionInv, ReadLimited, Idle
<1>3. CompletionsOnce <=>
       /\ K = completed
       /\ returned \cap lost = {}
       /\ \A t \in Threads :
             /\ O[t] \cap (returned \cup lost) = {}
             /\ \A cq \in CQs : O[t] \cap P[cq] = {}
             /\ \A u \in Threads \ {t} : O[t] \cap O[u] = {}
             /\ call[t].op \in {"poll", "pollex"} => Len(call[t].out) <= call[t].arg
       /\ \A cq \in CQs : P[cq] \cap (returned \cup lost) = {}
  BY DEF CompletionsOnce
<1> HIDE DEF P, O
<1>4. K = completed
  <2>1. \A x : x \in K <=> \/ x \in returned \/ x \in lost
                          \/ (\E cq \in CQs : x \in P[cq]) \/ (\E t \in Threads : x \in O[t])
    OBVIOUS
  <2> HIDE DEF K
  <2>2. \A x : x \in K <=> x \in completed
    BY <1>1, <2>1 DEF Once
  <2> QED BY <2>2
<1>5. \A t \in Threads : O[t] \cap (returned \cup lost) = {}
  BY <1>1 DEF Once
<1>6. \A cq \in CQs : P[cq] \cap (returned \cup lost) = {}
  BY <1>1 DEF Once
<1>7. /\ \A t \in Threads : \A cq \in CQs : O[t] \cap P[cq] = {}
      /\ \A t \in Threads : \A u \in Threads \ {t} : O[t] \cap O[u] = {}
      /\ returned \cap lost = {}
  BY <1>1 DEF Once
<1> QED BY <1>2, <1>3, <1>4, <1>5, <1>6, <1>7

-----------------------------------------------------------------------------
(* The queues of the QPs. *)

\* The state of a queue of q.
QueueTo(q, op, s) == queue' = [queue EXCEPT ![q][op] = s]

LEMMA QueueToFacts ==
    ASSUME DataTypes, NEW q \in QPs, NEW op \in Ops, NEW s \in Seq(Nat), QueueTo(q, op, s)
    PROVE  /\ queue' \in [QPs -> [Ops -> Seq(Nat)]]
           /\ queue'[q][op] = s
           /\ \A r \in QPs : \A o \in Ops : r # q \/ o # op => queue'[r][o] = queue[r][o]
<1>1. queue \in [QPs -> [Ops -> Seq(Nat)]]
  BY DEF DataTypes
<1> DEFINE f == [queue[q] EXCEPT ![op] = s]
<1>2. queue' = [queue EXCEPT ![q] = f]
  BY <1>1 DEF QueueTo
<1>3. /\ f \in [Ops -> Seq(Nat)] /\ f[op] = s
      /\ \A o \in Ops : o # op => f[o] = queue[q][o]
  BY <1>1
<1> HIDE DEF f
<1>4. queue' \in [QPs -> [Ops -> Seq(Nat)]] /\ queue'[q] = f
  BY <1>1, <1>2, <1>3
<1>5. \A r \in QPs : r # q => queue'[r] = queue[r]
  BY <1>1, <1>2
<1> QED BY <1>3, <1>4, <1>5

\* One queue changes, to one of requests that no other queue has.
LEMMA OneQueue ==
    ASSUME DataTypes, QueuesOnce, NEW q \in QPs, NEW op \in Ops, NEW s \in Seq(Nat),
           QueueTo(q, op, s), IsInjective(s), s # <<>> => q \in native, native' = native,
           Range(s) \subseteq accepted' \ completed',
           \A r \in QPs : \A o \in Ops : r # q \/ o # op =>
               /\ Range(queue[r][o]) \cap Range(s) = {}
               /\ Range(queue[r][o]) \subseteq accepted' \ completed'
    PROVE  QueuesOnce'
<1>1. /\ queue'[q][op] = s
      /\ \A r \in QPs : \A o \in Ops : r # q \/ o # op => queue'[r][o] = queue[r][o]
  BY QueueToFacts
<1>2. ASSUME NEW r \in QPs, NEW o \in Ops
      PROVE  /\ IsInjective(queue'[r][o])
             /\ Range(queue'[r][o]) \subseteq accepted' \ completed'
             /\ queue'[r][o] # <<>> => r \in native'
  <2>1. CASE r = q /\ o = op
    BY <2>1, <1>1
  <2>2. CASE r # q \/ o # op
    BY <2>2, <1>1 DEF QueuesOnce
  <2> QED BY <2>1, <2>2
<1>3. ASSUME NEW r \in QPs, NEW p \in QPs, NEW o \in Ops, NEW a \in Ops, r # p \/ o # a
      PROVE  Range(queue'[r][o]) \cap Range(queue'[p][a]) = {}
  <2>1. CASE r = q /\ o = op
    BY <2>1, <1>1, <1>3
  <2>2. CASE p = q /\ a = op
    BY <2>2, <1>1, <1>3
  <2>3. CASE (r # q \/ o # op) /\ (p # q \/ a # op)
    <3>1. queue'[r][o] = queue[r][o] /\ queue'[p][a] = queue[p][a]
      BY <2>3, <1>1
    <3> QED BY <3>1, <1>3 DEF QueuesOnce
  <2> QED BY <2>1, <2>2, <2>3
<1> QED BY <1>2, <1>3 DEF QueuesOnce

\* Queues are emptied, at least those of QPs that end.
LEMMA QueuesEmptied ==
    ASSUME DataTypes, QueuesOnce,
           \A q \in QPs : \A op \in Ops :
               queue'[q][op] = <<>> \/ (queue'[q][op] = queue[q][op] /\ (q \in native => q \in native')),
           \/ UNCHANGED <<accepted, completed>>
           \/ \A q \in QPs : \A op \in Ops : queue'[q][op] = <<>>
    PROVE  QueuesOnce'
<1> DEFINE e == <<>>
<1>1. e \in Seq(Nat) /\ e = <<>>
  OBVIOUS
<1>2. Range(e) = {} /\ IsInjective(e)
  BY <1>1, ElementsOfSeq
<1> HIDE DEF e
<1>3. ASSUME NEW q \in QPs, NEW op \in Ops
      PROVE  /\ IsInjective(queue'[q][op])
             /\ Range(queue'[q][op]) \subseteq accepted' \ completed'
             /\ queue'[q][op] # <<>> => q \in native'
  <2>1. CASE queue'[q][op] = e
    BY <2>1, <1>1, <1>2
  <2>2. CASE queue'[q][op] # e
    <3>1. queue'[q][op] = queue[q][op] /\ (q \in native => q \in native')
      BY <2>2, <1>1
    <3>2. accepted' = accepted /\ completed' = completed
      BY <2>2, <1>1
    <3> QED BY <3>1, <3>2 DEF QueuesOnce
  <2> QED BY <2>1, <2>2
<1>4. ASSUME NEW q \in QPs, NEW r \in QPs, NEW op \in Ops, NEW o \in Ops, q # r \/ op # o
      PROVE  Range(queue'[q][op]) \cap Range(queue'[r][o]) = {}
  <2>1. CASE queue'[q][op] = e \/ queue'[r][o] = e
    BY <2>1, <1>2
  <2>2. CASE queue'[q][op] # e /\ queue'[r][o] # e
    <3>1. queue'[q][op] = queue[q][op] /\ queue'[r][o] = queue[r][o]
      BY <2>2, <1>1
    <3> QED BY <3>1, <1>4 DEF QueuesOnce
  <2> QED BY <2>1, <2>2
<1> QED BY <1>3, <1>4 DEF QueuesOnce

LEMMA QueuesSame ==
    ASSUME QueuesOnce, UNCHANGED <<queue, accepted, completed, native>>
    PROVE  QueuesOnce'
BY DEF QueuesOnce

-----------------------------------------------------------------------------
\* The range of a sequence of the CQs, or of the entries that a call has.
LEMMA OnTheWayOf ==
    ASSUME NEW t \in Threads
    PROVE  /\ call[t] = Idle => OnTheWay[t] = {}
           /\ call[t] # Idle => OnTheWay[t] = Range(call[t].out)
BY DEF OnTheWay

LEMMA OnTheWayNext ==
    (\A t \in Threads : /\ call[t] = Idle => OnTheWay[t] = {}
                        /\ call[t] # Idle => OnTheWay[t] = Range(call[t].out))'
<1>1. \A t \in Threads : /\ call[t] = Idle => OnTheWay[t] = {}
                         /\ call[t] # Idle => OnTheWay[t] = Range(call[t].out)
  BY OnTheWayOf
<1> QED BY <1>1, PTL

LEMMA PlacesOf == \A cq \in CQs : Places[cq] = Range(cqe[cq])
BY DEF Places

LEMMA PlacesNext == (\A cq \in CQs : Places[cq] = Range(cqe[cq]))'
BY PlacesOf, PTL

\* The empty sequence has no elements.
LEMMA EmptyRange == Range(<<>>) = {}
<1> DEFINE e == <<>>
<1>1. e \in Seq(Nat) /\ e = <<>>
  OBVIOUS
<1> HIDE DEF e
<1>2. Range(e) = {}
  BY <1>1, ElementsOfSeq
<1> QED BY <1>1, <1>2

\* A call changes that has no entries, before and after.
LEMMA CompletionCall ==
    ASSUME DataTypes, CompletionInv, NEW t \in Threads, NEW c \in Calls, CallTo(t, c),
           call[t] = Idle \/ call[t].out = <<>>, c = Idle \/ c.out = <<>>,
           QueuesOnce', UNCHANGED <<native, refs, cqe, completed, returned, lost>>
    PROVE  CompletionInv'
<1>1. call'[t] = c /\ \A u \in Threads : u # t => call'[u] = call[u]
  BY CallToFacts
<1>2. EntriesOnce'
  BY DEF CompletionInv, EntriesOnce
<1>3. ReadLimited'
  <2>1. c.op \in {"poll", "pollex"} => c.arg \in Nat
    BY KindsOfCalls DEF PollCalls
  <2>2. c # Idle /\ c.op \in {"poll", "pollex"} => Len(c.out) <= c.arg
    <3>1. Len(<<>>) = 0
      OBVIOUS
    <3> QED BY <2>1, <3>1
  <2> QED BY <2>2, <1>1 DEF CompletionInv, ReadLimited
<1>4. OnTheWay' = OnTheWay
  <2>1. \A u \in Threads : (IF call'[u] = Idle THEN {} ELSE Range(call'[u].out))
                         = (IF call[u] = Idle THEN {} ELSE Range(call[u].out))
    BY <1>1, EmptyRange
  <2> QED BY <2>1, Zenon DEF OnTheWay
<1>5. Places' = Places
  BY DEF Places
<1>6. Once(Places, OnTheWay, completed, returned, lost)
  BY DEF CompletionInv
<1>7. Once(Places', OnTheWay', completed', returned', lost')
  BY <1>4, <1>5, <1>6
<1> QED BY <1>2, <1>3, <1>7 DEF CompletionInv, Once

\* The provider takes the first k requests of the post of t: new ones.
LEMMA QueueTakes ==
    ASSUME DataTypes, BatchInv, QueuesOnce, NEW t \in Threads, NEW c, c = call[t],
           c \in PostCalls, c.stage = "native", c.obj \in native, NEW k \in 0..Len(c.arg),
           NEW s, s = SubSeq(c.arg, 1, k), QueueTo(c.obj, c.op, queue[c.obj][c.op] \o s),
           accepted' = accepted \cup Range(s), UNCHANGED <<completed, native>>
    PROVE  QueuesOnce'
<1> DEFINE q == c.obj
           op == c.op
           w == queue[q][op]
           z == w \o s
<1>1. q \in QPs /\ op \in Ops /\ c.arg \in Seq(Nat)
  BY DEF PostCalls
<1>2. w \in Seq(Nat) /\ completed \subseteq accepted
  BY <1>1 DEF DataTypes
<1>3. IsInjective(c.arg) /\ Range(c.arg) \cap accepted = {}
  BY DEF BatchInv, RequestsApart, OwnRequests
<1>4. s \in Seq(Nat) /\ IsInjective(s) /\ Range(s) \subseteq Range(c.arg)
  BY <1>1, <1>3, RangeOfSplit
<1>5. Range(s) \cap accepted = {}
  BY <1>3, <1>4
<1>6. \A r \in QPs : \A o \in Ops : Range(queue[r][o]) \subseteq accepted \ completed
  BY DEF QueuesOnce
<1>7. IsInjective(w) /\ Range(w) \subseteq accepted \ completed
  BY <1>1 DEF QueuesOnce
<1>8. z \in Seq(Nat) /\ Range(z) = Range(w) \cup Range(s) /\ IsInjective(z)
  <2>1. Range(w) \cap Range(s) = {}
    BY <1>5, <1>7
  <2> DEFINE m == s
  <2>2. m \in Seq(Nat) /\ IsInjective(m) /\ Range(w) \cap Range(m) = {} /\ w \in Seq(Nat)
    BY <2>1, <1>2, <1>4
  <2> HIDE DEF w, m
  <2>3. w \o m \in Seq(Nat)
    BY <2>2, ConcatProperties
  <2>4. /\ Range(w \o m) = Range(w) \cup Range(m)
        /\ IsInjective(w \o m) <=>
               IsInjective(w) /\ IsInjective(m) /\ Range(w) \cap Range(m) = {}
    BY <2>2, RangeOfConcat
  <2> QED BY <2>2, <2>3, <2>4, <1>7 DEF m
<1>9. QueueTo(q, op, z)
  OBVIOUS
<1>10. Range(z) \subseteq accepted' \ completed'
  BY <1>2, <1>5, <1>7, <1>8
<1>11. \A r \in QPs : \A o \in Ops : r # q \/ o # op =>
           /\ Range(queue[r][o]) \cap Range(z) = {}
           /\ Range(queue[r][o]) \subseteq accepted' \ completed'
  <2>1. \A r \in QPs : \A o \in Ops : r # q \/ o # op => Range(queue[r][o]) \cap Range(w) = {}
    BY <1>1 DEF QueuesOnce
  <2>2. \A r \in QPs : \A o \in Ops : Range(queue[r][o]) \cap Range(s) = {}
    BY <1>5, <1>6
  <2> HIDE DEF w, z
  <2> QED BY <2>1, <2>2, <1>2, <1>6, <1>8
<1>12. (z # <<>> => q \in native) /\ native' = native
  OBVIOUS
<1>13. q \in QPs /\ op \in Ops /\ z \in Seq(Nat) /\ IsInjective(z)
  BY <1>1, <1>8
<1> HIDE DEF q, op, w, z
<1> QED BY <1>9, <1>10, <1>11, <1>12, <1>13, OneQueue

\* The adapter completes the oldest request of a queue into cq.
LEMMA CompletionCompletes ==
    ASSUME DataTypes, CompletionInv, NEW q \in QPs, NEW op \in Ops, NEW cq \in CQs,
           q \in native, cq \in refs[q], queue[q][op] # <<>>, NEW x, x = Head(queue[q][op]),
           QueueTo(q, op, Tail(queue[q][op])), cqe' = [cqe EXCEPT ![cq] = Append(@, x)],
           completed' = completed \cup {x},
           UNCHANGED <<native, refs, call, accepted, returned, lost>>
    PROVE  CompletionInv'
<1> DEFINE w == queue[q][op]
           z == Tail(w)
<1>1. w \in Seq(Nat) /\ w # <<>> /\ cqe \in [CQs -> Seq(Nat)]
  BY DEF DataTypes
<1>2. IsInjective(w) /\ Range(w) \subseteq accepted \ completed
  BY DEF CompletionInv, QueuesOnce
<1>3. /\ x \in Nat /\ z \in Seq(Nat) /\ Range(w) = {x} \cup Range(z)
      /\ IsInjective(z) /\ x \notin Range(z)
  <2> HIDE DEF w, z
  <2>1. x = Head(w) /\ z = Tail(w)
    BY DEF w, z
  <2> QED BY <2>1, <1>1, <1>2, RangeOfTail
<1>4. x \notin completed /\ x \in accepted
  BY <1>2, <1>3
<1>5. QueuesOnce'
  <2>1. QueueTo(q, op, z)
    OBVIOUS
  <2>2. Range(z) \subseteq accepted' \ completed'
    BY <1>2, <1>3
  <2>3. \A r \in QPs : \A o \in Ops : r # q \/ o # op =>
            Range(queue[r][o]) \cap Range(w) = {} /\ Range(queue[r][o]) \subseteq accepted \ completed
    BY DEF CompletionInv, QueuesOnce
  <2> HIDE DEF w, z
  <2>4. \A r \in QPs : \A o \in Ops : r # q \/ o # op =>
            /\ Range(queue[r][o]) \cap Range(z) = {}
            /\ Range(queue[r][o]) \subseteq accepted' \ completed'
    BY <2>3, <1>3
  <2>5. QueuesOnce
    BY DEF CompletionInv
  <2> QED BY <2>1, <2>2, <2>4, <2>5, <1>3, OneQueue
<1>6. Once(Places, OnTheWay, completed, returned, lost)
  BY DEF CompletionInv
<1>7. x \notin Range(cqe[cq])
  <2>1. Places[cq] = Range(cqe[cq])
    BY DEF Places
  <2>2. Places[cq] \subseteq completed
    BY <1>6 DEF Once
  <2> QED BY <2>1, <2>2, <1>4
<1> DEFINE y == Append(cqe[cq], x)
<1>8. y \in Seq(Nat) /\ Range(y) = Range(cqe[cq]) \cup {x} /\ IsInjective(y)
  <2>1. cqe[cq] \in Seq(Nat) /\ IsInjective(cqe[cq])
    BY <1>1 DEF CompletionInv, EntriesOnce
  <2> QED BY <2>1, <1>3, <1>7, RangeOfAppend
<1>9. cqe'[cq] = y /\ \A c \in CQs : c # cq => cqe'[c] = cqe[c]
  BY <1>1
<1> HIDE DEF y
<1>10. EntriesOnce'
  BY <1>8, <1>9 DEF CompletionInv, EntriesOnce
<1>11. ReadLimited' /\ OnTheWay' = OnTheWay
  BY DEF CompletionInv, ReadLimited, OnTheWay
<1>12. Places'[cq] = Places[cq] \cup {x} /\ \A c \in CQs : c # cq => Places'[c] = Places[c]
  BY <1>8, <1>9, PlacesOf, PlacesNext
<1>13. Once(Places', OnTheWay, completed \cup {x}, returned, lost)
  BY <1>4, <1>6, <1>12, OnceCompleted
<1>14. Once(Places', OnTheWay', completed', returned', lost')
  BY <1>11, <1>13
<1> QED BY <1>5, <1>10, <1>11, <1>14 DEF CompletionInv, Once

\* Entries that go off a CQ leave it as it should be.
LEMMA EntriesTaken ==
    ASSUME DataTypes, EntriesOnce, NEW cq \in CQs, NEW k \in 0..Len(cqe[cq]),
           cqe' = [cqe EXCEPT ![cq] = SubSeq(@, k + 1, Len(@))], UNCHANGED <<native, refs>>
    PROVE  /\ EntriesOnce'
           /\ Places[cq] = Range(SubSeq(cqe[cq], 1, k)) \cup Places'[cq]
           /\ Range(SubSeq(cqe[cq], 1, k)) \cap Places'[cq] = {}
           /\ \A c \in CQs : c # cq => Places'[c] = Places[c]
           /\ cqe' \in [CQs -> Seq(Nat)]
<1> DEFINE s == cqe[cq]
           z == SubSeq(s, k + 1, Len(s))
           a == Range(SubSeq(s, 1, k))
<1>1. s \in Seq(Nat) /\ IsInjective(s) /\ cqe \in [CQs -> Seq(Nat)]
  BY DEF DataTypes, EntriesOnce
<1>2. z \in Seq(Nat) /\ Range(s) = a \cup Range(z) /\ IsInjective(z) /\ a \cap Range(z) = {}
  BY <1>1, RangeOfSplit
<1>3. cqe'[cq] = z /\ (\A c \in CQs : c # cq => cqe'[c] = cqe[c])
  BY <1>1
<1>4. cqe' \in [CQs -> Seq(Nat)]
  BY <1>1, <1>2
<1>5. s = <<>> => z = <<>>
  BY <1>1, <1>2, ElementsOfSeq
<1>6. Places[cq] = Range(s) /\ Places'[cq] = Range(z)
      /\ \A c \in CQs : c # cq => Places'[c] = Places[c]
  BY <1>3, PlacesOf, PlacesNext
<1>7. EntriesOnce'
  <2> HIDE DEF z
  <2> QED BY <1>2, <1>3, <1>5 DEF EntriesOnce
<1>8. /\ Places[cq] = a \cup Places'[cq] /\ a \cap Places'[cq] = {}
      /\ \A c \in CQs : c # cq => Places'[c] = Places[c]
  <2> HIDE DEF s, z, a
  <2> QED BY <1>2, <1>6
<1> QED BY <1>4, <1>7, <1>8

\* A poll of t reads k entries.
LEMMA CompletionRead ==
    ASSUME DataTypes, CompletionInv, NEW t \in Threads, NEW c, c = call[t], c \in PollCalls,
           c.stage # "back", NEW k \in 0..Len(cqe[c.obj]), k <= c.arg,
           cqe' = [cqe EXCEPT ![c.obj] = SubSeq(@, k + 1, Len(@))],
           NEW ok \in BOOLEAN, NEW out, out = SubSeq(cqe[c.obj], 1, k), NEW d,
           d = Ended(c, ok, out), CallTo(t, d),
           UNCHANGED <<native, refs, queue, accepted, completed, returned, lost>>
    PROVE  CompletionInv'
<1>1. c.obj \in CQs /\ c # Idle /\ c.arg \in Nat
  BY DEF PollCalls, Idle
<1>2. cqe[c.obj] \in Seq(Nat)
  BY <1>1 DEF DataTypes
<1>3. out \in Seq(Nat) /\ Len(out) = k
  BY <1>2, RangeOfSplit
<1>4. d \in PollCalls /\ d.op = c.op /\ d.arg = c.arg /\ d.stage = "back" /\ d.out = out
  <2> DEFINE o == out
             x == d
  <2>1. c \in PollCalls /\ ok \in BOOLEAN /\ o \in Seq(Nat) /\ x = Ended(c, ok, o)
    BY <1>3
  <2> HIDE DEF o, x
  <2>2. x \in PollCalls /\ x.op = c.op /\ x.arg = c.arg /\ x.stage = "back" /\ x.out = o
    BY <2>1, EndedPoll
  <2> QED BY <2>2 DEF o, x
<1>5. d # Idle
  BY <1>4 DEF PollCalls, Idle
<1>6. call'[t] = d /\ \A u \in Threads : u # t => call'[u] = call[u]
  BY CallToFacts
<1>7. QueuesOnce'
  BY QueuesSame DEF CompletionInv
<1> DEFINE a == Range(out)
           cq == c.obj
<1>8. /\ EntriesOnce'
      /\ Places[cq] = a \cup Places'[cq] /\ a \cap Places'[cq] = {}
      /\ \A e \in CQs : e # cq => Places'[e] = Places[e]
  <2>1. EntriesOnce
    BY DEF CompletionInv
  <2> QED BY <2>1, <1>1, EntriesTaken
<1>9. ReadLimited'
  BY <1>3, <1>4, <1>5, <1>6 DEF CompletionInv, ReadLimited
<1>10. OnTheWay[t] = {} /\ OnTheWay'[t] = a
  <2>1. c.out = <<>>
    BY <1>1 DEF CompletionInv, ReadLimited
  <2>2. OnTheWay[t] = Range(<<>>)
    BY <2>1, <1>1, OnTheWayOf
  <2> QED BY <2>2, <1>4, <1>5, <1>6, OnTheWayNext, EmptyRange
<1>11. \A u \in Threads : u # t => OnTheWay'[u] = OnTheWay[u]
  BY <1>6 DEF OnTheWay
<1>12. Once(Places, OnTheWay, completed, returned, lost)
  BY DEF CompletionInv
<1>13. ReadsFrom(Places, OnTheWay, Places', OnTheWay', cq, t)
  <2>1. cq \in CQs
    BY <1>1
  <2> HIDE DEF a, cq
  <2>2. Places[cq] = OnTheWay'[t] \cup Places'[cq] /\ OnTheWay'[t] \cap Places'[cq] = {}
    BY <1>8, <1>10
  <2>3. \A e \in CQs : e # cq => Places'[e] = Places[e]
    BY <1>8
  <2> DEFINE P2 == Places'
             O2 == OnTheWay'
  <2>4. /\ Places[cq] = O2[t] \cup P2[cq] /\ O2[t] \cap P2[cq] = {}
        /\ \A e \in CQs : e # cq => P2[e] = Places[e]
        /\ \A u \in Threads : u # t => O2[u] = OnTheWay[u]
        /\ OnTheWay[t] = {}
    BY <2>2, <2>3, <1>10, <1>11
  <2> HIDE DEF P2, O2
  <2>5. ReadsFrom(Places, OnTheWay, P2, O2, cq, t)
    BY <2>1, <2>4 DEF ReadsFrom
  <2> QED BY <2>5 DEF P2, O2
<1>14. Once(Places', OnTheWay', completed, returned, lost)
  BY <1>12, <1>13, OnceRead
<1>15. Once(Places', OnTheWay', completed', returned', lost')
  BY <1>14
<1> QED BY <1>7, <1>8, <1>9, <1>15 DEF CompletionInv, Once

\* A poll of t returns its entries, or raises.
LEMMA CompletionReturn ==
    ASSUME DataTypes, CompletionInv, NEW t \in Threads, call[t] # Idle, CallTo(t, Idle),
           \/ returned' = returned \cup Range(call[t].out) /\ lost' = lost
           \/ lost' = lost \cup Range(call[t].out) /\ returned' = returned,
           UNCHANGED <<native, refs, queue, cqe, accepted, completed>>
    PROVE  CompletionInv'
<1>1. call'[t] = Idle /\ \A u \in Threads : u # t => call'[u] = call[u]
  BY CallToFacts
<1>2. QueuesOnce'
  BY QueuesSame DEF CompletionInv
<1>3. EntriesOnce' /\ Places' = Places
  BY DEF CompletionInv, EntriesOnce, Places
<1>4. ReadLimited'
  BY <1>1 DEF CompletionInv, ReadLimited
<1>5. OnTheWay'[t] = {} /\ OnTheWay[t] = Range(call[t].out)
  BY <1>1, OnTheWayOf, OnTheWayNext
<1>6. \A u \in Threads : u # t => OnTheWay'[u] = OnTheWay[u]
  BY <1>1 DEF OnTheWay
<1>7. Once(Places, OnTheWay, completed, returned, lost)
  BY DEF CompletionInv
<1>8. /\ Once(Places, OnTheWay', completed, returned \cup OnTheWay[t], lost)
      /\ Once(Places, OnTheWay', completed, returned, lost \cup OnTheWay[t])
  BY <1>5, <1>6, <1>7, OnceHanded
<1>9. Once(Places', OnTheWay', completed', returned', lost')
  BY <1>3, <1>5, <1>8
<1> QED BY <1>2, <1>3, <1>4, <1>9 DEF CompletionInv, Once

\* The loop over a cursor takes k entries.
LEMMA CompletionCursor ==
    ASSUME DataTypes, CompletionInv, NEW t \in Threads, NEW c, c = call[t], c \in PollCalls,
           c.stage # "back", NEW k \in 0..Len(cqe[c.obj]),
           cqe' = [cqe EXCEPT ![c.obj] = SubSeq(@, k + 1, Len(@))], CallTo(t, Idle),
           NEW a, a = Range(SubSeq(cqe[c.obj], 1, k)),
           \/ returned' = returned \cup a /\ lost' = lost
           \/ lost' = lost \cup a /\ returned' = returned,
           UNCHANGED <<native, refs, queue, accepted, completed>>
    PROVE  CompletionInv'
<1>1. c.obj \in CQs /\ c # Idle
  BY DEF PollCalls, Idle
<1>2. call'[t] = Idle /\ \A u \in Threads : u # t => call'[u] = call[u]
  BY CallToFacts
<1>3. QueuesOnce'
  BY QueuesSame DEF CompletionInv
<1> DEFINE cq == c.obj
<1>4. /\ EntriesOnce'
      /\ Places[cq] = a \cup Places'[cq] /\ a \cap Places'[cq] = {}
      /\ \A e \in CQs : e # cq => Places'[e] = Places[e]
  <2> DEFINE b == a
             n == k
  <2>1. EntriesOnce /\ cq \in CQs
    BY <1>1 DEF CompletionInv
  <2>2. /\ b = Range(SubSeq(cqe[cq], 1, n)) /\ n \in 0..Len(cqe[cq])
        /\ cqe' = [cqe EXCEPT ![cq] = SubSeq(@, n + 1, Len(@))]
    OBVIOUS
  <2>3. UNCHANGED <<native, refs>>
    OBVIOUS
  <2> HIDE DEF b, n, cq
  <2>4. /\ EntriesOnce'
        /\ Places[cq] = b \cup Places'[cq] /\ b \cap Places'[cq] = {}
        /\ \A e \in CQs : e # cq => Places'[e] = Places[e]
    BY <2>1, <2>2, <2>3, EntriesTaken
  <2> QED BY <2>4 DEF b
<1>5. ReadLimited'
  BY <1>2 DEF CompletionInv, ReadLimited
<1>6. OnTheWay[t] = {} /\ OnTheWay'[t] = {}
  <2>1. c.out = <<>>
    BY <1>1 DEF CompletionInv, ReadLimited
  <2>2. OnTheWay[t] = Range(<<>>)
    BY <2>1, <1>1, OnTheWayOf
  <2> QED BY <2>2, <1>2, OnTheWayNext, EmptyRange
<1>7. \A u \in Threads : u # t => OnTheWay'[u] = OnTheWay[u]
  BY <1>2 DEF OnTheWay
<1> DEFINE P2 == Places'
           O2 == [u \in Threads |-> IF u = t THEN a ELSE OnTheWay[u]]
           O3 == OnTheWay'
<1>8. O2[t] = a /\ (\A u \in Threads : u # t => O2[u] = OnTheWay[u])
      /\ O3[t] = {} /\ (\A u \in Threads : u # t => O3[u] = O2[u])
  BY <1>6, <1>7
<1>9. /\ cq \in CQs /\ Places[cq] = a \cup P2[cq] /\ a \cap P2[cq] = {}
      /\ \A e \in CQs : e # cq => P2[e] = Places[e]
  BY <1>1, <1>4
<1> HIDE DEF P2, O2, O3, cq
<1>10. ReadsFrom(Places, OnTheWay, P2, O2, cq, t)
  BY <1>6, <1>8, <1>9 DEF ReadsFrom
<1>11. Once(Places, OnTheWay, completed, returned, lost)
  BY DEF CompletionInv
<1>12. Once(P2, O2, completed, returned, lost)
  BY <1>10, <1>11, OnceRead
<1>13. /\ Once(P2, O3, completed, returned \cup O2[t], lost)
       /\ Once(P2, O3, completed, returned, lost \cup O2[t])
  BY <1>8, <1>12, OnceHanded
<1>14. Once(P2, O3, completed', returned', lost')
  BY <1>8, <1>13
<1>15. Once(Places', OnTheWay', completed', returned', lost')
  BY <1>14 DEF P2, O3
<1> QED BY <1>3, <1>4, <1>5, <1>15 DEF CompletionInv, Once

\* Requests leave the queues of a QP that is reset.
LEMMA CompletionReset ==
    ASSUME DataTypes, CompletionInv, QueuesOnce',
           UNCHANGED <<native, refs, call, cqe, completed, returned, lost>>
    PROVE  CompletionInv'
<1>1. EntriesOnce' /\ ReadLimited' /\ Places' = Places /\ OnTheWay' = OnTheWay
  BY DEF CompletionInv, EntriesOnce, ReadLimited, Places, OnTheWay
<1>2. Once(Places', OnTheWay', completed', returned', lost')
  BY <1>1 DEF CompletionInv
<1> QED BY <1>1, <1>2 DEF CompletionInv, Once

\* A QP refers to the same objects as long as it exists.
LEMMA RefsKept ==
    ASSUME LifeInv, Next, NEW q \in QPs, q \in native, q \in native'
    PROVE  refs'[q] = refs[q]
<1>1. q \in Objects /\ q # Cmid /\ refs \in [Objects -> SUBSET Objects] /\ wrapper[q] # "absent"
  BY ObjectsAssumption DEF LifeInv, RefTypes, Backed, Objects
<1>2. ASSUME NEW o, NEW parents, Wrap(o, parents) PROVE refs'[q] = refs[q]
  BY <1>1, <1>2 DEF Wrap
<1>3. CASE Make
  <2>1. CASE Open \/ Resolve
    BY <1>1, <2>1 DEF Open, Resolve
  <2>2. ASSUME NEW o, CreateOnContext(o) PROVE refs'[q] = refs[q]
    BY <2>2, <1>2 DEF CreateOnContext
  <2>3. ASSUME NEW o, NEW ch, CreateCQ(o, ch) PROVE refs'[q] = refs[q]
    BY <2>3, <1>2 DEF CreateCQ
  <2>4. ASSUME NEW o, NEW pd, CreateOnPD(o, pd) PROVE refs'[q] = refs[q]
    BY <2>4, <1>2 DEF CreateOnPD
  <2>5. ASSUME NEW o, NEW pd, NEW scq, NEW rcq, NEW srq,
               CreateQP(o, pd, scq, rcq, srq) \/ CMCreateQP(o, pd, scq, rcq, srq)
        PROVE  refs'[q] = refs[q]
    BY <2>5, <1>2 DEF CreateQP, CMCreateQP
  <2> QED BY <1>3, <2>1, <2>2, <2>3, <2>4, <2>5
       DEF Make, AllocPD, CreateCompChannel, RegMR, RegDmabufMR, CreateAH, CreateSRQ
<1>4. CASE End
  <2>1. ASSUME NEW r \in QPs, CloseQP(r) PROVE refs'[q] = refs[q]
    BY <2>1, <1>1 DEF CloseQP
  <2>2. CASE ~ \E r \in QPs : CloseQP(r)
    BY <1>4, <2>2 DEF End, CloseContext, CloseCM, ClosePD, CloseMR, CloseAH, CloseSRQ,
                      CloseCompChannel, CloseObject, CloseCQ, Drop
  <2> QED BY <2>1, <2>2
<1>5. CASE Collect
  BY <1>5 DEF Collect, CollectClosed, CollectContext, CollectCM, CollectPD, CollectMR, CollectAH,
              CollectSRQ, CollectCompChannel, CollectObject, CollectQP, CollectCQ
<1>6. CASE Events \/ AsyncEvents \/ Export
  BY <1>6 DEF Events, ReqNotify, HwEvent, TakeEvent, GetEvent, CountEvent, AckEvents,
              AsyncEvents, TakeAsync, AckAsync, ReturnAsync, Export, BridgeInfo, ExportFails,
              Acquire, Release, objVars
<1> QED BY <1>3, <1>4, <1>5, <1>6 DEF Next

-----------------------------------------------------------------------------
\* A QP that was reset has no requests.
LEMMA NoRequests ==
    /\ [send |-> <<>>, recv |-> <<>>] \in [Ops -> Seq(Nat)]
    /\ \A op \in Ops : [send |-> <<>>, recv |-> <<>>][op] = <<>>
<1> DEFINE e == [send |-> <<>>, recv |-> <<>>]
<1>1. e \in [send : Seq(Nat), recv : Seq(Nat)] /\ e.send = <<>> /\ e.recv = <<>>
  OBVIOUS
<1>2. \A r \in [send : Seq(Nat), recv : Seq(Nat)] : r \in [Ops -> Seq(Nat)]
  BY DEF Ops
<1> HIDE DEF e
<1>3. e \in [Ops -> Seq(Nat)]
  BY <1>1, <1>2
<1>4. \A op \in Ops : e[op] = <<>>
  BY <1>1 DEF Ops
<1> QED BY <1>3, <1>4 DEF e

\* The CQs that a step of the bindings purges: those that end, and those of the
\* QPs that end.
Purged == {cq \in CQs : cq \in Gone \/ \E q \in QPs : q \in Gone /\ cq \in refs[q]}

Over == QPs \cap native' = {} /\ \A t \in Threads : call[t] = Idle

\* What a step of the bindings does to requests and completions.
LEMMA LifecycleData ==
    ASSUME Lifecycle
    PROVE  /\ queue' = [q \in QPs |-> IF q \in Gone THEN [send |-> <<>>, recv |-> <<>>]
                                                  ELSE queue[q]]
           /\ cqe' = [cq \in CQs |-> IF cq \in Purged THEN <<>> ELSE cqe[cq]]
           /\ Over => accepted' = {} /\ completed' = {} /\ returned' = {} /\ lost' = {}
           /\ ~ Over => /\ UNCHANGED <<accepted, completed, returned>>
                        /\ \A x : x \in lost' <=>
                              x \in lost \/ \E cq \in CQs : cq \in Purged /\ x \in Range(cqe[cq])
           /\ UNCHANGED <<scene, spinning, nextId>>
<1> DEFINE S == (Gone \cap CQs) \cup UNION {refs[q] \cap CQs : q \in Gone \cap QPs}
<1>1. S = Purged
  BY DEF Purged
<1>2. /\ cqe' = [cq \in CQs |-> IF cq \in S THEN <<>> ELSE cqe[cq]]
      /\ Over => accepted' = {} /\ completed' = {} /\ returned' = {} /\ lost' = {}
      /\ ~ Over => /\ UNCHANGED <<accepted, completed, returned>>
                   /\ lost' = lost \cup UNION {Range(cqe[cq]) : cq \in S}
  BY DEF Lifecycle, Over
<1> HIDE DEF S
<1>3. ~ Over => \A x : x \in lost' <=>
                    x \in lost \/ \E cq \in CQs : cq \in Purged /\ x \in Range(cqe[cq])
  <2> SUFFICES ASSUME ~ Over
               PROVE  \A x : x \in lost' <=>
                          x \in lost \/ \E cq \in CQs : cq \in Purged /\ x \in Range(cqe[cq])
    OBVIOUS
  <2> DEFINE U == UNION {Range(cqe[cq]) : cq \in Purged}
  <2>1. lost' = lost \cup U
    BY <1>1, <1>2
  <2>2. \A x : x \in U <=> \E cq \in Purged : x \in Range(cqe[cq])
    OBVIOUS
  <2> HIDE DEF U
  <2>3. Purged \subseteq CQs
    BY DEF Purged
  <2> QED BY <2>1, <2>2, <2>3
<1> QED BY <1>1, <1>2, <1>3 DEF Lifecycle

\* Completions that go with their QP or CQ are lost, and once.
LEMMA CompletionLifecycle ==
    ASSUME DataTypes, CompletionInv, LifeInv, Lifecycle
    PROVE  /\ CompletionInv'
           /\ queue' \in [QPs -> [Ops -> Seq(Nat)]] /\ cqe' \in [CQs -> Seq(Nat)]
<1>1. queue \in [QPs -> [Ops -> Seq(Nat)]] /\ cqe \in [CQs -> Seq(Nat)]
  BY DEF DataTypes
<1>2. \A q \in QPs : queue'[q] = IF q \in Gone THEN [send |-> <<>>, recv |-> <<>>] ELSE queue[q]
  BY LifecycleData
<1>3. \A cq \in CQs : cqe'[cq] = IF cq \in Purged THEN <<>> ELSE cqe[cq]
  BY LifecycleData
<1>4. ASSUME NEW q \in QPs
      PROVE  /\ queue'[q] \in [Ops -> Seq(Nat)]
             /\ q \in Gone => \A op \in Ops : queue'[q][op] = <<>>
             /\ q \notin Gone => queue'[q] = queue[q]
  <2>1. CASE q \in Gone
    <3>1. queue'[q] = [send |-> <<>>, recv |-> <<>>]
      BY <1>2, <2>1
    <3> DEFINE e == [send |-> <<>>, recv |-> <<>>]
    <3>2. queue'[q] = e /\ e \in [Ops -> Seq(Nat)] /\ \A op \in Ops : e[op] = <<>>
      BY <3>1, NoRequests
    <3> HIDE DEF e
    <3> QED BY <3>2, <2>1
  <2>2. CASE q \notin Gone
    BY <1>1, <1>2, <2>2
  <2> QED BY <2>1, <2>2
<1>5. queue' \in [QPs -> [Ops -> Seq(Nat)]]
  <2>1. \E f : queue' = [q \in QPs |-> f[q]]
    <3> DEFINE f == [q \in QPs |-> IF q \in Gone THEN [send |-> <<>>, recv |-> <<>>]
                                                 ELSE queue[q]]
    <3>1. queue' = f /\ f = [q \in QPs |-> f[q]]
      BY LifecycleData
    <3> HIDE DEF f
    <3> QED BY <3>1
  <2> QED BY <2>1, <1>4
<1>6. cqe' \in [CQs -> Seq(Nat)]
  <2> DEFINE e == <<>>
  <2>1. e \in Seq(Nat) /\ cqe' = [cq \in CQs |-> IF cq \in Purged THEN e ELSE cqe[cq]]
    BY LifecycleData
  <2> HIDE DEF e
  <2> QED BY <1>1, <2>1
<1>7. \A q \in QPs : q \in Gone <=> q \in native /\ q \notin native'
  BY DEF Gone
<1>8. QueuesOnce'
  <2>1. QueuesOnce
    BY DEF CompletionInv
  <2>2. \A q \in QPs : \A op \in Ops :
            queue'[q][op] = <<>> \/ (queue'[q][op] = queue[q][op] /\ (q \in native => q \in native'))
    BY <1>4, <1>7
  <2>3. \/ UNCHANGED <<accepted, completed>>
        \/ \A q \in QPs : \A op \in Ops : queue'[q][op] = <<>>
    <3>1. CASE Over
      <4>1. ASSUME NEW q \in QPs, NEW op \in Ops PROVE queue'[q][op] = <<>>
        <5>1. q \notin native'
          BY <3>1 DEF Over
        <5>2. CASE q \in native
          BY <5>1, <5>2, <1>4, <1>7
        <5>3. CASE q \notin native
          BY <5>3, <1>4, <1>7, <2>1 DEF QueuesOnce
        <5> QED BY <5>2, <5>3
      <4> QED BY <4>1
    <3>2. CASE ~ Over
      BY <3>2, LifecycleData
    <3> QED BY <3>1, <3>2
  <2> QED BY <2>1, <2>2, <2>3, QueuesEmptied
<1>9. ASSUME NEW cq \in CQs, cqe'[cq] # <<>>
      PROVE  cq \notin Purged /\ \E q \in QPs \cap native' : cq \in refs'[q]
  <2>1. cq \notin Purged /\ cqe'[cq] = cqe[cq]
    BY <1>3, <1>9
  <2>2. PICK q \in QPs \cap native : cq \in refs[q]
    BY <2>1, <1>9 DEF CompletionInv, EntriesOnce
  <2>3. q \in native'
    BY <2>1, <2>2, <1>7 DEF Purged
  <2>4. [Next]_vars
    BY ObjectStep DEF DataNext
  <2>5. refs'[q] = refs[q]
    BY <2>2, <2>3, <2>4, RefsKept DEF vars, objVars
  <2> QED BY <2>1, <2>2, <2>3, <2>5
<1>10. EntriesOnce'
  <2>1. ASSUME NEW cq \in CQs PROVE IsInjective(cqe'[cq])
    <3> DEFINE e == <<>>
    <3>1. e \in Seq(Nat) /\ e = <<>>
      OBVIOUS
    <3> HIDE DEF e
    <3>2. IsInjective(e)
      BY <3>1, ElementsOfSeq
    <3>3. IsInjective(cqe[cq])
      BY DEF CompletionInv, EntriesOnce
    <3> QED BY <1>3, <3>1, <3>2, <3>3
  <2> QED BY <2>1, <1>9 DEF EntriesOnce
<1>11. ReadLimited'
  <2> SUFFICES ASSUME NEW t \in Threads, call'[t] # Idle
               PROVE  /\ call'[t].stage # "back" => call'[t].out = <<>>
                      /\ call'[t].op \in {"poll", "pollex"} => Len(call'[t].out) <= call'[t].arg
    BY DEF ReadLimited
  <2>1. call[t] # Idle /\ SameCall(call[t], call'[t])
    BY CallsInLifecycle
  <2> QED BY <2>1 DEF CompletionInv, ReadLimited, SameCall
<1>12. OnTheWay' = OnTheWay
  <2>1. \A t \in Threads : (IF call'[t] = Idle THEN {} ELSE Range(call'[t].out))
                         = (IF call[t] = Idle THEN {} ELSE Range(call[t].out))
    BY CallsInLifecycle DEF SameCall
  <2> QED BY <2>1, Zenon DEF OnTheWay
<1>13. \A cq \in CQs : Places'[cq] = IF cq \in Purged THEN {} ELSE Places[cq]
  BY <1>3, PlacesOf, PlacesNext, EmptyRange
<1>14. Once(Places', OnTheWay', completed', returned', lost')
  <2>1. CASE Over
    <3>1. \A cq \in CQs : Places'[cq] = {}
      <4> SUFFICES ASSUME NEW cq \in CQs, cqe'[cq] # <<>> PROVE FALSE
        BY PlacesNext, EmptyRange
      <4> QED BY <1>9, <2>1 DEF Over
    <3>2. \A t \in Threads : OnTheWay[t] = {}
      BY <2>1, OnTheWayOf DEF Over
    <3>3. completed' = {} /\ returned' = {} /\ lost' = {}
      BY <2>1, LifecycleData
    <3> DEFINE P2 == Places'
    <3>4. \A cq \in CQs : P2[cq] = {}
      BY <3>1
    <3> HIDE DEF P2
    <3>5. Once(P2, OnTheWay, {}, {}, {})
      BY <3>2, <3>4 DEF Once
    <3> QED BY <3>3, <3>5, <1>12 DEF P2
  <2>2. CASE ~ Over
    <3> DEFINE P2 == Places'
               L2 == lost'
    <3>1. \A cq \in CQs : P2[cq] = IF cq \in Purged THEN {} ELSE Places[cq]
      BY <1>13
    <3>2. \A x : x \in L2 <=> x \in lost \/ \E cq \in CQs : cq \in Purged /\ x \in Places[cq]
      BY <2>2, LifecycleData, PlacesOf
    <3>3. Once(Places, OnTheWay, completed, returned, lost)
      BY DEF CompletionInv
    <3>4. completed' = completed /\ returned' = returned
      BY <2>2, LifecycleData
    <3> HIDE DEF P2, L2
    <3>5. Once(P2, OnTheWay, completed, returned, L2)
      BY <3>1, <3>2, <3>3, OncePurged
    <3> QED BY <3>4, <3>5, <1>12 DEF P2, L2
  <2> QED BY <2>1, <2>2
<1>15. CompletionInv'
  BY <1>8, <1>10, <1>11, <1>14 DEF CompletionInv, Once
<1> QED BY <1>5, <1>6, <1>15

-----------------------------------------------------------------------------
(* The steps, one kind after the other. *)

\* Of a step that leaves the bindings alone, what the proofs need.
LEMMA StillObjects ==
    ASSUME UNCHANGED efaVars
    PROVE  UNCHANGED <<wrapper, native, refs, blocked>>
BY DEF efaVars, vars, objVars

\* A method of an open wrapper has its native object.
LEMMA EnsuredLive ==
    ASSUME LifeInv, NEW o \in Objects, Ensured(o)
    PROVE  o \in native
BY DEF LifeInv, Backed, Ensured

\* A post of n new requests begins.
LEMMA StepBeginPost ==
    ASSUME DataInv, NEW t \in Threads, NEW c \in PostCalls, NEW n \in Nat \ {0},
           c.arg = Ids(n), c.obj \in native, call[t] = Idle, CallTo(t, c),
           nextId' = nextId + n, c.stage = "native" \/ ~ c.ok,
           UNCHANGED <<native, refs, scene, queue, cqe, accepted, completed, returned, lost>>
    PROVE  DataInv'
<1>1. DataTypes /\ LiveCalls /\ BatchInv /\ CompletionInv
  BY DEF DataInv
<1>2. c \in Calls /\ c.out = <<>> /\ c # Idle
  BY DEF Calls, PostCalls, Idle, Ops
<1>3. DataTypes'
  <2>1. call' \in [Threads -> Calls]
    BY <1>1, <1>2, CallToFacts
  <2>2. nextId \in Nat \ {0} /\ accepted \subseteq 1..(nextId - 1)
    BY <1>1 DEF DataTypes
  <2>3. nextId' \in Nat \ {0} /\ accepted' \subseteq 1..(nextId' - 1)
    BY <2>2
  <2> QED BY <2>1, <2>3, <1>1 DEF DataTypes
<1>4. LiveCalls'
  BY <1>1, LiveCall
<1>5. BatchInv'
  BY <1>1, <1>3, BatchBegins
<1>6. QueuesOnce'
  BY <1>1, QueuesSame DEF CompletionInv
<1>7. CompletionInv'
  BY <1>1, <1>2, <1>6, CompletionCall
<1> QED BY <1>3, <1>4, <1>5, <1>7 DEF DataInv

\* A call other than a post begins, goes on or ends without entries.
LEMMA StepOtherCall ==
    ASSUME DataInv, NEW t \in Threads, NEW c \in Calls, CallTo(t, c), c \notin PostCalls,
           call[t] = Idle \/ call[t].out = <<>>, c = Idle \/ c.out = <<>>,
           c = Idle \/ c.obj \in native
               \/ (call[t] # Idle /\ c.obj = call[t].obj /\ c.raced = call[t].raced),
           UNCHANGED <<native, refs, scene, queue, cqe, nextId, accepted, completed, returned,
                       lost>>
    PROVE  DataInv'
<1>1. DataTypes /\ LiveCalls /\ BatchInv /\ CompletionInv
  BY DEF DataInv
<1>2. DataTypes'
  BY <1>1, CallToFacts DEF DataTypes
<1>3. LiveCalls'
  BY <1>1, LiveCall
<1>4. BatchInv'
  BY <1>1, <1>2, BatchOther
<1>5. QueuesOnce'
  BY <1>1, QueuesSame DEF CompletionInv
<1>6. CompletionInv'
  BY <1>1, <1>5, CompletionCall
<1> QED BY <1>2, <1>3, <1>4, <1>6 DEF DataInv

\* The native part of a post ends, with k requests taken.
LEMMA StepPostEnds ==
    ASSUME DataInv, NEW t \in Threads, call[t] \in PostCalls, call[t].stage = "native",
           NEW k \in 0..Len(call[t].arg), NEW d,
           d = Ended(call[t], k = Len(call[t].arg), <<>>), CallTo(t, d),
           scene.binding = "efa" /\ call[t].op = "send" => k = 0 \/ k = Len(call[t].arg),
           accepted' = accepted \cup Range(SubSeq(call[t].arg, 1, k)),
           queue' \in [QPs -> [Ops -> Seq(Nat)]], QueuesOnce',
           UNCHANGED <<native, refs, scene, cqe, nextId, completed, returned, lost>>
    PROVE  DataInv'
<1> DEFINE c == call[t]
<1>1. DataTypes /\ LiveCalls /\ BatchInv /\ CompletionInv
  BY DEF DataInv
<1>2. c \in Calls /\ c # Idle /\ c.arg \in Seq(Nat) /\ c.out = <<>>
  BY DEF Calls, PostCalls, Idle, Ops
<1>3. d \in Calls /\ d.obj = c.obj /\ d.raced = c.raced /\ d.out = <<>>
  <2> DEFINE all == k = Len(c.arg)
             x == c
  <2>1. all \in BOOLEAN /\ d = Ended(x, all, <<>>) /\ x \in Calls /\ x # Idle
    BY <1>2
  <2> HIDE DEF all, x
  <2>2. d \in Calls /\ d.obj = x.obj /\ d.raced = x.raced /\ d.out = <<>>
    BY <2>1, EndedEmpty
  <2> QED BY <2>2 DEF x
<1>4. DataTypes'
  <2>1. call' \in [Threads -> Calls]
    BY <1>1, <1>3, CallToFacts
  <2>2. Range(c.arg) \subseteq 1..(nextId - 1)
    BY <1>1 DEF BatchInv, RequestsApart, OwnRequests
  <2>3. Range(SubSeq(c.arg, 1, k)) \subseteq Range(c.arg)
    BY <1>2, RangeOfSplit
  <2>4. accepted' \subseteq 1..(nextId' - 1)
    <3>1. accepted \subseteq 1..(nextId - 1)
      BY <1>1 DEF DataTypes
    <3> QED BY <2>2, <2>3, <3>1
  <2>5. completed' \subseteq accepted' /\ nextId' \in Nat \ {0}
    BY <1>1 DEF DataTypes
  <2>6. cqe' \in [CQs -> Seq(Nat)]
    BY <1>1 DEF DataTypes
  <2> QED BY <2>1, <2>4, <2>5, <2>6 DEF DataTypes
<1>5. LiveCalls'
  BY <1>1, <1>2, <1>3, LiveCall
<1>6. BatchInv'
  BY <1>1, <1>4, BatchEnds
<1>7. CompletionInv'
  BY <1>1, <1>2, <1>3, CompletionCall
<1> QED BY <1>4, <1>5, <1>6, <1>7 DEF DataInv

\* Leaving the interpreter's lock with a new call.
LEMMA LeaveTo ==
    ASSUME LifeInv, NEW t \in Threads, NEW op, NEW o \in Objects, NEW arg, Leave(t, op, o, arg),
           NEW c, c = [op |-> op, obj |-> o, arg |-> arg, stage |-> "native", ok |-> TRUE,
                       out |-> <<>>, raced |-> FALSE]
    PROVE  call[t] = Idle /\ o \in native /\ CallTo(t, c)
BY EnsuredLive DEF Leave, Enter, CallTo

LEMMA QPsAndCQs == QPs \subseteq Objects /\ CQs \subseteq Objects /\ Cmid \in Objects
BY DEF Objects, Counted

LEMMA BatchSize == \A n \in 1..MaxBatch : n \in Nat \ {0}
BY DatapathAssumption

\* The steps of the bindings keep the invariant: a post begins.
LEMMA StepPost ==
    ASSUME DataInv, LifeInv, NEW t \in Threads, NEW q \in QPs, NEW op \in Ops,
           NEW n \in 1..MaxBatch, Post(t, q, op, n)
    PROVE  DataInv'
<1> DEFINE c == [op |-> op, obj |-> q, arg |-> Ids(n), stage |-> "native", ok |-> TRUE,
                 out |-> <<>>, raced |-> FALSE]
<1>1. n \in Nat \ {0} /\ q \in Objects
  BY BatchSize, QPsAndCQs
<1>2. Ids(n) \in Seq(Nat)
  BY <1>1, NewIds DEF DataInv
<1>3. c \in PostCalls /\ c.arg = Ids(n) /\ c.obj = q /\ c.stage = "native"
  BY <1>2 DEF PostCalls
<1>4. Leave(t, op, q, Ids(n))
  BY DEF Post
<1>5. call[t] = Idle /\ q \in native /\ CallTo(t, c)
  BY <1>1, <1>4, LeaveTo
<1>6. /\ nextId' = nextId + n
      /\ UNCHANGED <<native, refs, scene, queue, cqe, accepted, completed, returned, lost>>
  BY StillObjects DEF Post, nativeVars
<1> HIDE DEF c
<1> QED BY <1>1, <1>3, <1>5, <1>6, StepBeginPost

\* The batch that raises is aborted: nothing is submitted.
LEMMA StepPostRaises ==
    ASSUME DataInv, LifeInv, NEW t \in Threads, NEW q \in QPs, NEW n \in 1..MaxBatch,
           NEW bad, PostSendExRaises(t, q, n, bad)
    PROVE  DataInv'
<1> DEFINE c == [op |-> "send", obj |-> q, arg |-> Ids(n), stage |-> "back", ok |-> FALSE,
                 out |-> <<>>, raced |-> FALSE]
<1>1. n \in Nat \ {0} /\ q \in Objects
  BY BatchSize, QPsAndCQs
<1>2. Ids(n) \in Seq(Nat)
  BY <1>1, NewIds DEF DataInv
<1>3. c \in PostCalls /\ c.arg = Ids(n) /\ c.obj = q /\ ~ c.ok
  BY <1>2 DEF PostCalls, Ops
<1>4. call[t] = Idle /\ CallTo(t, c) /\ nextId' = nextId + n /\ q \in native
  BY <1>1, EnsuredLive DEF PostSendExRaises, Enter, CallTo
<1>5. accepted' = accepted
  BY EmptyRange DEF PostSendExRaises, Submitted
<1>6. queue' = queue
  <2>1. queue' = [queue EXCEPT ![q]["send"] = @ \o <<>>]
    BY DEF PostSendExRaises, Submitted
  <2>2. queue \in [QPs -> [Ops -> Seq(Nat)]] /\ "send" \in Ops
    BY DEF DataInv, DataTypes, Ops
  <2>3. queue[q]["send"] \in Seq(Nat)
    BY <2>2
  <2>4. queue[q]["send"] \o <<>> = queue[q]["send"]
    BY <2>3, ConcatEmptySeq
  <2> DEFINE w == queue[q]["send"] \o <<>>
  <2>5. queue' = [queue EXCEPT ![q]["send"] = w]
    BY <2>1
  <2>6. w = queue[q]["send"]
    BY <2>4
  <2> HIDE DEF w
  <2>7. [queue[q] EXCEPT !["send"] = w] = queue[q]
    BY <2>2, <2>6
  <2> QED BY <2>2, <2>5, <2>7
<1>7. UNCHANGED <<native, refs, scene, cqe, completed, returned, lost>>
  BY StillObjects DEF PostSendExRaises
<1> HIDE DEF c
<1> QED BY <1>1, <1>3, <1>4, <1>5, <1>6, <1>7, StepBeginPost

\* The provider takes a chain of requests, or a first part of it.
LEMMA StepNativePost ==
    ASSUME DataInv, NEW t \in Threads, NativePost(t)
    PROVE  DataInv'
<1> DEFINE c == call[t]
           q == c.obj
           op == c.op
<1>1. DataTypes /\ BatchInv /\ LiveCalls /\ QueuesOnce
  BY DEF DataInv, CompletionInv
<1>2. c \in Calls /\ c.op \in Ops /\ c.stage = "native" /\ Sound
  BY <1>1 DEF NativePost, InNative, DataTypes, Ops
<1>3. c \in PostCalls /\ c # Idle
  BY <1>2, KindsOfCalls DEF Idle, Ops
<1>4. q \in QPs /\ op \in Ops /\ c.arg \in Seq(Nat)
  BY <1>3 DEF PostCalls
<1>5. q \in native
  BY <1>1, <1>2, <1>3, LiveWhenSound
<1>6. PICK k \in 0..Len(c.arg) :
          /\ queue' = [queue EXCEPT ![q][op] = @ \o SubSeq(c.arg, 1, k)]
          /\ accepted' = accepted \cup Range(SubSeq(c.arg, 1, k))
          /\ NativeEnds(t, k = Len(c.arg), <<>>)
  BY DEF NativePost
<1>7. UNCHANGED <<native, refs, scene, cqe, nextId, completed, returned, lost>>
      /\ ~ (scene.binding = "efa" /\ c.op = "send")
  BY StillObjects DEF NativePost
<1> DEFINE s == SubSeq(c.arg, 1, k)
           w == queue[q][op]
           d == Ended(c, k = Len(c.arg), <<>>)
<1>8. CallTo(t, d)
  BY <1>1, <1>3, <1>6, NativeEndsTo
<1>9. s \in Seq(Nat) /\ w \in Seq(Nat)
  BY <1>1, <1>4, RangeOfSplit DEF DataTypes
<1>10. w \o s \in Seq(Nat)
  BY <1>9, ConcatProperties
<1>11. QueueTo(q, op, w \o s)
  BY <1>6 DEF QueueTo
<1>12. queue' \in [QPs -> [Ops -> Seq(Nat)]]
  BY <1>1, <1>4, <1>10, <1>11, QueueToFacts
<1>13. QueuesOnce'
  BY <1>1, <1>2, <1>3, <1>5, <1>6, <1>7, <1>11, QueueTakes
<1> HIDE DEF d
<1>14. d = Ended(call[t], k = Len(call[t].arg), <<>>)
  BY DEF d
<1> QED BY <1>2, <1>3, <1>6, <1>7, <1>8, <1>12, <1>13, <1>14, StepPostEnds

\* wr_complete takes all requests or none.
LEMMA StepWrComplete ==
    ASSUME DataInv, NEW t \in Threads, WrComplete(t)
    PROVE  DataInv'
<1> DEFINE c == call[t]
           q == c.obj
           n == Len(c.arg)
<1>1. DataTypes /\ BatchInv /\ LiveCalls /\ QueuesOnce
  BY DEF DataInv, CompletionInv
<1>2. c \in Calls /\ c.op = "send" /\ c.stage = "native" /\ Sound
  BY <1>1 DEF WrComplete, InNative, DataTypes
<1>3. c \in PostCalls /\ c # Idle
  BY <1>2, KindsOfCalls DEF Idle, Ops
<1>4. q \in QPs /\ c.op \in Ops /\ c.arg \in Seq(Nat) /\ n \in Nat
  BY <1>3 DEF PostCalls
<1>5. q \in native
  BY <1>1, <1>2, <1>3, LiveWhenSound
<1>6. UNCHANGED <<native, refs, scene, cqe, nextId, completed, returned, lost>>
  BY StillObjects DEF WrComplete
<1>7. CASE /\ queue' = [queue EXCEPT ![q]["send"] = @ \o c.arg]
           /\ accepted' = accepted \cup Range(c.arg)
           /\ NativeEnds(t, TRUE, <<>>)
  <2> DEFINE k == n
             w == queue[q]["send"]
             d == Ended(c, k = n, <<>>)
  <2>1. k \in 0..n /\ (k = n) = TRUE
    BY <1>4
  <2>2. SubSeq(c.arg, 1, k) = c.arg
    BY <1>4, SubSeqFull
  <2>3. w \in Seq(Nat)
    BY <1>1, <1>2, <1>4 DEF DataTypes
  <2>4. w \o c.arg \in Seq(Nat)
    BY <2>3, <1>4, ConcatProperties
  <2>5. QueueTo(q, c.op, queue[q][c.op] \o c.arg)
    BY <1>2, <1>7 DEF QueueTo
  <2>6. queue' \in [QPs -> [Ops -> Seq(Nat)]]
    BY <1>1, <1>2, <1>4, <2>4, <2>5, QueueToFacts
  <2>7. QueuesOnce'
    <3>1. c.arg = SubSeq(c.arg, 1, k) /\ k \in 0..Len(c.arg)
      BY <2>1, <2>2
    <3> HIDE DEF k
    <3> QED BY <1>1, <1>2, <1>3, <1>5, <1>6, <1>7, <2>5, <3>1, QueueTakes
  <2>8. CallTo(t, d)
    <3>1. CallTo(t, Ended(c, TRUE, <<>>))
      BY <1>1, <1>3, <1>7, NativeEndsTo
    <3> QED BY <3>1, <2>1
  <2>9. accepted' = accepted \cup Range(SubSeq(c.arg, 1, k)) /\ k \in 0..Len(call[t].arg)
    BY <1>7, <2>1, <2>2
  <2>10. d = Ended(call[t], k = Len(call[t].arg), <<>>) /\ k = Len(call[t].arg)
    OBVIOUS
  <2> HIDE DEF k, d
  <2> QED BY <1>2, <1>3, <1>6, <2>6, <2>7, <2>8, <2>9, <2>10, StepPostEnds
<1>8. CASE NativeEnds(t, FALSE, <<>>) /\ UNCHANGED <<queue, accepted>>
  <2> DEFINE k == 0
             d == Ended(c, k = n, <<>>)
  <2>1. k \in 0..n /\ (k = n) = FALSE
    <3>1. c.arg # <<>>
      BY <1>1, <1>3 DEF BatchInv, RequestsApart, OwnRequests
    <3> QED BY <3>1, <1>4, EmptySeq
  <2>2. SubSeq(c.arg, 1, k) = <<>>
    BY SubSeqEmpty
  <2>3. accepted' = accepted \cup Range(SubSeq(c.arg, 1, k)) /\ k \in 0..Len(call[t].arg)
    BY <1>8, <2>1, <2>2, EmptyRange
  <2>4. QueuesOnce' /\ queue' \in [QPs -> [Ops -> Seq(Nat)]]
    BY <1>1, <1>6, <1>8, QueuesSame DEF DataTypes
  <2>5. CallTo(t, d)
    <3>1. CallTo(t, Ended(c, FALSE, <<>>))
      BY <1>1, <1>3, <1>8, NativeEndsTo
    <3> QED BY <3>1, <2>1
  <2>6. d = Ended(call[t], k = Len(call[t].arg), <<>>) /\ k = 0
    OBVIOUS
  <2> HIDE DEF k, d
  <2> QED BY <1>2, <1>3, <1>6, <2>3, <2>4, <2>5, <2>6, StepPostEnds
<1> QED BY <1>7, <1>8 DEF WrComplete

\* Idle is a call without entries.
LEMMA IdleCall == Idle \in Calls /\ Idle \notin PostCalls
BY DEF Calls, PostCalls, Idle, Ops

\* A post or a connection call returns.
LEMMA StepReturn ==
    ASSUME DataInv, NEW t \in Threads, ReturnPost(t) \/ ReturnConnection(t)
    PROVE  DataInv'
<1>1. call[t] \in Calls
  BY DEF DataInv, DataTypes
<1>2. call[t].op \in Ops \cup {"connect", "disconnect"} /\ CallTo(t, Idle)
  BY DEF ReturnPost, ReturnConnection, Back, CallTo, Ops
<1>3. call[t] \in PostCalls \/ call[t] \in CMCalls
  BY <1>1, <1>2, KindsOfCalls
<1>4. call[t].out = <<>>
  BY <1>3 DEF PostCalls, CMCalls
<1>5. UNCHANGED <<native, refs, scene, queue, cqe, nextId, accepted, completed, returned, lost>>
  BY StillObjects DEF ReturnPost, ReturnConnection, nativeVars, historyVars
<1> QED BY <1>2, <1>4, <1>5, IdleCall, StepOtherCall

\* A poll begins.
LEMMA StepBeginPoll ==
    ASSUME DataInv, LifeInv, NEW t \in Threads, NEW cq \in CQs, NEW n \in 1..MaxBatch,
           Poll(t, cq, n) \/ EfaPoll(t, cq, n) \/ PollEx(t, cq, n)
    PROVE  DataInv'
<1> DEFINE kind == IF PollEx(t, cq, n) THEN "pollex" ELSE "poll"
           c == [op |-> kind, obj |-> cq, arg |-> n, stage |-> "native", ok |-> TRUE,
                 out |-> <<>>, raced |-> FALSE]
<1>1. n \in Nat /\ cq \in Objects
  BY BatchSize, QPsAndCQs
<1>2. c \in PollCalls /\ c.obj = cq /\ c.out = <<>>
  <2>1. kind \in {"poll", "pollex"} /\ <<>> \in Seq(Nat)
    OBVIOUS
  <2> HIDE DEF kind
  <2> QED BY <1>1, <2>1 DEF PollCalls
<1>3. c \in Calls /\ c \notin PostCalls
  <2> HIDE DEF c
  <2> QED BY <1>2 DEF Calls, PollCalls, PostCalls, Ops
<1>4. Leave(t, kind, cq, n)
  BY DEF Poll, EfaPoll, PollEx
<1>5. UNCHANGED <<native, refs, scene, queue, cqe, nextId, accepted, completed, returned, lost>>
  BY StillObjects DEF Poll, EfaPoll, PollEx, nativeVars, historyVars
<1> HIDE DEF kind
<1>6. call[t] = Idle /\ cq \in native /\ CallTo(t, c)
  BY <1>1, <1>4, LeaveTo
<1> HIDE DEF c
<1> QED BY <1>2, <1>3, <1>5, <1>6, StepOtherCall

\* connect or disconnect begins.
LEMMA StepBeginConnection ==
    ASSUME DataInv, LifeInv, NEW t \in Threads, Connect(t) \/ Disconnect(t)
    PROVE  DataInv'
<1> DEFINE kind == IF Connect(t) THEN "connect" ELSE "disconnect"
           c == [op |-> kind, obj |-> Cmid, arg |-> 0, stage |-> "native", ok |-> TRUE,
                 out |-> <<>>, raced |-> FALSE]
<1>1. Cmid \in Objects
  BY QPsAndCQs
<1>2. c \in CMCalls /\ c.obj = Cmid /\ c.out = <<>>
  <2>1. kind \in {"connect", "disconnect"}
    OBVIOUS
  <2> HIDE DEF kind
  <2> QED BY <2>1 DEF CMCalls
<1>3. c \in Calls /\ c \notin PostCalls
  <2> HIDE DEF c
  <2> QED BY <1>2 DEF Calls, CMCalls, PostCalls, Ops
<1>4. Leave(t, kind, Cmid, 0)
  BY DEF Connect, Disconnect
<1>5. UNCHANGED <<native, refs, scene, queue, cqe, nextId, accepted, completed, returned, lost>>
  BY StillObjects DEF Connect, Disconnect, nativeVars, historyVars
<1> HIDE DEF kind
<1>6. call[t] = Idle /\ Cmid \in native /\ CallTo(t, c)
  BY <1>1, <1>4, LeaveTo
<1> HIDE DEF c
<1> QED BY <1>2, <1>3, <1>5, <1>6, StepOtherCall

\* ibv_poll_cq reads entries, or fails with those that it had read.
LEMMA StepNativePoll ==
    ASSUME DataInv, NEW t \in Threads, NativePoll(t)
    PROVE  DataInv'
<1> DEFINE c == call[t]
           cq == c.obj
<1>1. DataTypes /\ LiveCalls /\ BatchInv /\ CompletionInv /\ EntriesOnce
  BY DEF DataInv, CompletionInv
<1>2. c \in Calls /\ c.op = "poll" /\ c.stage = "native"
  BY <1>1 DEF NativePoll, InNative, DataTypes
<1>3. c \in PollCalls /\ c # Idle
  BY <1>2, KindsOfCalls DEF Idle
<1>4. cq \in CQs /\ c.arg \in Nat
  BY <1>3 DEF PollCalls
<1>5. cqe[cq] \in Seq(Nat)
  BY <1>1, <1>4 DEF DataTypes
<1>6. PICK ok \in BOOLEAN, k \in 0..AtMost(c.arg, Len(cqe[cq])) :
          /\ cqe' = [cqe EXCEPT ![cq] = SubSeq(@, k + 1, Len(@))]
          /\ NativeEnds(t, ok, SubSeq(cqe[cq], 1, k))
  BY DEF NativePoll
<1>7. k \in 0..Len(cqe[cq]) /\ k <= c.arg
  <2> DEFINE n == Len(cqe[cq])
  <2>1. n \in Nat /\ k \in 0..AtMost(c.arg, n)
    BY <1>5
  <2> HIDE DEF n
  <2>2. k \in 0..n /\ k <= c.arg
    BY <1>4, <2>1 DEF AtMost
  <2> QED BY <2>2 DEF n
<1>8. UNCHANGED <<native, refs, scene, queue, nextId, accepted, completed, returned, lost>>
  BY StillObjects DEF NativePoll, historyVars
<1> DEFINE out == SubSeq(cqe[cq], 1, k)
           d == Ended(c, ok, out)
<1>9. out \in Seq(Nat)
  BY <1>5, <1>7, RangeOfSplit
<1>10. CallTo(t, d)
  BY <1>1, <1>3, <1>6, NativeEndsTo
<1>11. d \in PollCalls /\ d.obj = cq /\ d.raced = c.raced
  <2> HIDE DEF out
  <2>1. d \in PollCalls /\ d.obj = c.obj /\ d.raced = c.raced
    BY <1>3, <1>9, EndedPoll
  <2> QED BY <2>1
<1>12. CompletionInv'
  <2> DEFINE x == c
             o == out
             e == d
  <2>1. x = call[t] /\ x \in PollCalls /\ x.stage # "back" /\ k \in 0..Len(cqe[x.obj]) /\ k <= x.arg
    BY <1>2, <1>3, <1>7
  <2>2. cqe' = [cqe EXCEPT ![x.obj] = SubSeq(@, k + 1, Len(@))]
    BY <1>6
  <2>3. o = SubSeq(cqe[x.obj], 1, k) /\ e = Ended(x, ok, o) /\ CallTo(t, e)
    BY <1>10
  <2> HIDE DEF x, o, e
  <2> QED BY <1>1, <1>8, <2>1, <2>2, <2>3, CompletionRead
<1>13. cqe' \in [CQs -> Seq(Nat)]
  <2> HIDE DEF cq
  <2> QED BY <1>1, <1>4, <1>6, <1>7, <1>8, EntriesTaken
<1> HIDE DEF d
<1>14. d \in Calls /\ d \notin PostCalls /\ d # Idle
  BY <1>11 DEF Calls, PollCalls, PostCalls, Ops, Idle
<1>15. DataTypes'
  <2>1. call' \in [Threads -> Calls]
    BY <1>1, <1>10, <1>14, CallToFacts
  <2> QED BY <2>1, <1>1, <1>8, <1>13 DEF DataTypes
<1>16. BatchInv'
  BY <1>1, <1>8, <1>10, <1>14, <1>15, BatchOther
<1>17. LiveCalls'
  BY <1>1, <1>3, <1>8, <1>10, <1>11, LiveCall
<1> QED BY <1>12, <1>15, <1>16, <1>17 DEF DataInv

\* A poll returns its entries, or drops them with an error.
LEMMA StepReturnPoll ==
    ASSUME DataInv, NEW t \in Threads, ReturnPoll(t)
    PROVE  DataInv'
<1>1. DataTypes /\ LiveCalls /\ BatchInv /\ CompletionInv
  BY DEF DataInv
<1>2. call[t] # Idle /\ CallTo(t, Idle)
  BY DEF ReturnPoll, Back, CallTo, Idle
<1>3. UNCHANGED <<native, refs, scene, queue, cqe, nextId, accepted, completed>>
  BY StillObjects DEF ReturnPoll, nativeVars
<1>4. \/ returned' = returned \cup Range(call[t].out) /\ lost' = lost
      \/ lost' = lost \cup Range(call[t].out) /\ returned' = returned
  BY DEF ReturnPoll
<1>5. CompletionInv'
  BY <1>1, <1>2, <1>3, <1>4, CompletionReturn
<1>6. DataTypes'
  <2>1. call' \in [Threads -> Calls]
    BY <1>1, <1>2, IdleCall, CallToFacts
  <2> QED BY <2>1, <1>1, <1>3 DEF DataTypes
<1>7. BatchInv'
  BY <1>1, <1>2, <1>3, <1>6, IdleCall, BatchOther
<1>8. LiveCalls'
  BY <1>1, <1>2, <1>3, LiveCall
<1> QED BY <1>5, <1>6, <1>7, <1>8 DEF DataInv

\* start_poll gets the cursor, or ends the call.
LEMMA StepStartPoll ==
    ASSUME DataInv, NEW t \in Threads, StartPoll(t)
    PROVE  DataInv'
<1> DEFINE c == call[t]
<1>1. DataTypes
  BY DEF DataInv
<1>2. c \in Calls /\ c.op = "pollex" /\ c.stage = "native"
  BY <1>1 DEF StartPoll, InNative, DataTypes
<1>3. c \in PollCalls /\ c # Idle
  BY <1>2, KindsOfCalls DEF Idle
<1>4. c.out = <<>>
  BY <1>2, <1>3 DEF DataInv, CompletionInv, ReadLimited
<1>5. UNCHANGED <<native, refs, scene, queue, cqe, nextId, accepted, completed, returned, lost>>
  BY StillObjects DEF StartPoll, nativeVars, historyVars
<1>6. ASSUME NEW ok \in BOOLEAN, NativeEnds(t, ok, <<>>)
      PROVE  DataInv'
  <2> DEFINE x == c
             d == Ended(x, ok, <<>>)
  <2>1. CallTo(t, d)
    BY <1>1, <1>3, <1>6, NativeEndsTo
  <2>2. x \in Calls /\ x # Idle /\ x.op = "pollex" /\ x = call[t]
    BY <1>2, <1>3
  <2> HIDE DEF x, d
  <2>3. d \in Calls /\ d.op = "pollex" /\ d.obj = x.obj /\ d.raced = x.raced /\ d.out = <<>>
    <3>1. d = Ended(x, ok, <<>>)
      BY DEF d
    <3> QED BY <2>2, <3>1, EndedEmpty
  <2>4. d \notin PostCalls
    BY <2>3 DEF PostCalls, Ops
  <2> QED BY <1>3, <1>4, <1>5, <2>1, <2>2, <2>3, <2>4, StepOtherCall
<1>7. CASE call' = [call EXCEPT ![t].stage = "cursor"]
  <2> DEFINE d == [c EXCEPT !.stage = "cursor"]
  <2>1. CallTo(t, d)
    BY <1>1, <1>7 DEF CallTo, DataTypes
  <2>2. d \in PollCalls /\ d.obj = c.obj /\ d.raced = c.raced /\ d.out = c.out
    BY <1>3 DEF PollCalls
  <2> HIDE DEF d
  <2>3. d \in Calls /\ d \notin PostCalls
    BY <2>2 DEF Calls, PollCalls, PostCalls, Ops
  <2> QED BY <1>3, <1>4, <1>5, <2>1, <2>2, <2>3, StepOtherCall
<1> QED BY <1>6, <1>7 DEF StartPoll

\* The loop over the cursor returns its entries, or drops them with an error.
LEMMA StepReadCursor ==
    ASSUME DataInv, NEW t \in Threads, ReadCursor(t)
    PROVE  DataInv'
<1> DEFINE c == call[t]
           cq == c.obj
           len == Len(cqe[cq])
           n == Reads(c.arg, len)
<1>1. DataTypes /\ LiveCalls /\ BatchInv /\ CompletionInv /\ EntriesOnce
  BY DEF DataInv, CompletionInv
<1>2. c \in Calls /\ c.op = "pollex" /\ c.stage = "cursor"
  BY <1>1 DEF ReadCursor, DataTypes
<1>3. c \in PollCalls /\ c # Idle
  BY <1>2, KindsOfCalls DEF Idle
<1>4. cq \in CQs /\ c.arg \in Nat
  BY <1>3 DEF PollCalls
<1>5. cqe[cq] \in Seq(Nat)
  BY <1>1, <1>4 DEF DataTypes
<1>6. n \in 0..len /\ AtMost(c.arg, n) = n /\ len \in Nat
  <2>1. len \in Nat
    BY <1>5
  <2> HIDE DEF len
  <2> QED BY <1>4, <2>1 DEF Reads, AtMost
<1>7. CallTo(t, Idle)
  BY DEF ReadCursor, CallTo
<1>8. UNCHANGED <<native, refs, scene, queue, nextId, accepted, completed>>
  BY StillObjects DEF ReadCursor
<1>9. ASSUME NEW k \in 0..len, cqe' = [cqe EXCEPT ![cq] = SubSeq(@, k + 1, Len(@))],
             \/ /\ returned' = returned \cup Range(SubSeq(cqe[cq], 1, k))
                /\ lost' = lost
             \/ /\ lost' = lost \cup Range(SubSeq(cqe[cq], 1, k))
                /\ returned' = returned
      PROVE  DataInv'
  <2>1. CompletionInv'
    <3> DEFINE x == c
               a == Range(SubSeq(cqe[cq], 1, k))
               y == x.obj
    <3>1. x = call[t] /\ x \in PollCalls /\ x.stage # "back" /\ k \in 0..Len(cqe[x.obj])
      BY <1>2, <1>3
    <3>2. cqe' = [cqe EXCEPT ![x.obj] = SubSeq(@, k + 1, Len(@))]
      BY <1>9
    <3>3. a = Range(SubSeq(cqe[x.obj], 1, k))
      OBVIOUS
    <3>4. \/ returned' = returned \cup a /\ lost' = lost
          \/ lost' = lost \cup a /\ returned' = returned
      BY <1>9
    <3> HIDE DEF x, a
    <3> QED BY <1>1, <1>7, <1>8, <3>1, <3>2, <3>3, <3>4, CompletionCursor
  <2>2. cqe' \in [CQs -> Seq(Nat)]
    <3>1. k \in 0..Len(cqe[cq])
      OBVIOUS
    <3> HIDE DEF cq, len
    <3> QED BY <1>1, <1>4, <1>8, <1>9, <3>1, EntriesTaken
  <2>3. DataTypes'
    <3>1. call' \in [Threads -> Calls]
      BY <1>1, <1>7, IdleCall, CallToFacts
    <3> QED BY <3>1, <1>1, <1>8, <2>2 DEF DataTypes
  <2>4. BatchInv'
    BY <1>1, <1>7, <1>8, <2>3, IdleCall, BatchOther
  <2>5. LiveCalls'
    BY <1>1, <1>7, <1>8, LiveCall
  <2> QED BY <2>1, <2>3, <2>4, <2>5 DEF DataInv
<1>10. CASE /\ cqe' = [cqe EXCEPT ![cq] = SubSeq(@, n + 1, Len(@))]
            /\ returned' = returned \cup Range(SubSeq(cqe[cq], 1, AtMost(c.arg, n)))
            /\ UNCHANGED lost
  <2>1. AtMost(c.arg, n) = n /\ n \in 0..len
    BY <1>6
  <2> HIDE DEF n
  <2> QED BY <1>9, <1>10, <2>1
<1>11. ASSUME NEW k \in 1..(n - 1), cqe' = [cqe EXCEPT ![cq] = SubSeq(@, k + 1, Len(@))],
              lost' = lost \cup Range(SubSeq(cqe[cq], 1, k)), UNCHANGED returned
       PROVE  DataInv'
  <2>1. k \in 0..len
    <3> HIDE DEF n, len
    <3> QED BY <1>6
  <2> QED BY <1>9, <1>11, <2>1
<1> QED BY <1>10, <1>11 DEF ReadCursor

\* rdma_connect and rdma_disconnect change only states of QPs.
LEMMA StepNativeConnection ==
    ASSUME DataInv, NEW t \in Threads, NativeConnection(t)
    PROVE  DataInv'
<1> DEFINE x == call[t]
<1>1. DataTypes
  BY DEF DataInv
<1>2. x \in Calls /\ x.op \in {"connect", "disconnect"}
  BY <1>1 DEF NativeConnection, InNative, DataTypes
<1>3. x \in CMCalls /\ x # Idle
  BY <1>2, KindsOfCalls DEF Idle
<1>4. x.out = <<>>
  BY <1>3 DEF CMCalls
<1>5. UNCHANGED <<native, refs, scene, queue, cqe, nextId, accepted, completed, returned, lost>>
  BY StillObjects DEF NativeConnection, historyVars
<1>6. PICK ok \in BOOLEAN : NativeEnds(t, ok, <<>>)
  BY DEF NativeConnection
<1> DEFINE d == Ended(x, ok, <<>>)
<1>7. CallTo(t, d)
  BY <1>1, <1>3, <1>6, NativeEndsTo
<1>8. x = call[t] /\ d = Ended(x, ok, <<>>)
  OBVIOUS
<1> HIDE DEF x, d
<1>9. d \in Calls /\ d.op = x.op /\ d.obj = x.obj /\ d.raced = x.raced /\ d.out = <<>>
  BY <1>2, <1>3, <1>8, EndedEmpty
<1>10. d \notin PostCalls
  BY <1>2, <1>9 DEF PostCalls, Ops
<1> QED BY <1>3, <1>4, <1>5, <1>7, <1>8, <1>9, <1>10, StepOtherCall

\* No data changes but the states of the QPs, and no object.
LEMMA StepStill ==
    ASSUME DataInv,
           UNCHANGED <<native, refs, scene, queue, cqe, call, nextId, accepted, completed,
                       returned, lost>>
    PROVE  DataInv'
<1>1. DataTypes /\ LiveCalls /\ BatchInv /\ CompletionInv
  BY DEF DataInv
<1>2. DataTypes' /\ LiveCalls'
  BY <1>1 DEF DataTypes, LiveCalls
<1>3. BatchInv'
  BY <1>1, BatchSame
<1>4. QueuesOnce'
  BY <1>1, QueuesSame DEF CompletionInv
<1>5. CompletionInv'
  BY <1>1, <1>4, CompletionReset
<1> QED BY <1>2, <1>3, <1>5 DEF DataInv

\* ibv_modify_qp to RESET empties the queues of the QP.
LEMMA StepModify ==
    ASSUME DataInv, NEW q \in QPs, NEW state, ModifyQP(q, state)
    PROVE  DataInv'
<1>1. DataTypes /\ LiveCalls /\ BatchInv /\ CompletionInv /\ QueuesOnce
  BY DEF DataInv, CompletionInv
<1>2. UNCHANGED <<native, refs, scene, cqe, call, nextId, accepted, completed, returned, lost>>
  BY StillObjects DEF ModifyQP, historyVars
<1>3. CASE queue' = queue
  BY <1>2, <1>3, StepStill
<1>4. CASE queue' = [queue EXCEPT ![q] = [send |-> <<>>, recv |-> <<>>]]
  <2> DEFINE e == [send |-> <<>>, recv |-> <<>>]
  <2>1. e \in [Ops -> Seq(Nat)] /\ (\A op \in Ops : e[op] = <<>>) /\ queue' = [queue EXCEPT ![q] = e]
    BY <1>4, NoRequests
  <2> HIDE DEF e
  <2>2. queue \in [QPs -> [Ops -> Seq(Nat)]]
    BY <1>1 DEF DataTypes
  <2>3. /\ queue' \in [QPs -> [Ops -> Seq(Nat)]] /\ queue'[q] = e
        /\ \A r \in QPs : r # q => queue'[r] = queue[r]
    BY <2>1, <2>2
  <2>4. \A r \in QPs : \A op \in Ops :
            queue'[r][op] = <<>> \/ (queue'[r][op] = queue[r][op] /\ (r \in native => r \in native'))
    BY <1>2, <2>1, <2>3
  <2>5. QueuesOnce'
    BY <1>1, <1>2, <2>4, QueuesEmptied
  <2>6. DataTypes' /\ LiveCalls'
    BY <1>1, <1>2, <2>3 DEF DataTypes, LiveCalls
  <2>7. BatchInv'
    BY <1>1, <1>2, BatchSame
  <2>8. CompletionInv'
    BY <1>1, <1>2, <2>5, CompletionReset
  <2> QED BY <2>6, <2>7, <2>8 DEF DataInv
<1> QED BY <1>3, <1>4 DEF ModifyQP

\* So do all methods that change the state of a QP.
LEMMA StepStates ==
    ASSUME DataInv, States
    PROVE  DataInv'
<1>1. ASSUME NEW q \in QPs, Prepare(q) PROVE DataInv'
  <2>1. UNCHANGED <<native, refs, scene, queue, cqe, call, nextId, accepted, completed,
                    returned, lost>>
    BY <1>1, StillObjects DEF Prepare, historyVars
  <2> QED BY <2>1, StepStill
<1> QED BY <1>1, StepModify DEF States, Modify, EfaModify, ToInit, ToRtr, ToRts, EfaToInit,
                                EfaToRtr, EfaToRts

\* The adapter completes a request.
LEMMA StepComplete ==
    ASSUME DataInv, NEW q \in QPs, NEW op \in Ops, Complete(q, op)
    PROVE  DataInv'
<1> DEFINE s == queue[q][op]
           x == Head(s)
<1>1. DataTypes /\ LiveCalls /\ BatchInv /\ CompletionInv /\ QueuesOnce
  BY DEF DataInv, CompletionInv
<1>2. s \in Seq(Nat) /\ s # <<>> /\ q \in native
  BY <1>1 DEF Complete, DataTypes
<1>3. PICK cq \in refs[q] \cap CQs : cqe' = [cqe EXCEPT ![cq] = Append(@, x)]
  BY DEF Complete
<1>4. completed' = completed \cup {x} /\ QueueTo(q, op, Tail(queue[q][op]))
  BY DEF Complete, QueueTo
<1>5. UNCHANGED <<native, refs, scene, call, nextId, accepted, returned, lost>>
  BY StillObjects DEF Complete
<1>6. x \in Nat /\ Tail(s) \in Seq(Nat) /\ x \in Range(s)
  <2> HIDE DEF s
  <2> QED BY <1>2, RangeOfTail
<1>7. x \in accepted
  BY <1>1, <1>6 DEF QueuesOnce
<1>8. queue' \in [QPs -> [Ops -> Seq(Nat)]]
  BY <1>1, <1>4, <1>6, QueueToFacts
<1>9. cqe' \in [CQs -> Seq(Nat)]
  <2> HIDE DEF x
  <2>1. cqe \in [CQs -> Seq(Nat)]
    BY <1>1 DEF DataTypes
  <2>2. Append(cqe[cq], x) \in Seq(Nat)
    BY <1>6, <2>1, RangeOfAppend
  <2> QED BY <1>3, <2>1, <2>2
<1>10. DataTypes'
  <2> HIDE DEF x
  <2>1. call' \in [Threads -> Calls] /\ nextId' \in Nat \ {0} /\ accepted' \subseteq 1..(nextId' - 1)
    BY <1>1, <1>5 DEF DataTypes
  <2>2. completed' \subseteq accepted'
    BY <1>1, <1>4, <1>5, <1>7 DEF DataTypes
  <2> QED BY <1>8, <1>9, <2>1, <2>2 DEF DataTypes
<1>11. CompletionInv'
  <2> DEFINE y == x
  <2>1. y = Head(queue[q][op]) /\ completed' = completed \cup {y} /\ queue[q][op] # <<>>
    BY <1>2, <1>4
  <2>2. cq \in CQs /\ cq \in refs[q] /\ cqe' = [cqe EXCEPT ![cq] = Append(@, y)]
    BY <1>3
  <2> HIDE DEF y
  <2> QED BY <1>1, <1>2, <1>4, <1>5, <2>1, <2>2, CompletionCompletes
<1>12. BatchInv'
  BY <1>1, <1>5, BatchSame
<1>13. LiveCalls'
  BY <1>1, <1>5 DEF LiveCalls
<1> QED BY <1>10, <1>11, <1>12, <1>13 DEF DataInv

\* Objects are made, closed, dropped and collected under the calls.
LEMMA StepLifecycle ==
    ASSUME DataInv, LifeInv, LifeInv', HeldAlive', Lifecycle
    PROVE  DataInv'
<1>1. DataTypes /\ LiveCalls /\ BatchInv /\ CompletionInv
  BY DEF DataInv
<1>2. /\ CompletionInv'
      /\ queue' \in [QPs -> [Ops -> Seq(Nat)]] /\ cqe' \in [CQs -> Seq(Nat)]
  BY <1>1, CompletionLifecycle
<1>3. DataTypes'
  <2>1. call' \in [Threads -> Calls]
    BY <1>1, CallsInLifecycle
  <2>2. nextId \in Nat \ {0} /\ accepted \subseteq 1..(nextId - 1) /\ completed \subseteq accepted
    BY <1>1 DEF DataTypes
  <2>3. nextId' = nextId /\ accepted' \subseteq accepted /\ completed' \subseteq accepted'
    BY <2>2, LifecycleData
  <2> QED BY <1>2, <2>1, <2>2, <2>3 DEF DataTypes
<1>4. BatchInv'
  BY <1>1, <1>3, BatchLifecycle
<1>5. LiveCalls'
  BY <1>1, LiveLifecycle
<1> QED BY <1>2, <1>3, <1>4, <1>5 DEF DataInv

\* Every step keeps the invariant, on objects that keep theirs.
LEMMA DataInvStep ==
    ASSUME DataInv, LifeInv, LifeInv', HeldAlive', [DataNext]_<<efaVars, dataVars>>
    PROVE  DataInv'
<1>1. CASE Lifecycle
  BY <1>1, StepLifecycle
<1>2. CASE States
  BY <1>2, StepStates
<1>3. CASE Posting
  <2>1. ASSUME NEW t \in Threads, NEW q \in QPs, NEW n \in 1..MaxBatch,
               \/ PostSend(t, q, n) \/ PostRecv(t, q, n)
               \/ PostSendEx(t, q, n) \/ EfaPostRecv(t, q, n)
        PROVE  DataInv'
    <3>1. \E op \in Ops : Post(t, q, op, n)
      BY <2>1 DEF PostSend, PostRecv, PostSendEx, EfaPostRecv, Ops
    <3> QED BY <3>1, StepPost
  <2>2. ASSUME NEW t \in Threads, NEW q \in QPs, NEW n \in 1..MaxBatch, NEW bad \in 1..MaxBatch,
               PostSendExRaises(t, q, n, bad)
        PROVE  DataInv'
    BY <2>2, StepPostRaises
  <2>3. ASSUME NEW t \in Threads, NativePost(t) \/ WrComplete(t) \/ ReturnPost(t)
        PROVE  DataInv'
    BY <2>3, StepNativePost, StepWrComplete, StepReturn
  <2> QED BY <1>3, <2>1, <2>2, <2>3 DEF Posting
<1>4. CASE Polling
  BY <1>4, StepBeginPoll, StepNativePoll, StepReturnPoll, StepStartPoll, StepReadCursor DEF Polling
<1>5. CASE Connection
  BY <1>5, StepBeginConnection, StepNativeConnection, StepReturn DEF Connection
<1>6. ASSUME NEW q \in QPs, DestroySpins(q) PROVE DataInv'
  <2>1. UNCHANGED <<native, refs, scene, queue, cqe, call, nextId, accepted, completed,
                    returned, lost>>
    BY <1>6, StillObjects DEF DestroySpins, nativeVars, historyVars
  <2> QED BY <2>1, StepStill
<1>7. ASSUME NEW q \in QPs, NEW op \in {"send", "recv"}, Complete(q, op) PROVE DataInv'
  BY <1>7, StepComplete DEF Ops
<1>8. CASE UNCHANGED <<efaVars, dataVars>>
  <2>1. UNCHANGED <<native, refs, scene, queue, cqe, call, nextId, accepted, completed,
                    returned, lost>>
    BY <1>8, StillObjects DEF dataVars, nativeVars, historyVars
  <2> QED BY <2>1, StepStill
<1> QED BY <1>1, <1>2, <1>3, <1>4, <1>5, <1>6, <1>7, <1>8 DEF DataNext

\* At first there are no calls, requests and completions.
LEMMA DataInvInit ==
    ASSUME DataInit
    PROVE  DataInv
<1>1. call = [t \in Threads |-> Idle] /\ \A t \in Threads : call[t] = Idle
  BY DEF DataInit
<1>2. queue \in [QPs -> [Ops -> Seq(Nat)]] /\ \A q \in QPs : \A op \in Ops : queue[q][op] = <<>>
  <2> DEFINE e == [send |-> <<>>, recv |-> <<>>]
  <2>1. e \in [Ops -> Seq(Nat)] /\ (\A op \in Ops : e[op] = <<>>) /\ queue = [q \in QPs |-> e]
    BY NoRequests DEF DataInit
  <2> HIDE DEF e
  <2> QED BY <2>1
<1>3. cqe \in [CQs -> Seq(Nat)] /\ \A cq \in CQs : cqe[cq] = <<>>
  <2> DEFINE e == <<>>
  <2>1. e \in Seq(Nat) /\ cqe = [cq \in CQs |-> e]
    BY DEF DataInit
  <2> HIDE DEF e
  <2>2. cqe \in [CQs -> Seq(Nat)] /\ \A cq \in CQs : cqe[cq] = e
    BY <2>1
  <2> QED BY <2>2 DEF e
<1>4. nextId = 1 /\ accepted = {} /\ completed = {} /\ returned = {} /\ lost = {}
  BY DEF DataInit
<1>5. DataTypes
  BY <1>1, <1>2, <1>3, <1>4 DEF DataTypes, Calls
<1>6. LiveCalls
  BY <1>1 DEF LiveCalls
<1>7. BatchInv
  <2>1. \A t \in Threads : call[t] \notin PostCalls /\ call[t].op = "none"
    BY <1>1, IdleCall DEF Idle
  <2> QED BY <2>1 DEF BatchInv, RequestsApart, BatchWhole
<1> DEFINE e == <<>>
<1>8. e \in Seq(Nat) /\ e = <<>>
  OBVIOUS
<1> HIDE DEF e
<1>9. IsInjective(e) /\ Range(e) = {}
  BY <1>8, ElementsOfSeq
<1>10. QueuesOnce /\ EntriesOnce
  <2>1. \A q \in QPs : \A op \in Ops : queue[q][op] = e
    BY <1>2, <1>8
  <2>2. \A cq \in CQs : cqe[cq] = e
    BY <1>3, <1>8
  <2>3. QueuesOnce
    BY <1>8, <1>9, <2>1 DEF QueuesOnce
  <2> QED BY <2>2, <2>3, <1>8, <1>9 DEF EntriesOnce
<1>11. ReadLimited
  BY <1>1 DEF ReadLimited
<1>12. (\A t \in Threads : OnTheWay[t] = {}) /\ (\A cq \in CQs : Places[cq] = {})
  BY <1>1, <1>3, OnTheWayOf, PlacesOf, EmptyRange
<1>13. Once(Places, OnTheWay, completed, returned, lost)
  BY <1>4, <1>12 DEF Once
<1> QED BY <1>5, <1>6, <1>7, <1>10, <1>11, <1>13 DEF DataInv, CompletionInv

\* The requests and the completions of the data path, under any interleaving of
\* the calls of any number of threads with the ends of their objects.
THEOREM DataInvHolds == DataSpec => []DataInv
<1>1. DataInit => DataInv
  BY DataInvInit
<1>2. LifecycleInv /\ LifecycleInv' /\ DataInv /\ [DataNext]_<<efaVars, dataVars>> => DataInv'
  BY DataInvStep DEF LifecycleInv
<1> QED BY <1>1, <1>2, LifecycleHolds, PTL DEF DataSpec

\* post_send and post_recv of both bindings: a call that returned had all of its
\* requests taken, one that raised a proper first part of them, and a post_send
\* of EFA none.
THEOREM BatchWholeHolds == DataSpec => []BatchWhole
BY DataInvHolds, PTL DEF DataInv, BatchInv

\* poll of a CQ and of a CQEx: no completion is handed out twice, and none is
\* lost but with a call that raised or with its QP or CQ.
THEOREM CompletionsOnceHolds == DataSpec => []CompletionsOnce
<1>1. DataInv => CompletionsOnce
  BY CompletionsFromInv DEF DataInv
<1> QED BY <1>1, DataInvHolds, PTL

\* What the object of a call is built on, down to the context, is there if the
\* object is, but for a context that went with its endpoint.
LEMMA FoundationsThere ==
    ASSUME LifeInv, NEW o \in native, NEW y \in Foundations(o), y \notin native
    PROVE  y = Ctx /\ wrapper[Cmid] = "collected"
<1>1. ASSUME NEW n, n \in native \/ (n = Ctx /\ wrapper[Cmid] = "collected"), NEW x \in Uses(n)
      PROVE  x \in native \/ (x = Ctx /\ wrapper[Cmid] = "collected")
  <2>1. CASE n \in native
    BY <1>1, <2>1 DEF LifeInv, NoOrphans
  <2>2. CASE n = Ctx
    BY <1>1, <2>2 DEF LifeInv, RefTypes, Uses
  <2> QED BY <1>1, <2>1, <2>2
<1>2. Reaches(o, y)
  BY FoundationsReached
<1> HIDE DEF Uses
<1> QED BY <1>1, <1>2 DEF Reaches

\* What a call works with, its object and all that this is built on, is there,
\* whatever other threads drop, collect and close: the program holds the wrapper
\* of the object, so that its __dealloc__ does not run, and the object holds what
\* it is built on.  It is not if close() ended the object in the middle of the
\* call, and a context goes with an endpoint that is collected.
THEOREM CallsOnLiveObjectsHold == DataSpec => []CallsOnLiveObjects
<1>1. DataInv /\ LifecycleInv => CallsOnLiveObjects
  <2> SUFFICES ASSUME DataInv, LifecycleInv, NEW t \in Threads, call[t] # Idle, ~ call[t].raced,
                      NEW y \in Foundations(call[t].obj), y \notin native
               PROVE  y = Ctx /\ wrapper[Cmid] = "collected"
    BY DEF CallsOnLiveObjects
  <2>1. call[t].obj \in native
    BY DEF DataInv, LiveCalls
  <2> QED BY <2>1, FoundationsThere DEF LifecycleInv
<1> QED BY <1>1, DataInvHolds, LifecycleHolds, PTL
=============================================================================
