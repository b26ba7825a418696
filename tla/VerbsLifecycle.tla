--------------------------- MODULE VerbsLifecycle ---------------------------
(***************************************************************************)
(* The objects of ibverbs/src/ibverbs/_ibverbs.pyx: a context and the      *)
(* PDs, MRs, AHs, SRQs, completion channels, CQs and QPs made from it,     *)
(* each a Python wrapper around a native object.  A wrapper ends its       *)
(* native object in close() or, when its last reference goes, in           *)
(* __dealloc__.                                                            *)
(*                                                                         *)
(* The context is either owned (Device.open) or borrowed from an RDMA-CM   *)
(* endpoint (CMID.resolve); there is one of them, so the checks that two   *)
(* objects have the same context hold.  refs are the attributes that keep  *)
(* another wrapper alive; they are also what the native object is built    *)
(* on, but for the endpoint.  The interpreter's lock makes every method    *)
(* one step, except where the code gives it up: a thread that waits for a  *)
(* completion event, one that waits for an asynchronous event, and an      *)
(* export while it calls the GPU library.                                  *)
(* A call that raises and changes nothing has no action.                   *)
(***************************************************************************)
EXTENDS Integers, FiniteSets

CONSTANTS
    Ctx, Cmid,    \* the context; the endpoint, if the context is borrowed
    PDs, MRs, AHs, SRQs, Channels, CQs, QPs,
    MaxEvents,    \* bound: events of a CQ that are queued or not acknowledged
    MaxAsync,     \* bound: objects with an asynchronous event not acknowledged
    MaxObjects,   \* bound: objects made on the context in a behaviour
    Half,         \* 2^31: an int is in -Half..Half-1, an unsigned int below 2 * Half
    None

OnPD == MRs \cup AHs \cup SRQs          \* objects of a PD alone
Counted == PDs \cup Channels \cup CQs   \* what _add_child counts
Objects == {Ctx, Cmid} \cup Counted \cup OnPD \cup QPs

ASSUME ObjectsAssumption ==
    /\ Half \in Nat \ {0} /\ MaxEvents \in Nat \ {0} /\ MaxAsync \in Nat /\ MaxObjects \in Nat
    /\ IsFiniteSet(Objects)
    /\ Ctx # Cmid /\ {Ctx, Cmid} \cap (Counted \cup OnPD \cup QPs) = {}
    /\ Counted \cap (OnPD \cup QPs) = {} /\ OnPD \cap QPs = {}
    /\ CQs \cap (PDs \cup Channels) = {}
    /\ None \notin Objects

VARIABLES
    wrapper,      \* "open" (pointer set), "closed" (NULL), "collected"
    native,       \* the objects that exist in libibverbs
    refs,         \* the wrappers that a wrapper keeps alive
    held,         \* the wrappers that the program refers to itself
    children,     \* Context._children
    external,     \* QPs and CQs with _external_datapath
    users,        \* _external_users of a QP or CQ
    exporting,    \* QPs in DeviceQP.export, past _mlx5dv_bridge_info
    device,       \* QPs with an open DeviceQP
    armed,        \* CQs that will notify
    queued,       \* events of a CQ in its channel
    reported,     \* events of a CQ that were read less those that were acknowledged,
                  \* an unsigned int: ibv_destroy_cq waits until it is 0
    unacked,      \* CQ._unacked, an int
    waiting,      \* the channel in whose get_cq_event the event thread is
    taken,        \* the CQ whose event it has read and not counted
    watcher,      \* the QP or CQ whose asynchronous event a thread has read in
                  \* get_async_event, and not returned yet
    pending,      \* QPs and CQs with an AsyncEvent that was not acknowledged
    blocked,      \* the QP or CQ in whose destroy call the interpreter waits
    failed        \* history: objects that the provider refused to free in __dealloc__

objVars == <<wrapper, native, refs, held, children>>
exportVars == <<external, users, exporting, device>>
eventVars == <<armed, queued, reported, unacked, waiting, taken>>
asyncVars == <<watcher, pending>>
vars == <<objVars, exportVars, eventVars, asyncVars, blocked, failed>>

\* The machine words of a sum, a difference or a cast that is off by one span.
Span == 2 * Half
Signed(x) == IF x >= Half THEN x - Span ELSE IF x < -Half THEN x + Span ELSE x
Unsigned(x) == IF x >= Span THEN x - Span ELSE IF x < 0 THEN x + Span ELSE x

Alive(o) == wrapper[o] \in {"open", "closed"}

Uses(o) == refs[o] \ {Cmid}

\* The provider refuses to free what another native object is built on.
Busy(o) == \E n \in native : o \in Uses(n)

\* Wrappers that nothing refers to: not the program, an export, a handle, a
\* thread inside a call, nor another wrapper.
Garbage ==
    LET alive == {o \in Objects : Alive(o)}
    IN  alive \ (held \cup exporting \cup device \cup {waiting}
                  \cup (IF watcher = None THEN {} ELSE {Ctx})
                  \cup UNION {refs[w] : w \in alive})

Collectable(o) == o \in Garbage

\* A thread of the program has the interpreter's lock: __dealloc__ runs at
\* once, and nobody waits inside the lock.
Running == blocked = None /\ Garbage = {}

-----------------------------------------------------------------------------
(* Making objects. *)

\* Device.open
Open ==
    /\ wrapper[Ctx] = "absent"
    /\ Running
    /\ wrapper' = [wrapper EXCEPT ![Ctx] = "open"]
    /\ native' = native \cup {Ctx}
    /\ held' = held \cup {Ctx}
    /\ UNCHANGED <<refs, children, exportVars, eventVars, asyncVars, blocked, failed>>

\* CMID.resolve
Resolve ==
    /\ wrapper[Ctx] = "absent"
    /\ Running
    /\ wrapper' = [wrapper EXCEPT ![Ctx] = "open", ![Cmid] = "open"]
    /\ native' = native \cup {Ctx, Cmid}
    /\ held' = held \cup {Cmid}
    /\ refs' = [refs EXCEPT ![Cmid] = {Ctx}]
    /\ UNCHANGED <<children, exportVars, eventVars, asyncVars, blocked, failed>>

\* The wrapper of a new native object.
Wrap(o, parents) ==
    /\ wrapper[o] = "absent"
    /\ Cardinality({w \in Objects \ {Ctx, Cmid} : wrapper[w] # "absent"}) < MaxObjects
    /\ wrapper' = [wrapper EXCEPT ![o] = "open"]
    /\ native' = native \cup {o}
    /\ refs' = [refs EXCEPT ![o] = parents]
    /\ held' = held \cup {o}
    /\ UNCHANGED <<exportVars, eventVars, asyncVars, blocked, failed>>

CreateOnContext(o) ==
    /\ wrapper[Ctx] = "open"
    /\ Running
    /\ Wrap(o, {Ctx})
    /\ children' = children + 1

AllocPD(pd) == CreateOnContext(pd)
CreateCompChannel(ch) == CreateOnContext(ch)

CreateCQ(cq, channel) ==
    /\ wrapper[Ctx] = "open"
    /\ Running
    /\ \A ch \in channel : wrapper[ch] = "open"
    /\ Wrap(cq, {Ctx} \cup channel)
    /\ children' = children + 1

CreateOnPD(o, pd) ==
    /\ wrapper[pd] = "open"
    /\ Running
    /\ Wrap(o, {pd})
    /\ UNCHANGED children

RegMR(mr, pd) == CreateOnPD(mr, pd)
RegDmabufMR(mr, pd) == CreateOnPD(mr, pd)
CreateAH(ah, pd) == CreateOnPD(ah, pd)
CreateSRQ(srq, pd) == CreateOnPD(srq, pd)

\* What PD.create_qp and CMID.create_qp ask for.
QPArguments(pd, scq, rcq, srq) ==
    /\ \A o \in {pd, scq, rcq} \cup srq : wrapper[o] = "open"
    /\ Running
    /\ \A s \in srq : pd \in refs[s]

CreateQP(q, pd, scq, rcq, srq) ==
    /\ QPArguments(pd, scq, rcq, srq)
    /\ Wrap(q, {pd, scq, rcq} \cup srq)
    /\ UNCHANGED children

\* The endpoint has one QP at a time.
CMCreateQP(q, pd, scq, rcq, srq) ==
    /\ QPArguments(pd, scq, rcq, srq)
    /\ wrapper[Cmid] = "open"
    /\ \A r \in QPs \cap native : Cmid \notin refs[r]
    /\ Wrap(q, {pd, scq, rcq, Cmid} \cup srq)
    /\ UNCHANGED children

-----------------------------------------------------------------------------
(* Ending objects. *)

\* mutant: the children are not looked at.
CloseContextAnyway ==
    /\ wrapper[Ctx] = "open" /\ wrapper[Cmid] = "absent"
    /\ Running
    /\ wrapper' = [wrapper EXCEPT ![Ctx] = "closed"]
    /\ native' = native \ {Ctx}
    /\ UNCHANGED <<refs, held, children, exportVars, eventVars, asyncVars, blocked, failed>>
\* Context.close; a borrowed context is not closed.
CloseContext ==
    /\ wrapper[Ctx] = "open" /\ wrapper[Cmid] = "absent"
    /\ Running
    /\ children = 0
    /\ wrapper' = [wrapper EXCEPT ![Ctx] = "closed"]
    /\ native' = native \ {Ctx}
    /\ UNCHANGED <<refs, held, children, exportVars, eventVars, asyncVars, blocked, failed>>

\* CMID.close: the borrowed context goes with the endpoint.
CloseCM ==
    /\ wrapper[Cmid] = "open"
    /\ Running
    /\ \A q \in QPs \cap native : Cmid \notin refs[q]
    /\ children = 0
    /\ wrapper' = [wrapper EXCEPT ![Cmid] = "closed", ![Ctx] = "closed"]
    /\ native' = native \ {Cmid, Ctx}
    /\ UNCHANGED <<refs, held, children, exportVars, eventVars, asyncVars, blocked, failed>>

\* close() of an object that is neither QP nor CQ; it raises if it is busy.
CloseObject(o) ==
    /\ wrapper[o] = "open" /\ ~ Busy(o)
    /\ Running
    /\ wrapper' = [wrapper EXCEPT ![o] = "closed"]
    /\ native' = native \ {o}
    /\ children' = IF o \in Counted /\ children > 0 THEN children - 1 ELSE children
    /\ UNCHANGED <<refs, held, exportVars, eventVars, asyncVars, blocked, failed>>

ClosePD(pd) == CloseObject(pd)
CloseMR(mr) == CloseObject(mr)
CloseAH(ah) == CloseObject(ah)
CloseSRQ(srq) == CloseObject(srq)
CloseCompChannel(ch) == CloseObject(ch)

\* An asynchronous event of o was read and not acknowledged: libibverbs does
\* not free o before that.
Unacknowledged(o) == watcher = o \/ o \in pending

\* QP.close, which lets go of the endpoint.
CloseQP(q) ==
    /\ wrapper[q] = "open" /\ users[q] = 0
    /\ Running
    /\ IF Unacknowledged(q)
       THEN blocked' = q /\ UNCHANGED <<wrapper, native, refs>>
       ELSE /\ wrapper' = [wrapper EXCEPT ![q] = "closed"]
            /\ native' = native \ {q}
            /\ refs' = [refs EXCEPT ![q] = @ \ {Cmid}]
            /\ UNCHANGED blocked
    /\ UNCHANGED <<held, children, exportVars, eventVars, asyncVars, failed>>

\* libibverbs frees a CQ only when all events read from it are acknowledged;
\* the ones nobody read are dropped.
FreeCQ(cq, state) ==
    IF reported'[cq] = 0 /\ ~ Unacknowledged(cq)
    THEN /\ wrapper' = [wrapper EXCEPT ![cq] = state]
         /\ native' = native \ {cq}
         /\ children' = IF children > 0 THEN children - 1 ELSE children
         /\ armed' = armed \ {cq}
         /\ queued' = [queued EXCEPT ![cq] = 0]
         /\ UNCHANGED blocked
    ELSE /\ blocked' = cq
         /\ UNCHANGED <<wrapper, native, children, armed, queued>>

\* What close() and __dealloc__ acknowledge; a negative count, nothing.
Owed(cq) == IF unacked[cq] > 0 THEN unacked[cq] ELSE 0

\* mutant: _unacked keeps its value if ibv_destroy_cq then fails.
CloseCQKeepsCount(cq) ==
    /\ wrapper[cq] = "open" /\ users[cq] = 0
    /\ Running
    /\ reported' = [reported EXCEPT ![cq] = Unsigned(@ - Owed(cq))]
    /\ IF Busy(cq)
       THEN UNCHANGED <<wrapper, native, children, armed, queued, unacked, blocked>>
       ELSE FreeCQ(cq, "closed") /\ unacked' = [unacked EXCEPT ![cq] = @ - Owed(cq)]
    /\ UNCHANGED <<refs, held, exportVars, waiting, taken, asyncVars, failed>>
\* CQ.close: the events are acknowledged also if the CQ is busy and stays.
CloseCQ(cq) ==
    /\ wrapper[cq] = "open" /\ users[cq] = 0
    /\ Running
    /\ reported' = [reported EXCEPT ![cq] = Unsigned(@ - Owed(cq))]
    /\ unacked' = [unacked EXCEPT ![cq] = @ - Owed(cq)]
    /\ IF Busy(cq)
       THEN UNCHANGED <<wrapper, native, children, armed, queued, blocked>>
       ELSE FreeCQ(cq, "closed")
    /\ UNCHANGED <<refs, held, exportVars, waiting, taken, asyncVars, failed>>

\* The program lets go of a wrapper.
Drop(o) ==
    /\ o \in held
    /\ Running
    /\ held' = held \ {o}
    /\ UNCHANGED <<wrapper, native, refs, children, exportVars, eventVars, asyncVars, blocked, failed>>

-----------------------------------------------------------------------------
(* __dealloc__.  ok is false if the provider fails to free the object for *)
(* a reason of its own; nobody hears of it.                               *)

CollectClosed(o) ==
    /\ blocked = None
    /\ wrapper[o] = "closed" /\ Collectable(o)
    /\ wrapper' = [wrapper EXCEPT ![o] = "collected"]
    /\ UNCHANGED <<native, refs, held, children, exportVars, eventVars, asyncVars, blocked, failed>>

\* Context.__dealloc__: a borrowed context, or one with children, stays.
CollectContext ==
    /\ blocked = None
    /\ wrapper[Ctx] = "open" /\ Collectable(Ctx)
    /\ wrapper' = [wrapper EXCEPT ![Ctx] = "collected"]
    /\ native' = IF wrapper[Cmid] = "absent" /\ children = 0 THEN native \ {Ctx} ELSE native
    /\ UNCHANGED <<refs, held, children, exportVars, eventVars, asyncVars, blocked, failed>>

\* CMID.__dealloc__: nobody asks for the children of the context.
CollectCM ==
    /\ blocked = None
    /\ wrapper[Cmid] = "open" /\ Collectable(Cmid)
    /\ wrapper' = [wrapper EXCEPT ![Cmid] = "collected", ![Ctx] = "closed"]
    /\ native' = native \ ({Cmid, Ctx} \cup {q \in QPs : Cmid \in refs[q]})
    /\ UNCHANGED <<refs, held, children, exportVars, eventVars, asyncVars, blocked, failed>>

\* mutant: the child is released although the object was not freed.
CollectObjectReleases(o, ok) ==
    /\ blocked = None
    /\ wrapper[o] = "open" /\ Collectable(o)
    /\ wrapper' = [wrapper EXCEPT ![o] = "collected"]
    /\ native' = IF ok /\ ~ Busy(o) THEN native \ {o} ELSE native
    /\ children' = IF o \in Counted /\ children > 0 THEN children - 1 ELSE children
    /\ failed' = IF ok THEN failed ELSE failed \cup {o}
    /\ UNCHANGED <<refs, held, exportVars, eventVars, asyncVars, blocked>>
\* mutant: __dealloc__ of a PD or channel does not release the child.
CollectObjectKeeps(o, ok) ==
    /\ blocked = None
    /\ wrapper[o] = "open" /\ Collectable(o)
    /\ wrapper' = [wrapper EXCEPT ![o] = "collected"]
    /\ native' = IF ok /\ ~ Busy(o) THEN native \ {o} ELSE native
    /\ failed' = IF ok THEN failed ELSE failed \cup {o}
    /\ UNCHANGED <<refs, held, children, exportVars, eventVars, asyncVars, blocked>>
\* __dealloc__ of an object that is neither QP nor CQ.
CollectObject(o, ok) ==
    /\ blocked = None
    /\ wrapper[o] = "open" /\ Collectable(o)
    /\ wrapper' = [wrapper EXCEPT ![o] = "collected"]
    /\ LET freed == ok /\ ~ Busy(o)
       IN /\ native' = IF freed THEN native \ {o} ELSE native
          /\ children' = IF freed /\ o \in Counted /\ children > 0
                         THEN children - 1 ELSE children
    /\ failed' = IF ok THEN failed ELSE failed \cup {o}
    /\ UNCHANGED <<refs, held, exportVars, eventVars, asyncVars, blocked>>

CollectPD(pd, ok) == CollectObject(pd, ok)
CollectMR(mr, ok) == CollectObject(mr, ok)
CollectAH(ah, ok) == CollectObject(ah, ok)
CollectSRQ(srq, ok) == CollectObject(srq, ok)
CollectCompChannel(ch, ok) == CollectObject(ch, ok)

\* QP.__dealloc__: rdma_destroy_qp cannot fail.
CollectQP(q, ok) ==
    LET freed == ok \/ Cmid \in refs[q] IN
    /\ blocked = None
    /\ wrapper[q] = "open" /\ Collectable(q)
    /\ IF freed /\ Unacknowledged(q)
       THEN blocked' = q /\ UNCHANGED <<wrapper, native, failed>>
       ELSE /\ wrapper' = [wrapper EXCEPT ![q] = "collected"]
            /\ native' = IF freed THEN native \ {q} ELSE native
            /\ failed' = IF freed THEN failed ELSE failed \cup {q}
            /\ UNCHANGED blocked
    /\ UNCHANGED <<refs, held, children, exportVars, eventVars, asyncVars>>

\* mutant: events are acknowledged in close() only.
CollectCQNoAck(cq, ok) ==
    /\ blocked = None
    /\ wrapper[cq] = "open" /\ Collectable(cq)
    /\ UNCHANGED <<reported, unacked>>
    /\ IF ok /\ ~ Busy(cq)
       THEN FreeCQ(cq, "collected") /\ UNCHANGED failed
       ELSE /\ wrapper' = [wrapper EXCEPT ![cq] = "collected"]
            /\ failed' = IF ok THEN failed ELSE failed \cup {cq}
            /\ UNCHANGED <<native, children, armed, queued, blocked>>
    /\ UNCHANGED <<refs, held, exportVars, waiting, taken, asyncVars>>
\* CQ.__dealloc__
CollectCQ(cq, ok) ==
    /\ blocked = None
    /\ wrapper[cq] = "open" /\ Collectable(cq)
    /\ reported' = [reported EXCEPT ![cq] = Unsigned(@ - Owed(cq))]
    /\ unacked' = [unacked EXCEPT ![cq] = @ - Owed(cq)]
    /\ IF ok /\ ~ Busy(cq)
       THEN FreeCQ(cq, "collected") /\ UNCHANGED failed
       ELSE /\ wrapper' = [wrapper EXCEPT ![cq] = "collected"]
            /\ failed' = IF ok THEN failed ELSE failed \cup {cq}
            /\ UNCHANGED <<native, children, armed, queued, blocked>>
    /\ UNCHANGED <<refs, held, exportVars, waiting, taken, asyncVars>>

-----------------------------------------------------------------------------
(* Completion events. *)

\* CQ.req_notify; a CQ without a channel has nobody to notify.
ReqNotify(cq) ==
    /\ wrapper[cq] = "open" /\ cq \notin external
    /\ Running
    /\ refs[cq] \cap Channels # {}
    /\ queued[cq] + reported[cq] < MaxEvents
    /\ armed' = armed \cup {cq}
    /\ UNCHANGED <<objVars, exportVars, queued, reported, unacked, waiting, taken, asyncVars, blocked, failed>>

\* The adapter completes work on a CQ that is armed.
HwEvent(cq) ==
    /\ cq \in armed \cap native
    /\ armed' = armed \ {cq}
    /\ queued' = [queued EXCEPT ![cq] = @ + 1]
    /\ UNCHANGED <<objVars, exportVars, reported, unacked, waiting, taken, asyncVars, blocked, failed>>

\* get_cq_event gives the lock up ...
GetEvent(ch) ==
    /\ waiting = None
    /\ Running
    /\ wrapper[ch] = "open"
    /\ waiting' = ch
    /\ UNCHANGED <<objVars, exportVars, armed, queued, reported, unacked, taken, asyncVars, blocked, failed>>

\* ... reads an event of some CQ of the channel ...
TakeEvent(cq) ==
    /\ waiting \in refs[cq] /\ taken = None
    /\ cq \in native /\ queued[cq] > 0
    /\ queued' = [queued EXCEPT ![cq] = @ - 1]
    /\ reported' = [reported EXCEPT ![cq] = Unsigned(@ + 1)]
    /\ taken' = cq
    /\ UNCHANGED <<objVars, exportVars, armed, unacked, waiting, asyncVars, blocked, failed>>

\* ... and counts it, with the lock, on the CQ that the raw pointer names.  If
\* that wrapper is gone, anything may happen: the model goes no further there.
CountEvent ==
    /\ taken # None /\ wrapper[taken] = "open"
    /\ Running
    /\ unacked' = [unacked EXCEPT ![taken] = Signed(@ + 1)]
    /\ held' = held \cup {taken}
    /\ waiting' = None /\ taken' = None
    /\ UNCHANGED <<wrapper, native, refs, children, exportVars, armed, queued, reported, asyncVars, blocked, failed>>

\* mutant: everything that was read is acknowledged.
AckAll(cq, n) ==
    /\ wrapper[cq] = "open"
    /\ Running
    /\ Signed(n) <= unacked[cq]
    /\ reported' = [reported EXCEPT ![cq] = 0]
    /\ unacked' = [unacked EXCEPT ![cq] = 0]
    /\ UNCHANGED <<objVars, exportVars, armed, queued, waiting, taken, asyncVars, blocked, failed>>
\* CQ.ack_events: n is unsigned and compared as an int, so that a call with
\* 2^31 or more is not refused.
AckEvents(cq, n) ==
    /\ wrapper[cq] = "open"
    /\ Running
    /\ Signed(n) <= unacked[cq]
    /\ reported' = [reported EXCEPT ![cq] = Unsigned(@ - n)]
    /\ unacked' = [unacked EXCEPT ![cq] = Signed(@ - Signed(n))]
    /\ UNCHANGED <<objVars, exportVars, armed, queued, waiting, taken, asyncVars, blocked, failed>>

-----------------------------------------------------------------------------
(* Asynchronous events of QPs and CQs; those of SRQs are left out.  An     *)
(* event that nobody reads has no effect, and one that the program drops   *)
(* is one that it never acknowledges: AsyncEvent has no __dealloc__.       *)

\* A thread that waits in get_async_event, without the lock, reads an event ...
TakeAsync(o) ==
    /\ watcher = None /\ o \in native \ pending
    /\ Cardinality(pending) < MaxAsync
    /\ watcher' = o
    /\ UNCHANGED <<objVars, exportVars, eventVars, pending, blocked, failed>>

\* ... and returns it, with the lock.
ReturnAsync ==
    /\ watcher # None
    /\ Running
    /\ pending' = pending \cup {watcher} /\ watcher' = None
    /\ UNCHANGED <<objVars, exportVars, eventVars, blocked, failed>>

\* ack_async_event; a second call for the same event does nothing.
AckAsync(o) ==
    /\ o \in pending
    /\ Running
    /\ pending' = pending \ {o}
    /\ UNCHANGED <<objVars, exportVars, eventVars, watcher, blocked, failed>>

-----------------------------------------------------------------------------
(* A QP handed to the GPU. *)

QueuesOf(q) == {q} \cup (refs[q] \cap CQs)

\* _mlx5dv_bridge_info, early in DeviceQP.export
BridgeInfo(q) ==
    /\ wrapper[q] = "open"
    /\ Running
    /\ QueuesOf(q) \cap external = {} /\ refs[q] \cap SRQs = {}
    /\ external' = external \cup QueuesOf(q)
    /\ exporting' = exporting \cup {q}
    /\ UNCHANGED <<objVars, users, device, eventVars, asyncVars, blocked, failed>>

\* A step of the export fails, or the QP was closed meanwhile.
ExportFails(q) ==
    /\ q \in exporting
    /\ Running
    /\ exporting' = exporting \ {q}
    /\ UNCHANGED <<objVars, external, users, device, eventVars, asyncVars, blocked, failed>>

\* mutant: the QP is not looked at again.
AcquireAnyway(q) ==
    /\ q \in exporting
    /\ Running
    /\ users' = [o \in DOMAIN users |-> IF o \in QueuesOf(q) THEN users[o] + 1 ELSE users[o]]
    /\ exporting' = exporting \ {q}
    /\ device' = device \cup {q}
    /\ UNCHANGED <<objVars, external, eventVars, asyncVars, blocked, failed>>
\* _acquire_external_datapath, the last step of the export
Acquire(q) ==
    /\ q \in exporting
    /\ Running
    /\ wrapper[q] = "open"
    /\ users' = [o \in DOMAIN users |-> IF o \in QueuesOf(q) THEN users[o] + 1 ELSE users[o]]
    /\ exporting' = exporting \ {q}
    /\ device' = device \cup {q}
    /\ UNCHANGED <<objVars, external, eventVars, asyncVars, blocked, failed>>

\* DeviceQP.close
Release(q) ==
    /\ q \in device /\ users[q] > 0
    /\ Running
    /\ users' = [o \in DOMAIN users |-> IF o \in QueuesOf(q) THEN users[o] - 1 ELSE users[o]]
    /\ device' = device \ {q}
    /\ UNCHANGED <<objVars, external, exporting, eventVars, asyncVars, blocked, failed>>

-----------------------------------------------------------------------------
Init ==
    /\ wrapper = [o \in Objects |-> "absent"]
    /\ native = {}
    /\ refs = [o \in Objects |-> {}]
    /\ held = {} /\ children = 0
    /\ external = {} /\ users = [o \in QPs \cup CQs |-> 0]
    /\ exporting = {} /\ device = {}
    /\ armed = {}
    /\ queued = [c \in CQs |-> 0] /\ reported = [c \in CQs |-> 0]
    /\ unacked = [c \in CQs |-> 0]
    /\ waiting = None /\ taken = None /\ blocked = None
    /\ watcher = None /\ pending = {}
    /\ failed = {}

Optional(S) == {{}} \cup {{x} : x \in S}

Make ==
    \/ Open \/ Resolve
    \/ \E pd \in PDs : AllocPD(pd)
    \/ \E ch \in Channels : CreateCompChannel(ch)
    \/ \E cq \in CQs, ch \in Optional(Channels) : CreateCQ(cq, ch)
    \/ \E mr \in MRs, pd \in PDs : RegMR(mr, pd) \/ RegDmabufMR(mr, pd)
    \/ \E ah \in AHs, pd \in PDs : CreateAH(ah, pd)
    \/ \E srq \in SRQs, pd \in PDs : CreateSRQ(srq, pd)
    \/ \E q \in QPs, pd \in PDs, scq, rcq \in CQs, srq \in Optional(SRQs) :
           CreateQP(q, pd, scq, rcq, srq) \/ CMCreateQP(q, pd, scq, rcq, srq)

End ==
    \/ CloseContext \/ CloseCM
    \/ \E pd \in PDs : ClosePD(pd)
    \/ \E mr \in MRs : CloseMR(mr)
    \/ \E ah \in AHs : CloseAH(ah)
    \/ \E srq \in SRQs : CloseSRQ(srq)
    \/ \E ch \in Channels : CloseCompChannel(ch)
    \/ \E q \in QPs : CloseQP(q)
    \/ \E cq \in CQs : CloseCQ(cq)
    \/ \E o \in Objects : Drop(o)

Collect ==
    \/ \E o \in Objects : CollectClosed(o)
    \/ CollectContext \/ CollectCM
    \/ \E ok \in BOOLEAN :
           \/ \E pd \in PDs : CollectPD(pd, ok)
           \/ \E mr \in MRs : CollectMR(mr, ok)
           \/ \E ah \in AHs : CollectAH(ah, ok)
           \/ \E srq \in SRQs : CollectSRQ(srq, ok)
           \/ \E ch \in Channels : CollectCompChannel(ch, ok)
           \/ \E q \in QPs : CollectQP(q, ok)
           \/ \E cq \in CQs : CollectCQ(cq, ok)

Events ==
    \/ \E cq \in CQs : ReqNotify(cq) \/ HwEvent(cq) \/ TakeEvent(cq)
    \/ \E ch \in Channels : GetEvent(ch)
    \/ CountEvent
    \/ \E cq \in CQs, n \in 1..(Span - 1) : AckEvents(cq, n)

AsyncEvents ==
    \/ \E o \in QPs \cup CQs : TakeAsync(o) \/ AckAsync(o)
    \/ ReturnAsync

Export == \E q \in QPs : BridgeInfo(q) \/ ExportFails(q) \/ Acquire(q) \/ Release(q)

Next == Make \/ End \/ Collect \/ Events \/ AsyncEvents \/ Export

Spec == Init /\ [][Next]_vars

-----------------------------------------------------------------------------
\* Context._children is the number of native PDs, channels and CQs, also after
\* a close that was refused and a __dealloc__ that failed: Context.close and
\* CMID.close refuse exactly while there is something below the context.
ChildrenExact == children = Cardinality(native \cap Counted)

\* A native object outlives nothing that it is built on, with one exception:
\* CMID.__dealloc__ ends the context that its PDs, channels and CQs are built on,
\* since these refer to the context and not to the CMID.
NoOrphans ==
    \A o \in native :
        Uses(o) \ native \subseteq (IF wrapper[Cmid] = "collected" THEN {Ctx} ELSE {})

\* "children hold references to their parents, so destruction order is always
\* safe" (ibverbs/README.md:104), without exception.
OrderAlwaysSafe == \A o \in native : Uses(o) \subseteq native

\* What a native object is built on, directly or not: a QP on an SRQ or CQ, that
\* on a PD or channel, that on the context.
WithBase(S) == S \cup UNION {Uses(x) : x \in S}
Foundations(o) == WithBase(WithBase(WithBase({o})))

\* Garbage collection alone frees everything, in whatever order the program
\* lets go: a native object whose wrapper is gone is one that the provider
\* failed to free, or carries such an object.
LeaksExplained ==
    \A o \in native : wrapper[o] = "collected" =>
        \E n \in failed \cap native : o \in Foundations(n)

\* CQ._unacked and what ibv_destroy_cq waits for agree but for whole spans of a
\* machine word, and for the event that a thread has just read and not counted:
\* whatever was acknowledged before, a count that is not negative is what
\* close() has to acknowledge.
EventsAccounted ==
    \A cq \in CQs \cap native :
        wrapper[cq] = "open" =>
            reported[cq] = Unsigned(unacked[cq] + (IF taken = cq THEN 1 ELSE 0))

\* The wrapper that an event names by a raw pointer, and to which nobody need
\* refer, still exists when get_cq_event comes back to it; it does not only if
\* the provider failed to free the CQ, or a QP on it, in a __dealloc__, or if
\* ack_events was called with 2^31 or more and made CQ._unacked negative.
EventNamesLiveCQ ==
    taken # None =>
        \/ wrapper[taken] = "open"
        \/ unacked[taken] < 0
        \/ \E n \in failed : n = taken \/ taken \in Uses(n)

\* close() or __dealloc__ of a QP or CQ waits for an acknowledgement (for ever,
\* since it has the lock) only if another thread is between reading an event of
\* it and counting it, if an asynchronous event of it was not acknowledged by the
\* program before, or if ack_events was called with 2^31 or more and made
\* CQ._unacked negative.
BlockedOnlyByEvents ==
    blocked # None =>
        \/ taken = blocked
        \/ Unacknowledged(blocked)
        \/ blocked \in CQs /\ unacked[blocked] < 0
=============================================================================
