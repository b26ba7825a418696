# rdma4py in TLA+

Specifications of the parts of rdma4py whose correctness depends on the order
in which several actors take their steps: the Python threads and the adapter, an
NVMe initiator and its target, the ranks of a ring, the flows of a transfer. They
are kept beside the code; `PROJECT.json` maps every definition to the lines it
stands for.

## 1. The system

| Component | Keeps | Operations | Talks to |
|---|---|---|---|
| `ibverbs/_ibverbs.pyx` | verbs objects, counts of children, unacknowledged events, who owns the data path of a QP | open, create, register, modify, post, poll, connect, get/ack event, close | libibverbs, librdmacm |
| `ibverbs/read_scheduler.py` | one active batch, `_pending`, `_outstanding`, `_next_wr_id` | `submit`, `progress`, `wait(_async)`, `read_many`, `write_many`, `connect`, `close` | QPs and CQs; the caller through `on_complete` |
| `ibverbs/gpunetio` | exported QPs, host pages counted over the process; tickets on the device | `export`, `close`; put, send, recv, wait on the GPU | a QP of `_ibverbs.pyx`, CUDA |
| `efa` | the same objects over EFA direct verbs, extended CQs | the same; batches, a polling cursor | libefa |
| `nvmeof/rdma.py` | `_free`, `_pending`, `_completed`, command and response buffers | `submit`, `poll`, `execute`, `close` | the NVMe target through one QP |
| `nvmeof/controller.py` | admin and I/O queue, limits of the target | bring-up, identify, read, write, flush, close | `RDMAQueue.execute` |
| `experiments/fault_tolerant_allreduce` | membership, lanes, work and scratch buffers, used uuids | `reconfigure`, all-reduce, `abort`, `close` | the neighbours' listeners and QPs |
| `experiments/tcp_multiflow` | sockets, workers, shared counters of a transfer | `send`, `receive_into`, `transfer_tensor_local` | the peer's sockets |

What is hard here, and what makes each part correct:

* **read scheduler.** Completions arrive between any two statements; a list is
  posted half; wr_ids wrap; a timeout, a cancellation, a close or another
  scheduler's `wait` ends a batch while the adapter goes on with it. Correct:
  queues never overflow, every completion finds its chunk, a batch that succeeds
  moved every byte once, `on_complete` runs exactly then, nothing is posted on QPs
  whose state is unknown, and every batch that is waited for ends.
* **verbs objects.** The program closes some objects, drops others, in any order;
  a free may fail where nobody hears of it; events are read without the
  interpreter's lock. Correct: nothing is freed under what is built on it, nothing
  is left over, the context knows its children, a CQ its events, and what was
  handed to the GPU stays, with its pages.
* **data path.** Calls give the interpreter's lock up and go on with a native
  pointer; a cursor holds a lock of the provider's. Correct: batches are taken as
  documented, completions are returned once, no call uses a dead object and every call
  can go on, but for the two cases named in section 4.
* **NVMe queue.** A response can be seen before the SEND completion of its
  command; a command that timed out is answered late; an exception drops a part
  of a list of completions. Correct: a cid is free or pending, never both or
  neither; a request is given its own response; CQ and receives suffice.
* **NVMe controller.** Bring-up fails at any of some twenty steps; four limits
  bound a queue and three a command. Correct: nothing is leaked, all limits are
  kept, a split transfer moves each block once.
* **ring all-reduce.** Ranks run ahead of each other, within a collective and
  into the next one, and write straight into each other's memory; any of them
  may give up. Correct: a call returns the full sum or raises; no waiting in a
  circle; every call ends.
* **reconfiguration.** Requests of abandoned attempts stay in listener
  backlogs. Correct: usable neighbours are connected to each other's live QPs.
* **TCP flows.** Threads or processes meet at barriers, share counters and wait
  on sockets without a timeout; any of them may fail or be killed; another sender
  may take some of the ports. Correct: what is received is whole and of one
  sender, and every call ends.

`PROJECT.json` lists the hazards with their lines and the properties aimed at
them.

## 2. Modules and plan

| Module | Models | Extends / instances |
|---|---|---|
| `BatchTransfer` | the promise of the scheduler: bytes moved once, before success | |
| `ReadScheduler` | `RdmaReadScheduler` and its adapter | `BatchTransfer` (refinement) |
| `ReadSchedulerProofs` | theorems about it | `ReadScheduler`, TLAPS |
| `VerbsLifecycle` | the objects of `_ibverbs.pyx`, completion and asynchronous events, hand-over to the GPU | |
| `VerbsLifecycleProofs` | theorems about it | `VerbsLifecycle`, TLAPS |
| `DeviceExport` | `DeviceQP` with the host pages of its queues | `VerbsLifecycle` (composition) |
| `EfaBindings` | the objects of `_efa.pyx` | `VerbsLifecycle` |
| `Datapath` | QP states, posting, polling and connections of both bindings, by several threads | `EfaBindings`, and with it `VerbsLifecycle` |
| `BindingsProofs` | that `DeviceExport` and `Datapath` implement `VerbsLifecycle`, and theorems about both | `Datapath`, `DeviceExport`, `VerbsLifecycleProofs`, TLAPS |
| `NvmeQueue` | `RDMAQueue`, adapter, target | |
| `NvmeQueueProofs` | theorems about it | `NvmeQueue`, TLAPS |
| `NvmeController` | `Controller`, `Namespace`, the resources of `RDMAQueue`, the limits of `protocol.py` | |
| `NvmeControllerProofs` | theorems about it | `NvmeController`, TLAPS |
| `RingLayout` | `_nccl_channel_layout`, piece arithmetic of the kernel | |
| `AllReduce` | the promise of an all-reduce with mixed outcomes | |
| `RingAllReduce` | `_allreduce_tensor`, `ring_kernel`, device operations | `RingLayout`, `AllReduce` (refinement) |
| `RingAllReduceProofs` | theorems about it and about the layout | `MCRingAllReduce`, TLAPS |
| `Reconfigure` | `_reconfigure`, bootstrap sockets, connection of the lanes, `abort`, `close` | |
| `ReconfigureProofs` | theorems about it | `Reconfigure`, TLAPS |
| `FlowTransport` | `TensorSender`, `TensorReceiver`, `transfer_tensor_local` | |
| `FlowTransportProofs` | theorems about it | `FlowTransport`, TLAPS |
| `MC...` | instances for TLC | the module they are named after; `MCVerbsLifecycle` extends `DeviceExport` |

`NvmeQueue`, and `RingAllReduce` for its channels, need no definitions for TLC and
are run as they are.

The state machines are complete as far as section 6 says, and every invariant, action
property and refinement that a passing run checks is proved (section 5), except for
`CallsCanGoOn`; that and liveness are left to TLC. What could be added, in this order: the registration of memory against a
PD that another thread closes; the resources of `ProcessGroup`; a rival of process-mode
transfers.

## 3. How the models correspond to the code

**ReadScheduler.** A variable per attribute of the scheduler; a batch is a
record of `RdmaReadBatch`'s attributes. `_refill` and `progress` touch the
adapter several times, so they run step by step: `pc` is the place, `cursor`,
`made`, `posts`, `wcs`, `completed` are the locals. `AllocChunk`, `AllocSkip`,
`AllocStop`, `AllocRound` are the two loops of `_refill`, `PostQP` the posting
loop; `PollCQ`, `HandleWc`, `HandleBadWc`, `NextCQ`, `PollEnd`, `Succeed`,
`NotYet` are `progress`. Everything that raises ends in `FailTransport`, which
is `_fail_transport` with `_close_owned` and the unwinding. `wait` is `Progress`
followed by `KeepWaiting` or `TimedOut`; `Cancelled` is an exception in its
sleep. `on_complete` runs at `pc = "idle"`, because `_finish_success` clears
`_active` first and touches nothing later but the batch's error; `callbacks` is
the stack of callbacks that are running. A request is its length; a chunk knows
its request, offset and length. The adapter (`HwComplete`, `HwError`) is
external: an RC send queue completes in order, and after an error the rest is
flushed.

`wait` may be given a batch of another scheduler. `_validate_batch` raises inside
the `try`, so the handler calls `_fail_transport` with the foreign batch: this
scheduler is lost and its own active batch stays active (`WaitForeign`); seen from
the other side, a batch of ours is marked done without our transport noticing
(`ForeignWait`). A batch that was left behind ends when the program waits for it
(`WaitLeftBehind`), and not before.

**VerbsLifecycle.** An object is a wrapper (absent, open, closed, collected) and
a native object (in `native` or not). `refs` are the attributes by which a
wrapper keeps others alive. `Create...` are the constructors, `Close...` the
`close()` methods, `Collect...` the `__dealloc__` methods, which run as soon as the
last reference is gone (`Running` lets nothing else happen before). Calls that
raise without a change have no action. The interpreter's lock makes a method one
step; the exceptions are `get_cq_event` (`GetEvent`, `TakeEvent`, `CountEvent`),
`get_async_event` (`TakeAsync`, `ReturnAsync`) and the export. `ibv_destroy_cq` and
`ibv_destroy_qp` hold the lock while they wait for acknowledgements, so `blocked`
stops all of Python. libibverbs is external: it refuses to free what is in use,
drops events nobody read, and may fail to free an object for a reason of its own
(`ok`). The counts of events are machine words: `reported`, the provider's, is
unsigned, `unacked`, which is `CQ._unacked`, an int, and `ack_events` takes an unsigned
number that it compares as an int (`Signed`, `Unsigned`, with `Half` for 2^31).

**DeviceExport.** `DeviceQP.export` in the sections that `_host_memory_lock` and the
calls into the GPU library cut it into (`StartExport`, `RegisterQueueMemory`,
`FinishExport`, with `ExportRefused` and `UndoExport` for what fails), `close` in two
(`CloseHandle`, `Unexport`). `pageRefs` is `_host_memory_refs`, `mapped` the `_pages` of
a handle. References that a failing export could not give back are `orphaned`.

**EfaBindings, Datapath.** Each method of an EFA object is a step of
`VerbsLifecycle`; CQs are plain or extended. In `Datapath` a method of either binding
is three steps: `Leave` (checks with the lock), a native step that uses the pointer
read before, and a return with the lock. `Lifecycle` is any step of the objects
while calls are under way; a call whose object was closed under it is `raced`, one
whose object is collected is not (a frame keeps the wrapper it works on). A
cursor is `StartPoll` (without the interpreter's lock, with the CQ's) and
`ReadCursor` (with both); `DestroySpins` is `ibv_destroy_qp` that waits for the CQ.
Providers, their queues and their locks are external.

**NvmeQueue.** Requests are numbered; a capsule's content is that number, so the
model can tell whose response came under a cid. `poll` takes its completions as
a list and handles them one by one. `execute` is a `Submit` with `wait`, polls,
and one of `ExecuteWaits`, `ExecuteReturns`, `ExecuteTimesOut`. A
SEND leaves the queue (`HwSend`) before it is acknowledged (`HwAck`), so the
response may overtake its completion. The errors "unknown command ID" have no
action: `AnsweredByItsOwn` shows that they cannot happen. The resources of a queue
are one flag here and spelled out in `NvmeController`.

**NvmeController.** `ctrl` is the place in `Controller.__init__` and `_connect`;
`MakeOrder` and `CloseOrder` are the resources in the order of `RDMAQueue.__init__` and
`close`, `attrs` the attributes that are not `None`, `live` what exists. Whatever raises
ends in `Raise`: `close()`, its `OSError` ignored, and the queues garbage. A target is a
record of its limits and of what bring-up refuses. `_transfer` is `Begin` or
`BeginWhole`, an `Execute...` per command and `Return`; the builders' refusals are
`Buildable`. What a queue does with a command is `NvmeQueue`'s subject; here it
succeeds, fails, or times out and stays with the target.

**RingLayout, RingAllReduce.** A CTA is one process, since its barriers make the
other threads wait for thread 0. `Order` is the sequence of its operations in a
step. A buffer holds, for every non-empty piece, the bag of inputs that were
added up in it. A channel whose wait failed does nothing more and keeps its phase,
step and stride (`Stopped`). `HwWrite` places data before the receiver has posted the receive
that the last packet needs, `HwDeliver` completes the write, `HwAck` tells the
sender. Element arithmetic is that of the kernel, in integers of `IntSpan`
values: every sum and product wraps (`Int32`), the size of a channel, the stride and
the loop over the strides included. That a product of an Int32 and a Python integer is
an Int32 is the CuTe DSL's rule. `Fits` names the tensors for which nothing wraps: those
that end a cell per channel and a stride below 2^31 elements.

**Reconfigure.** The QPs of an attempt are named by the member and the number of
the attempt (generation). A connection stays in the backlog with a readable
frame after its owner is gone. `place` indexes `Order`, the order of the steps on
the network. A frame is assumed to fit the socket buffers, so `sendall` does not
block.

**FlowTransport.** `send` and `recv` are the callers, `tx` and `rx` the flows, each
with its place. A barrier is the set of flows that stand at it; a shared counter is
read and written in two steps under its lock, which a killed worker keeps. A worker
killed while it sleeps at a barrier or in `go.wait` is `"asleep"`: `notify` of
multiprocessing waits for every sleeper, so `go.set`, the barrier and its timeout are
not taken any more (`Slept`). A stream
is the sequence of headers and units (`chunk_bytes`) that the kernels hold. In thread
mode a flow sends `StaticItems`, in process mode the `TaskItems` of the tasks it takes.
The rival is a second sender that connects to the same ports.

## 4. What the runs check

| Run | Shows | Bounds |
|---|---|---|
| `scheduler` | queue bounds, routing, full pipeline, callbacks, no post after failure, refinement of `BatchTransfer`, an end of every batch | 2 QPs of depth 2, 4 wr_ids (they wrap within one batch), 0 or 5 chunks, 2 batches, QPs that outlive a failure |
| `verbs` | no orphans but those of a collected endpoint, no leaks, exact counts of children, events and pages, pinned handles, the ways to hang | a context or an endpoint and 5 of: PD, SRQ, channel, 2 CQs, 2 QPs (4 for a program that waits for events); 1 event per CQ, 1 asynchronous one, ints of 4 values, one CQ at a time with a negative count, 2 shared pages |
| `datapath` | whole batches, completions once, calls on live objects, no circle of waiting calls | one object of each class but SRQ, 3 at a time; 1 caller of ibverbs, 2 of EFA, or EFA events; queues of 2, 2 work requests |
| `nvme_queue` | cids, responses, CQ and receives; commands complete | depth 3 (two cids), 3 requests: a cid is reused |
| `controller` | no leaks, depths, exact transfers | 16 targets, depths 1 to 3, 4 blocks of 1 to 5 bytes, 10 bytes of buffer at 4 offsets, 1 refused free |
| `ring` | layouts of all small tensors, stable results, refinement of `AllReduce` | 3 ranks, 2 strides (the last one uneven, with an empty piece), 2 collectives; layouts of up to 40 elements in an Int32 of 160 values, item sizes 1, 2, 4, 8, 4 channels, 4 ranks |
| `ring_channels` | channels do not disturb each other; success without faults; an end with faults | 2 ranks, 2 channels with a full and an empty piece, 1 collective |
| `reconfigure` | usable neighbours are paired; calls end; rings form | 3 members, a ring of three, one of two and one of one, 2 attempts each, a backlog of 1 |
| `flow` | whole tensors of one sender, stripes once; calls end; transfers succeed | 2 flows, 3 units in stripes of 2, buffers of 2; 2 iterations without faults, 1 with them; 1 killed worker; a rival in thread mode |

`Faults` (or the scenario) says whether deadlines may expire, calls raise and groups
go away; a run with both values checks the fair-weather behaviours beside the others.

The bounds reach the interesting cases: more chunks than slots and more posts
than wr_ids; a cid used twice; a page shared by two handles; a neighbour a whole
collective ahead; a stale request of the same uuid in a backlog; a stripe shorter
than the others and a worker that takes two. Every property is violated by at least
one plausible mutation of the code (the mutants of `PROJECT.json`).

Three runs show a disagreement between the code and what is written about it:

* `verbs_order`: a `CMID` that is collected destroys its endpoint, and with it the
  context, under PDs and CQs that are still open, since these refer to the context only
  (`_ibverbs.pyx:2325`); `ibverbs/README.md:104` says that destruction order is always
  safe. `NoOrphans`, in `verbs`, shows that nothing but that context goes too early.
* `ring_layout`: byte offsets are Int32 products and wrap beyond 2 GiB, while the size
  check accepts 2^31 - 1 elements (`allreduce.py:816`, `:1738`). The sizes and offsets of
  a channel are Int32 as well (`:774`) and wrap near 2^31 elements: with one CTA the
  channel is then empty, and the call succeeds without reducing anything. TLC reports the
  first, which smaller tensors show; with `ItemSizes = {1}` in the cfg it reports the
  second. An Int32 has 64 values in this run. `EveryElementOnce`, in `ring`, is about the
  tensors that `Fit`.
* `reconfigure_large`: with four members, the request of a fast member for the
  next ring is dropped by one that still accepts for the last (`allreduce.py:473`).

Others have no run of their own:

* `ack_events` compares an unsigned number as an int, so one of 2^31 or more is not
  refused, although the message of the check says that no more events can be
  acknowledged than were received (`_ibverbs.pyx:1353`, `_efa.pyx:1480`). `EventsAccounted`
  shows that the two counts still agree as machine words; what such a call does to the
  other properties of events is named in them.
* `close` of a CQ or QP can wait for ever, and all of Python with it, if another
  thread has just read an event of it, if an asynchronous event of it was never
  acknowledged (`_ibverbs.pyx:1260`, `:903`), or after an acknowledgement of 2^31 or
  more. `BlockedOnlyByEvents` shows that there is no other way.
* `CQEx.poll` waits for the interpreter's lock with the lock of the CQ in hand
  (`_efa.pyx:1616`), so destroying a QP of that CQ in between can wait for ever.
  `CallsCanGoOn` states this exception and shows that polls and posts never do that
  to each other. It rests on the provider taking the CQ's lock in `ibv_destroy_qp`.
* `close` of an object while another thread is in a native call on it
  (`_ibverbs.pyx:1324`) pulls the object away. `CallsOnLiveObjects` shows that dropping
  and collecting objects never does, nor `close` of another object: what the call's
  object is built on stays as well.
* `execute` drops what its `poll` returns, so a request given to `submit` that
  completes during it is returned by no later `poll` (`rdma.py:222`, `:319`).
* A uuid whose attempt failed is accepted again, although the message at
  `allreduce.py:1547` asks for a fresh one. `CommittedPairs` covers such attempts
  and holds.
* A worker process that is killed while it holds the lock of `next_task` or `placed`
  stops its siblings for ever (`transport.py:436`, `:747`); one that is killed asleep at
  a barrier or in `go.wait` (`:430`, `:431`, `:776`) keeps `go.set()`, the barrier and
  even the timeout of the barrier. `EveryCallReturns` states these two exceptions and
  shows that a worker killed anywhere else does not keep a call.

**Deadlock.** `ring` and `ring_channels` check it: `Finished` is the only way to
stop. The other runs end in states where the bound on calls is reached, the
object is closed or the interpreter is stuck, so they set `CHECK_DEADLOCK FALSE`, and
the liveness properties say that nothing is left waiting.

**Fairness.** `scheduler`: the thread runs on, a program that has submitted waits,
`wait` calls `progress` again (its loop has no other way out), and the adapter ends
every work request it accepted, with data or, after its retries, with an error. No
fairness on timeouts, cancellation, foreign waits or close. `nvme_queue`: the caller
polls, the adapter transmits and acknowledges, the target answers. `ring_channels`:
host threads and CTAs run (the kernel is launched with all CTAs resident), the
adapters deliver what can be delivered; with faults a wait that can neither succeed
nor be notified runs into its deadline. `reconfigure`, `reconfigure_large`: callers
call, steps that can be taken are taken, and each blocking socket call has the
deadline as its timeout. `flow`: threads and processes are scheduled, connections
deliver what they hold, and waits that have a timeout run into it; nobody has to be
killed and the rival need not start. `EveryBatchEnds` and `EveryCallReturns` are of the
form `[]<>P`; what `P` waits for stays true once it is reached, so they say the same as
"leads to".

## 5. What is proved

Eight modules hold theorems, each for every value of the constants that satisfies
the assumption of the module it is about. All are safety theorems of the whole
specification, `Spec => []P`, except for one action property and four refinements. Each
rests on an inductive invariant, with a lemma or step per action. What follows is why
the properties are not inductive by themselves, and what had to be added.

**`ReadSchedulerProofs`** (`ConstantsAssumption`: positive sizes, and at least as many
wr_ids as work requests in flight).

* `TypeCorrect`, from `TypeInvHolds`. That `_outstanding` is a natural number needs
  `HandledAreOwed` (no more completions are at hand than the QP has outstanding, because
  `progress` polls for no more); that `batch[active]` is meant needs `CallHasBatch`;
  that a chunk has a length in `Nat` needs `IterInRequest`.
* `DepthBounded` and `CompletionsRouted`, from `RoutingInvHolds`. `Booked` ties
  `_outstanding` and `_pending` to what the adapter still owes; `QuietBetween` says that
  the QPs are empty when a batch begins, unless they are not used again. The
  uniqueness of wr_ids is the hard part: `_allocate_wr_id` does not look at the ids
  handed out in the same refill. `SearchedAll` says that every id passed over since the
  refill began is pending or about to be posted; so a candidate comes round only after
  more than `NQP * QueueDepth` ids are in flight, which `FitsDepth` excludes.
* `PipelineStaysFull`: `PipeInv` follows the cursor of `_refill` over the QPs.
* `NothingPostedAfterFailure`, an action property, and `CalledExactlyOnce`, the part of
  `OnCompleteExactlyOnce` that is about callbacks, from `FailInvHolds` and `CallbackInv`:
  where a failure leaves the call under way.
* `SchedulerImplementsTransfer`, the refinement of `BatchTransfer`, from
  `TransferInvHolds`. `Cut(b)` is the set of all chunks of a batch; a byte lies in exactly
  one of them. The chunks in front of the generator are those in flight and those moved,
  and no others (`YieldedIs`). What waits in a send queue was not moved before, waits
  there once, and belongs to no batch that succeeded (`WaitingFresh`, `WaitingOnce`); this
  covers the work of failed batches, which the adapter still carries out. So a step of
  the adapter moves bytes for the first time, and when `progress` finds `_pending` empty
  behind an exhausted generator all of `Cut` was moved. The proof found that the mapping
  of the status had overlapping cases, which do not determine a value; they are disjoint
  now.
* `SuccessIsComplete`, which is `OnCompleteExactlyOnce`, from `CountInvHolds`: no chunk is
  booked twice (`ChunksOnce`), so a completion takes exactly one chunk out of those in
  flight, and the counts of the running batch are the cardinalities of the chunks
  handled and of the bytes in them. `BytesCount` and `ChunkCount` compare the
  cardinalities of `Cut` with the folds of `submit`. Induction over data is possible
  there as a statement about a set of numbers (`NatSet`, from the well-foundedness of the
  natural numbers), which has no operator to instantiate; the folds are taken apart as
  the recursive functions they are defined by (`Adds`).

**`VerbsLifecycleProofs`** (`ObjectsAssumption`: finitely many objects; what the context
counts, what is built on PDs, QPs, the context and the endpoint are apart).

* `ChildrenExactHolds`, from `ChildInvHolds`. `WrapperBacked`: an open PD, channel or CQ
  has its native object, and one that was not made has none. Without it `_release_child`
  could count down for an object that is not there, which its guard `> 0` would hide.
* `NoOrphansHolds`, `LeaksExplainedHolds`, `EventNamesLiveCQHolds`, from `LifeInvHolds`: a
  wrapper has its native object while it is open and refers to what that is built on;
  an endpoint keeps the context it takes along; what the provider failed to free is
  there and has no wrapper.
* `EventsAccountedHolds`, `BlockedOnlyByEventsHolds`. The two need each other: what a CQ
  has left to acknowledge when it is closed is, by `CountExact`, the event just taken;
  and while the interpreter is blocked nobody takes another one. `AbsentSilent` starts
  the count of a new CQ at zero. The counts agree as machine words of any width, whatever
  number `ack_events` is given: both sides take the same amount off modulo the span. A
  count that is not negative is therefore the true one, and a negative one is the
  exception that the two properties about events name.

**`BindingsProofs`** (`PagesAssumption` and `DatapathAssumption`). Exports:

* `DeviceImplementsLifecycle`: `DeviceSpec => Spec`. Each step of an export or a handle
  is one of `BridgeInfo`, `ExportFails`, `Acquire`, `Release`, or works on the pages alone.
  `DeviceKeepsObjects`: so all of the above holds for programs that export.
* `PagesCountedHolds`, from `PageInvHolds`: who has no pages yet, or no more, holds none.
* `HandlePinnedHolds`: `_external_datapath` is never cleared, so two exports share no
  queue; what a handle uses is counted, so `close` refuses, and the CQs of an open QP
  are open.

The data path:

* `DatapathImplementsLifecycle`: every step of the data path is one of
  `VerbsLifecycle`, those of the EFA objects included, or leaves the objects alone; so
  `LifeInv` may be used here.
* `BatchWholeHolds`, `CompletionsOnceHolds`, `CallsOnLiveObjectsHold`, from `DataInvHolds`. `BatchWhole` speaks of calls that are back; what the provider took
  of them is known because no other call has the same requests and none was taken
  before the native call (`RequestsApart`). `CompletionsOnce` needs that a request waits
  in one queue only (`QueuesOnce`), that a CQ with entries has a QP, with which they end
  (`EntriesOnce`), and that a call reads once and no more than it may (`ReadLimited`).
  `CallsOnLiveObjects` puts `LiveCalls` (a call has its object, unless it was closed)
  together with `HeldAliveHolds` (who is referred to has not been collected) and with the
  invariant of the objects, by which what an object is built on stays as long as it does.

**`NvmeQueueProofs`** (`DepthAssumption`). `CidsPartitionedHolds`, `AnsweredByItsOwnHolds`
and `QueuesFitHolds`, from `QueueInvHolds`: the SEND of a command and its response are
each in one place (`OnceEach`, `SendsPending`, `AnswersPending`), what is there belongs to
the request that is pending under the cid (`OwnContent`), and the cid is not given back
before `_finish_if_ready` has seen both. Responses of a poll that failed half way are
excepted, as their connection is lost.

**`NvmeControllerProofs`** (`ControllerAssumption`). From `ControllerInvHolds`:

* `NothingLeftBehindHolds`: who refers to what exists at each step of the constructor.
* `DepthGrantedHolds`: the depth in use is the one that the limits of the target led to
  and the connection step accepted; late commands never exceed it.
* `TransferExactHolds`: `lba`, `off` and `remaining` agree with the commands so far, whose
  end stays within the buffer.

**`RingAllReduceProofs`** (`RingAssumption`: two ranks at least, and a tensor that
`Fits`). From `RingInvHolds`:

* `ResultStableHolds` and `RingImplementsAllReduce`. `Fin` is the number of steps that a
  channel has finished, `Cur` the step it is in. What has arrived on a lane bounds both
  ends of it (`CountInv`): who has finished a step has heard and was heard in it. So
  neighbours are at most a step apart, also from one stride or collective to the next
  (`CurInv`), and what is on a lane is the put of the step its sender is in (`WqeInv`). A
  piece that is `Hop` places behind its owner then holds the inputs of an `Arc` of the
  ring, which its step tells, or already all of them if the write of the all-gather was
  early (`WorkInv`, `ScratchInv`). An early write hits no piece that is still to be sent
  or reduced, because its sender has heard of the step before; this holds for a ring of
  two as well, where both neighbours are the same. Who gives up leaves the inequalities
  as they are.
* `EveryElementOnceHolds`, about the layout alone. An element is in the channel, stride
  and chunk that its quotients by `perChannel`, by the stride and by the chunk name, and
  in no other; the chunks of a last, uneven stride reach its end because both divisions
  round up. `ChannelsFit` and `LayoutSound` show that for a tensor that `Fits` none of the
  kernel's Int32 sums and products wraps: the channels together reach at most a cell per
  channel beyond the tensor, and the loop at most a stride. Without `Fits` the theorem
  is false, as `ring_layout` shows.

**`ReconfigureProofs`** (`ReconfigureAssumption`: a ring names each member once).
`CommittedPairsHold`, from `PairInvHolds`. What has to be ruled out is an old attempt that
lives on in the backlog of the successor. A backlog is in the order of the attempts of
each member (`BacklogInv`), so what is queued behind an accepted request is newer; and
a member that was answered makes no newer attempt while it goes by that answer, so it
finds nothing of itself left there (`AnswerInv`).

**`FlowTransportProofs`** (`FlowAssumption`: at least as many units as flows, and no flow
or sender called `None`).

* `TasksHandedOutOnceHolds`, from `TaskInvHolds`: who has read the shared counter has its
  lock, and the counter has not moved since.
* `ReceivedWholeHolds`, from `TransferInvHolds`: the stream of a connection is what is
  left of what its sender has to send (`WireInv`); the units a flow has received are of
  the transfer whose header it read (`FlowInv`); a stripe marked as placed is in the
  destination, is being copied, or died with its worker, in which case nobody returns
  (`PlacedInv`).

Only model-checked:

* liveness (`EveryBatchEnds`, `CommandsComplete`, `AllSucceed`, `CallsReturn`,
  `ReconfigureReturns`, `AllCommit`, `EveryCallReturns`, `TransferSucceeds`): fairness is
  outside the prover's reach, and so is `ENABLED`;
* that `ring` and `ring_channels` do not deadlock, and `CallsCanGoOn`, for the same reason;
* the disagreements of section 4, which are counterexamples.

## 6. What is not modelled

* Byte-level encodings (NVMe capsules, bootstrap frames), attributes of QPs other
  than their state, queries, dtype conversion, the kernel cache, CUDA memory
  registration, views of a tensor's memory, measured times, benchmarks and lint
  tools: they hold no state that the properties tell apart. The check that the
  target allocated an I/O queue (`controller.py:152`) has no action: it compares a
  number that is at least 1 with 1 and never raises.
* `_ibverbs.pyx`: a registration (`reg_mr`) that gives the lock up while another thread
  closes the PD; events of SRQs and ports. An AH is treated as an MR.
* `gpunetio`: the shared (non-exclusive) device functions and the CPU proxy; a
  `DeviceQP` that is dropped without `close`, which its documentation rules out; two
  threads in `close` of one handle (`_pages` is assigned after the lock is given back,
  `_runtime.py:45`). A program of the model either exports or waits for events, and
  one that exports opens a device and makes PDs, CQs and QPs only.
* `Datapath`: programs with callers keep their context and PD, which their QPs refer
  to anyway; after a use of a closed object, or a thread that is stuck, the model
  stops, since anything may follow.
* `allreduce.py`: the order in which `ProcessGroup` makes and frees its resources, and
  the bridge to torch's process groups.
* `tcp_multiflow`: a rival of process-mode transfers, whose headers carry the transfer
  id that `ReceivedWhole` shows to decide in thread mode.
