--------------------------- MODULE ReadScheduler ---------------------------
(***************************************************************************)
(* RdmaReadScheduler of ibverbs/src/ibverbs/read_scheduler.py: one batch   *)
(* of transfers at a time is cut into chunks, striped over several QPs     *)
(* with at most queue_depth work requests in flight on each, and its       *)
(* completions are routed back through their wr_id.                        *)
(*                                                                         *)
(* The scheduler runs in one thread, but between any two of its steps the  *)
(* adapter may complete work, so the two loops that touch the adapter      *)
(* (_refill and progress) are modelled step by step: pc names the place    *)
(* and cursor, made, posts, wcs, completed are their local variables.      *)
(* pc = "idle" is a point where the owning thread may make its next call;  *)
(* on_complete runs there too (callbacks is the stack of the callbacks     *)
(* that are executing), because _finish_success keeps no state across it.  *)
(***************************************************************************)
EXTENDS Integers, FiniteSets, SequencesExt

CONSTANTS
    NQP,          \* qp_count
    QueueDepth,   \* queue_depth
    PollBatch,    \* poll_batch
    ChunkSize,    \* chunk_size
    MaxWrId,      \* _MAX_WR_ID, 2^64 - 1 in the code
    RequestLists, \* the request lists a caller may submit: their lengths
    MaxBatches,   \* bound: batches submitted in a behaviour
    Owned         \* TRUE for a scheduler built by create()

\* __init__ and RdmaReadRequest.__post_init__ enforce the first lines; the
\* last says that there are more wr_ids than work requests in flight.
ASSUME ConstantsAssumption ==
    /\ NQP \in Nat \ {0} /\ QueueDepth \in Nat \ {0} /\ PollBatch \in Nat \ {0}
    /\ ChunkSize \in Nat \ {0} /\ MaxBatches \in Nat \ {0} /\ Owned \in BOOLEAN
    /\ RequestLists \subseteq Seq(Nat \ {0})
    /\ MaxWrId \in Nat /\ MaxWrId >= NQP * QueueDepth

VARIABLES
    batch,        \* the RdmaReadBatch objects, by order of submission
    nbatch,       \* how many were submitted
    active,       \* _active: a batch number, or NoBatch
    iter,         \* _chunk_iter: request and offset of the next chunk
    exhausted,    \* _input_exhausted
    pending,      \* _pending: wr_id -> [qp, chunk]
    outstanding,  \* _outstanding, per QP
    nextWrId,     \* _next_wr_id
    closed, poisoned, owns,
    pc, caller, cursor, made, posts, wcs, completed,
    callbacks,
    qp, sq, cq,   \* the adapter: QP state, send queue, completion queue
    moved         \* history: the chunks whose data was moved, per batch

batchVars == <<batch, nbatch, active, iter, exhausted>>
wrVars == <<pending, outstanding, nextWrId>>
lifeVars == <<closed, poisoned, owns>>
frameVars == <<pc, caller, cursor, made, posts, wcs, completed>>
hwVars == <<qp, sq, cq, moved>>
vars == <<batchVars, wrVars, lifeVars, frameVars, callbacks, hwVars>>

NoBatch == 0
QPs == 1..NQP
WrIds == 1..MaxWrId
Places == {"idle", "alloc", "post", "poll", "handle", "check", "returned"}
Errors == {"none", "transport", "timeout", "cancelled", "closed", "callback"}

Chunk == [batch : 1..MaxBatches, req : Nat, off : Nat, len : Nat]
Work == [id : WrIds, chunk : Chunk]
WorkCompletion == [id : WrIds, chunk : Chunk, ok : BOOLEAN]

(***************************************************************************)
(* Batches and their chunks                                                *)
(***************************************************************************)

TotalBytes(reqs) == FoldLeft(LAMBDA n, len : n + len, 0, reqs)

\* mutant: the requests are cut up as if they were one.
TotalChunksJoined(reqs) == (TotalBytes(reqs) + ChunkSize - 1) \div ChunkSize

\* total_chunks of submit: every request is cut up on its own.
TotalChunks(reqs) ==
    FoldLeft(LAMBDA n, len : n + ((len + ChunkSize - 1) \div ChunkSize), 0, reqs)

NewBatch(reqs, cb) ==
    [reqs |-> reqs, chunks |-> 0, bytes |-> 0, onComplete |-> cb,
     calls |-> 0, done |-> FALSE, error |-> "none"]

\* What next(_chunk_iter) returns, and where it leaves the generator.
HasChunk == active # NoBatch /\ iter.req <= Len(batch[active].reqs)
NextChunk ==
    LET len == batch[active].reqs[iter.req] IN
    [batch |-> active, req |-> iter.req, off |-> iter.off,
     len |-> Min({ChunkSize, len - iter.off})]
AdvanceIter ==
    IF iter.off + ChunkSize < batch[active].reqs[iter.req]
    THEN [iter EXCEPT !.off = @ + ChunkSize]
    ELSE [req |-> iter.req + 1, off |-> 0]

\* mutant: the candidates wrap to 0.
WrIdAfterZero(d) == (nextWrId + d) % MaxWrId

\* The d-th candidate of _allocate_wr_id, which wraps to 1 and not to 0.
WrIdAfter(d) == ((nextWrId + d - 1) % MaxWrId) + 1

\* mutant: the next wr_id is taken without a look at _pending.
AllocatesBlindly(d) == d = 0

\* _allocate_wr_id passes over d candidates that are still in _pending.
Allocates(d) ==
    /\ WrIdAfter(d) \notin DOMAIN pending
    /\ \A e \in 0..(d - 1) : WrIdAfter(e) \in DOMAIN pending

(***************************************************************************)
(* The adapter, as the scheduler uses it through QP and CQ: an RC send     *)
(* queue completes in order; after the first error the rest is flushed.    *)
(***************************************************************************)

\* The oldest work request of q is carried out and its completion queued.
HwComplete(q) ==
    /\ qp[q] = "rts" /\ sq[q] # <<>>
    /\ LET w == Head(sq[q]) IN
        /\ cq' = [cq EXCEPT ![q] = Append(@, [id |-> w.id, chunk |-> w.chunk, ok |-> TRUE])]
        /\ moved' = [moved EXCEPT ![w.chunk.batch] = @ (+) SetToBag({w.chunk})]
    /\ sq' = [sq EXCEPT ![q] = Tail(@)]
    /\ UNCHANGED <<batchVars, wrVars, lifeVars, frameVars, callbacks, qp>>

\* A failed or a flushed work request: the QP is, or goes, into its error state.
HwError(q) ==
    /\ qp[q] \in {"rts", "error"} /\ sq[q] # <<>>
    /\ LET w == Head(sq[q]) IN
        cq' = [cq EXCEPT ![q] = Append(@, [id |-> w.id, chunk |-> w.chunk, ok |-> FALSE])]
    /\ sq' = [sq EXCEPT ![q] = Tail(@)]
    /\ qp' = [qp EXCEPT ![q] = "error"]
    /\ UNCHANGED <<batchVars, wrVars, lifeVars, frameVars, callbacks, moved>>

(***************************************************************************)
(* Ways out of a call                                                      *)
(***************************************************************************)

EmptyFrame ==
    /\ pc' = "idle" /\ caller' = "none" /\ cursor' = 1 /\ made' = FALSE
    /\ posts' = [q \in QPs |-> <<>>] /\ wcs' = <<>> /\ completed' = 0

\* _close_owned, for QPs in the given states: every QP and CQ is tried once,
\* whatever fails.  What the queues of a destroyed QP hold is never delivered.
CloseOwned(states) ==
    \E failing \in (IF owns THEN SUBSET QPs ELSE {QPs}) :
        /\ qp' = [q \in QPs |-> IF q \in failing THEN states[q] ELSE "destroyed"]
        /\ owns' = FALSE

\* The bookkeeping of work in flight is dropped, whatever the adapter does.
ForgetWork ==
    /\ pending' = <<>> /\ outstanding' = [q \in QPs |-> 0] /\ UNCHANGED nextWrId

\* mutant: on_complete runs for a failed batch as well.
EndBatchNotified(b, error) ==
    batch' = [batch EXCEPT ![b].done = TRUE, ![b].error = error, ![b].calls = @ + 1]

EndBatch(b, error) ==
    batch' = [batch EXCEPT ![b].done = TRUE, ![b].error = error]

\* What _fail_transport does to the scheduler, and the raise that unwinds to
\* the caller.
LoseTransport(queues) ==
    /\ active' = NoBatch /\ exhausted' = TRUE /\ UNCHANGED <<nbatch, iter>>
    /\ ForgetWork
    /\ poisoned' = TRUE /\ closed' = (closed \/ owns)
    /\ CloseOwned(qp) /\ sq' = queues
    /\ EmptyFrame
    /\ UNCHANGED <<callbacks, cq, moved>>

\* _fail_transport on the active batch.
FailTransport(error, queues) == EndBatch(active, error) /\ LoseTransport(queues)

\* _finish_success: the batch is no longer active when on_complete starts.
FinishSuccess(b, batches) ==
    /\ active' = NoBatch
    /\ batch' = [batches EXCEPT ![b].done = TRUE,
                                ![b].calls = IF batches[b].onComplete THEN @ + 1 ELSE @]
    /\ callbacks' = IF batches[b].onComplete THEN Append(callbacks, b) ELSE callbacks
    /\ EmptyFrame

(***************************************************************************)
(* _refill                                                                 *)
(***************************************************************************)

\* Entering it; an exhausted iterator leaves nothing to allocate or post.
EnterRefill(from, stopped) ==
    /\ pc' = (IF stopped THEN "post" ELSE "alloc")
    /\ caller' = from /\ cursor' = 1 /\ made' = FALSE
    /\ posts' = [q \in QPs |-> <<>>] /\ wcs' = <<>>

\* mutants: one work request too many, and one too few.
HasRoomForOneMore(q) == outstanding[q] + Len(posts[q]) <= QueueDepth
HasRoomButOne(q) == outstanding[q] + Len(posts[q]) < QueueDepth - 1

HasRoom(q) == outstanding[q] + Len(posts[q]) < QueueDepth

\* The QP under the cursor is full.
AllocSkip ==
    /\ pc = "alloc" /\ cursor <= NQP /\ ~HasRoom(cursor)
    /\ cursor' = cursor + 1
    /\ UNCHANGED <<batchVars, wrVars, lifeVars, pc, caller, made, posts, wcs,
                   completed, callbacks, hwVars>>

\* The next chunk goes to the QP under the cursor, under a fresh wr_id.
AllocChunk ==
    /\ pc = "alloc" /\ cursor <= NQP /\ HasRoom(cursor) /\ HasChunk
    /\ \E d \in 0..(MaxWrId - 1) :
        /\ Allocates(d)
        /\ posts' = [posts EXCEPT ![cursor] =
                        Append(@, [id |-> WrIdAfter(d), chunk |-> NextChunk])]
        /\ nextWrId' = WrIdAfter(d + 1)
    /\ iter' = AdvanceIter
    /\ made' = TRUE /\ cursor' = cursor + 1
    /\ UNCHANGED <<batch, nbatch, active, exhausted, pending, outstanding,
                   lifeVars, pc, caller, wcs, completed, callbacks, hwVars>>

\* The generator stops: the loops end and what was collected is posted.
AllocStop ==
    /\ pc = "alloc" /\ cursor <= NQP /\ HasRoom(cursor) /\ ~HasChunk
    /\ exhausted' = TRUE /\ pc' = "post" /\ cursor' = 1
    /\ UNCHANGED <<batch, nbatch, active, iter, wrVars, lifeVars, caller, made,
                   posts, wcs, completed, callbacks, hwVars>>

\* The end of one round over the QPs; another follows one that made progress.
AllocRound ==
    /\ pc = "alloc" /\ cursor > NQP
    /\ pc' = (IF made THEN "alloc" ELSE "post")
    /\ cursor' = 1 /\ made' = FALSE
    /\ UNCHANGED <<batchVars, wrVars, lifeVars, caller, posts, wcs, completed,
                   callbacks, hwVars>>

\* local_mr.sge() refuses the chunk (an MR that was closed, a bad offset),
\* or no wr_id is free.
AllocFail ==
    /\ pc = "alloc" /\ cursor <= NQP /\ HasRoom(cursor) /\ HasChunk
    /\ FailTransport("transport", sq)

PostIds(q) == {w.id : w \in Range(posts[q])}

\* _pending once the list of q is entered.
PendingWith(q) ==
    [id \in DOMAIN pending \cup PostIds(q) |->
        IF id \in PostIds(q)
        THEN [qp |-> q, chunk |-> (CHOOSE w \in Range(posts[q]) : w.id = id).chunk]
        ELSE pending[id]]

\* One QP's list is entered in _pending, posted, and counted.
PostQP ==
    /\ pc = "post" /\ cursor <= NQP
    /\ posts[cursor] # <<>> => qp[cursor] \in {"rts", "error"}
    /\ pending' = PendingWith(cursor)
    /\ sq' = [sq EXCEPT ![cursor] = @ \o posts[cursor]]
    /\ outstanding' = [outstanding EXCEPT ![cursor] = @ + Len(posts[cursor])]
    /\ posts' = [posts EXCEPT ![cursor] = <<>>]
    /\ cursor' = cursor + 1
    /\ UNCHANGED <<batchVars, nextWrId, lifeVars, pc, caller, made, wcs,
                   completed, callbacks, qp, cq, moved>>

\* post_send raises: the provider accepted the list only up to some entry.
PostFail ==
    /\ pc = "post" /\ cursor <= NQP /\ posts[cursor] # <<>>
    /\ \E n \in 0..(Len(posts[cursor]) - 1) :
        /\ qp[cursor] \notin {"rts", "error"} => n = 0
        /\ FailTransport("transport",
                [sq EXCEPT ![cursor] = @ \o SubSeq(posts[cursor], 1, n)])

\* Back in submit, or in progress behind its call of _refill.
RefillReturn ==
    /\ pc = "post" /\ cursor > NQP
    /\ IF caller = "submit"
       THEN EmptyFrame
       ELSE /\ pc' = "check" /\ cursor' = 1
            /\ UNCHANGED <<caller, made, posts, wcs, completed>>
    /\ UNCHANGED <<batchVars, wrVars, lifeVars, callbacks, hwVars>>

(***************************************************************************)
(* The calls                                                               *)
(***************************************************************************)

\* mutant: a poisoned scheduler accepts a batch.
UsableWhenPoisoned == ~closed

Usable == ~closed /\ ~poisoned

\* submit(requests, on_complete=...)
Submit(reqs, cb) ==
    /\ pc = "idle" /\ Usable /\ active = NoBatch
    /\ nbatch < MaxBatches
    /\ nbatch' = nbatch + 1
    /\ iter' = [req |-> 1, off |-> 0]
    /\ exhausted' = (TotalChunks(reqs) = 0)
    /\ LET added == [batch EXCEPT ![nbatch + 1] = NewBatch(reqs, cb)] IN
        IF TotalChunks(reqs) = 0
        THEN FinishSuccess(nbatch + 1, added)
        ELSE /\ batch' = added
             /\ active' = nbatch + 1
             /\ EnterRefill("submit", FALSE) /\ completed' = 0
             /\ UNCHANGED callbacks
    /\ UNCHANGED <<wrVars, lifeVars, hwVars>>

\* progress(batch): the call, on the active batch.
Progress ==
    /\ pc = "idle" /\ active # NoBatch /\ ~batch[active].done
    /\ pc' = "poll" /\ caller' = "progress" /\ cursor' = 1 /\ completed' = 0
    /\ UNCHANGED <<batchVars, wrVars, lifeVars, made, posts, wcs, callbacks, hwVars>>

\* mutant: the last work request outstanding is not polled for.
PollCountButOne(q) == Min({PollBatch, outstanding[q] - 1, Len(cq[q])})

PollCount(q) == Min({PollBatch, outstanding[q], Len(cq[q])})

\* One CQ is polled, for no more than the QP has outstanding.
PollCQ ==
    /\ pc = "poll" /\ cursor <= NQP
    /\ outstanding[cursor] > 0 => qp[cursor] # "destroyed"
    /\ wcs' = SubSeq(cq[cursor], 1, PollCount(cursor))
    /\ cq' = [cq EXCEPT ![cursor] = SubSeq(@, PollCount(cursor) + 1, Len(@))]
    /\ pc' = "handle"
    /\ UNCHANGED <<batchVars, wrVars, lifeVars, caller, cursor, made, posts,
                   completed, callbacks, qp, sq, moved>>

\* ibv_poll_cq fails, as it must on a CQ that was closed.
PollFail ==
    /\ pc = "poll" /\ cursor <= NQP /\ outstanding[cursor] > 0
    /\ FailTransport("transport", sq)

Known(wc) == wc.id \in DOMAIN pending /\ pending[wc.id].qp = cursor

\* A completion is routed to its chunk and counted.
HandleWc ==
    /\ pc = "handle" /\ wcs # <<>> /\ Known(Head(wcs)) /\ Head(wcs).ok
    /\ LET id == Head(wcs).id IN
        /\ pending' = [i \in DOMAIN pending \ {id} |-> pending[i]]
        /\ batch' = [batch EXCEPT ![active].chunks = @ + 1,
                                  ![active].bytes = @ + pending[id].chunk.len]
    /\ outstanding' = [outstanding EXCEPT ![cursor] = @ - 1]
    /\ completed' = completed + 1
    /\ wcs' = Tail(wcs)
    /\ UNCHANGED <<nbatch, active, iter, exhausted, nextWrId, lifeVars, pc,
                   caller, cursor, made, posts, callbacks, hwVars>>

\* An unknown wr_id, a wrong CQ or a bad status: the rest of wcs is dropped.
HandleBadWc ==
    /\ pc = "handle" /\ wcs # <<>> /\ ~(Known(Head(wcs)) /\ Head(wcs).ok)
    /\ FailTransport("transport", sq)

\* This CQ's completions are handled.
NextCQ ==
    /\ pc = "handle" /\ wcs = <<>>
    /\ pc' = "poll" /\ cursor' = cursor + 1
    /\ UNCHANGED <<batchVars, wrVars, lifeVars, caller, made, posts, wcs,
                   completed, callbacks, hwVars>>

\* All CQs were polled; freed slots are refilled.
PollEnd ==
    /\ pc = "poll" /\ cursor > NQP
    /\ IF completed > 0
       THEN EnterRefill("progress", exhausted)
       ELSE /\ pc' = "check" /\ cursor' = 1
            /\ UNCHANGED <<caller, made, posts, wcs>>
    /\ UNCHANGED <<batchVars, wrVars, lifeVars, completed, callbacks, hwVars>>

\* mutant: success as soon as everything is posted.
SucceedWhenPosted ==
    /\ pc = "check" /\ exhausted
    /\ FinishSuccess(active, batch)
    /\ UNCHANGED <<nbatch, iter, exhausted, wrVars, lifeVars, hwVars>>

\* The batch has succeeded: nothing is left to post or to wait for.
Succeed ==
    /\ pc = "check" /\ exhausted /\ DOMAIN pending = {}
    /\ FinishSuccess(active, batch)
    /\ UNCHANGED <<nbatch, iter, exhausted, wrVars, lifeVars, hwVars>>

\* progress returns with the batch still running.
NotYet ==
    /\ pc = "check" /\ ~(exhausted /\ DOMAIN pending = {})
    /\ pc' = "returned"
    /\ UNCHANGED <<batchVars, wrVars, lifeVars, caller, cursor, made, posts, wcs,
                   completed, callbacks, hwVars>>

\* wait and wait_async look at the clock after progress: not late yet, so
\* they sleep, and in wait_async other tasks run.
KeepWaiting ==
    /\ pc = "returned"
    /\ EmptyFrame
    /\ UNCHANGED <<batchVars, wrVars, lifeVars, callbacks, hwVars>>

\* ... or the deadline has passed.
TimedOut ==
    /\ pc = "returned"
    /\ FailTransport("timeout", sq)

\* An exception raised in wait's sleep: the task is cancelled.
Cancelled ==
    /\ pc = "idle" /\ active # NoBatch /\ ~batch[active].done
    /\ FailTransport("cancelled", sq)

\* wait() on a batch of another scheduler: _validate_batch raises, and the
\* handler fails this scheduler's transport on behalf of that batch.  The
\* batch that was active here is left behind, neither active nor done.
WaitForeign ==
    /\ pc = "idle"
    /\ UNCHANGED batch /\ LoseTransport(sq)

\* ... and another scheduler's wait() on a batch of this one, which stays
\* active here with the mark of a failure.
ForeignWait(b) ==
    /\ pc = "idle" /\ b <= nbatch /\ ~batch[b].done
    /\ EndBatch(b, "transport")
    /\ UNCHANGED <<nbatch, active, iter, exhausted, wrVars, lifeVars, frameVars,
                   callbacks, hwVars>>

\* wait() on a batch that was left behind: "batch is not active".
WaitLeftBehind(b) ==
    /\ pc = "idle" /\ b <= nbatch /\ ~batch[b].done /\ b # active
    /\ EndBatch(b, "transport") /\ LoseTransport(sq)

\* wait, wait_async and the calls made of them drive a batch until it is done.
Wait == Progress \/ KeepWaiting \/ \E b \in 1..MaxBatches : WaitLeftBehind(b)

\* close()
Close ==
    /\ pc = "idle" /\ ~closed
    /\ IF active # NoBatch /\ ~batch[active].done
       THEN EndBatch(active, "closed") ELSE UNCHANGED batch
    /\ active' = NoBatch /\ closed' = TRUE
    /\ ForgetWork
    /\ CloseOwned(qp)
    /\ UNCHANGED <<nbatch, iter, exhausted, poisoned, frameVars, callbacks, sq, cq, moved>>

\* connect(): every QP from RESET to RTS.
Connect ==
    /\ pc = "idle" /\ Usable /\ \A q \in QPs : qp[q] = "reset"
    /\ qp' = [q \in QPs |-> "rts"]
    /\ UNCHANGED <<batchVars, wrVars, lifeVars, frameVars, callbacks, sq, cq, moved>>

\* connect() fails at some QP, as it must at one that is not in RESET any
\* more; _poison_resources leaves an active batch alone.
ConnectFail ==
    /\ pc = "idle" /\ Usable
    /\ poisoned' = TRUE /\ closed' = owns
    /\ \E n \in 0..(NQP - 1) :
        /\ \A q \in 1..n : qp[q] = "reset"
        /\ CloseOwned([q \in QPs |-> IF q <= n THEN "rts" ELSE qp[q]])
    /\ UNCHANGED <<batchVars, wrVars, frameVars, callbacks, sq, cq, moved>>

\* on_complete returns or raises.
CallbackReturns(ok) ==
    /\ pc = "idle" /\ callbacks # <<>>
    /\ callbacks' = Front(callbacks)
    /\ batch' = IF ok THEN batch ELSE [batch EXCEPT ![Last(callbacks)].error = "callback"]
    /\ UNCHANGED <<nbatch, active, iter, exhausted, wrVars, lifeVars, frameVars, hwVars>>

(***************************************************************************)
(* The specification                                                       *)
(***************************************************************************)

Init ==
    /\ batch = [b \in 1..MaxBatches |-> NewBatch(<<>>, FALSE)]
    /\ nbatch = 0 /\ active = NoBatch /\ exhausted = TRUE
    /\ iter = [req |-> 1, off |-> 0]
    /\ pending = <<>> /\ outstanding = [q \in QPs |-> 0] /\ nextWrId = 1
    /\ closed = FALSE /\ poisoned = FALSE /\ owns = Owned
    /\ pc = "idle" /\ caller = "none" /\ cursor = 1 /\ made = FALSE
    /\ posts = [q \in QPs |-> <<>>] /\ wcs = <<>> /\ completed = 0
    /\ callbacks = <<>>
    /\ qp = [q \in QPs |-> "reset"]
    /\ sq = [q \in QPs |-> <<>>] /\ cq = [q \in QPs |-> <<>>]
    /\ moved = [b \in 1..MaxBatches |-> EmptyBag]

Refill == AllocSkip \/ AllocChunk \/ AllocStop \/ AllocRound \/ PostQP \/ RefillReturn
Poll == PollCQ \/ HandleWc \/ HandleBadWc \/ NextCQ \/ PollEnd \/ Succeed \/ NotYet
Failure == AllocFail \/ PostFail \/ PollFail \/ TimedOut \/ Cancelled \/ WaitForeign
Call ==
    \/ \E reqs \in RequestLists, cb \in BOOLEAN : Submit(reqs, cb)
    \/ Wait \/ Close \/ Connect \/ ConnectFail
    \/ \E b \in 1..MaxBatches : ForeignWait(b)
    \/ \E ok \in BOOLEAN : CallbackReturns(ok)
Hardware == \E q \in QPs : HwComplete(q) \/ HwError(q)

Next == Refill \/ Poll \/ Failure \/ Call \/ Hardware

Spec == Init /\ [][Next]_vars

\* The thread runs on, wait() calls progress again, and the adapter ends
\* every work request it accepted, with data or with an error.
Fairness ==
    /\ WF_vars(Refill \/ AllocFail \/ PostFail)
    /\ WF_vars(Poll \/ PollFail)
    /\ WF_vars(Wait)
    /\ \A q \in QPs : WF_vars(HwComplete(q) \/ HwError(q))

FairSpec == Spec /\ Fairness

(***************************************************************************)
(* Properties                                                              *)
(***************************************************************************)

BatchState ==
    [reqs : RequestLists \cup {<<>>}, chunks : Nat, bytes : Nat, onComplete : BOOLEAN,
     calls : Nat, done : BOOLEAN, error : Errors]

BatchTypes ==
    /\ batch \in [1..MaxBatches -> BatchState]
    /\ nbatch \in 0..MaxBatches /\ active \in 0..nbatch /\ exhausted \in BOOLEAN
    /\ iter \in [req : Nat \ {0}, off : Nat]
    /\ callbacks \in Seq(1..MaxBatches)

WrTypes ==
    /\ DOMAIN pending \subseteq WrIds
    /\ pending \in [DOMAIN pending -> [qp : QPs, chunk : Chunk]]
    /\ outstanding \in [QPs -> Nat] /\ nextWrId \in WrIds

FrameTypes ==
    /\ closed \in BOOLEAN /\ poisoned \in BOOLEAN /\ owns \in BOOLEAN
    /\ pc \in Places /\ caller \in {"none", "submit", "progress"}
    /\ cursor \in 1..(NQP + 1) /\ made \in BOOLEAN
    /\ posts \in [QPs -> Seq(Work)] /\ wcs \in Seq(WorkCompletion) /\ completed \in Nat

HwTypes ==
    /\ qp \in [QPs -> {"reset", "rts", "error", "destroyed"}]
    /\ sq \in [QPs -> Seq(Work)] /\ cq \in [QPs -> Seq(WorkCompletion)]

\* The variables the scheduler and the adapter keep have their types; a
\* wr_id in particular stays within 1.._MAX_WR_ID when it wraps.
TypeOK == BatchTypes /\ WrTypes /\ FrameTypes /\ HwTypes

\* What TypeOK needs to be inductive: a call in progress works on a batch,
\* no more completions are at hand than their QP has outstanding, and the
\* generator stands on a byte of its request.
CallHasBatch == pc # "idle" => active # NoBatch
HandledAreOwed == pc = "handle" => cursor <= NQP /\ Len(wcs) <= outstanding[cursor]
IterInRequest == HasChunk => iter.off < batch[active].reqs[iter.req]

Unhandled(q) == IF pc = "handle" /\ cursor = q THEN wcs ELSE <<>>

\* Never more than queue_depth work requests of a QP in the adapter, nor
\* completions in its CQ, also when a post fails half way: the send queue
\* and the CQ that create() sizes for queue_depth cannot overflow.
DepthBound == \A q \in QPs : Len(sq[q]) + Len(cq[q]) <= QueueDepth

\* While a batch is active, _outstanding is what the adapter still owes.
OutstandingIsOwed ==
    active # NoBatch =>
        \A q \in QPs : outstanding[q] = Len(sq[q]) + Len(cq[q]) + Len(Unhandled(q))

\* _pending has every completion, due or queued, with the QP it was posted on
\* and the chunk it carries.
PendingKnowsAll ==
    active # NoBatch =>
        \A q \in QPs : \A queue \in {sq[q], cq[q], Unhandled(q)} :
            \A i \in DOMAIN queue :
                /\ queue[i].id \in DOMAIN pending
                /\ pending[queue[i].id] = [qp |-> q, chunk |-> queue[i].chunk]

\* The work requests of q in the order they went in: the completions being
\* handled, those queued, the work in the adapter, and the list to be posted.
Works(queue) == [i \in DOMAIN queue |-> [id |-> queue[i].id, chunk |-> queue[i].chunk]]
Posted(q) == Works(Unhandled(q)) \o Works(cq[q]) \o sq[q]
Flight(q) == Posted(q) \o posts[q]

\* No two work requests, posted or about to be, share a wr_id, although
\* _allocate_wr_id does not look at the ids given out by the same _refill.
WrIdsUnique ==
    active # NoBatch =>
        \A p, q \in QPs : \A i \in DOMAIN Flight(p), j \in DOMAIN Flight(q) :
            Flight(p)[i].id = Flight(q)[j].id => p = q /\ i = j

\* Completions are routed through their wr_id, also after the wr_ids have
\* wrapped, and each of them is owed: the "unknown wr_id" and "wrong CQ" errors
\* of progress cannot happen, and _outstanding never asks for one too many.
CompletionRouting == OutstandingIsOwed /\ PendingKnowsAll /\ WrIdsUnique

\* Between calls every QP of a running batch is full, or the batch has no
\* chunk left to post ("keeping up to queue_depth operations in flight").
PipelineFull ==
    pc \in {"idle", "returned"} /\ active # NoBatch /\ HasChunk =>
        \A q \in QPs : outstanding[q] = QueueDepth

Succeeded(b) == batch[b].done /\ batch[b].error \in {"none", "callback"}

\* on_complete was called once for a batch that succeeded, and never for one
\* that failed, timed out, was cancelled or was closed under way.
CalledExactly ==
    \A b \in 1..nbatch :
        batch[b].calls = IF Succeeded(b) /\ batch[b].onComplete THEN 1 ELSE 0

\* A batch that succeeded has counted every chunk and byte submit announced.
CountedAll ==
    \A b \in 1..nbatch : Succeeded(b) =>
        /\ batch[b].chunks = TotalChunks(batch[b].reqs)
        /\ batch[b].bytes = TotalBytes(batch[b].reqs)

\* on_complete runs exactly once for a batch that succeeded, with all of its
\* chunks and bytes counted, and for no other.
OnCompleteExactlyOnce == CalledExactly /\ CountedAll

TransportLost ==
    \/ poisoned /\ active = NoBatch
    \/ \E b \in 1..nbatch : batch[b].done /\ ~Succeeded(b)

\* After a transport failure the QPs hold indeterminate work: nothing is
\* ever posted on them again, also when another scheduler's wait() declared
\* the failure of this one's batch, or this one's wait() that of another's.
NoPostAfterFailure ==
    [][TransportLost => \A q \in QPs : Len(sq'[q]) <= Len(sq[q])]_vars

\* A batch that was submitted ends: it never waits for a completion that
\* nobody will post.
EveryBatchEnds ==
    \A b \in 1..MaxBatches : []<>(nbatch >= b => batch[b].done)

(***************************************************************************)
(* The refinement of BatchTransfer                                         *)
(***************************************************************************)

BytesOf(reqs) == UNION {{<<r, o>> : o \in 0..(reqs[r] - 1)} : r \in DOMAIN reqs}
Carries(c, x) == c.req = x[1] /\ x[2] \in c.off..(c.off + c.len - 1)
TimesMoved(b, x) ==
    LET carriers == {c \in BagToSet(moved[b]) : Carries(c, x)} IN
    IF \E c \in carriers : moved[b][c] > 1 THEN 2 ELSE Cardinality(carriers)

StatusOf ==
    [b \in 1..MaxBatches |->
        CASE b > nbatch -> "new"
          [] b <= nbatch /\ ~batch[b].done -> "active"
          [] b <= nbatch /\ Succeeded(b) -> "ok"
          [] OTHER -> "failed"]

LandedOf == [b \in 1..MaxBatches |-> [x \in BytesOf(batch[b].reqs) |-> TimesMoved(b, x)]]

Transfer == INSTANCE BatchTransfer WITH
    Batches <- 1..MaxBatches,
    Plans <- {BytesOf(reqs) : reqs \in RequestLists},
    status <- StatusOf,
    landed <- LandedOf

\* Every behaviour of the scheduler is one the caller was promised: a
\* successful batch moved each of its bytes exactly once, all of them before
\* on_complete starts and none afterwards, one batch at a time.
ImplementsTransfer == Transfer!Spec
=============================================================================
