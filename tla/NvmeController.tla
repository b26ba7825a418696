--------------------------- MODULE NvmeController ---------------------------
(***************************************************************************)
(* Controller and Namespace of nvmeof/src/nvmeof/controller.py, with the   *)
(* resources of RDMAQueue.__init__ and close and the limits of             *)
(* protocol.py: bringing a controller up over an admin queue, making the   *)
(* I/O queue, splitting a transfer into commands, and closing it all.      *)
(*                                                                         *)
(* One thread uses a controller.  What a queue does with a command is      *)
(* NvmeQueue's subject; here execute succeeds, raises, or times out and    *)
(* leaves its command with the target, whose answer comes late or never.   *)
(* The provider may refuse to free a resource.  Sizes are bytes; a block   *)
(* is an LBA.                                                              *)
(***************************************************************************)
EXTENDS Integers, SequencesExt, FiniteSetsExt

CONSTANTS
    Targets,        \* what a target may be like: see TargetType
    RequestedDepths,
    MaxQueueDepth,  \* MAX_QUEUE_DEPTH
    AdminDepth,     \* ADMIN_QUEUE_DEPTH
    MaxSgl,         \* MAX_KEYED_SGL_LENGTH
    MaxNlb,         \* blocks that one command can name, 65536 in the code
    PageSize,       \* controller_page_size
    NsBlocks,       \* size_lbas
    BufLen,         \* the length of the program's buffer
    Offsets,        \* buffer_offsets that the program gives
    MaxRefusals     \* bound: frees that the provider refuses

TargetType ==
    [limit : Nat,      \* MQES + 1
     maxcmd : Nat,     \* max_commands, 0 for no limit
     crq : Nat,        \* receive queue size in the response to a connection
     mdts : Nat, lba : Nat \ {0},
     reject : {"none", "nqn", "auth", "fatal", "slow", "id", "sgl", "icdoff",
               "nsid", "format", "metadata"}]   \* what bring-up meets and refuses

ASSUME ControllerAssumption ==
    /\ Targets \subseteq TargetType
    /\ RequestedDepths \subseteq Nat
    /\ AdminDepth \in 2..MaxQueueDepth
    /\ {MaxQueueDepth, MaxSgl, MaxNlb, PageSize, NsBlocks, BufLen} \subseteq Nat \ {0}
    /\ Offsets \subseteq Int /\ MaxRefusals \in Nat

Queues == {"admin", "io"}

VARIABLES
    target,
    requested,      \* queue_depth
    ctrl,           \* where the constructor is; "up", "failed", "closed" (a close()
                    \* has begun), "none"
    depth,          \* depth of a queue
    making,         \* the next step of a queue's constructor
    held,           \* queues that self.admin and self.io refer to
    attrs,          \* attributes of a queue that are not None
    live,           \* its resources that exist
    temp,           \* queues whose PD has the buffer of a with-block left
    ns,             \* the program has a Namespace
    buffer,         \* the program's buffer on the PD of the I/O queue is open
    refusals,
    stuck,          \* history: resources refused by the provider in __dealloc__
    late,           \* commands of the I/O queue that timed out
    xfer,           \* the transfer in progress or the last one
    cuda            \* "idle", "working" (kernels write the buffer), "unflushed"
                    \* (the GPU may not see what the adapter has placed)

queueVars == <<depth, making, held, attrs, live, temp, refusals, stuck>>
vars == <<target, requested, ctrl, queueVars, ns, buffer, late, xfer, cuda>>

-----------------------------------------------------------------------------
(* RDMAQueue: its resources *)

\* The steps of __init__; the ones in lower case are resources.
MakeOrder == <<"cm", "pd", "cq", "qp", "CONNECT", "commands", "responses", "POST">>

\* The order of close().
CloseOrder == <<"commands", "responses", "qp", "cq", "pd", "cm">>

\* What has to be freed before r.
Above(r) ==
    CASE r = "cq" -> {"qp"}
      [] r = "pd" -> {"commands", "responses", "qp"}
      [] r = "cm" -> {"qp", "cq", "pd"}
      [] OTHER -> {}

\* Buffers of others are on the PD of q.
InUse(q) == q \in temp \/ (q = "io" /\ buffer)

\* What is left of the resources S of q after close() of each one in S.
Freed(q, S, refused) ==
    FoldLeft(LAMBDA left, r :
        IF r \in refused \/ Above(r) \cap left # {} \/ (r = "pd" /\ InUse(q))
        THEN left ELSE left \ {r}, S, CloseOrder)

\* What the garbage collector leaves: __dealloc__ of a CMID asks nobody, and
\* nothing has to be freed before what is above a CQ or a PD.
Collected(S, refused) ==
    {r \in S : r \in refused \/ (r # "cm" /\ Above(r) \cap S \cap refused # {})}

Refusable(S) == {R \in SUBSET (S \ {"cm"}) : Cardinality(R) <= MaxRefusals - refusals}

\* mutant: the attributes are forgotten, freed or not.
AttrsAfterForgets(left) == {}
\* The attributes after close(): one that could not be closed stays.
AttrsAfter(left) == left

\* close() of the queues Q, one after the other.
CloseQueues(Q) ==
    \E refused \in [Queues -> UNION {Refusable(live[q]) : q \in Queues}] :
        LET left == [q \in Queues |-> IF q \in Q THEN Freed(q, attrs[q], refused[q]) ELSE live[q]]
            count == Cardinality(refused["admin"]) + Cardinality(refused["io"])
        IN
        /\ \A q \in Queues : refused[q] \subseteq IF q \in Q THEN live[q] ELSE {}
        /\ refusals + count <= MaxRefusals
        /\ refusals' = refusals + count
        /\ live' = left
        /\ attrs' = [q \in Queues |-> IF q \in Q THEN AttrsAfter(left[q]) ELSE attrs[q]]
        /\ held' = held \ {q \in Q : left[q] = {}}

\* A constructor raises: close() is called and its OSError ignored, and then
\* nobody refers to the queues Q any more.
Abandon(Q) ==
    \E refused \in [Queues -> UNION {Refusable(live[q]) : q \in Queues}] :
        LET count == Cardinality(refused["admin"]) + Cardinality(refused["io"]) IN
        /\ \A q \in Queues : refused[q] \subseteq IF q \in Q THEN live[q] ELSE {}
        /\ refusals + count <= MaxRefusals
        /\ refusals' = refusals + count
        /\ live' = [q \in Queues |-> IF q \in Q THEN Collected(live[q], refused[q]) ELSE live[q]]
        /\ stuck' = [q \in Queues |-> stuck[q] \cup refused[q]]
        /\ attrs' = [q \in Queues |-> IF q \in Q THEN {} ELSE attrs[q]]
        /\ held' = held \ Q
        /\ temp' = temp \ Q

-----------------------------------------------------------------------------
(* Bring-up.  A step that raises ends in Raise. *)

\* Controller.__init__: all queues that exist are closed.
Raise ==
    /\ ctrl' = "failed"
    /\ Abandon(Queues)
    /\ making' = 1
    /\ UNCHANGED <<target, requested, depth, ns, buffer, late, xfer, cuda>>

\* The program makes a controller.
Construct ==
    /\ ctrl = "none"
    /\ IF requested \in 2..MaxQueueDepth
       THEN /\ ctrl' = "makeAdmin"
            /\ depth' = [depth EXCEPT !["admin"] = AdminDepth]
       ELSE ctrl' = "failed" /\ UNCHANGED depth
    /\ UNCHANGED <<target, requested, making, held, attrs, live, temp, refusals, stuck,
                   ns, buffer, late, xfer, cuda>>

MakingQueue ==
    CASE ctrl = "makeAdmin" -> "admin"
      [] ctrl = "makeIo" -> "io"
      [] OTHER -> "none"

\* What rdma_cm_request encodes.
DepthAllowed(q) == depth[q] \in 2..MaxQueueDepth

\* What parse_rdma_cm_response returns; it refuses zero.  A target's answer for
\* its admin queue is large enough.
ReceiveDepth(q) == {n \in {IF q = "io" THEN target.crq ELSE AdminDepth} : n # 0}

AcceptsConnection(q) == DepthAllowed(q) /\ \E n \in ReceiveDepth(q) : n >= depth[q] - 1

\* The next step of RDMAQueue.__init__.
MakeStep ==
    LET q == MakingQueue
        r == MakeOrder[making] IN
    /\ q # "none" /\ making <= Len(MakeOrder)
    /\ r = "cm" => DepthAllowed(q)
    /\ r = "CONNECT" => AcceptsConnection(q)
    /\ making' = making + 1
    /\ live' = [live EXCEPT ![q] = IF r \in {"CONNECT", "POST"} THEN @ ELSE @ \cup {r}]
    /\ attrs' = [attrs EXCEPT ![q] = IF r \in {"CONNECT", "POST"} THEN @ ELSE @ \cup {r}]
    /\ UNCHANGED <<target, requested, ctrl, depth, held, temp, refusals, stuck, ns, buffer,
                   late, xfer, cuda>>

\* Any step of it raises.
MakeFails == MakingQueue # "none" /\ making <= Len(MakeOrder) /\ Raise

\* The queue is assigned to self.admin or self.io.
MakeReturns ==
    LET q == MakingQueue IN
    /\ q # "none" /\ making = Len(MakeOrder) + 1
    /\ held' = held \cup {q}
    /\ making' = 1
    /\ ctrl' = IF q = "admin" THEN "connectAdmin" ELSE "connectIo"
    /\ UNCHANGED <<target, requested, depth, attrs, live, temp, refusals, stuck, ns, buffer,
                   late, xfer, cuda>>

\* A command of the bring-up is built and succeeds, its buffer is closed, and what it brought
\* is accepted.
Step(from, to) ==
    /\ ctrl = from /\ ctrl' = to
    /\ UNCHANGED <<target, requested, queueVars, ns, buffer, late, xfer, cuda>>

\* connect_data takes the NQNs and the target asks for no authentication.
Connectable == target.reject # "nqn"
ConnectAdmin ==
    Connectable /\ target.reject # "auth" /\ Step("connectAdmin", "getCap")
GetCap == Step("getCap", "enable")
Enable == Step("enable", "waitReady")
\* CSTS is read until the controller is ready.
WaitReady == target.reject \notin {"fatal", "slow"} /\ Step("waitReady", "identify")
\* What Identify Controller says fits.
Identify == target.reject \notin {"id", "sgl", "icdoff"} /\ Step("identify", "features")

\* mutant: max_commands is not looked at.
IoDepthUnbounded == Min({requested, target.limit, MaxQueueDepth})
\* The depth of the I/O queue.
IoDepth ==
    Min({requested, target.limit, MaxQueueDepth} \cup ({target.maxcmd} \ {0}))

\* Set Features, and the I/O queue is begun.
SetFeatures ==
    /\ ctrl = "features" /\ ctrl' = "makeIo"
    /\ depth' = [depth EXCEPT !["io"] = IoDepth]
    /\ UNCHANGED <<target, requested, making, held, attrs, live, temp, refusals, stuck,
                   ns, buffer, late, xfer, cuda>>

ConnectIo == Step("connectIo", "up")

Commanding == {"connectAdmin", "getCap", "enable", "waitReady", "identify", "features", "connectIo"}

\* A command times out or fails, what it brought is not accepted, the
\* controller does not get ready before the deadline of _wait_ready.
CommandRaises == ctrl \in Commanding /\ Raise

\* The buffer of the with-block cannot be closed: the exception finds it on the
\* PD, and it goes with the frame.
BufferStays ==
    /\ ctrl \in {"connectAdmin", "identify", "connectIo"} /\ refusals < MaxRefusals
    /\ LET q == IF ctrl = "connectIo" THEN "io" ELSE "admin" IN temp' = temp \cup {q}
    /\ ctrl' = "raising"
    /\ refusals' = refusals + 1
    /\ UNCHANGED <<target, requested, depth, making, held, attrs, live, stuck, ns, buffer,
                   late, xfer, cuda>>

BufferStayed == ctrl = "raising" /\ Raise

-----------------------------------------------------------------------------
(* The program *)

Idle == xfer.at # "running"
Up == ctrl \in {"up", "closed"} /\ Idle

\* NamespaceInfo.from_bytes takes the format of the namespace.
NamespaceOk == target.reject \notin {"nsid", "format", "metadata"}

\* identify_namespace: metadata is refused.  Its buffer is closed again at once.
IdentifyNamespace ==
    /\ Up /\ ctrl = "up" /\ ~ ns
    /\ NamespaceOk
    /\ ns' = TRUE
    /\ UNCHANGED <<target, requested, ctrl, queueVars, buffer, late, xfer, cuda>>

\* allocate or register, on the PD of the I/O queue
Allocate ==
    /\ Up /\ "io" \in held /\ "pd" \in attrs["io"] /\ ~ buffer
    /\ buffer' = TRUE
    /\ UNCHANGED <<target, requested, ctrl, queueVars, ns, late, xfer, cuda>>

CloseBuffer ==
    /\ Up /\ buffer
    /\ buffer' = FALSE /\ cuda' = "idle"
    /\ UNCHANGED <<target, requested, ctrl, queueVars, ns, late, xfer>>

\* The program starts kernels on its buffer.
LaunchKernel ==
    /\ Up /\ buffer /\ cuda = "idle"
    /\ cuda' = "working"
    /\ UNCHANGED <<target, requested, ctrl, queueVars, ns, buffer, late, xfer>>

\* Controller.close.  The record of the last transfer is dropped with it.
Close ==
    /\ Up
    /\ ctrl' = "closed"
    /\ CloseQueues(held)
    /\ xfer' = [at |-> "none"]
    /\ UNCHANGED <<target, requested, depth, making, temp, stuck, ns, buffer, late, cuda>>

MaxTransfer == IF target.mdts = 0 THEN MaxSgl ELSE Min({MaxSgl, PageSize * 2 ^ target.mdts})

\* mutant: the last part is rounded up.
MaxBlocksUp == Min({MaxNlb, (MaxTransfer + target.lba - 1) \div target.lba})
\* max_blocks of _transfer
MaxBlocks == Min({MaxNlb, MaxTransfer \div target.lba})

\* blocks is None: the rest of the buffer.
DefaultBlocks(off) == (BufLen - off) \div target.lba
Whole(off) == (BufLen - off) % target.lba = 0

\* read or write: the checks of _transfer, synchronize before a write from GPU
\* memory.
Begin(op, gpu, slba, n, off) ==
    /\ Up /\ ctrl = "up" /\ ns /\ buffer
    /\ n > 0 /\ slba >= 0 /\ slba + n <= NsBlocks
    /\ off >= 0 /\ n * target.lba <= BufLen - off
    /\ MaxBlocks > 0
    /\ xfer' = [at |-> "running", op |-> op, gpu |-> gpu, slba |-> slba, blocks |-> n,
                start |-> off, lba |-> slba, off |-> off, remaining |-> n,
                cmds |-> <<>>, stale |-> FALSE]
    /\ cuda' = IF gpu /\ op = "write" THEN "idle" ELSE cuda
    /\ UNCHANGED <<target, requested, ctrl, queueVars, ns, buffer, late>>

BeginWhole(op, gpu, slba, off) == Whole(off) /\ Begin(op, gpu, slba, DefaultBlocks(off), off)

Count == Min({xfer.remaining, MaxBlocks})
Command == [lba |-> xfer.lba, count |-> Count, off |-> xfer.off, length |-> Count * target.lba]

\* set_keyed_sgl takes it.
SglFits(off, length) ==
    off \in 0..BufLen /\ length \in 1..(BufLen - off) /\ length <= MaxSgl

\* rw_command takes it.
Buildable(c) == c.count \in 1..MaxNlb /\ SglFits(c.off, c.length)

\* A free command ID.
CanSubmit == late < depth["io"] - 1

\* A command is executed and succeeds.
Execute ==
    /\ xfer.at = "running" /\ xfer.remaining > 0
    /\ Buildable(Command) /\ CanSubmit
    /\ xfer' = [xfer EXCEPT !.cmds = Append(@, Command), !.lba = @ + Count,
                            !.off = @ + Count * target.lba, !.remaining = @ - Count,
                            !.stale = @ \/ (xfer.gpu /\ xfer.op = "write" /\ cuda = "working")]
    /\ cuda' = IF xfer.gpu /\ xfer.op = "read" THEN "unflushed" ELSE cuda
    /\ UNCHANGED <<target, requested, ctrl, queueVars, ns, buffer, late>>

\* It fails, or all command IDs are taken.
ExecuteRaises ==
    /\ xfer.at = "running" /\ xfer.remaining > 0
    /\ xfer' = [xfer EXCEPT !.at = IF Buildable(Command) THEN "raised" ELSE "refused"]
    /\ UNCHANGED <<target, requested, ctrl, queueVars, ns, buffer, late, cuda>>

\* It times out and stays with the target.
ExecuteTimesOut ==
    /\ xfer.at = "running" /\ xfer.remaining > 0
    /\ Buildable(Command) /\ CanSubmit
    /\ late' = late + 1
    /\ xfer' = [xfer EXCEPT !.at = "raised", !.cmds = Append(@, Command)]
    /\ UNCHANGED <<target, requested, ctrl, queueVars, ns, buffer, cuda>>

\* A later poll meets the answer.
LateAnswer ==
    /\ ctrl = "up" /\ late > 0 /\ late' = late - 1
    /\ UNCHANGED <<target, requested, ctrl, queueVars, ns, buffer, xfer, cuda>>

\* flush: one command, which times out.
FlushTimesOut ==
    /\ Up /\ ctrl = "up" /\ ns /\ CanSubmit
    /\ late' = late + 1
    /\ UNCHANGED <<target, requested, ctrl, queueVars, ns, buffer, xfer, cuda>>

\* _transfer returns; a read into GPU memory is flushed first.
Return ==
    /\ xfer.at = "running" /\ xfer.remaining = 0
    /\ xfer' = [xfer EXCEPT !.at = "returned"]
    /\ cuda' = IF xfer.gpu /\ xfer.op = "read" THEN "idle" ELSE cuda
    /\ UNCHANGED <<target, requested, ctrl, queueVars, ns, buffer, late>>

-----------------------------------------------------------------------------
Init ==
    /\ target \in Targets /\ requested \in RequestedDepths
    /\ ctrl = "none" /\ depth = [q \in Queues |-> 0] /\ making = 1
    /\ held = {} /\ temp = {} /\ refusals = 0
    /\ attrs = [q \in Queues |-> {}] /\ live = [q \in Queues |-> {}]
    /\ stuck = [q \in Queues |-> {}]
    /\ ns = FALSE /\ buffer = FALSE /\ late = 0 /\ cuda = "idle"
    /\ xfer = [at |-> "none"]

BringUp ==
    \/ Construct \/ MakeStep \/ MakeFails \/ MakeReturns
    \/ ConnectAdmin \/ GetCap \/ Enable \/ WaitReady \/ Identify \/ SetFeatures \/ ConnectIo
    \/ CommandRaises \/ BufferStays \/ BufferStayed

Transfer ==
    \/ \E op \in {"read", "write"}, gpu \in BOOLEAN, slba \in 0..NsBlocks, off \in Offsets :
          \/ BeginWhole(op, gpu, slba, off)
          \/ \E n \in 0..NsBlocks : Begin(op, gpu, slba, n, off)
    \/ Execute \/ ExecuteRaises \/ ExecuteTimesOut \/ Return

Next ==
    \/ BringUp \/ Transfer \/ FlushTimesOut \/ LateAnswer
    \/ IdentifyNamespace \/ Allocate \/ CloseBuffer \/ LaunchKernel \/ Close

Spec == Init /\ [][Next]_vars

-----------------------------------------------------------------------------
\* Resources of q that are left because of one that the provider refused.
Explained(q) == stuck[q] \cup {r \in Range(CloseOrder) : Above(r) \cap stuck[q] # {}}

\* A constructor that raises leaves nothing behind, wherever it was, but what the
\* provider refused to free in __dealloc__ and what that is built on.  A
\* controller that could not be closed, because a buffer was still open or the
\* provider refused, refers to all that is left, so that another close() can
\* finish; one that was closed has nothing left.
NothingLeftBehind ==
    /\ ctrl = "failed" => held = {} /\ \A q \in Queues : live[q] \subseteq Explained(q)
    /\ ctrl \in {"up", "closed"} => \A q \in Queues :
          live[q] # {} => q \in held /\ live[q] \subseteq attrs[q]

\* An I/O queue that is in use is no deeper than the program, MQES, MAXCMD and
\* this initiator allow, and what can be in flight on it, commands that timed out
\* included, fits the receive queue of the target.
DepthGranted ==
    ctrl \in {"connectIo", "up"} =>
        /\ depth["io"] \in 2..requested
        /\ depth["io"] <= target.limit
        /\ target.maxcmd # 0 => depth["io"] <= target.maxcmd
        /\ late <= target.crq

Limit == IF target.mdts = 0 THEN MaxSgl ELSE PageSize * 2 ^ target.mdts

\* A transfer moves every block of its range once, between its place in the
\* namespace and its place in the buffer, in order; one that fails has moved a
\* prefix.  Each command is within MDTS, and none is refused by the builders half
\* way.  GPU memory is complete when the target reads it, and visible to kernels
\* when a read returns.
TransferExact ==
    LET c == xfer.cmds IN
    xfer.at # "none" =>
        /\ xfer.at # "refused"
        /\ \A i \in DOMAIN c :
              /\ c[i].length <= Limit /\ c[i].length = c[i].count * target.lba
              /\ c[i].lba = IF i = 1 THEN xfer.slba ELSE c[i - 1].lba + c[i - 1].count
              /\ c[i].off = IF i = 1 THEN xfer.start ELSE c[i - 1].off + c[i - 1].length
        /\ xfer.at = "returned" =>
              c # <<>> /\ Last(c).lba + Last(c).count = xfer.slba + xfer.blocks
        /\ ~ xfer.stale
        /\ xfer.at = "returned" /\ xfer.gpu /\ xfer.op = "read" => cuda # "unflushed"
=============================================================================
