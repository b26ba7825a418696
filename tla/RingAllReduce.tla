--------------------------- MODULE RingAllReduce ---------------------------
(***************************************************************************)
(* The data path of the fault-tolerant all-reduce: _allreduce_tensor on    *)
(* the host and ring_kernel on the GPU of every rank                       *)
(* (experiments/fault_tolerant_allreduce/allreduce.py), over the RC QPs of *)
(* one configured ring.  Rank r writes into the buffers of rank r + 1.     *)
(*                                                                         *)
(* A channel is a CTA of the kernel; thread 0 posts and polls, and the     *)
(* barriers make the other threads wait for it, so a channel is one        *)
(* process.  Its state is the place in the sequence of operations, the     *)
(* phase and step of the schedule, the stride (off), its status and the    *)
(* tickets it waits for.                                                   *)
(*                                                                         *)
(* A buffer holds, for every non-empty piece (slot), the bag of the inputs *)
(* that were added up in it; an input is <<rank, collective>>.  An RDMA    *)
(* write of several packets can place its data before the receiver has     *)
(* posted the receive that its last packet needs (HwWrite); the completion *)
(* comes only with that receive (HwDeliver), and the adapter retries until *)
(* then.                                                                   *)
(***************************************************************************)
EXTENDS RingLayout, Sequences, Bags

CONSTANTS
    World,      \* the number of ranks
    Count,      \* elements of the tensor
    ItemSize,   \* bytes of an element
    NumSms,     \* num_sms, and the number of QPs
    MaxColl,    \* bound: collectives that a rank enters
    Faults      \* {TRUE}, {FALSE} or both: what faults may be

\* _allreduce_tensor refuses a tensor that is empty.  It accepts some for which
\* the Int32 of the kernel wrap around (MCRingLayout); here they do not.
ASSUME RingAssumption ==
    /\ World \in Nat /\ World >= 2 /\ Count \in Nat \ {0} /\ ItemSize \in Nat \ {0}
    /\ NumSms \in Nat \ {0} /\ Fits(Count, NumSms, World) /\ MaxColl \in Nat \ {0} /\ Faults \subseteq BOOLEAN

VARIABLES
    faults,     \* may deadlines expire and groups be aborted
    coll,       \* collectives that each rank has entered
    host,       \* where its host thread is
    outcome,    \* how its last call ended
    failed,     \* _failed
    lanes,      \* are its QPs alive
    tensor,     \* what the last call left in the caller's tensor
    work,       \* work_buffer
    scratch,    \* scratch_buffer
    kernel,     \* the channels of its kernel
    sq,         \* per lane: puts and sends not delivered yet
    sends, acked,    \* per lane: sends posted, sends completed
    recvs, arrived   \* per lane: receives posted, receives completed

hostVars == <<coll, host, outcome, failed, lanes, tensor>>
dataVars == <<work, scratch>>
laneVars == <<sq, sends, acked, recvs, arrived>>
vars == <<faults, hostVars, dataVars, kernel, laneVars>>

Ranks == 0..(World - 1)
After(r) == (r + 1) % World

L == Layout(Count, ItemSize, NumSms)
Channels == 0..(L.active - 1)
Lanes == 0..(NumSms - 1)

\* A channel owns its QP.
Lane(ch) == ch

PieceLen(ch, off, owner) == Piece(L, ch, off, World, owner).len
Slots ==
    UNION {{s \in {ch} \X Offsets(L, ch, World) \X Ranks : PieceLen(s[1], s[2], s[3]) > 0} :
           ch \in Channels}

Input(r, c) == SetToBag({<<r, c>>})
Everywhere(bag) == [s \in Slots |-> bag]

(***************************************************************************)
(* The schedule of the ring                                                *)
(***************************************************************************)

\* send_owner, the same expression in both phases.
SendOwner(r, phase, step) == (r - step + World) % World
\* recv_owner of the reduce-scatter.
RecvOwner(r, step) == (r - step - 1 + 2 * World) % World

\* mutant: a channel posts its receive only after its own send is done.
OrderSendFirst == <<"put", "waitSend", "recv", "waitRecv", "reduce">>
\* What thread 0 does in a step, in order; the reduction is of the
\* reduce-scatter alone.
Order == <<"recv", "put", "waitSend", "waitRecv", "reduce">>

FirstStep(off) == [at |-> 1, phase |-> "rs", step |-> 1, off |-> off]
Position(k) == [at |-> k.at, phase |-> k.phase, step |-> k.step, off |-> k.off]
Ended == [at |-> 0, phase |-> "ag", step |-> 0, off |-> 0]

\* A channel without elements runs no step.
Start(ch) ==
    IF 0 < ChannelCount(L, ch) THEN FirstStep(0) ELSE Ended

\* The position after the last operation of a step.
NextStep(ch, k) ==
    LET off == Int32(k.off + LoopCount(L, World)) IN
    CASE k.phase = "rs" /\ k.step < World - 1 -> [k EXCEPT !.at = 1, !.step = @ + 1]
      [] k.phase = "rs" /\ k.step = World - 1 -> [k EXCEPT !.at = 1, !.phase = "ag", !.step = 0]
      [] k.phase = "ag" /\ k.step < World - 2 -> [k EXCEPT !.at = 1, !.step = @ + 1]
      [] OTHER -> IF off < ChannelCount(L, ch) THEN FirstStep(off) ELSE Ended

\* mutant: the all-gather does not wait for its last operation, the receive.
ForwardUnnotified(ch, k) ==
    IF k.at = (IF k.phase = "rs" THEN Len(Order) ELSE Len(Order) - 2)
    THEN NextStep(ch, k)
    ELSE [k EXCEPT !.at = @ + 1]

\* The position after an operation.
Forward(ch, k) ==
    IF k.at = (IF k.phase = "rs" THEN Len(Order) ELSE Len(Order) - 1)
    THEN NextStep(ch, k)
    ELSE [k EXCEPT !.at = @ + 1]

(***************************************************************************)
(* The channels                                                            *)
(***************************************************************************)

Doing(r, ch) == IF kernel[r][ch].at = 0 THEN "ended" ELSE Order[kernel[r][ch].at]

Channel(pos, status, sendTicket, recvTicket) ==
    [at |-> pos.at, phase |-> pos.phase, step |-> pos.step, off |-> pos.off,
     status |-> status, sendTicket |-> sendTicket, recvTicket |-> recvTicket]

IdleChannel == Channel(Ended, 0, 0, 0)

Step(r, ch, sendTicket, recvTicket) ==
    kernel' = [kernel EXCEPT ![r][ch] =
                    Channel(Forward(ch, Position(@)), 0, sendTicket, recvTicket)]

\* recv_exclusive
PostRecv(r, ch) ==
    LET l == Lane(ch) IN
    /\ Doing(r, ch) = "recv"
    /\ recvs' = [recvs EXCEPT ![r][l] = @ + 1]
    /\ Step(r, ch, kernel[r][ch].sendTicket, recvs[r][l] + 1)
    /\ UNCHANGED <<faults, hostVars, dataVars, sq, sends, acked, arrived>>

\* put_imm_exclusive into the scratch buffer (reduce-scatter) or the work
\* buffer (all-gather) of the next rank; a one-byte send for an empty piece.
Put(r, ch) ==
    LET l == Lane(ch)
        k == kernel[r][ch]
        slot == <<ch, k.off, SendOwner(r, k.phase, k.step)>>
        wqe == [into |-> IF slot \notin Slots THEN "signal"
                         ELSE IF k.phase = "rs" THEN "scratch" ELSE "work",
                slot |-> slot]
    IN  /\ Doing(r, ch) = "put"
        /\ sq' = [sq EXCEPT ![r][l] = Append(@, wqe)]
        /\ sends' = [sends EXCEPT ![r][l] = @ + 1]
        /\ Step(r, ch, sends[r][l] + 1, k.recvTicket)
        /\ UNCHANGED <<faults, hostVars, dataVars, acked, recvs, arrived>>

SendDone(r, ch) == acked[r][Lane(ch)] >= kernel[r][ch].sendTicket

RecvDone(r, ch) == arrived[r][Lane(ch)] >= kernel[r][ch].recvTicket

\* wait_send_until_exclusive and wait_recv_until_exclusive, when they return 0.
Waited(r, ch) ==
    /\ \/ Doing(r, ch) = "waitSend" /\ SendDone(r, ch)
       \/ Doing(r, ch) = "waitRecv" /\ RecvDone(r, ch)
    /\ Step(r, ch, kernel[r][ch].sendTicket, kernel[r][ch].recvTicket)
    /\ UNCHANGED <<faults, hostVars, dataVars, laneVars>>

\* mutant: the deadline is not looked at while waiting for the notification.
ChecksDeadlineOfSend(r, ch) == Doing(r, ch) = "waitSend"
ChecksDeadline(r, ch) == Doing(r, ch) \in {"waitSend", "waitRecv"}

\* The rest of the kernel does nothing for a channel with a status.
Stopped(k) == [k EXCEPT !.at = 0, !.status = -110]

\* A wait returns non-zero: the deadline has passed (-110), or a completion
\* with an error was polled.  What was posted stays posted.
WaitFails(r, ch) ==
    /\ faults /\ ChecksDeadline(r, ch)
    /\ kernel' = [kernel EXCEPT ![r][ch] = Stopped(@)]
    /\ UNCHANGED <<faults, hostVars, dataVars, laneVars>>

\* fence_acquire and reduce_volatile; an empty piece changes nothing.
Reduce(r, ch) ==
    LET k == kernel[r][ch]
        slot == <<ch, k.off, RecvOwner(r, k.step)>>
    IN  /\ Doing(r, ch) = "reduce"
        /\ work' = IF slot \in Slots
                   THEN [work EXCEPT ![r][slot] = @ (+) scratch[r][slot]]
                   ELSE work
        /\ Step(r, ch, k.sendTicket, k.recvTicket)
        /\ UNCHANGED <<faults, hostVars, scratch, laneVars>>

(***************************************************************************)
(* _allreduce_tensor and abort                                             *)
(***************************************************************************)

\* The checks, and the copy of the tensor into the work buffer.
Enter(r) ==
    /\ host[r] = "idle" /\ ~failed[r] /\ coll[r] < MaxColl
    /\ coll' = [coll EXCEPT ![r] = @ + 1]
    /\ host' = [host EXCEPT ![r] = "copied"]
    /\ outcome' = [outcome EXCEPT ![r] = "none"]
    /\ tensor' = [tensor EXCEPT ![r] = Everywhere(Input(r, coll[r] + 1))]
    /\ work' = [work EXCEPT ![r] = Everywhere(Input(r, coll[r] + 1))]
    /\ UNCHANGED <<faults, failed, lanes, scratch, kernel, laneVars>>

\* status.zero() and the launch.
Launch(r) ==
    /\ host[r] = "copied"
    /\ host' = [host EXCEPT ![r] = "kernel"]
    /\ kernel' = [kernel EXCEPT ![r] = [ch \in Channels |-> Channel(Start(ch), 0, 0, 0)]]
    /\ UNCHANGED <<faults, coll, outcome, failed, lanes, tensor, dataVars, laneVars>>

\* mutant: the host does not wait for the kernel.
KernelLaunched(r) == host[r] = "kernel"
\* synchronize() returns when every channel has ended.
KernelEnded(r) == host[r] = "kernel" /\ \A ch \in Channels : kernel[r][ch].at = 0

\* mutant: only the status of channel 0 is looked at.
StatusOfFirst(r) == kernel[r][0].status = 0
StatusesOk(r) == \A ch \in Channels : kernel[r][ch].status = 0

\* No status is set and no deadline has passed: the sum is copied out.
Return(r) ==
    /\ KernelEnded(r) /\ StatusesOk(r)
    /\ host' = [host EXCEPT ![r] = "idle"]
    /\ outcome' = [outcome EXCEPT ![r] = "ok"]
    /\ tensor' = [tensor EXCEPT ![r] = work[r]]
    /\ UNCHANGED <<faults, coll, failed, lanes, dataVars, kernel, laneVars>>

\* A status is set, or _check_deadline raises: after the first copy, before
\* the launch, after the kernel, or after the tensor was written.
Raise(r) ==
    /\ \/ host[r] = "copied" /\ faults /\ UNCHANGED tensor
       \/ KernelEnded(r) /\ ~StatusesOk(r) /\ UNCHANGED tensor
       \/ /\ KernelEnded(r) /\ StatusesOk(r) /\ faults
          /\ \/ UNCHANGED tensor
             \/ tensor' = [tensor EXCEPT ![r] = work[r]]
    /\ host' = [host EXCEPT ![r] = "idle"]
    /\ outcome' = [outcome EXCEPT ![r] = "raised"]
    /\ failed' = [failed EXCEPT ![r] = TRUE]
    /\ UNCHANGED <<faults, coll, lanes, dataVars, kernel, laneVars>>

\* abort between two calls: the QPs are destroyed with what is posted on them.
Abort(r) ==
    /\ faults /\ host[r] = "idle" /\ lanes[r]
    /\ lanes' = [lanes EXCEPT ![r] = FALSE]
    /\ failed' = [failed EXCEPT ![r] = TRUE]
    /\ sq' = [sq EXCEPT ![r] = [l \in Lanes |-> <<>>]]
    /\ UNCHANGED <<faults, coll, host, outcome, tensor, dataVars, kernel, sends, acked, recvs,
                   arrived>>

(***************************************************************************)
(* The adapters (external)                                                 *)
(***************************************************************************)

\* The data of a write is placed, read now from the sender's work buffer.
Placed(r, wqe) ==
    CASE wqe.into = "scratch" ->
            /\ scratch' = [scratch EXCEPT ![After(r)][wqe.slot] = work[r][wqe.slot]]
            /\ UNCHANGED work
      [] wqe.into = "work" ->
            /\ work' = [work EXCEPT ![After(r)][wqe.slot] = work[r][wqe.slot]]
            /\ UNCHANGED scratch
      [] OTHER -> UNCHANGED dataVars

Connected(r, l) == lanes[r] /\ lanes[After(r)] /\ sq[r][l] # <<>>

HwWrite(r, l) ==
    /\ Connected(r, l) /\ Head(sq[r][l]).into # "signal"
    /\ Placed(r, Head(sq[r][l]))
    /\ UNCHANGED <<faults, hostVars, kernel, laneVars>>

HwDeliver(r, l) ==
    /\ Connected(r, l) /\ recvs[After(r)][l] > arrived[After(r)][l]
    /\ Placed(r, Head(sq[r][l]))
    /\ sq' = [sq EXCEPT ![r][l] = Tail(@)]
    /\ arrived' = [arrived EXCEPT ![After(r)][l] = @ + 1]
    /\ UNCHANGED <<faults, hostVars, kernel, sends, acked, recvs>>

\* The sender learns later that its write was delivered.
HwAck(r, l) ==
    /\ lanes[r] /\ acked[r][l] < sends[r][l] - Len(sq[r][l])
    /\ acked' = [acked EXCEPT ![r][l] = @ + 1]
    /\ UNCHANGED <<faults, hostVars, dataVars, kernel, sq, sends, recvs, arrived>>

Hardware(r, l) == HwWrite(r, l) \/ HwDeliver(r, l) \/ HwAck(r, l)

(***************************************************************************)
(* The specification                                                       *)
(***************************************************************************)

Init ==
    /\ faults \in Faults
    /\ coll = [r \in Ranks |-> 0]
    /\ host = [r \in Ranks |-> "idle"]
    /\ outcome = [r \in Ranks |-> "none"]
    /\ failed = [r \in Ranks |-> FALSE]
    /\ lanes = [r \in Ranks |-> TRUE]
    /\ tensor = [r \in Ranks |-> Everywhere(EmptyBag)]
    /\ work = [r \in Ranks |-> Everywhere(EmptyBag)]
    /\ scratch = [r \in Ranks |-> Everywhere(EmptyBag)]
    /\ kernel = [r \in Ranks |-> [ch \in Channels |-> IdleChannel]]
    /\ sq = [r \in Ranks |-> [l \in Lanes |-> <<>>]]
    /\ sends = [r \in Ranks |-> [l \in Lanes |-> 0]]
    /\ acked = [r \in Ranks |-> [l \in Lanes |-> 0]]
    /\ recvs = [r \in Ranks |-> [l \in Lanes |-> 0]]
    /\ arrived = [r \in Ranks |-> [l \in Lanes |-> 0]]

HostStep(r) == Enter(r) \/ Launch(r) \/ Return(r) \/ Raise(r)
ChannelStep(r, ch) ==
    PostRecv(r, ch) \/ Put(r, ch) \/ Waited(r, ch) \/ WaitFails(r, ch) \/ Reduce(r, ch)

Done == \A r \in Ranks : host[r] = "idle" /\ (failed[r] \/ coll[r] = MaxColl)

\* After the last call nothing happens.
Finished == Done /\ UNCHANGED vars

Next ==
    \/ \E r \in Ranks : HostStep(r) \/ Abort(r)
    \/ \E r \in Ranks, ch \in Channels : ChannelStep(r, ch)
    \/ \E r \in Ranks, l \in Lanes : Hardware(r, l)
    \/ Finished

Spec == Init /\ [][Next]_vars

\* The host threads and the CTAs, which are all resident, keep running, a
\* deadline passes some day, and the adapters carry out what can be
\* delivered; nobody has to abort.
FairSpec ==
    /\ Spec
    /\ \A r \in Ranks : WF_vars(HostStep(r))
    /\ \A r \in Ranks, ch \in Channels : WF_vars(ChannelStep(r, ch))
    /\ \A r \in Ranks, l \in Lanes : WF_vars(HwDeliver(r, l)) /\ WF_vars(HwAck(r, l))

(***************************************************************************)
(* Properties                                                              *)
(***************************************************************************)

\* A rank whose last call returned keeps its result in the work buffer until
\* its next call: a tensor that lives in the work buffer itself, which
\* _allreduce_tensor does not copy, is not written by a rank that is behind
\* or already in the next collective.
ResultStable ==
    \A r \in Ranks :
        host[r] = "idle" /\ outcome[r] = "ok" => work[r] = tensor[r]

\* The inputs in a tensor, if every element has each of them once and the
\* same ones.
Inputs(t) ==
    LET some == CHOOSE s \in Slots : TRUE
    IN  IF t = Everywhere(SetToBag(DOMAIN t[some])) THEN DOMAIN t[some] ELSE {}

Promise == INSTANCE AllReduce WITH
    inside <- [r \in Ranks |-> host[r] # "idle"],
    summed <- [r \in Ranks |-> IF outcome[r] = "ok" THEN Inputs(tensor[r]) ELSE {}]

\* A call returns only the complete sum, each input once, after every rank
\* has entered the collective, also while other ranks time out, raise or
\* abort; a call that raises fails the group on its rank.
ImplementsAllReduce == Promise!Spec

\* Without faults all ranks get through all their collectives: posting the
\* receive before the own put keeps the ring from waiting in a circle.
AllSucceed ==
    ~faults ~> \A r \in Ranks : coll[r] = MaxColl /\ host[r] = "idle" /\ outcome[r] = "ok"

\* Every call returns or raises, even when a neighbour has died: both waits
\* of the kernel end at the deadline.
CallsReturn == \A r \in Ranks : []<>(host[r] = "idle")

=============================================================================
