----------------------------- MODULE NvmeQueue -----------------------------
(***************************************************************************)
(* RDMAQueue of nvmeof/src/nvmeof/rdma.py: one NVMe/RDMA queue pair.       *)
(* A command is a capsule SEND and a response that the target sends into a *)
(* receive posted beforehand; both end up in one CQ, in either order.  A   *)
(* command is named by its command ID (cid), which is also the slot of its *)
(* capsule in the registered command buffer.                               *)
(*                                                                         *)
(* Requests are numbered in order of submission.  A capsule's content is   *)
(* the number of its request, so that what the target received, and whose  *)
(* response a request was given, can be told apart from the cid they came  *)
(* under.  poll runs completion by completion (pc = "poll", wcs), because  *)
(* the adapter and the target run on between them.  executing is the       *)
(* request that execute waits for: the thread does nothing else meanwhile. *)
(***************************************************************************)
EXTENDS Integers, FiniteSets, SequencesExt

CONSTANTS
    Depth,        \* queue depth; depth - 1 commands may be outstanding
    MaxRequests   \* bound: requests submitted in a behaviour

ASSUME DepthAssumption == Depth \in Nat /\ Depth >= 2 /\ MaxRequests \in Nat \ {0}

VARIABLES
    request,      \* the Request objects, by number
    nreq,         \* how many were submitted
    free,         \* _free
    pending,      \* _pending: cid -> request
    completed,    \* _completed
    closed,       \* _closed
    open,         \* is one of the RDMA objects not None
    pc, wcs, executing,
    commands,     \* command buffer: the capsule in each slot
    responses,    \* response buffer: the response in each slot
    sq, unacked, recvs, cq, qpErr,  \* the adapter
    target,       \* capsules that the target is working on
    received,     \* history: how often the target received each request
    lost          \* history: a poll has raised and dropped completions

queueVars == <<request, nreq, free, pending, completed>>
lifeVars == <<closed, open>>
frameVars == <<pc, wcs, executing>>
hwVars == <<sq, unacked, recvs, cq, qpErr>>
targetVars == <<target, received>>
vars == <<queueVars, lifeVars, frameVars, commands, responses, hwVars, targetVars, lost>>

None == -1
Cids == 0..(Depth - 2)
Slots == 0..(Depth - 1)
Requests == 1..MaxRequests

\* mutant: the CQ is sized for the receives alone.
CqSizeForReceives == Depth
CqSize == 2 * Depth + 1

\* _free at the start: one cid less than the depth.
InitialCids == [i \in 1..(Depth - 1) |-> i - 1]

NewRequest(cid, wait) ==
    [cid |-> cid, wait |-> wait, sent |-> FALSE, response |-> None, done |-> FALSE]

(***************************************************************************)
(* The adapter and the target (external)                                   *)
(***************************************************************************)

SendWC(cid, ok) == [kind |-> "send", index |-> cid, ok |-> ok]
RecvWC(slot, ok) == [kind |-> "recv", index |-> slot, ok |-> ok]

\* A capsule is read from the command buffer and reaches the target.
HwSend ==
    /\ ~qpErr /\ sq # <<>>
    /\ LET cid == Head(sq) IN
        /\ target' = target \cup {[cid |-> cid, req |-> commands[cid]]}
        /\ received' = [received EXCEPT ![commands[cid]] = @ + 1]
    /\ sq' = Tail(sq) /\ unacked' = Append(unacked, Head(sq))
    /\ UNCHANGED <<queueVars, lifeVars, frameVars, commands, responses, recvs, cq,
                   qpErr, lost>>

\* Its SEND is acknowledged; the target may have answered long before.
HwAck ==
    /\ ~qpErr /\ unacked # <<>>
    /\ cq' = Append(cq, SendWC(Head(unacked), TRUE))
    /\ unacked' = Tail(unacked)
    /\ UNCHANGED <<queueVars, lifeVars, frameVars, commands, responses, sq, recvs,
                   qpErr, targetVars, lost>>

\* The target answers a command, in any order, into the oldest receive.
TargetRespond(c) ==
    /\ ~qpErr /\ c \in target /\ recvs # <<>>
    /\ responses' = [responses EXCEPT ![Head(recvs)] = c]
    /\ cq' = Append(cq, RecvWC(Head(recvs), TRUE))
    /\ recvs' = Tail(recvs)
    /\ target' = target \ {c}
    /\ UNCHANGED <<queueVars, lifeVars, frameVars, commands, sq, unacked, qpErr,
                   received, lost>>

\* The connection breaks; from then on everything posted is flushed.
HwBreak ==
    /\ ~qpErr /\ qpErr' = TRUE
    /\ UNCHANGED <<queueVars, lifeVars, frameVars, commands, responses, sq, unacked,
                   recvs, cq, targetVars, lost>>

HwFlush ==
    /\ qpErr
    /\ \/ /\ unacked \o sq # <<>>
          /\ cq' = Append(cq, SendWC(Head(unacked \o sq), FALSE))
          /\ unacked' = Tail(unacked \o sq) /\ sq' = <<>>
          /\ UNCHANGED recvs
       \/ /\ recvs # <<>>
          /\ cq' = Append(cq, RecvWC(Head(recvs), FALSE))
          /\ recvs' = Tail(recvs)
          /\ UNCHANGED <<sq, unacked>>
    /\ UNCHANGED <<queueVars, lifeVars, frameVars, commands, responses, qpErr,
                   targetVars, lost>>

(***************************************************************************)
(* submit and execute                                                      *)
(***************************************************************************)

CanSubmit == pc = "idle" /\ executing = None /\ ~closed /\ free # <<>> /\ nreq < MaxRequests

\* submit; with wait it is the first half of execute.
Submit(wait) ==
    /\ CanSubmit
    /\ LET cid == Head(free) IN
        /\ commands' = [commands EXCEPT ![cid] = nreq + 1]
        /\ request' = [request EXCEPT ![nreq + 1] = NewRequest(cid, wait)]
        /\ pending' = [c \in DOMAIN pending \cup {cid} |->
                        IF c = cid THEN nreq + 1 ELSE pending[c]]
        /\ sq' = Append(sq, cid)
    /\ free' = Tail(free) /\ nreq' = nreq + 1
    /\ executing' = IF wait THEN nreq + 1 ELSE None
    /\ UNCHANGED <<completed, lifeVars, pc, wcs, responses, unacked, recvs, cq, qpErr,
                   targetVars, lost>>

\* mutant: a cid is lost when post_send raises.
SubmitFailsLeaking ==
    /\ CanSubmit
    /\ free' = Tail(free)
    /\ UNCHANGED <<request, nreq, pending, completed, lifeVars, frameVars, commands,
                   responses, hwVars, targetVars, lost>>

\* post_send raises: the cid goes back to the front of _free, but the
\* capsule was written into its slot.
SubmitFails ==
    /\ CanSubmit
    /\ commands' = [commands EXCEPT ![Head(free)] = nreq + 1]
    /\ UNCHANGED <<queueVars, lifeVars, frameVars, responses, hwVars, targetVars, lost>>

(***************************************************************************)
(* poll                                                                    *)
(***************************************************************************)

\* The completions are taken off the CQ as one list.
PollStart(max) ==
    /\ pc = "idle" /\ ~closed
    /\ wcs' = SubSeq(cq, 1, Min({max, Len(cq)}))
    /\ cq' = SubSeq(cq, Min({max, Len(cq)}) + 1, Len(cq))
    /\ pc' = "poll"
    /\ UNCHANGED <<queueVars, lifeVars, executing, commands, responses, sq, unacked,
                   recvs, qpErr, targetVars, lost>>

\* execute returns or raises; its request stays as it is, in _pending too if the
\* target has not answered.
LeaveExecute == executing' = None /\ UNCHANGED request

\* An exception leaves poll, and execute: the rest of the list is lost.
PollRaises ==
    /\ pc' = "idle" /\ wcs' = <<>> /\ lost' = TRUE
    /\ LeaveExecute

\* mutants: only one of the two completions is waited for.
ReadyWhenSent(requests, r) == requests[r].sent
ReadyWhenAnswered(requests, r) == requests[r].response # None

ReadyToFinish(requests, r) == requests[r].sent /\ requests[r].response # None

\* _finish_if_ready, for request r of the requests as just updated.
FinishIfReady(requests, r) ==
    IF ReadyToFinish(requests, r)
    THEN /\ request' = [requests EXCEPT ![r].done = TRUE]
         /\ pending' = [c \in DOMAIN pending \ {requests[r].cid} |-> pending[c]]
         /\ free' = Append(free, requests[r].cid)
         /\ completed' = Append(completed, r)
    ELSE /\ request' = requests
         /\ UNCHANGED <<pending, free, completed>>

\* mutant: a SEND completion that comes last finishes nothing.
HandleSendOnly ==
    /\ pc = "poll" /\ wcs # <<>>
    /\ LET wc == Head(wcs) IN
        /\ wc.kind = "send" /\ wc.ok /\ wc.index \in DOMAIN pending
        /\ request' = [request EXCEPT ![pending[wc.index]].sent = TRUE]
    /\ wcs' = Tail(wcs)
    /\ UNCHANGED <<nreq, free, pending, completed, lifeVars, pc, executing, commands,
                   responses, hwVars, targetVars, lost>>

\* A SEND completion of a command that is pending.
HandleSend ==
    /\ pc = "poll" /\ wcs # <<>>
    /\ LET wc == Head(wcs) IN
        /\ wc.kind = "send" /\ wc.ok /\ wc.index \in DOMAIN pending
        /\ FinishIfReady([request EXCEPT ![pending[wc.index]].sent = TRUE], pending[wc.index])
    /\ wcs' = Tail(wcs)
    /\ UNCHANGED <<nreq, lifeVars, pc, executing, commands, responses, hwVars,
                   targetVars, lost>>

\* mutants: the receive is not posted again, and another slot is.
RepostNothing(slot) == recvs
RepostNextSlot(slot) == Append(recvs, (slot + 1) % Depth)
Repost(slot) == Append(recvs, slot)

\* A response: its receive is posted again before the command is looked up.
HandleRecv ==
    /\ pc = "poll" /\ wcs # <<>>
    /\ LET wc == Head(wcs)
           response == responses[wc.index]
       IN
        /\ wc.kind = "recv" /\ wc.ok
        /\ recvs' = Repost(wc.index)
        /\ response.cid \in DOMAIN pending
        /\ FinishIfReady([request EXCEPT ![pending[response.cid]].response = response.req],
                         pending[response.cid])
    /\ wcs' = Tail(wcs)
    /\ UNCHANGED <<nreq, lifeVars, pc, executing, commands, responses, sq, unacked, cq,
                   qpErr, targetVars, lost>>

\* post_recv raises before the response is looked at.
HandleRecvFails ==
    /\ pc = "poll" /\ wcs # <<>> /\ Head(wcs).kind = "recv" /\ Head(wcs).ok
    /\ PollRaises
    /\ UNCHANGED <<nreq, free, pending, completed, lifeVars, commands, responses, hwVars,
                   targetVars>>

\* A completion with a bad status.  An unknown command ID raises as well, but
\* CompletionsKnown shows that there is none.
HandleBad ==
    /\ pc = "poll" /\ wcs # <<>> /\ ~Head(wcs).ok
    /\ PollRaises
    /\ UNCHANGED <<nreq, free, pending, completed, lifeVars, commands, responses, hwVars,
                   targetVars>>

\* poll returns what was completed since it last returned: to the caller, or
\* to the loop of execute, which drops it.
PollReturn ==
    /\ pc = "poll" /\ wcs = <<>>
    /\ pc' = (IF executing = None THEN "idle" ELSE "waiting")
    /\ completed' = <<>>
    /\ UNCHANGED <<request, nreq, free, pending, lifeVars, wcs, executing, commands,
                   responses, hwVars, targetVars, lost>>

\* execute goes round again,
ExecuteWaits ==
    /\ pc = "waiting" /\ ~request[executing].done
    /\ pc' = "idle"
    /\ UNCHANGED <<queueVars, lifeVars, wcs, executing, commands, responses, hwVars,
                   targetVars, lost>>

\* returns the response,
ExecuteReturns ==
    /\ pc = "waiting" /\ request[executing].done
    /\ pc' = "idle" /\ LeaveExecute
    /\ UNCHANGED <<nreq, free, pending, completed, lifeVars, wcs, commands, responses,
                   hwVars, targetVars, lost>>

\* or gives up, also on a command that has just completed.
ExecuteTimesOut ==
    /\ pc = "waiting"
    /\ pc' = "idle" /\ LeaveExecute
    /\ UNCHANGED <<nreq, free, pending, completed, lifeVars, wcs, commands, responses,
                   hwVars, targetVars, lost>>

(***************************************************************************)
(* close                                                                   *)
(***************************************************************************)

\* Every object is tried in turn; one that fails is kept for the next close,
\* which does nothing when none is left.  What the adapter still holds goes
\* with the QP and the CQ, or nobody polls for it any more.
Close ==
    /\ pc = "idle" /\ executing = None
    /\ ~(closed /\ ~open)
    /\ closed' = TRUE
    /\ open' \in BOOLEAN
    /\ sq' = <<>> /\ unacked' = <<>> /\ recvs' = <<>> /\ cq' = <<>> /\ qpErr' = TRUE
    /\ UNCHANGED <<queueVars, frameVars, commands, responses, targetVars, lost>>

(***************************************************************************)
(* The specification                                                       *)
(***************************************************************************)

Init ==
    /\ request = [r \in Requests |-> NewRequest(None, FALSE)] /\ nreq = 0
    /\ free = InitialCids
    /\ pending = <<>> /\ completed = <<>>
    /\ closed = FALSE /\ open = TRUE
    /\ pc = "idle" /\ wcs = <<>> /\ executing = None
    /\ commands = [c \in Cids |-> None]
    /\ responses = [s \in Slots |-> [cid |-> None, req |-> None]]
    /\ sq = <<>> /\ unacked = <<>> /\ cq = <<>> /\ qpErr = FALSE
    /\ recvs = [i \in 1..Depth |-> i - 1]
    /\ target = {} /\ received = [r \in Requests |-> 0]
    /\ lost = FALSE

Hardware == HwSend \/ HwAck \/ HwBreak \/ HwFlush \/ \E c \in target : TargetRespond(c)
Handle == HandleSend \/ HandleRecv \/ HandleRecvFails \/ HandleBad \/ PollReturn
Execute == ExecuteWaits \/ ExecuteReturns \/ ExecuteTimesOut

Next ==
    \/ \E wait \in BOOLEAN : Submit(wait)
    \/ SubmitFails
    \/ \E max \in {1, CqSize} : PollStart(max)
    \/ Handle
    \/ Execute
    \/ Close
    \/ Hardware

Spec == Init /\ [][Next]_vars

\* The caller keeps polling, the adapter transmits and acknowledges, and the
\* target answers every command it received.
Fairness ==
    /\ WF_vars(PollStart(CqSize) \/ Execute) /\ WF_vars(Handle)
    /\ WF_vars(HwSend) /\ WF_vars(HwAck)
    /\ WF_vars(\E c \in target : TargetRespond(c))

FairSpec == Spec /\ Fairness

(***************************************************************************)
(* Properties                                                              *)
(***************************************************************************)

\* A cid is free or pending, never both and never twice, whatever failed or
\* timed out on the way: the queue neither leaks nor duplicates a cid.
CidsPartitioned ==
    /\ ToSet(free) \cap DOMAIN pending = {}
    /\ ToSet(free) \cup DOMAIN pending = Cids
    /\ Len(free) = Cardinality(ToSet(free))

\* The CQ and the send queue never overflow their sizes; and every command
\* the target has or will get finds a receive posted for its response, and one
\* to spare, even after polls that failed half way: the target is never held
\* up by receiver-not-ready.
QueuesFit ==
    /\ Len(cq) <= CqSize /\ Len(sq) + Len(unacked) <= Depth
    /\ ~qpErr => Cardinality(target) + Len(sq) < Len(recvs)

\* With a target that answers what it was sent, poll never meets a command
\* ID it does not know.
CompletionsKnown ==
    pc = "poll" =>
        \A i \in DOMAIN wcs : wcs[i].ok =>
            CASE wcs[i].kind = "send" -> wcs[i].index \in DOMAIN pending
              [] wcs[i].kind = "recv" -> responses[wcs[i].index].cid \in DOMAIN pending

\* A response waiting in its slot is not overwritten before poll has read it:
\* the slot is not among the posted receives.
ResponseSlotsStable ==
    \A i \in DOMAIN (wcs \o cq) :
        (wcs \o cq)[i].kind = "recv" => (wcs \o cq)[i].index \notin ToSet(recvs)

\* A request that is done was sent to the target exactly once and answered
\* with its own response, also when its cid belonged before to a command that
\* timed out or whose response overtook its SEND completion; on the way poll
\* knows every completion, and reads every response before its slot is reused.
AnsweredByItsOwn ==
    /\ CompletionsKnown
    /\ ResponseSlotsStable
    /\ \A r \in 1..nreq :
        /\ received[r] <= 1
        /\ request[r].response \in {None, r}
        /\ request[r].done => request[r].response = r /\ received[r] = 1

\* Every command submitted is completed while the connection lasts and no
\* poll has failed.
CommandsComplete ==
    \A r \in Requests :
        []<>(nreq >= r => request[r].done \/ qpErr \/ lost)
=============================================================================
