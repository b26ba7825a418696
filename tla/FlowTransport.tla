--------------------------- MODULE FlowTransport ---------------------------
(***************************************************************************)
(* experiments/tcp_multiflow/transport.py: TensorSender.send cuts a tensor *)
(* over several TCP connections, TensorReceiver.receive_into puts it       *)
(* together again, and transfer_tensor_local runs one of each.  In thread  *)
(* mode a flow carries a fixed part of the tensor; in process mode worker  *)
(* processes take stripes from a shared counter and stage what they        *)
(* receive.                                                                *)
(*                                                                         *)
(* The receiver belongs to transfer_tensor_local, and so does the sender   *)
(* "local".  A second sender, "rival", may connect to the same ports: the  *)
(* receiver cannot tell who connects until it has read a header.  Data     *)
(* moves in units (chunk_bytes); a stream is what the kernels hold, and    *)
(* takes data until it is full or the other end is gone.  A worker process *)
(* may be killed by the system at any point; "asleep" is one that was      *)
(* killed while it slept at a barrier or an event of multiprocessing, or   *)
(* held the lock of it.  Notifying waits until every sleeper has woken up, *)
(* so whoever notifies then, and whoever comes after, waits for ever.      *)
(***************************************************************************)
EXTENDS Integers, SequencesExt, FiniteSetsExt

CONSTANTS
    NFlows,       \* flows
    NUnits,       \* the size of the local sender's and the receiver's tensor
    StripeUnits,  \* stripe_bytes
    BufferUnits,  \* what the kernels hold of a stream
    Scenarios,    \* worker_mode, iterations, the size of the rival's tensor (0: no
                  \* rival), and whether timeouts, failing calls and kills happen
    MaxKills,     \* bound: workers killed in a behaviour
    None

ASSUME FlowAssumption ==
    /\ {NFlows, NUnits, StripeUnits, BufferUnits} \subseteq Nat \ {0}
    /\ NFlows <= NUnits /\ MaxKills \in Nat
    /\ Scenarios \subseteq [mode : {"thread", "process"}, iterations : Nat \ {0},
                           rival : Nat, faults : BOOLEAN]
    /\ \A sc \in Scenarios : sc.rival # 0 => sc.faults /\ NFlows <= sc.rival
    /\ None \notin 0..(NFlows - 1) /\ None \notin {"local", "rival"}

Senders == {"local", "rival"}
Flows == 0..(NFlows - 1)
Ended == {"done", "failed", "killed", "asleep"}

VARIABLES
    scenario,
    (* send(), one per sender *)
    send,       \* its caller: at, broken (the barrier), next (next_task), owner
                \* (of next_task's lock), read (result pipes it has read)
    tx,         \* its flows: at, todo (the header and units still to be sent),
                \* task (the value read from next_task), took (tasks so far)
    (* connections *)
    conn,       \* sock (the sender's end), peer (the receiver's), stream (what
                \* was sent and not received)
    queue,      \* connections that a listener has not accepted
    listening,  \* listeners that are open
    (* receive_into() *)
    recv,       \* where its caller is
    ready,      \* ready_event
    rread,      \* result pipes that it has read
    rx,         \* its flows: at, from (the sender accepted), tid (transfer_id),
                \* part and left (where the part or stripe in hand starts, and
                \* units of it still to come), staged, got (received_bytes),
                \* seen (locally_seen)
    placed,     \* placed
    powner,     \* the flow that holds placed's lock
    dest,       \* the destination: whose unit is where
    (* transfer_tensor_local() *)
    local,
    kills

netVars == <<conn, queue, listening>>
recvVars == <<recv, ready, rread, rx, placed, powner, dest>>
vars == <<scenario, send, tx, netVars, recvVars, local, kills>>

Threads == scenario.mode = "thread"
Faults == scenario.faults
Iterations == scenario.iterations
Size(s) == IF s = "local" THEN NUnits ELSE scenario.rival

\* mutant: every part is rounded up.
PartitionUp(n, f) == <<(n * f + NFlows - 1) \div NFlows, (n * (f + 1)) \div NFlows>>
\* _partitions
Partition(n, f) == <<(n * f) \div NFlows, (n * (f + 1)) \div NFlows>>
PartStart(n, f) == Partition(n, f)[1]
PartLen(n, f) == Partition(n, f)[2] - Partition(n, f)[1]

\* Stripes of a tensor, and the tasks that next_task counts.
StripeCount(n) == (n + StripeUnits - 1) \div StripeUnits
StripeLen(n, k) == Min({StripeUnits, n - k * StripeUnits})
TaskCount(s) == StripeCount(Size(s)) * Iterations

Header(kind, s, f, off, n) ==
    [kind |-> kind, id |-> s, flow |-> f, total |-> Size(s), off |-> off, n |-> n]
Unit(s, u) == [kind |-> "unit", id |-> s, off |-> u]

\* What _send_flow sends: one header, then its part, again and again.
StaticItems(s, f) ==
    LET lo == PartStart(Size(s), f)
        n == PartLen(Size(s), f)
    IN  <<Header("magic", s, f, lo, n)>> \o
            [i \in 1..(Iterations * n) |-> Unit(s, lo + ((i - 1) % n))]

\* What _send_dynamic_flow sends for a task: a stripe, or the terminator.
TaskItems(s, f, t) ==
    IF t >= TaskCount(s)
    THEN <<Header("done", s, f, 0, 0)>>
    ELSE LET k == t % StripeCount(Size(s))
             n == StripeLen(Size(s), k)
         IN  <<Header("magic", s, f, k * StripeUnits, n)>> \o
                 [i \in 1..n |-> Unit(s, k * StripeUnits + i - 1)]

-----------------------------------------------------------------------------
(* TensorSender *)

\* mutant: a flow that fails leaves its connection open.
EndTxOpen(s, f, how) ==
    /\ tx' = [tx EXCEPT ![s][f].at = how]
    /\ conn' = [conn EXCEPT ![s][f].sock = IF how = "done" THEN "closed" ELSE @]
\* A flow ends; its socket is closed.
EndTx(s, f, how) ==
    /\ tx' = [tx EXCEPT ![s][f].at = how]
    /\ conn' = [conn EXCEPT ![s][f].sock = IF @ = "open" THEN "closed" ELSE @]

\* send() starts a worker for each flow.
StartSend(s) ==
    /\ send[s].at = "idle"
    /\ IF s = "local" THEN local = "send" ELSE scenario.rival > 0
    /\ send' = [send EXCEPT ![s].at = "barrier"]
    /\ tx' = [tx EXCEPT ![s] = [f \in Flows |-> [@[f] EXCEPT !.at = "connect"]]]
    /\ UNCHANGED <<scenario, netVars, recvVars, local, kills>>

\* connect() needs a listener with room in its backlog: listen(1) queues two.
Connect(s, f) ==
    /\ tx[s][f].at = "connect"
    /\ f < listening /\ Len(queue[f]) < 2
    /\ tx' = [tx EXCEPT ![s][f].at = "barrier"]
    /\ conn' = [conn EXCEPT ![s][f].sock = "open", ![s][f].peer = "backlog"]
    /\ queue' = [queue EXCEPT ![f] = Append(@, s)]
    /\ UNCHANGED <<scenario, send, listening, recvVars, local, kills>>

\* Nobody listens, or the timeout is over.
ConnectFails(s, f) ==
    /\ tx[s][f].at = "connect"
    /\ f >= listening \/ Faults
    /\ EndTx(s, f, "failed")
    /\ UNCHANGED <<scenario, send, queue, listening, recvVars, local, kills>>

\* A worker was killed asleep.
Slept(s) == \E f \in Flows : tx[s][f].at = "asleep"

\* All flows are connected and the caller is there as well.
BarrierTrips(s) ==
    /\ send[s].at = "barrier" /\ ~send[s].broken
    /\ \A f \in Flows : tx[s][f].at = "barrier"
    /\ send' = [send EXCEPT ![s].at = "released"]
    /\ tx' = [tx EXCEPT ![s] = [f \in Flows |-> [@[f] EXCEPT !.at = "go"]]]
    /\ UNCHANGED <<scenario, netVars, recvVars, local, kills>>

\* ready.wait runs into its timeout, for the caller or for a flow; all who
\* sleep at the barrier are woken.
BarrierBreaks(s) ==
    /\ Faults /\ send[s].at = "barrier" /\ ~send[s].broken /\ ~Slept(s)
    /\ send' = [send EXCEPT ![s].broken = TRUE]
    /\ UNCHANGED <<scenario, tx, netVars, recvVars, local, kills>>

\* BrokenBarrierError in a flow.
BarrierRaises(s, f) ==
    /\ tx[s][f].at = "barrier" /\ send[s].broken /\ ~Slept(s)
    /\ EndTx(s, f, "failed")
    /\ UNCHANGED <<scenario, send, queue, listening, recvVars, local, kills>>

\* The finally of _send_processes: workers that are left are terminated.
TerminateWorkers(s) ==
    /\ send' = [send EXCEPT ![s].at = "failed"]
    /\ tx' = [tx EXCEPT ![s] = [f \in Flows |->
            [@[f] EXCEPT !.at = IF tx[s][f].at \in Ended THEN tx[s][f].at ELSE "killed"]]]
    /\ conn' = [conn EXCEPT ![s] = [f \in Flows |->
            [@[f] EXCEPT !.sock = IF conn[s][f].sock = "open" THEN "closed" ELSE conn[s][f].sock]]]

\* BrokenBarrierError in the caller; the thread pool is waited for.
SendRaises(s) ==
    /\ send[s].at = "barrier" /\ send[s].broken /\ ~Slept(s)
    /\ IF Threads
       THEN send' = [send EXCEPT ![s].at = "failing"] /\ UNCHANGED <<tx, conn>>
       ELSE TerminateWorkers(s)
    /\ UNCHANGED <<scenario, queue, listening, recvVars, local, kills>>

\* go.set wakes all who sleep in go.wait.
SetGo(s) ==
    /\ send[s].at = "released" /\ ~Slept(s)
    /\ send' = [send EXCEPT ![s].at = "collect"]
    /\ UNCHANGED <<scenario, tx, netVars, recvVars, local, kills>>

\* go.wait, without a timeout
Go(s, f) ==
    /\ tx[s][f].at = "go" /\ send[s].at = "collect" /\ ~Slept(s)
    /\ tx' = IF Threads
             THEN [tx EXCEPT ![s][f].at = "send", ![s][f].todo = StaticItems(s, f)]
             ELSE [tx EXCEPT ![s][f].at = "lock"]
    /\ UNCHANGED <<scenario, send, netVars, recvVars, local, kills>>

\* mutant: the lock is not waited for.
LockTaskAnyway(s, f) ==
    /\ tx[s][f].at = "lock"
    /\ send' = [send EXCEPT ![s].owner = f]
    /\ tx' = [tx EXCEPT ![s][f].at = "fetch", ![s][f].task = send[s].next]
    /\ UNCHANGED <<scenario, netVars, recvVars, local, kills>>
\* The counter is read with its lock ...
LockTask(s, f) ==
    /\ tx[s][f].at = "lock" /\ send[s].owner = None
    /\ send' = [send EXCEPT ![s].owner = f]
    /\ tx' = [tx EXCEPT ![s][f].at = "fetch", ![s][f].task = send[s].next]
    /\ UNCHANGED <<scenario, netVars, recvVars, local, kills>>

\* ... and counted on.
FetchTask(s, f) ==
    LET t == tx[s][f].task IN
    /\ tx[s][f].at = "fetch"
    /\ send' = [send EXCEPT ![s].next = t + 1, ![s].owner = None]
    /\ tx' = [tx EXCEPT ![s][f].at = "send", ![s][f].took = @ \cup {t},
                        ![s][f].todo = TaskItems(s, f, t)]
    /\ UNCHANGED <<scenario, netVars, recvVars, local, kills>>

\* sendall of the next piece; it is lost if the other end is gone.  After the
\* last piece the flow ends, or takes the next task.
SendItem(s, f) ==
    LET item == Head(tx[s][f].todo)
        last == Len(tx[s][f].todo) = 1
        ends == last /\ (Threads \/ item.kind = "done")
        gone == conn[s][f].peer = "closed"
    IN
    /\ tx[s][f].at = "send"
    /\ gone \/ Len(conn[s][f].stream) < BufferUnits
    /\ tx' = [tx EXCEPT ![s][f].todo = Tail(@),
                        ![s][f].at = IF ends THEN "done" ELSE IF last THEN "lock" ELSE @]
    /\ conn' = [conn EXCEPT ![s][f].stream = IF gone THEN @ ELSE Append(@, item),
                            ![s][f].sock = IF ends THEN "closed" ELSE @]
    /\ UNCHANGED <<scenario, send, queue, listening, recvVars, local, kills>>

\* sendall meets a reset.
SendFails(s, f) ==
    /\ tx[s][f].at = "send" /\ conn[s][f].peer = "closed"
    /\ EndTx(s, f, "failed")
    /\ UNCHANGED <<scenario, send, queue, listening, recvVars, local, kills>>

\* The caller has the outcomes of all threads.
CollectThreads(s) ==
    /\ Threads /\ send[s].at \in {"collect", "failing"}
    /\ \A f \in Flows : tx[s][f].at \in Ended
    /\ send' = [send EXCEPT ![s].at =
            IF @ = "collect" /\ \A f \in Flows : tx[s][f].at = "done" THEN "ok" ELSE "failed"]
    /\ UNCHANGED <<scenario, tx, netVars, recvVars, local, kills>>

\* reader.recv, in the order of the flows: EOFError from a worker that died.
CollectMessage(s) ==
    LET from == tx[s][send[s].read].at IN
    /\ ~Threads /\ send[s].at = "collect" /\ send[s].read < NFlows
    /\ from \in Ended
    /\ IF from \in {"killed", "asleep"} THEN TerminateWorkers(s)
       ELSE send' = [send EXCEPT ![s].read = @ + 1] /\ UNCHANGED <<tx, conn>>
    /\ UNCHANGED <<scenario, queue, listening, recvVars, local, kills>>

\* The sum of sent_bytes.
SentUnits(s) ==
    MapThenSumSet(LAMBDA f : MapThenSumSet(
        LAMBDA t : StripeLen(Size(s), t % StripeCount(Size(s))),
        {t \in tx[s][f].took : t < TaskCount(s)}), Flows)

CollectEnd(s) ==
    /\ ~Threads /\ send[s].at = "collect" /\ send[s].read = NFlows
    /\ send' = [send EXCEPT ![s].at =
            IF (\A f \in Flows : tx[s][f].at = "done") /\ SentUnits(s) = Size(s) * Iterations
            THEN "ok" ELSE "failed"]
    /\ UNCHANGED <<scenario, tx, netVars, recvVars, local, kills>>

\* A worker process is killed; it keeps the lock of the counter, and its place
\* among the sleepers of the barrier or of the event.
KillWorker(s, f) ==
    /\ Faults /\ ~Threads /\ kills < MaxKills
    /\ tx[s][f].at \notin Ended \cup {"idle"}
    /\ \/ EndTx(s, f, "killed")
       \/ tx[s][f].at \in {"barrier", "go"} /\ EndTx(s, f, "asleep")
    /\ kills' = kills + 1
    /\ UNCHANGED <<scenario, send, queue, listening, recvVars, local>>

-----------------------------------------------------------------------------
(* TensorReceiver *)

\* receive_into returns or raises: the listeners are closed and what nobody
\* accepted is reset; processes that are left are terminated.
EndReceive(result) ==
    LET stopped == {f \in Flows : rx[f].at \notin Ended \cup {"idle"}} IN
    /\ recv' = result
    /\ ready' = TRUE
    /\ listening' = 0
    /\ queue' = [f \in Flows |-> <<>>]
    /\ rx' = [f \in Flows |-> [rx[f] EXCEPT !.at = IF f \in stopped THEN "killed" ELSE @]]
    /\ conn' = [s \in Senders |-> [f \in Flows |-> [conn[s][f] EXCEPT !.peer =
            IF @ = "backlog" \/ (f \in stopped /\ rx[f].from = s) THEN "closed" ELSE @]]]

Listen ==
    /\ recv = "listen" /\ listening < NFlows
    /\ listening' = listening + 1
    /\ UNCHANGED <<scenario, send, tx, conn, queue, recvVars, local, kills>>

\* bind fails half way, or the barrier of the worker processes breaks; all who
\* sleep at it are woken.
ReceiveRaises ==
    /\ Faults
    /\ \/ recv = "prepare" /\ \A f \in Flows : rx[f].at # "asleep"
       \/ recv = "listen" /\ listening < NFlows
    /\ EndReceive("failed")
    /\ UNCHANGED <<scenario, send, tx, rread, placed, powner, dest, local, kills>>

\* The threads are started, or the processes, which meet at a barrier first.
StartReceive ==
    /\ recv = "listen" /\ listening = NFlows
    /\ recv' = IF Threads THEN "collect" ELSE "prepare"
    /\ rx' = [f \in Flows |-> [rx[f] EXCEPT !.at = IF Threads THEN "accept" ELSE "prepare"]]
    /\ ready' = Threads
    /\ UNCHANGED <<scenario, send, tx, netVars, rread, placed, powner, dest, local, kills>>

\* prepared.wait
PreparedTrips ==
    /\ recv = "prepare"
    /\ \A f \in Flows : rx[f].at = "prepare"
    /\ recv' = "collect" /\ ready' = TRUE
    /\ rx' = [f \in Flows |-> [rx[f] EXCEPT !.at = "accept"]]
    /\ UNCHANGED <<scenario, send, tx, netVars, rread, placed, powner, dest, local, kills>>

\* A flow ends, with a last change to its record; its connection is closed.
EndRx(f, how, last) ==
    /\ rx' = [rx EXCEPT ![f] = [last EXCEPT !.at = how]]
    /\ conn' = IF last.from = None THEN conn
               ELSE [conn EXCEPT ![last.from][f].peer = "closed"]

Accept(f) ==
    LET s == Head(queue[f]) IN
    /\ rx[f].at = "accept" /\ queue[f] # <<>>
    /\ rx' = [rx EXCEPT ![f].at = "header", ![f].from = s]
    /\ conn' = [conn EXCEPT ![s][f].peer = "accepted"]
    /\ queue' = [queue EXCEPT ![f] = Tail(@)]
    /\ UNCHANGED <<scenario, send, tx, listening, recv, ready, rread, placed, powner, dest, local, kills>>

AcceptTimesOut(f) ==
    /\ Faults /\ rx[f].at = "accept" /\ queue[f] = <<>>
    /\ EndRx(f, "failed", rx[f])
    /\ UNCHANGED <<scenario, send, tx, queue, listening, recv, ready, rread, placed, powner, dest, local, kills>>

Incoming(f) == conn[rx[f].from][f].stream
Consumed(f) == [conn EXCEPT ![rx[f].from][f].stream = Tail(@)]
ConsumedLast(f) == [conn EXCEPT ![rx[f].from][f].stream = Tail(@), ![rx[f].from][f].peer = "closed"]

\* The header that _receive_flow expects.
StaticHeaderOk(f, h) ==
    /\ h.kind = "magic" /\ h.flow = f /\ h.total = NUnits
    /\ h.off = PartStart(NUnits, f) /\ h.n = PartLen(NUnits, f)

\* The headers that _receive_dynamic_flow goes on with.
DynamicHeaderOk(f, h) ==
    /\ h.flow = f /\ h.total = NUnits /\ rx[f].tid \in {None, h.id}
    /\ \/ h.kind = "done" /\ h.off = 0 /\ h.n = 0
       \/ /\ h.kind = "magic" /\ h.off % StripeUnits = 0
          /\ h.n = Min({StripeUnits, h.total - h.off}) /\ h.n > 0

HeaderOk(f, h) == IF Threads THEN StaticHeaderOk(f, h) ELSE DynamicHeaderOk(f, h)

\* A header, or the terminator, after which the flow is done.
ReadHeader(f) ==
    LET h == Head(Incoming(f))
        more == HeaderOk(f, h) /\ h.kind = "magic"
    IN
    /\ rx[f].at = "header" /\ Incoming(f) # <<>>
    /\ rx' = [rx EXCEPT ![f].at = IF more THEN "data" ELSE IF HeaderOk(f, h) THEN "done" ELSE "failed",
                        ![f].tid = IF HeaderOk(f, h) THEN h.id ELSE @,
                        ![f].part = h.off,
                        ![f].left = IF Threads THEN h.n * Iterations ELSE h.n,
                        ![f].staged = <<>>]
    /\ conn' = IF more THEN Consumed(f) ELSE ConsumedLast(f)
    /\ UNCHANGED <<scenario, send, tx, queue, listening, recv, ready, rread, placed, powner, dest, local, kills>>

\* recv_into the destination: the parts of the iterations are written over
\* each other.
ReadStatic(f) ==
    LET n == PartLen(NUnits, f)
        u == Head(Incoming(f))
        done == rx[f].left = 1
    IN
    /\ Threads /\ rx[f].at = "data" /\ Incoming(f) # <<>>
    /\ dest' = [dest EXCEPT ![rx[f].part + ((n * Iterations - rx[f].left) % n)] = <<u.id, u.off>>]
    /\ rx' = [rx EXCEPT ![f].left = @ - 1, ![f].got = @ + 1, ![f].at = IF done THEN "done" ELSE @]
    /\ conn' = IF done THEN ConsumedLast(f) ELSE Consumed(f)
    /\ UNCHANGED <<scenario, send, tx, queue, listening, recv, ready, rread, placed, powner, local, kills>>

Stripe(f) == rx[f].part \div StripeUnits

\* recv_into staging; a stripe that this flow has met before is dropped.
ReadDynamic(f) ==
    LET u == Head(Incoming(f))
        done == rx[f].left = 1
    IN
    /\ ~Threads /\ rx[f].at = "data" /\ Incoming(f) # <<>>
    /\ rx' = [rx EXCEPT ![f].left = @ - 1,
                        ![f].staged = Append(@, <<u.id, u.off>>),
                        ![f].got = IF done THEN @ + Len(rx[f].staged) + 1 ELSE @,
                        ![f].at = IF ~done THEN @ ELSE IF Stripe(f) \in rx[f].seen THEN "header" ELSE "lock"]
    /\ conn' = Consumed(f)
    /\ UNCHANGED <<scenario, send, tx, queue, listening, recv, ready, rread, placed, powner, dest, local, kills>>

\* The peer has closed the connection too early.
PeerClosed(f) ==
    /\ rx[f].at \in {"header", "data"} /\ Incoming(f) = <<>>
    /\ conn[rx[f].from][f].sock = "closed"
    /\ EndRx(f, "failed", rx[f])
    /\ UNCHANGED <<scenario, send, tx, queue, listening, recv, ready, rread, placed, powner, dest, local, kills>>

LockPlaced(f) ==
    /\ rx[f].at = "lock" /\ powner = None
    /\ powner' = f
    /\ rx' = [rx EXCEPT ![f].at = "place", ![f].seen = @ \cup {Stripe(f)}]
    /\ UNCHANGED <<scenario, send, tx, netVars, recv, ready, rread, placed, dest, local, kills>>

\* placed[stripe] is set before the stripe is copied.
Place(f) ==
    /\ rx[f].at = "place"
    /\ placed' = placed \cup {Stripe(f)}
    /\ powner' = None
    /\ rx' = [rx EXCEPT ![f].at = IF Stripe(f) \in placed THEN "header" ELSE "copy"]
    /\ UNCHANGED <<scenario, send, tx, netVars, recv, ready, rread, dest, local, kills>>

Copy(f) ==
    LET lo == rx[f].part IN
    /\ rx[f].at = "copy"
    /\ dest' = [u \in DOMAIN dest |-> IF u - lo \in 0..(Len(rx[f].staged) - 1)
                                      THEN rx[f].staged[u - lo + 1] ELSE dest[u]]
    /\ rx' = [rx EXCEPT ![f].at = "header"]
    /\ UNCHANGED <<scenario, send, tx, netVars, recv, ready, rread, placed, powner, local, kills>>

\* A worker process is killed; it keeps the lock of placed, and its place among
\* the sleepers of the barrier.
KillFlow(f) ==
    /\ Faults /\ ~Threads /\ kills < MaxKills
    /\ rx[f].at \notin Ended \cup {"idle"}
    /\ \/ EndRx(f, "killed", rx[f])
       \/ rx[f].at = "prepare" /\ EndRx(f, "asleep", rx[f])
    /\ kills' = kills + 1
    /\ UNCHANGED <<scenario, send, tx, queue, listening, recv, ready, rread, placed, powner, dest, local>>

\* mutant: the transfer ids are not compared.
ResultOkAnyId ==
    /\ \A f \in Flows : rx[f].at = "done"
    /\ ~Threads => placed = 0..(StripeCount(NUnits) - 1)
    /\ MapThenSumSet(LAMBDA f : rx[f].got, Flows) = NUnits * Iterations
\* What receive_into asks of the results of its flows.
ResultOk ==
    /\ \A f \in Flows : rx[f].at = "done"
    /\ ~Threads => placed = 0..(StripeCount(NUnits) - 1)
    /\ Cardinality({rx[f].tid : f \in Flows}) = 1
    /\ MapThenSumSet(LAMBDA f : rx[f].got, Flows) = NUnits * Iterations

ReceiveReturns ==
    /\ recv = "collect"
    /\ \A f \in Flows : rx[f].at \in Ended
    /\ Threads \/ rread = NFlows
    /\ EndReceive(IF ResultOk THEN "ok" ELSE "failed")
    /\ UNCHANGED <<scenario, send, tx, rread, placed, powner, dest, local, kills>>

\* reader.recv, in the order of the flows
ReceiveMessage ==
    /\ ~Threads /\ recv = "collect" /\ rread < NFlows
    /\ rx[rread].at \in Ended
    /\ IF rx[rread].at = "killed"
       THEN EndReceive("failed") /\ UNCHANGED rread
       ELSE rread' = rread + 1 /\ UNCHANGED <<recv, ready, rx, netVars>>
    /\ UNCHANGED <<scenario, send, tx, placed, powner, dest, local, kills>>

\* The worker processes of a terminated receiver end by themselves.
OrphansEnd ==
    /\ recv = "terminated" /\ listening > 0
    /\ \A f \in Flows : rx[f].at \in Ended \cup {"idle"}
    /\ EndReceive("terminated")
    /\ UNCHANGED <<scenario, send, tx, rread, placed, powner, dest, local, kills>>

-----------------------------------------------------------------------------
(* transfer_tensor_local *)

\* ready.wait; a thread's error is raised, a process's is not looked at yet.
LocalStarts ==
    /\ local = "wait"
    /\ \/ ready /\ local' = IF Threads /\ recv = "failed" THEN "failed" ELSE "send"
       \/ Faults /\ ~ready /\ local' = "failed"
    /\ UNCHANGED <<scenario, send, tx, netVars, recvVars, kills>>

Sent == send["local"].at \in {"ok", "failed"}

\* The receiver has ended when it is joined.
LocalReturns ==
    /\ local = "send" /\ Sent
    /\ recv \in {"ok", "failed"}
    /\ local' = IF send["local"].at = "ok" /\ recv = "ok" THEN "ok" ELSE "failed"
    /\ UNCHANGED <<scenario, send, tx, netVars, recvVars, kills>>

\* join runs into its timeout.  After a failed send the receiver is left
\* alone; otherwise its process is terminated, but not the workers of it.
LocalGivesUp ==
    /\ Faults /\ local = "send" /\ Sent
    /\ recv \notin {"ok", "failed"}
    /\ local' = "failed"
    /\ recv' = IF send["local"].at = "ok" /\ ~Threads THEN "terminated" ELSE recv
    /\ UNCHANGED <<scenario, send, tx, netVars, ready, rread, rx, placed, powner, dest, kills>>

-----------------------------------------------------------------------------
\* A TensorSender: its constructor only configures, send() does the rest.
SenderInit ==
    /\ send = [s \in Senders |->
            [at |-> "idle", broken |-> FALSE, next |-> 0, owner |-> None, read |-> 0]]
    /\ tx = [s \in Senders |-> [f \in Flows |->
            [at |-> "idle", todo |-> <<>>, task |-> 0, took |-> {}]]]
    /\ conn = [s \in Senders |-> [f \in Flows |->
            [sock |-> "none", peer |-> "none", stream |-> <<>>]]]

\* A TensorReceiver, which opens no listener yet.
ReceiverInit ==
    /\ queue = [f \in Flows |-> <<>>] /\ listening = 0
    /\ recv = "listen" /\ ready = FALSE /\ rread = 0
    /\ rx = [f \in Flows |-> [at |-> "idle", from |-> None, tid |-> None, part |-> 0,
                              left |-> 0, staged |-> <<>>, got |-> 0, seen |-> {}]]
    /\ placed = {} /\ powner = None /\ dest = [u \in 0..(NUnits - 1) |-> None]

Init ==
    /\ scenario \in Scenarios
    /\ SenderInit /\ ReceiverInit
    /\ local = "wait" /\ kills = 0

SenderFlow(s, f) ==
    \/ Connect(s, f) \/ ConnectFails(s, f) \/ BarrierRaises(s, f) \/ Go(s, f)
    \/ LockTask(s, f) \/ FetchTask(s, f) \/ SendItem(s, f) \/ SendFails(s, f)
SenderMain(s) ==
    \/ BarrierTrips(s) \/ BarrierBreaks(s) \/ SendRaises(s) \/ SetGo(s)
    \/ CollectThreads(s) \/ CollectMessage(s) \/ CollectEnd(s)
ReceiverFlow(f) ==
    \/ Accept(f) \/ AcceptTimesOut(f) \/ ReadHeader(f) \/ ReadStatic(f) \/ ReadDynamic(f)
    \/ PeerClosed(f) \/ LockPlaced(f) \/ Place(f) \/ Copy(f)
ReceiverMain ==
    \/ Listen \/ StartReceive \/ PreparedTrips \/ ReceiveRaises
    \/ ReceiveReturns \/ ReceiveMessage \/ OrphansEnd
LocalMain == LocalStarts \/ StartSend("local") \/ LocalReturns \/ LocalGivesUp

Progress ==
    \/ LocalMain \/ ReceiverMain
    \/ \E f \in Flows : ReceiverFlow(f)
    \/ \E s \in Senders : SenderMain(s) \/ \E f \in Flows : SenderFlow(s, f)

Next ==
    \/ Progress \/ StartSend("rival")
    \/ \E f \in Flows : KillFlow(f) \/ \E s \in Senders : KillWorker(s, f)

Spec == Init /\ [][Next]_vars

\* Threads and processes are scheduled, connections deliver what they hold,
\* and waits that have a timeout run into it.  Nobody has to be killed, and
\* the rival need not start.  No behaviour goes on for ever, so fairness to
\* all of them together is fairness to each.
FairSpec == Spec /\ WF_vars(Progress)

-----------------------------------------------------------------------------
Whole(s) == \A u \in DOMAIN dest : dest[u] = <<s, u>>

\* receive_into that returns has the whole tensor of one single transfer, each
\* unit at its place, whichever of two senders got which of its ports, and also
\* if a worker died between marking a stripe as placed and copying it.  Nobody
\* writes to the destination after that.  The same holds when
\* transfer_tensor_local returns.
ReceivedWhole ==
    recv = "ok" \/ local = "ok" =>
        /\ \E s \in Senders : Whole(s)
        /\ \A f \in Flows : rx[f].at = "done"

\* next_task hands every task out once: no two flows of a call send the same
\* stripe of an iteration, and none is left out.
TasksHandedOutOnce ==
    \A s \in Senders :
        /\ \A f, g \in Flows : f # g => tx[s][f].took \cap tx[s][g].took = {}
        /\ UNION {tx[s][f].took : f \in Flows} = 0..(send[s].next - 1)

\* A worker process was killed with a lock that nobody will give back.
LockLost ==
    \/ \E s \in Senders : send[s].owner # None /\ tx[s][send[s].owner].at = "killed"
    \/ powner # None /\ rx[powner].at = "killed"

\* A call waits to wake a worker process that was killed asleep.
SleeperLost ==
    \/ \E s \in Senders : Slept(s) /\ send[s].at \in {"barrier", "released", "collect"}
    \/ recv = "prepare" /\ \E f \in Flows : rx[f].at = "asleep"

Settled ==
    /\ local \in {"ok", "failed"} /\ recv \in {"ok", "failed", "terminated"}
    /\ \A s \in Senders : send[s].at \in {"idle", "ok", "failed"}
    /\ \A f \in Flows : rx[f].at \in Ended \cup {"idle"}

\* Every call of send, receive_into and transfer_tensor_local ends, and leaves
\* no worker behind, although sockets have no timeout once they are connected
\* and go.wait has none: a flow that fails closes its connection, and that
\* reaches whoever waits for it.  There are two exceptions, both of process mode
\* (transport.py:430-434, 776, 818): a worker that is killed while it holds the
\* lock of a shared counter or array, and one that is killed asleep at a barrier
\* or in go.wait, for which go.set, the barrier and the timeout of the barrier
\* wait for ever.  A worker killed anywhere else does not keep a call.
EveryCallReturns == []<>(Settled \/ LockLost \/ SleeperLost)

\* Without faults and rivals the transfer succeeds.
TransferSucceeds == ~Faults ~> local = "ok" /\ Whole("local")
=============================================================================
