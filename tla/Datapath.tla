------------------------------ MODULE Datapath ------------------------------
(***************************************************************************)
(* The data path of both bindings on top of their objects: QP states,      *)
(* posting, polling and RDMA-CM connections, called by several threads.    *)
(* A call checks its wrapper with the interpreter's lock, gives the lock   *)
(* up around the native call, which uses the pointer it read before, and   *)
(* takes the lock back to return.  Meanwhile other threads do what they    *)
(* like, close() of the same object included.                              *)
(*                                                                         *)
(* In EFA a send goes through the extended interface, a batch from         *)
(* wr_start to wr_complete or wr_abort, and a CQEx is polled with a        *)
(* cursor, from start_poll to end_poll.  The cursor holds the provider's   *)
(* lock of the CQ, which ibv_destroy_qp takes too.  A thread that finds    *)
(* the lock of a send queue taken waits for wr_complete, which needs no    *)
(* other lock: that wait is a guard of PostSendEx.                         *)
(*                                                                         *)
(* A work request is its number.  Of the attributes of a QP only the state *)
(* is kept; the provider's state machine, its queues and the adapter are   *)
(* external.                                                               *)
(***************************************************************************)
EXTENDS EfaBindings, Sequences, SequencesExt

CONSTANTS
    Threads,
    Scenes,       \* the bindings and numbers of callers to look at
    Depth,        \* work requests that a queue of a QP takes
    MaxBatch,     \* bound: work requests of one call, entries of one poll
    MaxWrs        \* bound: work requests of a behaviour

ASSUME DatapathAssumption ==
    /\ IsFiniteSet(Threads) /\ Scenes \subseteq [binding : {"ibverbs", "efa"}, callers : Nat]
    /\ {Depth, MaxBatch} \subseteq Nat \ {0} /\ MaxWrs \in Nat

VARIABLES
    scene,        \* the binding, and how many threads call its data path; with none
                  \* of them, the program of EFA waits for events instead
    qpState,      \* ibv_qp.state
    queue,        \* work requests that a QP has accepted and not completed
    cqe,          \* entries of a CQ
    connected,    \* CMID._connected
    call,         \* the call that a thread has left the interpreter's lock in
    spinning,     \* the object in whose native call a thread waits for the lock
                  \* of a CQ, with the interpreter's lock held
    nextId,       \* the next work request
    accepted,     \* history: work requests that the provider took
    completed,    \* history: work requests that were completed
    returned,     \* history: completions that poll returned
    lost          \* history: completions read by a poll that raised, or dropped
                  \* with their QP or CQ

nativeVars == <<qpState, queue, cqe, connected>>
historyVars == <<nextId, accepted, completed, returned, lost>>
dataVars == <<scene, nativeVars, call, spinning, historyVars>>

Idle == [op |-> "none"]

\* Neither does a thread wait for ever with the interpreter's lock, nor does a
\* native call go on with an object that was closed under it; what follows then
\* is anything, and the model stops.
Sound ==
    /\ spinning = None
    /\ \A t \in Threads : call[t] # Idle /\ call[t].raced => call[t].stage = "back"

\* A thread may enter a method.
Enter(t) ==
    /\ Running /\ Sound /\ call[t] = Idle
    /\ Cardinality({u \in Threads : call[u] # Idle}) < scene.callers

\* mutant: the pointer is not looked at.
EnsuredNot(o) == wrapper[o] \in {"open", "closed"}
\* _ensure of QP, CQ and CMID.
Ensured(o) == wrapper[o] = "open"

\* The method checks its object and gives the lock up.
Leave(t, op, o, arg) ==
    /\ Enter(t) /\ Ensured(o)
    /\ call' = [call EXCEPT ![t] = [op |-> op, obj |-> o, arg |-> arg, stage |-> "native",
                                    ok |-> TRUE, out |-> <<>>, raced |-> FALSE]]

\* The native call of t is under way.
InNative(t, ops) ==
    Sound /\ call[t].op \in ops /\ call[t].stage = "native"

\* The native call is over; the method waits for the lock.
NativeEnds(t, ok, out) ==
    call' = [call EXCEPT ![t].stage = "back", ![t].ok = ok, ![t].out = out]

Back(t, ops) ==
    /\ Running /\ Sound
    /\ call[t].op \in ops /\ call[t].stage = "back"
    /\ call' = [call EXCEPT ![t] = Idle]

-----------------------------------------------------------------------------
(* QP states. *)

\* ibv_modify_qp: what the provider accepts.
Transitions == {<<"RESET", "INIT">>, <<"INIT", "INIT">>, <<"INIT", "RTR">>,
                <<"RTR", "RTS">>, <<"RTS", "RTS">>}
Legal(from, to) == to \in {"RESET", "ERR"} \/ <<from, to>> \in Transitions

ModifyQP(q, state) ==
    /\ Running /\ Sound /\ Ensured(q)
    /\ Legal(qpState[q], state)
    /\ qpState' = [qpState EXCEPT ![q] = state]
    /\ queue' = IF state = "RESET" THEN [queue EXCEPT ![q] = [send |-> <<>>, recv |-> <<>>]]
                                   ELSE queue
    /\ UNCHANGED <<efaVars, scene, cqe, connected, call, spinning, historyVars>>

Modify(q, state) == scene.binding = "ibverbs" /\ ModifyQP(q, state)
ToInit(q) == scene.binding = "ibverbs" /\ ModifyQP(q, "INIT")
ToRtr(q) == scene.binding = "ibverbs" /\ ModifyQP(q, "RTR")
ToRts(q) == scene.binding = "ibverbs" /\ ModifyQP(q, "RTS")
EfaModify(q, state) == scene.binding = "efa" /\ ModifyQP(q, state)
EfaToInit(q) == scene.binding = "efa" /\ ModifyQP(q, "INIT")
EfaToRtr(q) == scene.binding = "efa" /\ ModifyQP(q, "RTR")
EfaToRts(q) == scene.binding = "efa" /\ ModifyQP(q, "RTS")

\* QP.prepare of EFA: the first step that fails leaves the QP where it is.
Prepare(q) ==
    /\ scene.binding = "efa"
    /\ Running /\ Sound /\ Ensured(q)
    /\ Legal(qpState[q], "INIT")
    /\ \E state \in {"INIT", "RTR", "RTS"} : qpState' = [qpState EXCEPT ![q] = state]
    /\ UNCHANGED <<efaVars, scene, queue, cqe, connected, call, spinning, historyVars>>

-----------------------------------------------------------------------------
(* Posting. *)

Ids(n) == [i \in 1..n |-> nextId + i - 1]

\* ibv_post_send takes requests in RTS, ibv_post_recv from INIT on; none more
\* than there is room for.
Accepts(q, op, n) ==
    /\ qpState[q] \in (IF op = "send" THEN {"RTS", "ERR"} ELSE {"INIT", "RTR", "RTS", "ERR"})
    /\ Len(queue[q][op]) + n <= Depth

Post(t, q, op, n) ==
    /\ nextId + n - 1 <= MaxWrs
    /\ q \notin external
    /\ Leave(t, op, q, Ids(n))
    /\ nextId' = nextId + n
    /\ UNCHANGED <<efaVars, scene, nativeVars, spinning, accepted, completed,
                   returned, lost>>

\* QP.post_send of ibverbs and post_recv of both: a chain of requests.
PostSend(t, q, n) == scene.binding = "ibverbs" /\ Post(t, q, "send", n)
PostRecv(t, q, n) == scene.binding = "ibverbs" /\ Post(t, q, "recv", n)
EfaPostRecv(t, q, n) == scene.binding = "efa" /\ Post(t, q, "recv", n)

\* The provider takes the chain up to the first request that it refuses.
NativePost(t) ==
    LET op == call[t].op  ids == call[t].arg  q == call[t].obj IN
    /\ InNative(t, {"send", "recv"}) /\ ~ (scene.binding = "efa" /\ op = "send")
    /\ \E k \in 0..Len(ids) :
          /\ k > 0 => Accepts(q, op, k)
          /\ LET taken_ == SubSeq(ids, 1, k)
             IN /\ queue' = [queue EXCEPT ![q][op] = @ \o taken_]
                /\ accepted' = accepted \cup Range(taken_)
          /\ NativeEnds(t, k = Len(ids), <<>>)
    /\ UNCHANGED <<efaVars, scene, qpState, cqe, connected, spinning, nextId,
                   completed, returned, lost>>

\* mutant: the batch is completed, not aborted, when a request does not convert.
SubmittedAnyway(ids, bad) == SubSeq(ids, 1, bad - 1)
\* What _post_send_ex submits if request number bad does not convert.
Submitted(ids, bad) == <<>>

\* _post_send_ex: a request that does not convert raises, and the batch is aborted.
PostSendExRaises(t, q, n, bad) ==
    /\ scene.binding = "efa" /\ Enter(t) /\ Ensured(q)
    /\ nextId + n - 1 <= MaxWrs /\ bad \in 1..n
    /\ \A u \in Threads : ~ (call[u].op = "send" /\ call[u].stage = "native")
    /\ LET given == Submitted(Ids(n), bad)
       IN /\ accepted' = accepted \cup Range(given)
          /\ queue' = [queue EXCEPT ![q]["send"] = @ \o given]
    /\ nextId' = nextId + n
    /\ call' = [call EXCEPT ![t] = [op |-> "send", obj |-> q, arg |-> Ids(n), stage |-> "back",
                                    ok |-> FALSE, out |-> <<>>, raced |-> FALSE]]
    /\ UNCHANGED <<efaVars, scene, qpState, cqe, connected, spinning, completed, returned, lost>>

\* _post_send_ex up to wr_complete, with the lock of the send queue.
PostSendEx(t, q, n) ==
    /\ scene.binding = "efa"
    /\ \A u \in Threads : ~ (call[u].op = "send" /\ call[u].stage = "native")
    /\ Post(t, q, "send", n)

\* wr_complete takes all requests of the session or none.
WrComplete(t) ==
    LET ids == call[t].arg  q == call[t].obj IN
    /\ scene.binding = "efa" /\ InNative(t, {"send"})
    /\ \/ /\ Accepts(q, "send", Len(ids))
          /\ queue' = [queue EXCEPT ![q]["send"] = @ \o ids]
          /\ accepted' = accepted \cup Range(ids)
          /\ NativeEnds(t, TRUE, <<>>)
       \/ NativeEnds(t, FALSE, <<>>) /\ UNCHANGED <<queue, accepted>>
    /\ UNCHANGED <<efaVars, scene, qpState, cqe, connected, spinning, nextId,
                   completed, returned, lost>>

\* The call returns, or raises if the provider reported an error.
ReturnPost(t) ==
    /\ Back(t, {"send", "recv"})
    /\ UNCHANGED <<efaVars, scene, nativeVars, spinning, historyVars>>

\* The adapter completes the oldest request of a queue, the CQ being free for it.
Complete(q, op) ==
    /\ q \in native /\ queue[q][op] # <<>>
    /\ \E cq \in refs[q] \cap CQs :
          cqe' = [cqe EXCEPT ![cq] = Append(@, Head(queue[q][op]))]
    /\ completed' = completed \cup {Head(queue[q][op])}
    /\ queue' = [queue EXCEPT ![q][op] = Tail(@)]
    /\ UNCHANGED <<efaVars, scene, qpState, connected, call, spinning, nextId, accepted,
                   returned, lost>>

-----------------------------------------------------------------------------
(* Polling. *)

AtMost(n, m) == IF n < m THEN n ELSE m

\* CQ.poll
Poll(t, cq, n) ==
    /\ scene.binding = "ibverbs" /\ cq \notin external
    /\ Leave(t, "poll", cq, n)
    /\ UNCHANGED <<efaVars, scene, nativeVars, spinning, historyVars>>
EfaPoll(t, cq, n) ==
    /\ scene.binding = "efa" /\ cq \notin extended
    /\ Leave(t, "poll", cq, n)
    /\ UNCHANGED <<efaVars, scene, nativeVars, spinning, historyVars>>

\* ibv_poll_cq; with an error, the entries that it had read are gone.
NativePoll(t) ==
    LET cq == call[t].obj IN
    /\ InNative(t, {"poll"})
    /\ \E ok \in BOOLEAN, k \in 0..AtMost(call[t].arg, Len(cqe[cq])) :
          /\ ok => k = AtMost(call[t].arg, Len(cqe[cq]))
          /\ cqe' = [cqe EXCEPT ![cq] = SubSeq(@, k + 1, Len(@))]
          /\ NativeEnds(t, ok, SubSeq(cqe[cq], 1, k))
    /\ UNCHANGED <<efaVars, scene, qpState, queue, connected, spinning, historyVars>>

\* CQ.poll returns its list, or raises.
ReturnPoll(t) ==
    /\ Back(t, {"poll", "pollex"})
    /\ IF call[t].ok
       THEN returned' = returned \cup Range(call[t].out) /\ UNCHANGED lost
       ELSE lost' = lost \cup Range(call[t].out) /\ UNCHANGED returned
    /\ UNCHANGED <<efaVars, scene, nativeVars, spinning, nextId, accepted, completed>>

\* t has the cursor of a CQ, and with it the lock.
Holds(t, cq) == call[t].op = "pollex" /\ call[t].stage = "cursor" /\ call[t].obj = cq
Locked(cq) == \E t \in Threads : Holds(t, cq)

\* mutant: start_poll is called with the interpreter's lock.
PollExLocked(t, cq, n) ==
    /\ scene.binding = "efa" /\ cq \in extended
    /\ IF Locked(cq)
       THEN Enter(t) /\ Ensured(cq) /\ spinning' = cq /\ UNCHANGED call
       ELSE Leave(t, "pollex", cq, n) /\ UNCHANGED spinning
    /\ UNCHANGED <<efaVars, scene, nativeVars, historyVars>>
\* CQEx.poll
PollEx(t, cq, n) ==
    /\ scene.binding = "efa" /\ cq \in extended
    /\ Leave(t, "pollex", cq, n)
    /\ UNCHANGED <<efaVars, scene, nativeVars, spinning, historyVars>>

\* start_poll, without the interpreter's lock: it waits for the lock of the CQ,
\* and gives it back if there is nothing to read or an error.
StartPoll(t) ==
    LET cq == call[t].obj IN
    /\ InNative(t, {"pollex"})
    /\ ~ Locked(cq)
    /\ IF cqe[cq] = <<>>
       THEN NativeEnds(t, TRUE, <<>>)
       ELSE \/ call' = [call EXCEPT ![t].stage = "cursor"]
            \/ NativeEnds(t, FALSE, <<>>)
    /\ UNCHANGED <<efaVars, scene, nativeVars, spinning, historyVars>>

\* mutant: the limit is looked at after next_poll.
ReadsOneMore(n, len) == AtMost(n + 1, len)
\* Entries that the loop takes off a CQ with len of them, for a limit of n.
Reads(n, len) == AtMost(n, len)

\* The loop over the cursor up to end_poll, with the interpreter's lock.
ReadCursor(t) ==
    LET cq == call[t].obj
        n == Reads(call[t].arg, Len(cqe[cq])) IN
    /\ Running /\ Sound
    /\ call[t].op = "pollex" /\ call[t].stage = "cursor"
    /\ \/ /\ cqe' = [cqe EXCEPT ![cq] = SubSeq(@, n + 1, Len(@))]
          /\ returned' = returned \cup Range(SubSeq(cqe[cq], 1, AtMost(call[t].arg, n)))
          /\ UNCHANGED lost
       \/ \E k \in 1..(n - 1) :             \* next_poll fails
          /\ cqe' = [cqe EXCEPT ![cq] = SubSeq(@, k + 1, Len(@))]
          /\ lost' = lost \cup Range(SubSeq(cqe[cq], 1, k))
          /\ UNCHANGED returned
    /\ call' = [call EXCEPT ![t] = Idle]
    /\ UNCHANGED <<efaVars, scene, qpState, queue, connected, spinning, nextId, accepted,
                   completed>>

-----------------------------------------------------------------------------
(* RDMA-CM connections. *)

EndpointQPs == {q \in QPs \cap native : Cmid \in refs[q]}

\* CMID.connect
Connect(t) ==
    /\ EndpointQPs # {}
    /\ Leave(t, "connect", Cmid, 0)
    /\ UNCHANGED <<efaVars, scene, nativeVars, spinning, historyVars>>

\* CMID.disconnect
Disconnect(t) ==
    /\ connected
    /\ Leave(t, "disconnect", Cmid, 0)
    /\ UNCHANGED <<efaVars, scene, nativeVars, spinning, historyVars>>

\* rdma_connect and rdma_disconnect
NativeConnection(t) ==
    /\ InNative(t, {"connect", "disconnect"})
    /\ \E ok \in BOOLEAN :
          /\ qpState' = [q \in QPs |->
                 IF ok /\ q \in EndpointQPs
                 THEN IF call[t].op = "connect" THEN "RTS" ELSE "ERR" ELSE qpState[q]]
          /\ NativeEnds(t, ok, <<>>)
    /\ UNCHANGED <<efaVars, scene, queue, cqe, connected, spinning, historyVars>>

ReturnConnection(t) ==
    /\ Back(t, {"connect", "disconnect"}) /\ ~ call[t].raced
    /\ connected' = IF call[t].ok THEN call[t].op = "connect" ELSE connected
    /\ UNCHANGED <<efaVars, scene, qpState, queue, cqe, spinning, historyVars>>

-----------------------------------------------------------------------------
(* The objects under the calls. *)

Gone == native \ native'

\* A step of the bindings.  A frame keeps its object's wrapper, so the program
\* does not let go of it; close() does not look at calls under way, and ends
\* the object of one.  As a bound, a program with callers lets go of no context
\* and PD, which its QPs refer to, and the history is that of the QPs that exist
\* and of the calls under way.
Lifecycle ==
    /\ Sound
    /\ \/ scene.binding = "ibverbs" /\ (Make \/ End \/ Collect) /\ UNCHANGED extended
       \/ scene.binding = "efa" /\ EfaMakeCQ
       \/ scene.binding = "efa" /\ (EfaMake \/ EfaEnd \/ EfaCollect) /\ UNCHANGED extended
       \/ scene.callers = 0 /\ EfaEvents /\ UNCHANGED extended
    /\ \A t \in Threads : call[t] # Idle => call[t].obj \in held'
    /\ scene.callers > 0 => held \cap ({Ctx} \cup PDs) \subseteq held'
    /\ \A q \in Gone \cap QPs : \A cq \in refs[q] \cap CQs : ~ Locked(cq)
    /\ call' = [t \in Threads |->
           IF call[t] # Idle /\ wrapper'[call[t].obj] = "closed"
           THEN [call[t] EXCEPT !.raced = TRUE] ELSE call[t]]
    /\ qpState' = [q \in QPs |-> IF q \in native' THEN qpState[q] ELSE "RESET"]
    /\ queue' = [q \in QPs |-> IF q \in Gone THEN [send |-> <<>>, recv |-> <<>>] ELSE queue[q]]
    /\ LET purged == (Gone \cap CQs) \cup UNION {refs[q] \cap CQs : q \in Gone \cap QPs}
           over == QPs \cap native' = {} /\ \A t \in Threads : call[t] = Idle
       IN /\ cqe' = [cq \in CQs |-> IF cq \in purged THEN <<>> ELSE cqe[cq]]
          /\ IF over THEN accepted' = {} /\ completed' = {} /\ returned' = {} /\ lost' = {}
             ELSE /\ lost' = lost \cup UNION {Range(cqe[cq]) : cq \in purged}
                  /\ UNCHANGED <<accepted, completed, returned>>
    /\ connected' = (connected /\ Cmid \notin Gone)
    /\ UNCHANGED <<scene, spinning, nextId>>

\* ibv_destroy_qp of EFA, from close() or __dealloc__, while another thread has
\* the cursor of a CQ of the QP.
DestroySpins(q) ==
    /\ scene.binding = "efa" /\ blocked = None /\ Sound
    /\ wrapper[q] = "open" /\ (Running \/ Collectable(q))
    /\ \E cq \in refs[q] \cap CQs : Locked(cq)
    /\ spinning' = q
    /\ UNCHANGED <<efaVars, scene, nativeVars, call, historyVars>>

DataInit ==
    /\ EfaInit
    /\ scene \in Scenes
    /\ qpState = [q \in QPs |-> "RESET"]
    /\ queue = [q \in QPs |-> [send |-> <<>>, recv |-> <<>>]]
    /\ cqe = [cq \in CQs |-> <<>>]
    /\ connected = FALSE
    /\ call = [t \in Threads |-> Idle]
    /\ spinning = None
    /\ nextId = 1
    /\ accepted = {} /\ completed = {} /\ returned = {} /\ lost = {}

States == \E q \in QPs :
    \/ \E s \in {"RESET", "ERR"} : Modify(q, s) \/ EfaModify(q, s)
    \/ ToInit(q) \/ ToRtr(q) \/ ToRts(q)
    \/ EfaToInit(q) \/ EfaToRtr(q) \/ EfaToRts(q) \/ Prepare(q)

Posting == \E t \in Threads :
    \/ \E q \in QPs, n \in 1..MaxBatch :
          \/ PostSend(t, q, n) \/ PostRecv(t, q, n)
          \/ PostSendEx(t, q, n) \/ EfaPostRecv(t, q, n)
          \/ \E bad \in 1..MaxBatch : PostSendExRaises(t, q, n, bad)
    \/ NativePost(t) \/ WrComplete(t) \/ ReturnPost(t)

Polling == \E t \in Threads :
    \/ \E cq \in CQs, n \in 1..MaxBatch : Poll(t, cq, n) \/ EfaPoll(t, cq, n) \/ PollEx(t, cq, n)
    \/ NativePoll(t) \/ ReturnPoll(t) \/ StartPoll(t) \/ ReadCursor(t)

Connection == \E t \in Threads :
    Connect(t) \/ Disconnect(t) \/ NativeConnection(t) \/ ReturnConnection(t)

DataNext ==
    \/ Lifecycle \/ States \/ Posting \/ Polling \/ Connection
    \/ \E q \in QPs : DestroySpins(q) \/ \E op \in {"send", "recv"} : Complete(q, op)

DataSpec == DataInit /\ [][DataNext]_<<efaVars, dataVars>>

\* What a thread does in its call: the native part, and the way back.
NativeStep(t) ==
    NativePost(t) \/ WrComplete(t) \/ NativePoll(t) \/ StartPoll(t) \/ NativeConnection(t)
ReturnStep(t) == ReturnPost(t) \/ ReturnPoll(t) \/ ReadCursor(t) \/ ReturnConnection(t)
CallStep(t) == NativeStep(t) \/ ReturnStep(t)

\* __dealloc__ of what nobody refers to, which runs before any method.
Collection == Garbage # {} /\ Lifecycle /\ Collect

-----------------------------------------------------------------------------
\* "Either the whole batch is submitted or none of it is" (efa, QP.post_send); a
\* chain of ibverbs, or of receives, may be taken up to some request.  In both the
\* caller learns the truth: a call returns if and only if all of it was taken.
BatchWhole ==
    \A t \in Threads :
        call[t].op \in {"send", "recv"} /\ call[t].stage = "back" =>
            LET ids == call[t].arg
                took == {i \in DOMAIN ids : ids[i] \in accepted} IN
            /\ call[t].ok <=> took = DOMAIN ids
            /\ \A i \in took : 1..i \subseteq took
            /\ scene.binding = "efa" /\ call[t].op = "send" /\ ~ call[t].ok => took = {}

\* Every completion is in its CQ, on its way in one call, or was returned, and
\* this once; it is lost only with a call that raised or a QP or CQ that was
\* destroyed.  A poll brings consecutive completions, and no more than it was
\* asked for: reading on past the limit would drop one.
CompletionsOnce ==
    LET places == [cq \in CQs |-> Range(cqe[cq])]
        onTheWay == [t \in Threads |-> IF call[t] = Idle THEN {} ELSE Range(call[t].out)]
        known == (UNION {places[cq] : cq \in CQs}) \cup (UNION {onTheWay[t] : t \in Threads})
                     \cup returned \cup lost
    IN /\ known = completed
       /\ returned \cap lost = {}
       /\ \A t \in Threads :
             /\ onTheWay[t] \cap (returned \cup lost) = {}
             /\ \A cq \in CQs : onTheWay[t] \cap places[cq] = {}
             /\ \A u \in Threads \ {t} : onTheWay[t] \cap onTheWay[u] = {}
             /\ call[t].op \in {"poll", "pollex"} => Len(call[t].out) <= call[t].arg
       /\ \A cq \in CQs : places[cq] \cap (returned \cup lost) = {}

\* What a call works with is there, its object and all that this is built on,
\* although other threads drop, collect and close what they like: it is not only
\* if close() ended the call's own object in the middle of the call.  (As in
\* NoOrphans, an endpoint that is collected takes its context along.)
CallsOnLiveObjects ==
    \A t \in Threads : call[t] # Idle /\ ~ call[t].raced =>
        Foundations(call[t].obj) \ native
            \subseteq (IF wrapper[Cmid] = "collected" THEN {Ctx} ELSE {})

\* No circle of threads that wait for the interpreter's lock, the lock of a CQ and
\* the cursor: a call can go on, at once or after garbage was collected, or it waits
\* for a cursor whose owner can.  It cannot only if ibv_destroy_qp, which has the
\* interpreter's lock, waits for a CQ whose cursor a thread got in start_poll and
\* cannot give back without that lock, or if close() ended the object of a call.
CallsCanGoOn ==
    \A t \in Threads : call[t] # Idle =>
        \/ \E u \in {t} \cup {v \in Threads : Holds(v, call[t].obj)} : ENABLED CallStep(u)
        \/ ENABLED Collection
        \/ spinning \in QPs
        \/ \E u \in Threads : call[u] # Idle /\ call[u].raced
=============================================================================
