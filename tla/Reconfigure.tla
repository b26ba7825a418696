---------------------------- MODULE Reconfigure ----------------------------
(***************************************************************************)
(* ProcessGroup._reconfigure, abort and close of                           *)
(* experiments/fault_tolerant_allreduce/allreduce.py: the members of a new *)
(* ring connect to the listener of their successor, send their outgoing    *)
(* QPs, accept their predecessor, answer with their incoming QPs, and      *)
(* commit when the successor has answered.                                 *)
(*                                                                         *)
(* Every attempt of a member makes fresh QPs; they are named by the        *)
(* member and the number of its attempt, its generation.  A connection     *)
(* lives in the backlog of a listener, also when the attempt that made it  *)
(* is long over and its socket is closed: the frame in it can still be     *)
(* read.  place is where a member is in _reconfigure, as an index of       *)
(* Order; 0 is outside.                                                    *)
(***************************************************************************)
EXTENDS Integers, SequencesExt

CONSTANTS
    Members,      \* the process groups
    Uuids,        \* the uuids that callers use
    Ring,         \* the membership that goes with a uuid, in rank order
    Backlog,      \* listen(16)
    MaxAttempts,  \* bound: attempts of a member
    Faults        \* {TRUE}, {FALSE} or both: what faults may be

ASSUME ReconfigureAssumption ==
    /\ Uuids \subseteq Nat \ {0} /\ Ring \in [Uuids -> Seq(Members)]
    /\ \A u \in Uuids : Ring[u] # <<>> /\ IsInjective(Ring[u])
    /\ Backlog \in Nat \ {0} /\ MaxAttempts \in Nat \ {0} /\ Faults \subseteq BOOLEAN

VARIABLES
    faults,    \* may deadlines expire, calls raise and groups go away
    place,     \* where the member is in _reconfigure
    tries,     \* the uuids of its attempts so far
    used,      \* _used_uuids
    uuid,      \* uuid
    failed,    \* _failed
    closed,    \* _closed
    live,      \* the generation whose QPs exist, or 0
    outPeer,   \* generation that the outgoing QPs are connected to, or 0
    inPeer,    \* generation that the incoming QPs are connected to, or 0
    backlog,   \* its listener's queue of connections
    accepted,  \* prev_socket and prev_request
    response   \* what next_socket has received: a generation, or 0

groupVars == <<used, uuid, failed, closed, live, outPeer, inPeer>>
netVars == <<backlog, accepted, response>>
vars == <<faults, place, tries, groupVars, netVars>>

NoUuid == 0
NoConn == [from |-> "none", gen |-> 0, uuid |-> NoUuid, sent |-> FALSE]

\* _lane_infos: the QPs of an attempt are named by its generation.
LaneInfos(m) == Len(tries[m])

\* The connection of an attempt, with the request in it once it is sent.
Conn(m, sent) == [from |-> m, gen |-> LaneInfos(m), uuid |-> Last(tries[m]), sent |-> sent]

RankIn(u, m) == CHOOSE i \in 1..Len(Ring[u]) : Ring[u][i] = m
NextMember(u, m) == Ring[u][(RankIn(u, m) % Len(Ring[u])) + 1]
PrevMember(u, m) == Ring[u][((RankIn(u, m) + Len(Ring[u]) - 2) % Len(Ring[u])) + 1]

\* mutant: the predecessor is accepted before the successor is connected to.
OrderAcceptFirst == <<"accept", "respond", "connect", "send", "await">>
\* The steps on the network, in order.
Order == <<"connect", "send", "accept", "respond", "await">>

At(m) == IF place[m] = 0 THEN "outside" ELSE Order[place[m]]
Uuid(m) == Last(tries[m])
Gen(m) == Len(tries[m])
Successor(m) == NextMember(Uuid(m), m)

\* The sockets of an attempt are closed when it ends.
Open(c) == place[c.from] # 0 /\ Gen(c.from) = c.gen

\* Clears what belongs to an attempt; the backlog keeps its connection.
LeavesNetwork(m) ==
    /\ place' = [place EXCEPT ![m] = 0]
    /\ accepted' = [accepted EXCEPT ![m] = NoConn]
    /\ response' = [response EXCEPT ![m] = 0]

(***************************************************************************)
(* _reconfigure                                                            *)
(***************************************************************************)

\* _close_lanes, and the group is failed until the attempt commits.
Revoked(m, lanes) ==
    /\ live' = [live EXCEPT ![m] = lanes]
    /\ outPeer' = [outPeer EXCEPT ![m] = 0]
    /\ inPeer' = [inPeer EXCEPT ![m] = 0]
    /\ failed' = [failed EXCEPT ![m] = TRUE]
    /\ uuid' = [uuid EXCEPT ![m] = NoUuid]

\* The checks at the top.
CanBegin(m, u) ==
    /\ place[m] = 0 /\ Len(tries[m]) < MaxAttempts
    /\ ~closed[m] /\ u \notin used[m] /\ m \in Range(Ring[u])

\* A ring of several members: the old QPs are destroyed, new ones made.
Begin(m, u) ==
    /\ CanBegin(m, u) /\ Len(Ring[u]) > 1
    /\ tries' = [tries EXCEPT ![m] = Append(@, u)]
    /\ place' = [place EXCEPT ![m] = 1]
    /\ Revoked(m, Len(tries[m]) + 1)
    /\ UNCHANGED <<faults, used, closed, netVars>>

\* _create_lanes raises and leaves no QP behind.
BeginFails(m, u) ==
    /\ faults /\ CanBegin(m, u) /\ Len(Ring[u]) > 1
    /\ tries' = [tries EXCEPT ![m] = Append(@, u)]
    /\ Revoked(m, 0)
    /\ UNCHANGED <<faults, place, used, closed, netVars>>

\* A ring of one needs no QPs and no network.
BeginAlone(m, u) ==
    /\ CanBegin(m, u) /\ Len(Ring[u]) = 1
    /\ tries' = [tries EXCEPT ![m] = Append(@, u)]
    /\ uuid' = [uuid EXCEPT ![m] = u]
    /\ used' = [used EXCEPT ![m] = @ \cup {u}]
    /\ failed' = [failed EXCEPT ![m] = FALSE]
    /\ live' = [live EXCEPT ![m] = 0]
    /\ outPeer' = [outPeer EXCEPT ![m] = 0]
    /\ inPeer' = [inPeer EXCEPT ![m] = 0]
    /\ UNCHANGED <<faults, place, closed, netVars>>

Forward(m) == place' = [place EXCEPT ![m] = @ + 1]

\* _connect_until retries while the listener is gone or its queue full.
Connect(m) ==
    LET n == Successor(m) IN
    /\ At(m) = "connect" /\ ~closed[n] /\ Len(backlog[n]) < Backlog
    /\ backlog' = [backlog EXCEPT ![n] = Append(@, Conn(m, FALSE))]
    /\ Forward(m)
    /\ UNCHANGED <<faults, tries, groupVars, accepted, response>>

\* _send_frame of the request; it fits the socket's buffers.
Send(m) ==
    LET n == Successor(m) IN
    /\ At(m) = "send"
    /\ backlog' = [backlog EXCEPT ![n] =
            [i \in DOMAIN @ |-> IF @[i] = Conn(m, FALSE) THEN Conn(m, TRUE) ELSE @[i]]]
    /\ Forward(m)
    /\ UNCHANGED <<faults, tries, groupVars, accepted, response>>

\* mutant: any request of the predecessor will do.
MatchesMember(m, c) == c.sent /\ c.from = PrevMember(Uuid(m), m)
\* The request that _accept_member is looking for.
Matches(m, c) == c.sent /\ c.from = PrevMember(Uuid(m), m) /\ c.uuid = Uuid(m)

\* One round of _accept_member: it blocks on the oldest connection until
\* there is a frame to read or its other end was closed.
Accept(m) ==
    LET c == Head(backlog[m]) IN
    /\ At(m) = "accept" /\ backlog[m] # <<>> /\ (c.sent \/ ~Open(c))
    /\ backlog' = [backlog EXCEPT ![m] = Tail(@)]
    /\ IF Matches(m, c)
       THEN accepted' = [accepted EXCEPT ![m] = c] /\ Forward(m)
       ELSE UNCHANGED <<accepted, place>>
    /\ UNCHANGED <<faults, tries, groupVars, response>>

\* _send_frame of the response; it is lost if the other end was closed.
Respond(m) ==
    /\ At(m) = "respond"
    /\ response' = IF Open(accepted[m])
                   THEN [response EXCEPT ![accepted[m].from] = LaneInfos(m)]
                   ELSE response
    /\ Forward(m)
    /\ UNCHANGED <<faults, tries, groupVars, backlog, accepted>>

\* connect_rc drives the outgoing QPs towards those of the response and the
\* incoming ones towards those of the request.
ConnectLanes(m) ==
    /\ outPeer' = [outPeer EXCEPT ![m] = response[m]]
    /\ inPeer' = [inPeer EXCEPT ![m] = accepted[m].gen]

\* The response has come: the QPs are connected and exported, and the group
\* takes them over.
Commit(m) ==
    /\ At(m) = "await" /\ response[m] # 0
    /\ ConnectLanes(m)
    /\ uuid' = [uuid EXCEPT ![m] = Uuid(m)]
    /\ used' = [used EXCEPT ![m] = @ \cup {Uuid(m)}]
    /\ failed' = [failed EXCEPT ![m] = FALSE]
    /\ LeavesNetwork(m)
    /\ UNCHANGED <<faults, tries, closed, live, backlog>>

\* The attempt ends with an exception: its QPs and its sockets are closed.
Fails(m) ==
    /\ live' = [live EXCEPT ![m] = 0]
    /\ LeavesNetwork(m)
    /\ UNCHANGED <<faults, tries, used, uuid, failed, closed, outPeer, inPeer, backlog>>

\* The successor has closed the connection without an answer.
PeerClosed(m) ==
    /\ At(m) = "await" /\ response[m] = 0
    /\ ~Contains(backlog[Successor(m)], Conn(m, TRUE))
    /\ accepted[Successor(m)] # Conn(m, TRUE)
    /\ Fails(m)

\* mutant: the wait for the predecessor has no deadline.
TimesOutNotAccepting == {"connect", "send", "await"}
\* The steps that are cut short at the deadline.
TimesOut == {"connect", "send", "accept", "respond", "await"}

TimeOut(m) == faults /\ At(m) \in TimesOut /\ Fails(m)

\* A socket, verbs or export call raises.
Raises(m) == faults /\ At(m) \in {"send", "respond", "await"} /\ Fails(m)

(***************************************************************************)
(* abort and close, between two calls                                      *)
(***************************************************************************)

Abort(m) ==
    /\ faults /\ place[m] = 0 /\ ~closed[m] /\ uuid[m] # NoUuid
    /\ Revoked(m, 0)
    /\ UNCHANGED <<faults, place, tries, used, closed, netVars>>

\* The listener goes too, with every connection in its queue.
Close(m) ==
    /\ faults /\ place[m] = 0 /\ ~closed[m]
    /\ closed' = [closed EXCEPT ![m] = TRUE]
    /\ live' = [live EXCEPT ![m] = 0]
    /\ backlog' = [backlog EXCEPT ![m] = <<>>]
    /\ UNCHANGED <<faults, place, tries, used, uuid, failed, outPeer, inPeer, accepted, response>>

(***************************************************************************)
(* The specification                                                       *)
(***************************************************************************)

Init ==
    /\ faults \in Faults
    /\ place = [m \in Members |-> 0]
    /\ tries = [m \in Members |-> <<>>]
    /\ used = [m \in Members |-> {}]
    /\ uuid = [m \in Members |-> NoUuid]
    /\ failed = [m \in Members |-> FALSE]
    /\ closed = [m \in Members |-> FALSE]
    /\ live = [m \in Members |-> 0]
    /\ outPeer = [m \in Members |-> 0]
    /\ inPeer = [m \in Members |-> 0]
    /\ backlog = [m \in Members |-> <<>>]
    /\ accepted = [m \in Members |-> NoConn]
    /\ response = [m \in Members |-> 0]

\* The callers use the uuids in any order; without faults they make every
\* member go through them in the same order, each as soon as its last call
\* has returned.
Call(m) ==
    \E u \in Uuids :
        /\ ~faults => \A v \in Uuids : v < u /\ m \in Range(Ring[v]) => Contains(tries[m], v)
        /\ Begin(m, u) \/ BeginAlone(m, u)
Step(m) == Connect(m) \/ Send(m) \/ Accept(m) \/ Respond(m) \/ Commit(m) \/ PeerClosed(m)
Fault(m) == (\E u \in Uuids : BeginFails(m, u)) \/ Raises(m) \/ Abort(m) \/ Close(m)

Next == \E m \in Members : Call(m) \/ Step(m) \/ TimeOut(m) \/ Fault(m)

Spec == Init /\ [][Next]_vars

\* The callers make their calls, a call that can go on goes on, and one that
\* cannot runs into its deadline.
FairSpec ==
    /\ Spec
    /\ \A m \in Members : WF_vars(Call(m)) /\ WF_vars(Step(m) \/ TimeOut(m))

(***************************************************************************)
(* Properties                                                              *)
(***************************************************************************)

\* A usable group: what _allreduce_tensor checks.
Usable(m) == ~closed[m] /\ uuid[m] # NoUuid /\ ~failed[m]

Several(m) == uuid[m] # NoUuid /\ Len(Ring[uuid[m]]) > 1

\* Two usable neighbours of one ring write into each other's QPs: the
\* outgoing QPs of one are connected to the live incoming QPs of the other
\* and the other way round, however often both have failed and tried again,
\* also with the same uuid.  And the QPs that a usable member is connected
\* to were made for the ring that it committed.
CommittedPairs ==
    \A m \in Members :
        Usable(m) /\ Several(m) =>
            LET n == NextMember(uuid[m], m)
                p == PrevMember(uuid[m], m)
            IN  /\ live[m] = Gen(m)
                /\ tries[n][outPeer[m]] = uuid[m] /\ tries[p][inPeer[m]] = uuid[m]
                /\ Usable(n) /\ uuid[n] = uuid[m] =>
                        outPeer[m] = live[n] /\ inPeer[n] = live[m]

\* Every call of _reconfigure returns or raises, also when the neighbours
\* never call it, are gone, or send requests for other rings.
ReconfigureReturns == \A m \in Members : []<>(place[m] = 0)

\* Without faults every ring is formed on all of its members, also when a
\* fast member is already forming the next one: connecting before accepting
\* keeps the ring from waiting in a circle.
AllCommit ==
    <>(faults \/ \A m \in Members : used[m] = {u \in Uuids : m \in Range(Ring[u])})

=============================================================================
