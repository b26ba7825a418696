------------------------ MODULE VerbsLifecycleProofs ------------------------
(***************************************************************************)
(* VerbsLifecycle for any number of objects.  Events: the counter of a CQ  *)
(* agrees with that of libibverbs modulo a machine word, and close() or    *)
(* __dealloc__ of a QP or CQ waits for ever only for an event that another *)
(* thread has read and not counted, for an asynchronous event that the     *)
(* program has not acknowledged, or because of a negative counter.         *)
(* Children: Context._children is exact.                                   *)
(* Lives: nothing native loses what it is built on, a leak has a failing   *)
(* provider behind it, and a completion event names a CQ that exists.      *)
(***************************************************************************)
EXTENDS VerbsLifecycle, FiniteSetTheorems, TLAPS

WrapperStates == {"absent", "open", "closed", "collected"}

EventTypes ==
    /\ wrapper \in [Objects -> WrapperStates]
    /\ armed \subseteq CQs
    /\ queued \in [CQs -> Nat]
    /\ reported \in [CQs -> 0..(Span - 1)] /\ unacked \in [CQs -> (-Half)..(Half - 1)]
    /\ taken \in CQs \cup {None} /\ blocked \in QPs \cup CQs \cup {None}

\* A CQ that was never made has no events.
AbsentSilent ==
    \A cq \in CQs : wrapper[cq] = "absent" =>
        /\ cq \notin armed
        /\ queued[cq] = 0 /\ reported[cq] = 0 /\ unacked[cq] = 0
        /\ taken # cq

\* The counter of a CQ that is open.
CountExact ==
    \A cq \in CQs : wrapper[cq] = "open" =>
        reported[cq] = Unsigned(unacked[cq] + (IF taken = cq THEN 1 ELSE 0))

\* EventsAccounted and BlockedOnlyByEvents, made inductive.
EventInv == EventTypes /\ AbsentSilent /\ CountExact /\ BlockedOnlyByEvents

-----------------------------------------------------------------------------
\* None, the context and the endpoint are no CQs.
LEMMA CQsApart ==
    /\ CQs \subseteq Objects /\ PDs \cup Channels \cup OnPD \cup QPs \subseteq Objects
    /\ None \notin CQs /\ Ctx \notin CQs /\ Cmid \notin CQs
BY ObjectsAssumption DEF Objects, Counted

\* A span is an even number of at least 2.
LEMMA SpanIsInt == Half \in Nat \ {0} /\ Span \in Nat /\ Span = Half + Half
BY ObjectsAssumption DEF Span

\* One more event read, or counted.
LEMMA OneMoreEvent ==
    ASSUME NEW u \in (-Half)..(Half - 1)
    PROVE  /\ Unsigned(u) \in 0..(Span - 1) /\ Unsigned(u + 1) \in 0..(Span - 1)
           /\ Unsigned(Unsigned(u) + 1) = Unsigned(u + 1)
           /\ Signed(u + 1) \in (-Half)..(Half - 1)
           /\ Unsigned(Signed(u + 1)) = Unsigned(u + 1)
BY SpanIsInt DEF Signed, Unsigned

\* An acknowledgement that ack_events lets pass takes the same from both.
LEMMA Acknowledged ==
    ASSUME NEW u \in (-Half)..(Half - 1), NEW n \in 1..(Span - 1), Signed(n) <= u,
           NEW t \in {0, 1}
    PROVE  /\ Unsigned(Unsigned(u + t) - n) \in 0..(Span - 1)
           /\ Signed(u - Signed(n)) \in (-Half)..(Half - 1)
           /\ Unsigned(Unsigned(u + t) - n) = Unsigned(Signed(u - Signed(n)) + t)
<1>1. CASE n < Half
  <2>1. Signed(n) = n
    BY <1>1, SpanIsInt DEF Signed
  <2>2. Signed(u - n) = u - n /\ u + t >= n /\ Unsigned(u + t) = u + t
    BY <1>1, <2>1, SpanIsInt DEF Signed, Unsigned
  <2> QED BY <1>1, <2>1, <2>2, SpanIsInt DEF Unsigned
<1>2. CASE n >= Half
  <2>1. Signed(n) = n - Span
    BY <1>2, SpanIsInt DEF Signed
  <2>2. Signed(u - Signed(n)) = IF u - n + Span >= Half THEN u - n ELSE u - n + Span
    BY <1>2, <2>1, SpanIsInt DEF Signed
  <2>3. CASE u + t < 0
    <3>1. Unsigned(u + t) = u + t + Span
      BY <2>3, SpanIsInt DEF Unsigned
    <3> QED BY <1>2, <2>1, <2>2, <2>3, <3>1, SpanIsInt DEF Unsigned
  <2>4. CASE u + t >= 0
    <3>1. Unsigned(u + t) = u + t
      BY <2>4, SpanIsInt DEF Unsigned
    <3> QED BY <1>2, <2>1, <2>2, <2>4, <3>1, SpanIsInt DEF Unsigned
  <2> QED BY <2>3, <2>4, SpanIsInt
<1> QED BY <1>1, <1>2, SpanIsInt

\* What close() and __dealloc__ leave: nothing but the event that was read and not
\* counted, unless the count is negative.
LEMMA Settled ==
    ASSUME NEW u \in (-Half)..(Half - 1), NEW t \in {0, 1}, NEW owed,
           owed = IF u > 0 THEN u ELSE 0
    PROVE  /\ Unsigned(Unsigned(u + t) - owed) \in 0..(Span - 1)
           /\ u - owed \in (-Half)..(Half - 1)
           /\ Unsigned(Unsigned(u + t) - owed) = Unsigned(u - owed + t)
           /\ u - owed >= 0 => u - owed = 0 /\ Unsigned(Unsigned(u + t) - owed) = t
BY SpanIsInt DEF Unsigned

\* A step that leaves the events alone and makes, closes or collects wrappers.
LEMMA QuietStep ==
    ASSUME EventInv,
           UNCHANGED <<armed, queued, reported, unacked, taken, watcher, pending, blocked>>,
           wrapper' \in [Objects -> WrapperStates],
           \A cq \in CQs : \/ wrapper'[cq] = wrapper[cq]
                           \/ wrapper[cq] = "absent" /\ wrapper'[cq] = "open"
                           \/ wrapper'[cq] \in {"closed", "collected"}
    PROVE  EventInv'
<1>1. EventTypes'
  BY DEF EventInv, EventTypes
<1>2. AbsentSilent'
  BY CQsApart DEF EventInv, EventTypes, AbsentSilent, WrapperStates
<1>3. CountExact'
  <2> SUFFICES ASSUME NEW cq \in CQs, wrapper'[cq] = "open"
               PROVE  reported[cq] = Unsigned(unacked[cq] + (IF taken = cq THEN 1 ELSE 0))
    BY DEF CountExact
  <2>1. CASE wrapper[cq] = "absent"
    BY <2>1, SpanIsInt DEF EventInv, EventTypes, AbsentSilent, Unsigned
  <2>2. CASE wrapper[cq] # "absent"
    BY <2>2 DEF EventInv, EventTypes, CountExact
  <2> QED BY <2>1, <2>2
<1>4. BlockedOnlyByEvents'
  BY DEF EventInv, BlockedOnlyByEvents, Unacknowledged
<1> QED BY <1>1, <1>2, <1>3, <1>4 DEF EventInv

\* The context and the endpoint.
LEMMA ContextSteps ==
    ASSUME EventInv,
           Open \/ Resolve \/ CloseContext \/ CloseCM \/ CollectContext \/ CollectCM
    PROVE  EventInv'
<1> USE CQsApart DEF Objects, WrapperStates
<1>1. UNCHANGED <<armed, queued, reported, unacked, taken, watcher, pending, blocked>>
  BY DEF asyncVars, Open, Resolve, CloseContext, CloseCM, CollectContext, CollectCM, eventVars
<1>2. wrapper \in [Objects -> WrapperStates]
  BY DEF EventInv, EventTypes
<1>3. /\ wrapper' \in [Objects -> WrapperStates]
      /\ \A cq \in CQs : wrapper'[cq] = wrapper[cq]
  BY <1>2 DEF Open, Resolve, CloseContext, CloseCM, CollectContext, CollectCM
<1> QED BY <1>1, <1>3, QuietStep

\* Objects that are made.
LEMMA WrapStep ==
    ASSUME EventInv, NEW o \in Objects, NEW parents, Wrap(o, parents)
    PROVE  EventInv'
<1> USE CQsApart DEF WrapperStates
<1>1. UNCHANGED <<armed, queued, reported, unacked, taken, watcher, pending, blocked>>
  BY DEF asyncVars, Wrap, eventVars
<1>2. wrapper \in [Objects -> WrapperStates]
  BY DEF EventInv, EventTypes
<1>3. /\ wrapper' \in [Objects -> WrapperStates]
      /\ \A cq \in CQs : \/ wrapper'[cq] = wrapper[cq]
                         \/ wrapper[cq] = "absent" /\ wrapper'[cq] = "open"
  BY <1>2 DEF Wrap
<1> QED BY <1>1, <1>3, QuietStep

\* Objects other than QPs and CQs that are closed or collected.
LEMMA EndSteps ==
    ASSUME EventInv, NEW o \in Objects, NEW ok \in BOOLEAN,
           CloseObject(o) \/ CollectClosed(o) \/ CollectObject(o, ok)
    PROVE  EventInv'
<1> USE CQsApart DEF WrapperStates
<1>1. UNCHANGED <<armed, queued, reported, unacked, taken, watcher, pending, blocked>>
  BY DEF asyncVars, CloseObject, CollectClosed, CollectObject, eventVars
<1>2. wrapper \in [Objects -> WrapperStates]
  BY DEF EventInv, EventTypes
<1>3. \/ wrapper' = [wrapper EXCEPT ![o] = "closed"]
      \/ wrapper' = [wrapper EXCEPT ![o] = "collected"]
  BY DEF CloseObject, CollectClosed, CollectObject
<1>4. /\ wrapper' \in [Objects -> WrapperStates]
      /\ \A cq \in CQs : \/ wrapper'[cq] = wrapper[cq]
                         \/ wrapper'[cq] \in {"closed", "collected"}
  BY <1>2, <1>3
<1> QED BY <1>1, <1>4, QuietStep

\* The end of a QP: it waits only for asynchronous events.
LEMMA EndOfQP ==
    ASSUME EventInv, NEW q \in QPs, NEW ok \in BOOLEAN,
           CloseQP(q) \/ CollectQP(q, ok)
    PROVE  EventInv'
<1> USE CQsApart DEF WrapperStates
<1>1. UNCHANGED <<armed, queued, reported, unacked, taken, watcher, pending>>
  BY DEF CloseQP, CollectQP, eventVars, asyncVars
<1>2. wrapper \in [Objects -> WrapperStates] /\ q \in Objects
  BY DEF EventInv, EventTypes, Objects
<1>3. CASE Unacknowledged(q) /\ blocked' = q /\ wrapper' = wrapper
  <2>1. EventTypes' /\ AbsentSilent' /\ CountExact'
    BY <1>1, <1>3 DEF EventInv, EventTypes, AbsentSilent, CountExact
  <2>2. BlockedOnlyByEvents'
    BY <1>1, <1>3 DEF BlockedOnlyByEvents, Unacknowledged
  <2> QED BY <2>1, <2>2 DEF EventInv
<1>4. CASE /\ blocked' = blocked
           /\ \E state \in {"closed", "collected"} : wrapper' = [wrapper EXCEPT ![q] = state]
  <2>1. /\ wrapper' \in [Objects -> WrapperStates]
        /\ \A cq \in CQs : \/ wrapper'[cq] = wrapper[cq]
                           \/ wrapper'[cq] \in {"closed", "collected"}
    BY <1>2, <1>4
  <2> QED BY <1>1, <1>4, <2>1, QuietStep
<1> QED BY <1>3, <1>4 DEF CloseQP, CollectQP

\* The end of a CQ: what is not acknowledged by its own count can only be the
\* event that the other thread has taken.
LEMMA EndOfCQ ==
    ASSUME EventInv, NEW cq \in CQs, NEW ok \in BOOLEAN,
           CloseCQ(cq) \/ CollectCQ(cq, ok)
    PROVE  EventInv'
<1> USE CQsApart
<1> DEFINE t == IF taken = cq THEN 1 ELSE 0
<1>1. /\ wrapper[cq] = "open" /\ blocked = None
      /\ reported' = [reported EXCEPT ![cq] = Unsigned(@ - Owed(cq))]
      /\ unacked' = [unacked EXCEPT ![cq] = @ - Owed(cq)]
      /\ taken' = taken /\ watcher' = watcher /\ pending' = pending
  BY DEF CloseCQ, CollectCQ, Running, asyncVars
<1>2. EventTypes /\ AbsentSilent /\ CountExact
  BY DEF EventInv
<1>3. /\ reported[cq] = Unsigned(unacked[cq] + t)
      /\ unacked[cq] \in (-Half)..(Half - 1) /\ t \in {0, 1}
  BY <1>1, <1>2 DEF CountExact, EventTypes
<1>4. /\ reported'[cq] = Unsigned(unacked'[cq] + t)
      /\ unacked'[cq] >= 0 => reported'[cq] = t
      /\ reported' \in [CQs -> 0..(Span - 1)] /\ unacked' \in [CQs -> (-Half)..(Half - 1)]
      /\ \A c \in CQs : c # cq => reported'[c] = reported[c] /\ unacked'[c] = unacked[c]
  <2> HIDE DEF t
  <2>1. /\ reported'[cq] = Unsigned(Unsigned(unacked[cq] + t) - Owed(cq))
        /\ unacked'[cq] = unacked[cq] - Owed(cq)
        /\ \A c \in CQs : c # cq => reported'[c] = reported[c] /\ unacked'[c] = unacked[c]
    BY <1>1, <1>2, <1>3 DEF EventTypes
  <2>2. Owed(cq) = IF unacked[cq] > 0 THEN unacked[cq] ELSE 0
    BY DEF Owed
  <2>3. /\ reported'[cq] \in 0..(Span - 1) /\ unacked'[cq] \in (-Half)..(Half - 1)
        /\ reported'[cq] = Unsigned(unacked'[cq] + t)
        /\ unacked'[cq] >= 0 => reported'[cq] = t
    BY <1>3, <2>1, <2>2, Settled
  <2>4. reported' \in [CQs -> 0..(Span - 1)] /\ unacked' \in [CQs -> (-Half)..(Half - 1)]
    BY <1>1, <1>2, <2>1, <2>3 DEF EventTypes
  <2> QED BY <2>1, <2>3, <2>4
<1>5. \/ /\ UNCHANGED <<armed, queued, wrapper>> /\ blocked' = None
      \/ /\ UNCHANGED <<armed, queued>> /\ blocked' = None
         /\ wrapper' = [wrapper EXCEPT ![cq] = "collected"]
      \/ /\ UNCHANGED <<armed, queued, wrapper>> /\ blocked' = cq
         /\ reported'[cq] # 0 \/ Unacknowledged(cq)
      \/ /\ armed' = armed \ {cq} /\ queued' = [queued EXCEPT ![cq] = 0]
         /\ blocked' = None
         /\ \E state \in {"closed", "collected"} : wrapper' = [wrapper EXCEPT ![cq] = state]
  BY <1>1 DEF CloseCQ, CollectCQ, FreeCQ
<1>6. /\ armed' \subseteq armed
      /\ queued' \in [CQs -> Nat]
      /\ wrapper' \in [Objects -> WrapperStates]
      /\ \A c \in CQs : c # cq => queued'[c] = queued[c] /\ wrapper'[c] = wrapper[c]
      /\ wrapper'[cq] # "absent"
  BY <1>1, <1>2, <1>5 DEF EventTypes, WrapperStates
<1>7. EventTypes'
  BY <1>1, <1>2, <1>4, <1>5, <1>6 DEF EventTypes
<1>8. AbsentSilent'
  BY <1>1, <1>2, <1>4, <1>6 DEF AbsentSilent
<1>9. CountExact'
  BY <1>1, <1>2, <1>4, <1>6 DEF CountExact
<1>10. BlockedOnlyByEvents'
  <2>1. unacked'[cq] \in Int
    BY <1>4, SpanIsInt
  <2> QED BY <1>1, <1>4, <1>5, <2>1 DEF BlockedOnlyByEvents, Unacknowledged
<1> QED BY <1>7, <1>8, <1>9, <1>10 DEF EventInv

\* The life of an event: armed, queued, taken, counted, acknowledged.
LEMMA EventSteps ==
    ASSUME EventInv, Events
    PROVE  EventInv'
<1> USE CQsApart DEF EventInv, EventTypes
<1>1. ASSUME NEW cq \in CQs, ReqNotify(cq) PROVE EventInv'
  BY <1>1 DEF ReqNotify, objVars, AbsentSilent, CountExact, BlockedOnlyByEvents, Unacknowledged, asyncVars
<1>2. ASSUME NEW cq \in CQs, HwEvent(cq) PROVE EventInv'
  BY <1>2 DEF HwEvent, objVars, AbsentSilent, CountExact, BlockedOnlyByEvents, Unacknowledged, asyncVars
<1>3. ASSUME NEW cq \in CQs, TakeEvent(cq) PROVE EventInv'
  <2>1. /\ taken = None /\ taken' = cq /\ queued[cq] > 0
        /\ queued' = [queued EXCEPT ![cq] = @ - 1]
        /\ reported' = [reported EXCEPT ![cq] = Unsigned(@ + 1)]
        /\ UNCHANGED <<wrapper, armed, unacked, watcher, pending, blocked>>
    BY <1>3 DEF TakeEvent, objVars, asyncVars
  <2>2. wrapper[cq] = "open" => /\ reported'[cq] = Unsigned(unacked'[cq] + 1)
                                /\ reported'[cq] \in 0..(Span - 1)
    BY <2>1, OneMoreEvent, SpanIsInt DEF CountExact
  <2>3. Unsigned(reported[cq] + 1) \in 0..(Span - 1)
    BY SpanIsInt DEF Unsigned
  <2>4. EventTypes'
    BY <2>1, <2>3
  <2>5. CountExact'
    BY <2>1, <2>2 DEF CountExact
  <2>6. AbsentSilent' /\ BlockedOnlyByEvents'
    BY <2>1 DEF AbsentSilent, BlockedOnlyByEvents, Unacknowledged
  <2> QED BY <2>4, <2>5, <2>6
<1>4. ASSUME NEW ch \in Channels, GetEvent(ch) PROVE EventInv'
  BY <1>4 DEF GetEvent, objVars, AbsentSilent, CountExact, BlockedOnlyByEvents, Unacknowledged, asyncVars
<1>5. CASE CountEvent
  <2>1. /\ taken \in CQs /\ wrapper[taken] = "open" /\ taken' = None /\ blocked = None
        /\ unacked' = [unacked EXCEPT ![taken] = Signed(@ + 1)]
        /\ UNCHANGED <<wrapper, armed, queued, reported, watcher, pending, blocked>>
    BY <1>5 DEF CountEvent, Running, asyncVars
  <2>2. /\ unacked'[taken] = Signed(unacked[taken] + 1)
        /\ Signed(unacked[taken] + 1) \in (-Half)..(Half - 1)
        /\ reported'[taken] = Unsigned(unacked'[taken])
    BY <2>1, OneMoreEvent DEF CountExact
  <2>3. EventTypes'
    BY <2>1, <2>2
  <2>4. CountExact'
    <3>1. unacked'[taken] + 0 = unacked'[taken]
      BY <2>2, SpanIsInt
    <3> QED BY <2>1, <2>2, <3>1 DEF CountExact
  <2>5. AbsentSilent' /\ BlockedOnlyByEvents'
    BY <2>1 DEF AbsentSilent, BlockedOnlyByEvents
  <2> QED BY <2>3, <2>4, <2>5
<1>6. ASSUME NEW cq \in CQs, NEW n \in 1..(Span - 1), AckEvents(cq, n) PROVE EventInv'
  <2> DEFINE t == IF taken = cq THEN 1 ELSE 0
  <2>1. /\ wrapper[cq] = "open" /\ blocked = None /\ Signed(n) <= unacked[cq]
        /\ reported' = [reported EXCEPT ![cq] = Unsigned(@ - n)]
        /\ unacked' = [unacked EXCEPT ![cq] = Signed(@ - Signed(n))]
        /\ UNCHANGED <<wrapper, armed, queued, taken, watcher, pending, blocked>>
    BY <1>6 DEF AckEvents, objVars, Running, asyncVars
  <2>2. reported[cq] = Unsigned(unacked[cq] + t) /\ t \in {0, 1}
    BY <2>1 DEF CountExact
  <2>3. /\ Unsigned(reported[cq] - n) \in 0..(Span - 1)
        /\ Signed(unacked[cq] - Signed(n)) \in (-Half)..(Half - 1)
        /\ Unsigned(reported[cq] - n) = Unsigned(Signed(unacked[cq] - Signed(n)) + t)
    <3> HIDE DEF t
    <3> QED BY <2>1, <2>2, Acknowledged
  <2>4. EventTypes'
    BY <2>1, <2>3
  <2>5. CountExact'
    BY <2>1, <2>3 DEF CountExact
  <2>6. AbsentSilent' /\ BlockedOnlyByEvents'
    BY <2>1 DEF AbsentSilent, BlockedOnlyByEvents
  <2> QED BY <2>4, <2>5, <2>6
<1> QED BY <1>1, <1>2, <1>3, <1>4, <1>5, <1>6 DEF Events

\* Asynchronous events: while a close waits, its event stays.
LEMMA AsyncSteps ==
    ASSUME EventInv, AsyncEvents
    PROVE  EventInv'
<1> USE CQsApart
<1>1. UNCHANGED <<wrapper, armed, queued, reported, unacked, taken, blocked>>
  BY DEF AsyncEvents, TakeAsync, ReturnAsync, AckAsync, objVars, eventVars
<1>2. EventTypes' /\ AbsentSilent' /\ CountExact'
  BY <1>1 DEF EventInv, EventTypes, AbsentSilent, CountExact
<1>3. BlockedOnlyByEvents'
  BY <1>1 DEF EventInv, BlockedOnlyByEvents, Unacknowledged, AsyncEvents, TakeAsync,
              ReturnAsync, AckAsync, Running
<1> QED BY <1>2, <1>3 DEF EventInv

\* Every step of Next, and stuttering.
LEMMA EventInvStep == EventInv /\ [Next]_vars => EventInv'
<1> SUFFICES ASSUME EventInv, [Next]_vars PROVE EventInv'
  OBVIOUS
<1> USE CQsApart
<1>1. CASE Make
  <2>1. CASE Open \/ Resolve
    BY <2>1, ContextSteps
  <2>2. ASSUME NEW o \in PDs \cup Channels, CreateOnContext(o) PROVE EventInv'
    BY <2>2, WrapStep DEF CreateOnContext, Objects
  <2>3. ASSUME NEW cq \in CQs, NEW ch \in Optional(Channels), CreateCQ(cq, ch)
        PROVE  EventInv'
    BY <2>3, WrapStep DEF CreateCQ
  <2>4. ASSUME NEW o \in OnPD, NEW pd \in PDs, CreateOnPD(o, pd)
        PROVE  EventInv'
    BY <2>4, WrapStep DEF CreateOnPD, Objects
  <2>5. ASSUME NEW q \in QPs, NEW pd \in PDs, NEW scq \in CQs, NEW rcq \in CQs,
               NEW srq \in Optional(SRQs),
               CreateQP(q, pd, scq, rcq, srq) \/ CMCreateQP(q, pd, scq, rcq, srq)
        PROVE  EventInv'
    BY <2>5, WrapStep DEF CreateQP, CMCreateQP, Objects
  <2> QED BY <1>1, <2>1, <2>2, <2>3, <2>4, <2>5
       DEF Make, AllocPD, CreateCompChannel, RegMR, RegDmabufMR, CreateAH, CreateSRQ, OnPD
<1>2. CASE End
  <2>1. CASE CloseContext \/ CloseCM
    BY <2>1, ContextSteps
  <2>2. ASSUME NEW o \in PDs \cup OnPD \cup Channels, CloseObject(o)
        PROVE  EventInv'
    BY <2>2, EndSteps DEF Objects
  <2>3. ASSUME NEW q \in QPs, CloseQP(q) PROVE EventInv'
    BY <2>3, EndOfQP
  <2>4. ASSUME NEW cq \in CQs, CloseCQ(cq) PROVE EventInv'
    BY <2>4, EndOfCQ
  <2>5. ASSUME NEW o \in Objects, Drop(o) PROVE EventInv'
    BY <2>5, QuietStep DEF Drop, eventVars, asyncVars, EventInv, EventTypes
  <2> QED BY <1>2, <2>1, <2>2, <2>3, <2>4, <2>5
       DEF End, ClosePD, CloseMR, CloseAH, CloseSRQ, CloseCompChannel, OnPD
<1>3. CASE Collect
  <2>1. ASSUME NEW o \in Objects, CollectClosed(o) PROVE EventInv'
    BY <2>1, EndSteps
  <2>2. CASE CollectContext \/ CollectCM
    BY <2>2, ContextSteps
  <2>3. ASSUME NEW ok \in BOOLEAN, NEW o \in PDs \cup OnPD \cup Channels,
               CollectObject(o, ok)
        PROVE  EventInv'
    BY <2>3, EndSteps DEF Objects
  <2>4. ASSUME NEW ok \in BOOLEAN, NEW q \in QPs, CollectQP(q, ok) PROVE EventInv'
    BY <2>4, EndOfQP
  <2>5. ASSUME NEW ok \in BOOLEAN, NEW cq \in CQs, CollectCQ(cq, ok) PROVE EventInv'
    BY <2>5, EndOfCQ
  <2> QED BY <1>3, <2>1, <2>2, <2>3, <2>4, <2>5
       DEF Collect, CollectPD, CollectMR, CollectAH, CollectSRQ, CollectCompChannel, OnPD
<1>4. CASE Events \/ AsyncEvents
  BY <1>4, EventSteps, AsyncSteps
<1>5. CASE Export
  <2>1. UNCHANGED <<wrapper, armed, queued, reported, unacked, taken, watcher, pending, blocked>>
    BY <1>5 DEF Export, BridgeInfo, ExportFails, Acquire, Release, objVars, eventVars, asyncVars
  <2> QED BY <2>1, QuietStep DEF EventInv, EventTypes
<1>6. CASE UNCHANGED vars
  <2>1. UNCHANGED <<wrapper, armed, queued, reported, unacked, taken, watcher, pending, blocked>>
    BY <1>6 DEF vars, objVars, eventVars, asyncVars
  <2> QED BY <2>1, QuietStep DEF EventInv, EventTypes
<1> QED BY <1>1, <1>2, <1>3, <1>4, <1>5, <1>6 DEF Next

\* The inductive invariant of completion events.
THEOREM EventInvHolds == Spec => []EventInv
<1>1. Init => EventInv
  BY CQsApart, SpanIsInt DEF Unsigned, Init, EventInv, EventTypes, AbsentSilent, CountExact,
                  BlockedOnlyByEvents, WrapperStates
<1> QED BY <1>1, EventInvStep, PTL DEF Spec

\* CQ._unacked is, modulo 2^32, the number of events that libibverbs waits for,
\* apart from one that get_cq_event has read and not counted yet.
THEOREM EventsAccountedHolds == Spec => []EventsAccounted
<1>1. EventInv => EventsAccounted
  BY DEF EventInv, CountExact, EventsAccounted
<1> QED BY <1>1, EventInvHolds, PTL

\* close() and __dealloc__ of a QP or CQ wait in the destroy call only for an
\* event that another thread has read in get_cq_event and not counted, for an
\* asynchronous event that nobody has acknowledged, or because ack_events was
\* called with 2^31 or more and made CQ._unacked negative.
THEOREM BlockedOnlyByEventsHolds == Spec => []BlockedOnlyByEvents
<1>1. EventInv => BlockedOnlyByEvents
  BY DEF EventInv
<1> QED BY <1>1, EventInvHolds, PTL

-----------------------------------------------------------------------------
\* A counted object has a native one while its wrapper is open, and had none
\* before it was made.
WrapperBacked ==
    \A o \in Counted :
        /\ wrapper[o] = "open" => o \in native
        /\ wrapper[o] = "absent" => o \notin native

\* ChildrenExact, made inductive.
ChildInv ==
    /\ wrapper \in [Objects -> WrapperStates]
    /\ WrapperBacked
    /\ children \in Nat
    /\ ChildrenExact

\* Classes of objects that the proof tells apart.
LEMMA CountedApart ==
    /\ Counted \subseteq Objects /\ CQs \subseteq Counted
    /\ Ctx \notin Counted /\ Cmid \notin Counted
    /\ (OnPD \cup QPs) \cap Counted = {}
BY ObjectsAssumption DEF Objects, Counted

\* One native object more, one less.
LEMMA OneMore ==
    ASSUME NEW S, NEW o \in Counted, o \notin S
    PROVE  Cardinality((S \cup {o}) \cap Counted) = Cardinality(S \cap Counted) + 1
<1>1. IsFiniteSet(S \cap Counted)
  BY ObjectsAssumption, FS_Subset, CountedApart
<1>2. (S \cup {o}) \cap Counted = (S \cap Counted) \cup {o}
  OBVIOUS
<1> QED BY <1>1, <1>2, FS_AddElement

LEMMA OneLess ==
    ASSUME NEW S, NEW o \in Counted, o \in S
    PROVE  /\ Cardinality((S \ {o}) \cap Counted) = Cardinality(S \cap Counted) - 1
           /\ Cardinality(S \cap Counted) > 0
<1>1. IsFiniteSet(S \cap Counted)
  BY ObjectsAssumption, FS_Subset, CountedApart
<1>2. (S \ {o}) \cap Counted = (S \cap Counted) \ {o}
  OBVIOUS
<1>3. S \cap Counted # {}
  OBVIOUS
<1>4. Cardinality(S \cap Counted) \in Nat /\ Cardinality(S \cap Counted) # 0
  BY <1>1, <1>3, FS_CardinalityType, FS_EmptySet
<1>5. Cardinality((S \cap Counted) \ {o}) = Cardinality(S \cap Counted) - 1
  BY <1>1, FS_RemoveElement
<1> QED BY <1>2, <1>4, <1>5

\* A step that neither makes nor frees a counted object.
LEMMA SameChildren ==
    ASSUME ChildInv, children' = children, native' \cap Counted = native \cap Counted,
           wrapper' \in [Objects -> WrapperStates],
           \A o \in Counted : wrapper'[o] = wrapper[o] \/ wrapper'[o] \in {"closed", "collected"}
    PROVE  ChildInv'
<1>1. WrapperBacked'
  <2> SUFFICES ASSUME NEW o \in Counted
               PROVE  /\ wrapper'[o] = "open" => o \in native'
                      /\ wrapper'[o] = "absent" => o \notin native'
    BY DEF WrapperBacked
  <2>1. o \in native' <=> o \in native
    OBVIOUS
  <2>2. /\ wrapper[o] = "open" => o \in native
        /\ wrapper[o] = "absent" => o \notin native
    BY DEF ChildInv, WrapperBacked
  <2> QED BY <2>1, <2>2
<1>2. ChildrenExact'
  BY DEF ChildInv, ChildrenExact
<1> QED BY <1>1, <1>2 DEF ChildInv

\* A counted object is made.
LEMMA ChildMade ==
    ASSUME ChildInv, NEW o \in Counted, NEW parents, Wrap(o, parents),
           children' = children + 1
    PROVE  ChildInv'
<1> USE CountedApart
<1>1. o \notin native /\ native' = native \cup {o} /\ wrapper' = [wrapper EXCEPT ![o] = "open"]
  BY DEF Wrap, ChildInv, WrapperBacked
<1>2. ChildrenExact'
  BY <1>1, OneMore DEF ChildInv, ChildrenExact
<1>3. wrapper' \in [Objects -> WrapperStates] /\ WrapperBacked'
  BY <1>1 DEF ChildInv, WrapperBacked, WrapperStates
<1> QED BY <1>2, <1>3 DEF ChildInv

\* A counted object is freed, and the guard of _release_child holds.
LEMMA ChildFreed ==
    ASSUME ChildInv, NEW o \in Counted, NEW state \in {"closed", "collected"},
           wrapper[o] = "open", wrapper' = [wrapper EXCEPT ![o] = state],
           native' = native \ {o},
           children' = IF children > 0 THEN children - 1 ELSE children
    PROVE  ChildInv'
<1> USE CountedApart
<1>0. WrapperBacked /\ children \in Nat /\ children = Cardinality(native \cap Counted)
  BY DEF ChildInv, ChildrenExact
<1>1. o \in native
  BY <1>0 DEF WrapperBacked
<1>2. /\ Cardinality((native \ {o}) \cap Counted) = Cardinality(native \cap Counted) - 1
      /\ Cardinality(native \cap Counted) > 0
  BY <1>1, OneLess
<1>3. children' = children - 1 /\ children' \in Nat /\ ChildrenExact'
  BY <1>0, <1>2 DEF ChildrenExact
<1>4. wrapper' \in [Objects -> WrapperStates] /\ WrapperBacked'
  BY DEF ChildInv, WrapperBacked, WrapperStates
<1> QED BY <1>3, <1>4 DEF ChildInv

\* Context, endpoint, QPs, and everything that makes no change to wrappers.
LEMMA ChildlessSteps ==
    ASSUME ChildInv,
           \/ Open \/ Resolve \/ CloseContext \/ CloseCM \/ CollectContext \/ CollectCM
           \/ \E o \in Objects : Drop(o) \/ CollectClosed(o)
           \/ \E q \in QPs : CloseQP(q) \/ \E ok \in BOOLEAN : CollectQP(q, ok)
    PROVE  ChildInv'
<1> USE CountedApart DEF WrapperStates
<1>0. wrapper \in [Objects -> WrapperStates]
  BY DEF ChildInv
<1>1. CASE Open \/ Resolve \/ CloseContext \/ CloseCM \/ CollectContext \/ CollectCM
  <2>1. children' = children /\ native' \cap Counted = native \cap Counted
    BY <1>1 DEF Open, Resolve, CloseContext, CloseCM, CollectContext, CollectCM
  <2>2. /\ wrapper' \in [Objects -> WrapperStates]
        /\ \A o \in Counted : wrapper'[o] = wrapper[o]
    BY <1>0, <1>1 DEF Open, Resolve, CloseContext, CloseCM, CollectContext, CollectCM, Objects
  <2> QED BY <2>1, <2>2, SameChildren
<1>2. ASSUME NEW o \in Objects, Drop(o) \/ CollectClosed(o) PROVE ChildInv'
  <2>1. children' = children /\ native' = native
    BY <1>2 DEF Drop, CollectClosed
  <2>2. /\ wrapper' \in [Objects -> WrapperStates]
        /\ \A c \in Counted : wrapper'[c] = wrapper[c] \/ wrapper'[c] \in {"closed", "collected"}
    BY <1>0, <1>2 DEF Drop, CollectClosed
  <2> QED BY <2>1, <2>2, SameChildren
<1>3. ASSUME NEW q \in QPs, CloseQP(q) \/ \E ok \in BOOLEAN : CollectQP(q, ok) PROVE ChildInv'
  <2>1. children' = children /\ native' \cap Counted = native \cap Counted
    BY <1>3 DEF CloseQP, CollectQP
  <2>2. /\ wrapper' \in [Objects -> WrapperStates]
        /\ \A c \in Counted : wrapper'[c] = wrapper[c]
    BY <1>0, <1>3 DEF CloseQP, CollectQP, Objects
  <2> QED BY <2>1, <2>2, SameChildren
<1> QED BY <1>1, <1>2, <1>3

\* close() and __dealloc__ of PDs, channels, MRs, AHs and SRQs.
LEMMA ChildObjectSteps ==
    ASSUME ChildInv, NEW o \in Objects, NEW ok \in BOOLEAN,
           CloseObject(o) \/ CollectObject(o, ok)
    PROVE  ChildInv'
<1> USE CountedApart DEF WrapperStates
<1>1. /\ wrapper[o] = "open"
      /\ \E state \in {"closed", "collected"} : wrapper' = [wrapper EXCEPT ![o] = state]
  BY DEF CloseObject, CollectObject
<1>2. \/ native' = native /\ children' = children
      \/ /\ native' = native \ {o}
         /\ children' = IF o \in Counted /\ children > 0 THEN children - 1 ELSE children
  BY DEF CloseObject, CollectObject
<1>3. wrapper' \in [Objects -> WrapperStates]
  BY <1>1 DEF ChildInv
<1>4. \A c \in Counted : wrapper'[c] = wrapper[c] \/ wrapper'[c] \in {"closed", "collected"}
  BY <1>1 DEF ChildInv
<1>5. CASE native' = native /\ children' = children
  BY <1>3, <1>4, <1>5, SameChildren
<1>6. CASE o \notin Counted /\ native' = native \ {o} /\ children' = children
  BY <1>3, <1>4, <1>6, SameChildren
<1>7. CASE /\ o \in Counted /\ native' = native \ {o}
           /\ children' = IF children > 0 THEN children - 1 ELSE children
  BY <1>1, <1>7, ChildFreed
<1> QED BY <1>2, <1>5, <1>6, <1>7

\* close() and __dealloc__ of a CQ.
LEMMA ChildCQSteps ==
    ASSUME ChildInv, NEW cq \in CQs, NEW ok \in BOOLEAN,
           CloseCQ(cq) \/ CollectCQ(cq, ok)
    PROVE  ChildInv'
<1> USE CountedApart DEF WrapperStates
<1>1. wrapper[cq] = "open" /\ cq \in Counted
  BY DEF CloseCQ, CollectCQ
<1>2. \/ UNCHANGED <<wrapper, native, children>>
      \/ UNCHANGED <<native, children>> /\ wrapper' = [wrapper EXCEPT ![cq] = "collected"]
      \/ /\ native' = native \ {cq}
         /\ \E state \in {"closed", "collected"} : wrapper' = [wrapper EXCEPT ![cq] = state]
         /\ children' = IF children > 0 THEN children - 1 ELSE children
  BY DEF CloseCQ, CollectCQ, FreeCQ
<1>3. CASE UNCHANGED <<wrapper, native, children>>
  BY <1>3, SameChildren DEF ChildInv
<1>4. CASE UNCHANGED <<native, children>> /\ wrapper' = [wrapper EXCEPT ![cq] = "collected"]
  <2>1. /\ wrapper' \in [Objects -> WrapperStates]
        /\ \A c \in Counted : wrapper'[c] = wrapper[c] \/ wrapper'[c] \in {"closed", "collected"}
    BY <1>4 DEF ChildInv
  <2> QED BY <1>4, <2>1, SameChildren
<1>5. CASE /\ native' = native \ {cq}
           /\ \E state \in {"closed", "collected"} : wrapper' = [wrapper EXCEPT ![cq] = state]
           /\ children' = IF children > 0 THEN children - 1 ELSE children
  BY <1>1, <1>5, ChildFreed
<1> QED BY <1>2, <1>3, <1>4, <1>5

\* An MR, AH, SRQ or QP is made.
LEMMA UncountedMade ==
    ASSUME ChildInv, NEW o \in Objects \ Counted, NEW parents, Wrap(o, parents),
           children' = children
    PROVE  ChildInv'
<1> USE CountedApart DEF WrapperStates
<1>1. native' = native \cup {o} /\ wrapper' = [wrapper EXCEPT ![o] = "open"]
  BY DEF Wrap
<1>2. native' \cap Counted = native \cap Counted
  BY <1>1
<1>3. /\ wrapper' \in [Objects -> WrapperStates]
      /\ \A c \in Counted : wrapper'[c] = wrapper[c]
  BY <1>1 DEF ChildInv
<1> QED BY <1>2, <1>3, SameChildren

\* Every step of Next, and stuttering.
LEMMA ChildInvStep == ChildInv /\ [Next]_vars => ChildInv'
<1> SUFFICES ASSUME ChildInv, [Next]_vars PROVE ChildInv'
  OBVIOUS
<1> USE CountedApart
<1>1. CASE Make
  <2>1. CASE Open \/ Resolve
    BY <2>1, ChildlessSteps
  <2>2. ASSUME NEW o \in PDs \cup Channels, CreateOnContext(o) PROVE ChildInv'
    BY <2>2, ChildMade DEF CreateOnContext, Counted
  <2>3. ASSUME NEW cq \in CQs, NEW ch \in Optional(Channels), CreateCQ(cq, ch)
        PROVE  ChildInv'
    BY <2>3, ChildMade DEF CreateCQ
  <2>4. ASSUME NEW o \in OnPD, NEW pd \in PDs, CreateOnPD(o, pd)
        PROVE  ChildInv'
    <3>1. o \in Objects \ Counted
      BY DEF Objects
    <3> QED BY <2>4, <3>1, UncountedMade DEF CreateOnPD
  <2>5. ASSUME NEW q \in QPs, NEW pd \in PDs, NEW scq \in CQs, NEW rcq \in CQs,
               NEW srq \in Optional(SRQs),
               CreateQP(q, pd, scq, rcq, srq) \/ CMCreateQP(q, pd, scq, rcq, srq)
        PROVE  ChildInv'
    <3>1. q \in Objects \ Counted
      BY DEF Objects
    <3> QED BY <2>5, <3>1, UncountedMade DEF CreateQP, CMCreateQP
  <2> QED BY <1>1, <2>1, <2>2, <2>3, <2>4, <2>5
       DEF Make, AllocPD, CreateCompChannel, RegMR, RegDmabufMR, CreateAH, CreateSRQ, OnPD
<1>2. CASE End
  <2>1. CASE CloseContext \/ CloseCM \/ (\E q \in QPs : CloseQP(q)) \/ (\E o \in Objects : Drop(o))
    BY <2>1, ChildlessSteps
  <2>2. ASSUME NEW o \in PDs \cup OnPD \cup Channels, CloseObject(o)
        PROVE  ChildInv'
    BY <2>2, CQsApart, ChildObjectSteps
  <2>3. ASSUME NEW cq \in CQs, CloseCQ(cq) PROVE ChildInv'
    BY <2>3, ChildCQSteps
  <2> QED BY <1>2, <2>1, <2>2, <2>3
       DEF End, ClosePD, CloseMR, CloseAH, CloseSRQ, CloseCompChannel, OnPD
<1>3. CASE Collect
  <2>1. CASE CollectContext \/ CollectCM \/ \E o \in Objects : CollectClosed(o)
    BY <2>1, ChildlessSteps
  <2>2. ASSUME NEW ok \in BOOLEAN, NEW o \in PDs \cup OnPD \cup Channels,
               CollectObject(o, ok)
        PROVE  ChildInv'
    BY <2>2, CQsApart, ChildObjectSteps
  <2>3. ASSUME NEW ok \in BOOLEAN, NEW q \in QPs, CollectQP(q, ok) PROVE ChildInv'
    BY <2>3, ChildlessSteps
  <2>4. ASSUME NEW ok \in BOOLEAN, NEW cq \in CQs, CollectCQ(cq, ok) PROVE ChildInv'
    BY <2>4, ChildCQSteps
  <2> QED BY <1>3, <2>1, <2>2, <2>3, <2>4
       DEF Collect, CollectPD, CollectMR, CollectAH, CollectSRQ, CollectCompChannel, OnPD
<1>4. CASE Events \/ AsyncEvents \/ Export \/ UNCHANGED vars
  <2>1. UNCHANGED <<wrapper, native, children>>
    BY <1>4 DEF Events, ReqNotify, HwEvent, TakeEvent, GetEvent, CountEvent, AckEvents,
                AsyncEvents, TakeAsync, ReturnAsync, AckAsync, Export, BridgeInfo, ExportFails, Acquire, Release, vars, objVars
  <2> QED BY <2>1, SameChildren DEF ChildInv
<1> QED BY <1>1, <1>2, <1>3, <1>4 DEF Next

\* The inductive invariant of Context._children.
THEOREM ChildInvHolds == Spec => []ChildInv
<1>1. Init => ChildInv
  <2> SUFFICES ASSUME Init PROVE ChildInv
    OBVIOUS
  <2>1. native \cap Counted = {} /\ children = 0
    BY DEF Init
  <2>2. ChildrenExact
    BY <2>1, FS_EmptySet DEF ChildrenExact
  <2> QED BY <2>1, <2>2, CountedApart DEF Init, ChildInv, WrapperBacked, WrapperStates
<1> QED BY <1>1, ChildInvStep, PTL DEF Spec

\* Context._children is the number of native PDs, channels and CQs.
THEOREM ChildrenExactHolds == Spec => []ChildrenExact
<1>1. ChildInv => ChildrenExact
  BY DEF ChildInv
<1> QED BY <1>1, ChildInvHolds, PTL

-----------------------------------------------------------------------------
\* What an object may be built on, by its class.
RefTypes ==
    /\ refs \in [Objects -> SUBSET Objects]
    /\ refs[Ctx] = {} /\ refs[Cmid] \subseteq {Ctx}
    /\ \A o \in PDs \cup Channels : refs[o] \subseteq {Ctx}
    /\ \A o \in CQs : refs[o] \subseteq {Ctx} \cup Channels
    /\ \A o \in OnPD : refs[o] \subseteq PDs
    /\ \A q \in QPs : refs[q] \subseteq PDs \cup CQs \cup SRQs \cup {Cmid}

\* A wrapper has its native object while it is open, and none before it was
\* made or after it was closed; what the context counts refers to it.
Backed ==
    \A o \in Objects :
        /\ wrapper[o] = "open" => o \in native
        /\ wrapper[o] \in {"absent", "closed"} => o \notin native
        /\ wrapper[o] = "absent" => refs[o] = {}
        /\ o \in native \cap Counted => Ctx \in refs[o]

\* A borrowed context: its endpoint keeps it, and takes it along.
BorrowedContext ==
    /\ wrapper[Cmid] # "absent" => wrapper[Ctx] # "absent" /\ refs[Cmid] = {Ctx}
    /\ wrapper[Cmid] \in {"closed", "collected"} => Ctx \notin native /\ Cmid \notin native

\* What the provider failed to free is still there, without a wrapper.
FailedLeft ==
    /\ failed \subseteq native \ {Ctx, Cmid}
    /\ \A o \in failed : wrapper[o] = "collected"
    /\ \A q \in failed \cap QPs : Cmid \notin refs[q]

LifeTypes ==
    /\ wrapper \in [Objects -> WrapperStates] /\ native \subseteq Objects
    /\ taken \in CQs \cup {None}

\* NoOrphans, LeaksExplained and EventNamesLiveCQ, made inductive.
LifeInv ==
    /\ LifeTypes /\ RefTypes /\ Backed /\ BorrowedContext /\ FailedLeft
    /\ NoOrphans /\ LeaksExplained /\ EventNamesLiveCQ

-----------------------------------------------------------------------------
\* The ways from an object down to what it is built on.
Reaches(n, y) ==
    \/ y = n \/ y \in Uses(n)
    \/ \E a \in Uses(n) : y \in Uses(a)
    \/ \E a \in Uses(n) : \E b \in Uses(a) : y \in Uses(b)

\* Foundations, unfolded.
LEMMA FoundationsReached == \A n, y : y \in Foundations(n) <=> Reaches(n, y)
<1> TAKE n, y
<1>1. \A S, x : x \in WithBase(S) <=> x \in S \/ \E w \in S : x \in Uses(w)
  BY DEF WithBase
<1>2. \A x : x \in WithBase({n}) <=> x = n \/ x \in Uses(n)
  BY <1>1
<1>3. \A x : x \in WithBase(WithBase({n}))
            <=> x = n \/ x \in Uses(n) \/ \E a \in Uses(n) : x \in Uses(a)
  BY <1>1, <1>2
<1>4. y \in Foundations(n) <=> \/ y \in WithBase(WithBase({n}))
                               \/ \E w \in WithBase(WithBase({n})) : y \in Uses(w)
  BY <1>1 DEF Foundations
<1> QED BY <1>3, <1>4 DEF Reaches

\* ... in the next state.
LEMMA FoundationsReachedNext == (\A n, y : y \in Foundations(n) <=> Reaches(n, y))'
BY FoundationsReached, PTL

\* The classes of what an object is built on.
LEMMA UsesLevels ==
    ASSUME RefTypes
    PROVE  /\ Uses(Ctx) = {} /\ Uses(Cmid) \subseteq {Ctx}
           /\ \A x \in PDs \cup Channels : Uses(x) \subseteq {Ctx}
           /\ \A x \in CQs : Uses(x) \subseteq {Ctx} \cup Channels
           /\ \A x \in OnPD : Uses(x) \subseteq PDs
           /\ \A x \in QPs : Uses(x) \subseteq PDs \cup CQs \cup SRQs
           /\ \A x \in Objects : Uses(x) \subseteq Objects
BY DEF RefTypes, Uses

\* Three steps reach all there is.
LEMMA ReachesOn ==
    ASSUME RefTypes, NEW m \in Objects, NEW n, NEW y, Reaches(m, n), y \in Uses(n)
    PROVE  Reaches(m, y)
<1>1. CASE n = m \/ n \in Uses(m) \/ \E a \in Uses(m) : n \in Uses(a)
  BY <1>1 DEF Reaches
<1>2. CASE \E a \in Uses(m) : \E b \in Uses(a) : n \in Uses(b)
  <2> PICK a \in Uses(m) : \E b \in Uses(a) : n \in Uses(b)
    BY <1>2
  <2>1. PICK b \in Uses(a) : n \in Uses(b)
    OBVIOUS
  <2>2. a \in {Ctx} \cup PDs \cup Channels \cup CQs \cup OnPD
    BY UsesLevels DEF Objects, Counted, OnPD
  <2>3. b \in {Ctx} \cup PDs \cup Channels
    BY <2>2, UsesLevels
  <2>4. n = Ctx
    BY <2>1, <2>3, UsesLevels
  <2> QED BY <2>4, UsesLevels
<1> QED BY <1>1, <1>2 DEF Reaches

\* Where an object is used: a QP nowhere, a CQ by QPs, a context by PDs,
\* channels, CQs and the endpoint.
LEMMA UsedBy ==
    ASSUME RefTypes, NEW n \in Objects
    PROVE  /\ \A q \in QPs : q \notin Uses(n)
           /\ \A cq \in CQs : cq \in Uses(n) => n \in QPs
           /\ Ctx \in Uses(n) => n \in Counted \cup {Cmid}
           /\ Cmid \notin Uses(n)
<1>1. n \in {Ctx, Cmid} \cup PDs \cup Channels \cup CQs \cup OnPD \cup QPs
  BY DEF Objects, Counted
<1>2. SRQs \subseteq OnPD
  BY DEF OnPD
<1>3. \A q \in QPs : q \notin {Ctx} \cup PDs \cup Channels \cup CQs \cup OnPD
  BY ObjectsAssumption DEF Counted
<1>4. \A cq \in CQs : cq \notin {Ctx} \cup PDs \cup Channels \cup OnPD \cup QPs
  BY ObjectsAssumption DEF Counted
<1>5. Ctx \notin PDs \cup Channels \cup CQs \cup OnPD \cup QPs
  BY ObjectsAssumption DEF Counted
<1>6. \A q \in QPs : q \notin Uses(n)
  BY <1>1, <1>2, <1>3, UsesLevels
<1>7. \A cq \in CQs : cq \in Uses(n) => n \in QPs
  BY <1>1, <1>2, <1>4, UsesLevels
<1>8. Ctx \in Uses(n) => n \in Counted \cup {Cmid}
  BY <1>1, <1>2, <1>5, UsesLevels DEF Counted
<1>9. Cmid \notin Uses(n)
  BY DEF Uses
<1> QED BY <1>6, <1>7, <1>8, <1>9

\* Nothing is built on a QP, so nothing but itself reaches it.
LEMMA ReachesQP ==
    ASSUME RefTypes, NEW m \in Objects, NEW q \in QPs, Reaches(m, q)
    PROVE  m = q
<1>1. \A n \in Objects : q \notin Uses(n)
  BY UsedBy
<1>2. \A x \in Objects : Uses(x) \subseteq Objects
  BY UsesLevels
<1> QED BY <1>1, <1>2 DEF Reaches

\* LeaksExplained in terms of Reaches.
LEMMA LeaksReached ==
    LeaksExplained <=> \A o \in native : wrapper[o] = "collected" =>
                           \E n \in failed \cap native : Reaches(n, o)
BY FoundationsReached DEF LeaksExplained

LEMMA LeaksReachedNext ==
    (LeaksExplained <=> \A o \in native : wrapper[o] = "collected" =>
                            \E n \in failed \cap native : Reaches(n, o))'
BY LeaksReached, PTL

\* NoOrphans, object by object.
LEMMA OneByOne ==
    NoOrphans <=> \A n \in native : \A x \in Uses(n) :
                      x \in native \/ (x = Ctx /\ wrapper[Cmid] = "collected")
BY DEF NoOrphans

LEMMA OneByOneNext ==
    (NoOrphans <=> \A n \in native : \A x \in Uses(n) :
                       x \in native \/ (x = Ctx /\ wrapper[Cmid] = "collected"))'
BY OneByOne, PTL

\* A counter that ack_events made negative stays so, unless the CQ is open.
NegativeStays ==
    \A c \in CQs : unacked[c] < 0 => unacked'[c] < 0 \/ wrapper'[c] = "open"

\* Uses, and so Reaches, is as before when refs loses the endpoint at most.
LEMMA ReachesSame ==
    ASSUME RefTypes, \A x \in Objects : Uses(x)' = Uses(x), NEW n \in Objects, NEW y
    PROVE  Reaches(n, y)' <=> Reaches(n, y)
<1>1. \A x \in Objects : Uses(x) \subseteq Objects
  BY UsesLevels
<1>2. Uses(n)' = Uses(n)
  OBVIOUS
<1>3. \A a \in Uses(n) : a \in Objects /\ Uses(a)' = Uses(a)
  BY <1>1
<1>4. \A a \in Uses(n) : \A b \in Uses(a) : b \in Objects /\ Uses(b)' = Uses(b)
  BY <1>1, <1>3
<1>5. (y \in Uses(n))' <=> y \in Uses(n)
  BY <1>2
<1>6. (\E a \in Uses(n) : y \in Uses(a))' <=> \E a \in Uses(n) : y \in Uses(a)
  BY <1>2, <1>3
<1>7. (\E a \in Uses(n) : \E b \in Uses(a) : y \in Uses(b))'
        <=> \E a \in Uses(n) : \E b \in Uses(a) : y \in Uses(b)
  BY <1>2, <1>3, <1>4
<1> QED BY <1>5, <1>6, <1>7 DEF Reaches

\* An object that is open and that nothing native is built on is freed.
LEMMA LifeFree ==
    ASSUME LifeInv, NEW o \in Objects, o # Cmid, wrapper[o] = "open",
           NEW state \in {"closed", "collected"},
           wrapper' = [wrapper EXCEPT ![o] = state], native' = native \ {o},
           refs' = refs \/ (o \in QPs /\ refs' = [refs EXCEPT ![o] = @ \ {Cmid}]),
           UNCHANGED <<failed, taken>>, ~ Busy(o),
           taken = o => unacked'[o] < 0, NegativeStays,
           o = Ctx => wrapper[Cmid] = "absent"
    PROVE  LifeInv'
<1>1. LifeTypes /\ RefTypes /\ Backed /\ BorrowedContext /\ FailedLeft
  BY DEF LifeInv
<1>2. \A x \in Objects : /\ Uses(x)' = Uses(x) /\ refs'[x] \subseteq refs[x]
                         /\ x \notin QPs => refs'[x] = refs[x]
  BY <1>1 DEF RefTypes, Uses
<1>3. Ctx \in Objects /\ Cmid \in Objects /\ Ctx \notin QPs /\ Cmid \notin QPs /\ Ctx # Cmid
      /\ QPs \subseteq Objects /\ None \notin Objects
  BY ObjectsAssumption DEF Objects, Counted
<1>4. wrapper'[o] = state /\ \A x \in Objects : x # o => wrapper'[x] = wrapper[x]
  BY <1>1 DEF LifeTypes
<1>5. LifeTypes'
  BY <1>1, <1>4 DEF LifeTypes, WrapperStates
<1>6. RefTypes'
  <2>1. refs' \in [Objects -> SUBSET Objects]
    BY <1>1 DEF RefTypes
  <2>2. PDs \cup Channels \cup CQs \cup OnPD \cup QPs \subseteq Objects
    BY DEF Objects, Counted
  <2> QED BY <1>1, <1>2, <1>3, <2>1, <2>2 DEF RefTypes
<1>7. Backed'
  BY <1>1, <1>2, <1>4, CountedApart DEF Backed
<1>8. BorrowedContext'
  BY <1>1, <1>2, <1>3, <1>4 DEF BorrowedContext, LifeTypes, WrapperStates
<1>9. FailedLeft'
  BY <1>1, <1>2, <1>4 DEF FailedLeft, LifeTypes
<1>10. NoOrphans'
  <2> SUFFICES ASSUME NEW n \in native, n # o, NEW x \in Uses(n)'
               PROVE  x \in native \ {o} \/ (x = Ctx /\ wrapper'[Cmid] = "collected")
    BY OneByOneNext
  <2>1. n \in Objects /\ wrapper[Cmid] = wrapper'[Cmid]
    BY <1>1, <1>3, <1>4 DEF LifeTypes
  <2>2. x \in Uses(n) /\ x # o
    BY <1>2, <2>1 DEF Busy
  <2> QED BY <2>1, <2>2, OneByOne DEF LifeInv
<1>11. LeaksExplained'
  <2> SUFFICES ASSUME NEW x \in native \ {o}, wrapper'[x] = "collected"
               PROVE  \E n \in failed \cap (native \ {o}) : Reaches(n, x)'
    BY LeaksReachedNext
  <2>1. x \in Objects /\ wrapper[x] = "collected"
    BY <1>1, <1>4 DEF LifeTypes
  <2>2. PICK n \in failed \cap native : Reaches(n, x)
    BY <2>1, LeaksReached DEF LifeInv
  <2>3. n # o /\ n \in Objects
    BY <1>1 DEF FailedLeft, LifeTypes
  <2> QED BY <1>1, <1>2, <2>2, <2>3, ReachesSame
<1>12. EventNamesLiveCQ'
  <2> SUFFICES ASSUME taken # None
               PROVE  \/ wrapper'[taken] = "open" \/ unacked'[taken] < 0
                      \/ \E n \in failed : n = taken \/ taken \in Uses(n)'
    BY DEF EventNamesLiveCQ
  <2>1. taken \in Objects
    BY <1>1, CQsApart DEF LifeTypes
  <2>2. taken \in CQs /\ (taken # o => wrapper'[taken] = wrapper[taken])
    BY <1>1, <1>4, <2>1 DEF LifeTypes
  <2>3. \A n \in failed : n \in Objects
    BY <1>1 DEF FailedLeft, LifeTypes
  <2> QED BY <1>2, <2>2, <2>3 DEF LifeInv, EventNamesLiveCQ, NegativeStays
<1> QED BY <1>5, <1>6, <1>7, <1>8, <1>9, <1>10, <1>11, <1>12 DEF LifeInv

\* Nothing alive refers to garbage.
LEMMA GarbageUnused ==
    ASSUME LifeInv, NEW o, o \in Garbage, NEW n \in native, o \in refs[n]
    PROVE  wrapper[n] = "collected"
<1>1. n \in Objects /\ wrapper[n] \in WrapperStates /\ wrapper[n] # "absent"
  BY DEF LifeInv, LifeTypes, Backed
<1>2. ~ Alive(n)
  BY <1>1 DEF Garbage
<1> QED BY <1>1, <1>2 DEF Alive, WrapperStates

\* A wrapper goes and its native object stays: the provider failed, or refused
\* because a native object is built on it that has no wrapper either.
LEMMA LifeLeave ==
    ASSUME LifeInv, NEW o \in Objects, o # Cmid, wrapper[o] = "open", o \in Garbage,
           wrapper' = [wrapper EXCEPT ![o] = "collected"], UNCHANGED <<native, refs, taken>>,
           NegativeStays,
           \/ failed' = failed /\ Busy(o)
           \/ failed' = failed \cup {o} /\ o # Ctx /\ (o \in QPs => Cmid \notin refs[o])
    PROVE  LifeInv'
<1>1. LifeTypes /\ RefTypes /\ Backed /\ BorrowedContext /\ FailedLeft
  BY DEF LifeInv
<1>2. \A x \in Objects : Uses(x)' = Uses(x)
  BY DEF Uses
<1>3. Ctx \in Objects /\ Cmid \in Objects /\ None \notin Objects /\ Ctx # Cmid
  BY ObjectsAssumption DEF Objects
<1>4. wrapper'[o] = "collected" /\ \A x \in Objects : x # o => wrapper'[x] = wrapper[x]
  BY <1>1 DEF LifeTypes
<1>5. o \in native
  BY <1>1 DEF Backed
<1>6. LifeTypes' /\ RefTypes' /\ Backed'
  BY <1>1, <1>4 DEF LifeTypes, RefTypes, Backed, WrapperStates
<1>7. BorrowedContext'
  BY <1>1, <1>3, <1>4 DEF BorrowedContext
<1>8. FailedLeft'
  BY <1>1, <1>4, <1>5 DEF FailedLeft, LifeTypes
<1>9. NoOrphans'
  <2>1. \A n \in native : Uses(n)' = Uses(n)
    BY <1>1, <1>2 DEF LifeTypes
  <2>2. wrapper'[Cmid] = wrapper[Cmid]
    BY <1>3, <1>4
  <2> QED BY <2>1, <2>2 DEF LifeInv, NoOrphans
<1>10. failed \subseteq failed' /\ failed' \subseteq native /\ failed \subseteq Objects
  BY <1>1, <1>5 DEF FailedLeft, LifeTypes
<1>11. \A n \in Objects : n \in failed => n \in failed' \cap native
  BY <1>10
<1>12. o \in failed' \/ \E n \in failed \cap native : Reaches(n, o)
  <2>1. CASE failed' = failed \cup {o}
    BY <2>1
  <2>2. CASE Busy(o)
    <3>1. PICK n \in native : o \in Uses(n)
      BY <2>2 DEF Busy
    <3>2. wrapper[n] = "collected"
      BY <3>1, GarbageUnused DEF Uses
    <3>3. PICK m \in failed \cap native : Reaches(m, n)
      BY <3>2, LeaksReached DEF LifeInv
    <3>4. Reaches(m, o)
      BY <1>1, <1>10, <3>1, <3>3, ReachesOn
    <3> QED BY <3>4
  <2> QED BY <2>1, <2>2
<1>13. LeaksExplained'
  <2> SUFFICES ASSUME NEW x \in native, wrapper'[x] = "collected"
               PROVE  \E n \in failed' \cap native : Reaches(n, x)'
    BY LeaksReachedNext
  <2>1. x \in Objects
    BY <1>1 DEF LifeTypes
  <2>2. x \in failed' \/ \E n \in failed \cap native : Reaches(n, x)
    <3>1. CASE x = o
      BY <1>12, <3>1
    <3>2. CASE x # o
      BY <1>4, <2>1, <3>2, LeaksReached DEF LifeInv
    <3> QED BY <3>1, <3>2
  <2>3. CASE x \in failed'
    BY <2>3 DEF Reaches
  <2>4. ASSUME NEW n \in failed \cap native, Reaches(n, x)
        PROVE  \E m \in failed' \cap native : Reaches(m, x)'
    <3>1. n \in Objects /\ n \in failed' \cap native
      BY <1>10
    <3>2. Reaches(n, x)'
      BY <1>1, <1>2, <2>4, <3>1, ReachesSame
    <3> QED BY <3>1, <3>2
  <2> QED BY <2>2, <2>3, <2>4
<1>14. EventNamesLiveCQ'
  <2> SUFFICES ASSUME taken # None
               PROVE  \/ wrapper'[taken] = "open" \/ unacked'[taken] < 0
                      \/ \E n \in failed' : n = taken \/ taken \in Uses(n)'
    BY DEF EventNamesLiveCQ
  <2>1. taken \in CQs /\ taken \in Objects
    BY <1>1, CQsApart DEF LifeTypes
  <2>2. CASE taken # o
    <3>1. wrapper'[taken] = wrapper[taken]
      BY <1>4, <2>1, <2>2
    <3>2. \A n \in failed : Uses(n)' = Uses(n)
      BY <1>2, <1>10
    <3> QED BY <1>10, <2>1, <3>1, <3>2 DEF LifeInv, EventNamesLiveCQ, NegativeStays
  <2>3. CASE taken = o /\ failed' = failed \cup {o}
    BY <2>3
  <2>4. CASE taken = o /\ Busy(o)
    <3>1. PICK n \in native : o \in Uses(n)
      BY <2>4 DEF Busy
    <3>2. wrapper[n] = "collected" /\ n \in Objects
      BY <1>1, <3>1, GarbageUnused DEF Uses, LifeTypes
    <3>3. PICK m \in failed \cap native : Reaches(m, n)
      BY <3>1, <3>2, LeaksReached DEF LifeInv
    <3>4. n \in QPs
      BY <1>1, <2>1, <2>4, <3>1, <3>2, UsedBy
    <3>5. m = n
      BY <1>1, <1>10, <3>3, <3>4, ReachesQP
    <3> QED BY <1>2, <1>10, <2>4, <3>1, <3>2, <3>3, <3>5
  <2> QED BY <2>2, <2>3, <2>4
<1> QED BY <1>6, <1>7, <1>8, <1>9, <1>13, <1>14 DEF LifeInv

\* A step that leaves wrappers, objects and references alone.
LEMMA LifeQuiet ==
    ASSUME LifeInv, UNCHANGED <<wrapper, native, refs, failed>>,
           taken' = taken \/ taken' = None, NegativeStays
    PROVE  LifeInv'
<1>1. LifeTypes' /\ RefTypes' /\ Backed' /\ BorrowedContext' /\ FailedLeft'
  BY DEF LifeInv, LifeTypes, RefTypes, Backed, BorrowedContext, FailedLeft
<1>2. NoOrphans' /\ EventNamesLiveCQ'
  BY DEF LifeInv, LifeTypes, NoOrphans, EventNamesLiveCQ, NegativeStays, Uses
<1>3. LeaksExplained'
  <2>1. \A x \in Objects : Uses(x)' = Uses(x)
    BY DEF Uses
  <2>2. \A n \in failed \cap native, x \in native : Reaches(n, x)' <=> Reaches(n, x)
    BY <2>1, ReachesSame DEF LifeInv, LifeTypes
  <2> QED BY <2>2, LeaksReached, LeaksReachedNext DEF LifeInv
<1> QED BY <1>1, <1>2, <1>3 DEF LifeInv

\* The event thread reads an event of a CQ that may have lost its wrapper.
LEMMA LifeTake ==
    ASSUME LifeInv, NEW cq \in CQs, TakeEvent(cq)
    PROVE  LifeInv'
<1> USE DEF objVars
<1>1. UNCHANGED <<wrapper, native, refs, failed>> /\ cq \in native /\ taken' = cq
  BY DEF TakeEvent
<1>2. LifeTypes' /\ RefTypes' /\ Backed' /\ BorrowedContext' /\ FailedLeft' /\ NoOrphans'
  BY <1>1 DEF LifeInv, LifeTypes, RefTypes, Backed, BorrowedContext, FailedLeft, NoOrphans, Uses
<1>3. LeaksExplained'
  <2>1. \A x \in Objects : Uses(x)' = Uses(x)
    BY <1>1 DEF Uses
  <2>2. \A n \in failed \cap native, x \in native : Reaches(n, x)' <=> Reaches(n, x)
    BY <2>1, ReachesSame DEF LifeInv, LifeTypes
  <2> QED BY <1>1, <2>2, LeaksReached, LeaksReachedNext DEF LifeInv
<1>4. wrapper[cq] = "open" \/ \E n \in failed : n = cq \/ cq \in Uses(n)
  <2>1. cq \in Objects /\ wrapper[cq] \in {"open", "collected"}
    BY <1>1, CQsApart DEF LifeInv, LifeTypes, Backed, WrapperStates
  <2>2. CASE wrapper[cq] = "collected"
    <3>1. PICK n \in failed \cap native : Reaches(n, cq)
      BY <1>1, <2>2, LeaksReached DEF LifeInv
    <3>2. n \in Objects /\ RefTypes
      BY DEF LifeInv, LifeTypes
    <3>3. n = cq \/ cq \in Uses(n)
      <4>1. \A x \in Objects : Uses(x) \subseteq Objects /\ (cq \in Uses(x) => x \in QPs)
        BY <3>2, UsesLevels, UsedBy
      <4>2. \A x \in Objects : \A q \in QPs : q \notin Uses(x)
        BY <3>2, UsedBy
      <4> QED BY <3>1, <3>2, <4>1, <4>2 DEF Reaches
    <3> QED BY <3>3
  <2> QED BY <2>1, <2>2
<1>5. EventNamesLiveCQ'
  BY <1>1, <1>4 DEF EventNamesLiveCQ, Uses
<1> QED BY <1>2, <1>3, <1>5 DEF LifeInv

\* The wrapper of a closed object goes.
LEMMA LifeCollectClosed ==
    ASSUME LifeInv, NEW o \in Objects, CollectClosed(o)
    PROVE  LifeInv'
<1> USE DEF eventVars
<1>1. /\ wrapper[o] = "closed" /\ wrapper' = [wrapper EXCEPT ![o] = "collected"]
      /\ UNCHANGED <<native, refs, failed, taken, unacked>>
  BY DEF CollectClosed
<1>2. LifeTypes /\ RefTypes /\ Backed /\ BorrowedContext /\ FailedLeft
  BY DEF LifeInv
<1>3. o \notin native /\ o \notin failed
  BY <1>1, <1>2 DEF Backed, FailedLeft
<1>4. Ctx \in Objects /\ Cmid \in Objects
  BY DEF Objects
<1>5. wrapper'[o] = "collected" /\ \A x \in Objects : x # o => wrapper'[x] = wrapper[x]
  BY <1>1, <1>2 DEF LifeTypes
<1>6. LifeTypes' /\ RefTypes' /\ Backed' /\ BorrowedContext' /\ FailedLeft'
  <2>1. LifeTypes' /\ RefTypes'
    BY <1>1, <1>2, <1>5 DEF LifeTypes, RefTypes, WrapperStates
  <2>2. Backed'
    BY <1>1, <1>2, <1>3, <1>5 DEF Backed
  <2>3. BorrowedContext'
    BY <1>1, <1>2, <1>4, <1>5 DEF BorrowedContext
  <2>4. FailedLeft'
    BY <1>1, <1>2, <1>3, <1>5 DEF FailedLeft, LifeTypes
  <2> QED BY <2>1, <2>2, <2>3, <2>4
<1>7. \A x \in Objects : Uses(x)' = Uses(x)
  BY <1>1 DEF Uses
<1>8. NoOrphans'
  BY <1>1, <1>2, <1>4, <1>5, <1>7 DEF LifeInv, NoOrphans, LifeTypes
<1>9. LeaksExplained'
  <2> SUFFICES ASSUME NEW x \in native, wrapper'[x] = "collected"
               PROVE  \E n \in failed \cap native : Reaches(n, x)'
    BY <1>1, LeaksReachedNext
  <2>1. wrapper[x] = "collected"
    BY <1>2, <1>3, <1>5 DEF LifeTypes
  <2>2. PICK n \in failed \cap native : Reaches(n, x)
    BY <2>1, LeaksReached DEF LifeInv
  <2> QED BY <1>2, <1>7, <2>2, ReachesSame DEF LifeTypes
<1>10. EventNamesLiveCQ'
  <2>1. taken \in CQs /\ CQs \subseteq Objects => (wrapper[taken] = "open" => wrapper'[taken] = "open")
    BY <1>1, <1>5
  <2>2. \A n \in failed : Uses(n)' = Uses(n)
    BY <1>2, <1>7 DEF FailedLeft, LifeTypes
  <2> QED BY <1>1, <1>2, <2>1, <2>2, CQsApart DEF LifeInv, EventNamesLiveCQ, LifeTypes
<1> QED BY <1>6, <1>8, <1>9, <1>10 DEF LifeInv

\* Reaches grows with Uses.
LEMMA ReachesMore ==
    ASSUME RefTypes, \A x \in Objects : Uses(x) \subseteq Uses(x)',
           NEW n \in Objects, NEW y, Reaches(n, y)
    PROVE  Reaches(n, y)'
<1>1. \A x \in Objects : Uses(x) \subseteq Objects
  BY UsesLevels
<1>2. CASE y = n
  BY <1>2 DEF Reaches
<1>3. CASE y \in Uses(n)
  BY <1>3 DEF Reaches
<1>4. ASSUME NEW a \in Uses(n), y \in Uses(a) PROVE Reaches(n, y)'
  <2>1. a \in Uses(n)' /\ y \in Uses(a)'
    BY <1>1, <1>4
  <2> QED BY <2>1 DEF Reaches
<1>5. ASSUME NEW a \in Uses(n), NEW b \in Uses(a), y \in Uses(b) PROVE Reaches(n, y)'
  <2>1. a \in Uses(n)' /\ b \in Uses(a)' /\ y \in Uses(b)'
    BY <1>1, <1>5
  <2> QED BY <2>1 DEF Reaches
<1> QED BY <1>2, <1>3, <1>4, <1>5 DEF Reaches

\* A new object on native ones.
LEMMA LifeMake ==
    ASSUME LifeInv, NEW o \in Objects \ {Ctx, Cmid}, NEW parents \in SUBSET Objects,
           wrapper[o] = "absent", wrapper' = [wrapper EXCEPT ![o] = "open"],
           native' = native \cup {o}, refs' = [refs EXCEPT ![o] = parents],
           UNCHANGED <<failed, taken, unacked>>,
           parents \ {Cmid} \subseteq native,
           o \in PDs \cup Channels => parents \subseteq {Ctx},
           o \in Counted => Ctx \in parents,
           o \in CQs => parents \subseteq {Ctx} \cup Channels,
           o \in OnPD => parents \subseteq PDs,
           o \in QPs => parents \subseteq PDs \cup CQs \cup SRQs \cup {Cmid}
    PROVE  LifeInv'
<1>1. LifeTypes /\ RefTypes /\ Backed /\ BorrowedContext /\ FailedLeft
  BY DEF LifeInv
<1>2. Ctx \in Objects /\ Cmid \in Objects /\ o # Ctx /\ o # Cmid
  BY DEF Objects
<1>3. o \notin native /\ o \notin failed /\ refs[o] = {}
  BY <1>1 DEF Backed, FailedLeft
<1>4. wrapper'[o] = "open" /\ refs'[o] = parents
      /\ \A x \in Objects : x # o => wrapper'[x] = wrapper[x] /\ refs'[x] = refs[x]
  BY <1>1 DEF LifeTypes, RefTypes
<1>5. LifeTypes'
  BY <1>1, <1>4 DEF LifeTypes, WrapperStates
<1>6. RefTypes'
  <2>1. refs' \in [Objects -> SUBSET Objects]
    BY <1>1 DEF RefTypes
  <2>2. PDs \cup Channels \cup CQs \cup OnPD \cup QPs \subseteq Objects
    BY DEF Objects, Counted
  <2> QED BY <1>1, <1>2, <1>4, <2>1, <2>2 DEF RefTypes
<1>7. Backed'
  BY <1>1, <1>4 DEF Backed
<1>8. BorrowedContext'
  BY <1>1, <1>2, <1>4 DEF BorrowedContext
<1>9. FailedLeft'
  BY <1>1, <1>3, <1>4 DEF FailedLeft, LifeTypes
<1>10. \A x \in Objects : x # o => Uses(x)' = Uses(x)
  BY <1>4 DEF Uses
<1>11. NoOrphans'
  <2> SUFFICES ASSUME NEW n \in native \cup {o}, NEW x \in Uses(n)'
               PROVE  x \in native \cup {o} \/ (x = Ctx /\ wrapper'[Cmid] = "collected")
    BY OneByOneNext
  <2>1. CASE n = o
    BY <1>4, <2>1 DEF Uses
  <2>2. CASE n # o
    <3>1. n \in native /\ n \in Objects /\ wrapper'[Cmid] = wrapper[Cmid]
      BY <1>1, <1>2, <1>4, <2>2 DEF LifeTypes
    <3> QED BY <1>10, <2>2, <3>1, OneByOne DEF LifeInv
  <2> QED BY <2>1, <2>2
<1>12. \A x \in Objects : Uses(x) \subseteq Uses(x)'
  BY <1>3, <1>10 DEF Uses
<1>13. LeaksExplained'
  <2> SUFFICES ASSUME NEW x \in native \cup {o}, wrapper'[x] = "collected"
               PROVE  \E n \in failed \cap (native \cup {o}) : Reaches(n, x)'
    BY LeaksReachedNext
  <2>1. x \in native /\ wrapper[x] = "collected"
    BY <1>1, <1>4 DEF LifeTypes
  <2>2. PICK n \in failed \cap native : Reaches(n, x)
    BY <2>1, LeaksReached DEF LifeInv
  <2> QED BY <1>1, <1>12, <2>2, ReachesMore DEF LifeTypes
<1>14. EventNamesLiveCQ'
  <2> SUFFICES ASSUME taken # None
               PROVE  \/ wrapper'[taken] = "open" \/ unacked'[taken] < 0
                      \/ \E n \in failed : n = taken \/ taken \in Uses(n)'
    BY DEF EventNamesLiveCQ
  <2>1. taken \in Objects
    BY <1>1, CQsApart DEF LifeTypes
  <2>2. \A n \in failed : n \in Objects
    BY <1>1 DEF FailedLeft, LifeTypes
  <2> QED BY <1>4, <1>12, <2>1, <2>2 DEF LifeInv, EventNamesLiveCQ
<1> QED BY <1>5, <1>6, <1>7, <1>8, <1>9, <1>11, <1>13, <1>14 DEF LifeInv

\* Without children the context carries no PD, channel or CQ.
LEMMA NoChildren ==
    ASSUME ChildInv, children = 0
    PROVE  native \cap Counted = {}
<1>1. IsFiniteSet(native \cap Counted)
  BY ObjectsAssumption, FS_Subset, CountedApart
<1> QED BY <1>1, FS_EmptySet DEF ChildInv, ChildrenExact

\* Device.open and CMID.resolve.
LEMMA LifeOpen ==
    ASSUME LifeInv, Open \/ Resolve
    PROVE  LifeInv'
<1> USE DEF eventVars
<1>1. LifeTypes /\ RefTypes /\ Backed /\ BorrowedContext /\ FailedLeft
  BY DEF LifeInv
<1>2. Ctx \in Objects /\ Cmid \in Objects /\ Ctx # Cmid
  BY ObjectsAssumption DEF Objects
<1>3. wrapper[Ctx] = "absent" /\ wrapper[Cmid] = "absent" /\ UNCHANGED <<failed, taken, unacked>>
  BY <1>1 DEF Open, Resolve, BorrowedContext
<1>4. /\ wrapper'[Ctx] = "open" /\ \A x \in Objects \ {Ctx, Cmid} : wrapper'[x] = wrapper[x]
      /\ wrapper' \in [Objects -> WrapperStates]
      /\ native \cup {Ctx} \subseteq native' /\ native' \subseteq native \cup {Ctx, Cmid}
      /\ \/ wrapper'[Cmid] = "absent" /\ refs' = refs /\ Cmid \notin native'
         \/ wrapper'[Cmid] = "open" /\ refs' = [refs EXCEPT ![Cmid] = {Ctx}] /\ Cmid \in native'
  BY <1>1, <1>2, <1>3 DEF Open, Resolve, LifeTypes, WrapperStates, Backed
<1>5. refs[Cmid] = {} /\ Ctx \notin native /\ Cmid \notin native
  BY <1>1, <1>2, <1>3 DEF Backed
<1>6. \A x \in Objects \ {Cmid} : refs'[x] = refs[x]
  BY <1>1, <1>4 DEF RefTypes
<1>7. LifeTypes'
  BY <1>1, <1>2, <1>3, <1>4 DEF LifeTypes
<1>8. RefTypes'
  <2>1. refs' \in [Objects -> SUBSET Objects] /\ refs'[Cmid] \subseteq {Ctx} /\ refs'[Ctx] = {}
    BY <1>1, <1>2, <1>4, <1>6 DEF RefTypes
  <2>2. PDs \cup Channels \cup CQs \cup OnPD \cup QPs \subseteq Objects \ {Cmid}
    BY ObjectsAssumption DEF Objects, Counted
  <2> QED BY <1>1, <1>6, <2>1, <2>2 DEF RefTypes
<1>9. Backed'
  <2> SUFFICES ASSUME NEW o \in Objects
               PROVE  /\ wrapper'[o] = "open" => o \in native'
                      /\ wrapper'[o] \in {"absent", "closed"} => o \notin native'
                      /\ wrapper'[o] = "absent" => refs'[o] = {}
                      /\ o \in native' \cap Counted => Ctx \in refs'[o]
    BY DEF Backed
  <2>1. CASE o = Ctx \/ o = Cmid
    BY <1>4, <1>5, <2>1, CountedApart
  <2>2. CASE o # Ctx /\ o # Cmid
    BY <1>1, <1>4, <1>6, <2>2 DEF Backed
  <2> QED BY <2>1, <2>2
<1>10. BorrowedContext'
  <2>1. wrapper'[Cmid] = "open" => refs'[Cmid] = {Ctx}
    BY <1>1, <1>2, <1>4 DEF RefTypes
  <2> QED BY <1>4, <2>1 DEF BorrowedContext
<1>11. FailedLeft'
  <2>1. failed \subseteq native' \ {Ctx, Cmid} /\ failed \subseteq Objects \ {Ctx, Cmid}
    BY <1>1, <1>4 DEF FailedLeft, LifeTypes
  <2> QED BY <1>1, <1>3, <1>4, <1>6, <2>1 DEF FailedLeft
<1>12. \A x \in Objects : Uses(x) \subseteq Uses(x)'
  BY <1>5, <1>6 DEF Uses
<1>13. NoOrphans'
  <2> SUFFICES ASSUME NEW n \in native' PROVE Uses(n)' \subseteq native'
    BY DEF NoOrphans
  <2>1. CASE n = Ctx
    BY <1>1, <1>2, <1>6, <2>1 DEF RefTypes, Uses
  <2>2. CASE n = Cmid
    BY <1>4, <1>8, <2>2 DEF RefTypes, Uses
  <2>3. CASE n # Ctx /\ n # Cmid
    <3>1. n \in native /\ n \in Objects
      BY <1>1, <1>4, <2>3 DEF LifeTypes
    <3>2. Uses(n)' = Uses(n)
      BY <1>6, <2>3, <3>1 DEF Uses
    <3>3. Uses(n) \subseteq native
      BY <1>3, <3>1, OneByOne DEF LifeInv
    <3> QED BY <1>4, <3>2, <3>3
  <2> QED BY <2>1, <2>2, <2>3
<1>14. LeaksExplained'
  <2> SUFFICES ASSUME NEW x \in native', wrapper'[x] = "collected"
               PROVE  \E n \in failed \cap native' : Reaches(n, x)'
    BY <1>3, LeaksReachedNext
  <2>1. x \in native /\ wrapper[x] = "collected"
    BY <1>1, <1>4 DEF LifeTypes
  <2>2. PICK n \in failed \cap native : Reaches(n, x)
    BY <2>1, LeaksReached DEF LifeInv
  <2>3. n \in Objects /\ n \in native'
    BY <1>1, <1>4 DEF LifeTypes
  <2>4. Reaches(n, x)'
    BY <1>1, <1>12, <2>2, <2>3, ReachesMore
  <2> QED BY <2>3, <2>4
<1>15. EventNamesLiveCQ'
  <2> SUFFICES ASSUME taken # None
               PROVE  \/ wrapper'[taken] = "open" \/ unacked'[taken] < 0
                      \/ \E n \in failed : n = taken \/ taken \in Uses(n)'
    BY <1>3 DEF EventNamesLiveCQ
  <2>1. taken \in Objects \ {Ctx, Cmid}
    BY <1>1, CQsApart DEF LifeTypes
  <2>2. \A n \in failed : n \in Objects
    BY <1>1 DEF FailedLeft, LifeTypes
  <2> QED BY <1>3, <1>4, <1>12, <2>1, <2>2 DEF LifeInv, EventNamesLiveCQ
<1> QED BY <1>7, <1>8, <1>9, <1>10, <1>11, <1>13, <1>14, <1>15 DEF LifeInv

\* CMID.close and CMID.__dealloc__: the endpoint takes the context along, and
\* the second one also the QP, which then has no wrapper.
LEMMA LifeEndCM ==
    ASSUME LifeInv, ChildInv, CloseCM \/ CollectCM
    PROVE  LifeInv'
<1> USE DEF eventVars
<1>1. LifeTypes /\ RefTypes /\ Backed /\ BorrowedContext /\ FailedLeft
  BY DEF LifeInv
<1>2. Ctx \in Objects /\ Cmid \in Objects /\ Ctx # Cmid
  BY ObjectsAssumption DEF Objects
<1>3. wrapper[Cmid] = "open" /\ UNCHANGED <<refs, failed, taken, unacked>>
  BY DEF CloseCM, CollectCM
<1>4. /\ wrapper' \in [Objects -> WrapperStates] /\ wrapper'[Ctx] = "closed"
      /\ wrapper'[Cmid] \in {"closed", "collected"}
      /\ \A x \in Objects \ {Ctx, Cmid} : wrapper'[x] = wrapper[x]
  BY <1>1, <1>2 DEF CloseCM, CollectCM, LifeTypes, WrapperStates
<1>5. /\ Ctx \notin native' /\ Cmid \notin native' /\ native' \subseteq native
      /\ \A x \in native \ {Ctx, Cmid} : x \in native' \/ (x \in QPs /\ Cmid \in refs[x] /\ CollectCM)
  BY DEF CloseCM, CollectCM
<1>6. LifeTypes'
  BY <1>1, <1>3, <1>4, <1>5 DEF LifeTypes
<1>7. RefTypes'
  BY <1>1, <1>3 DEF RefTypes
<1>8. Backed'
  <2> SUFFICES ASSUME NEW o \in Objects
               PROVE  /\ wrapper'[o] = "open" => o \in native'
                      /\ wrapper'[o] \in {"absent", "closed"} => o \notin native'
                      /\ wrapper'[o] = "absent" => refs[o] = {}
                      /\ o \in native' \cap Counted => Ctx \in refs[o]
    BY <1>3 DEF Backed
  <2>1. CASE o = Ctx \/ o = Cmid
    BY <1>4, <1>5, <2>1, CountedApart
  <2>2. CASE o # Ctx /\ o # Cmid
    <3>1. wrapper'[o] = wrapper[o]
      BY <1>4, <2>2
    <3>2. ASSUME wrapper[o] = "open", o \in QPs, Cmid \in refs[o], CollectCM PROVE FALSE
      <4>1. Cmid \in Garbage /\ o \in native
        BY <1>1, <3>2 DEF CollectCM, Collectable, Backed
      <4> QED BY <3>2, <4>1, GarbageUnused
    <3> QED BY <1>1, <1>5, <2>2, <3>1, <3>2 DEF Backed
  <2> QED BY <2>1, <2>2
<1>9. BorrowedContext'
  BY <1>1, <1>3, <1>4, <1>5 DEF BorrowedContext
<1>10. failed \subseteq native' /\ failed \subseteq Objects \ {Ctx, Cmid}
  BY <1>1, <1>5 DEF FailedLeft, LifeTypes
<1>11. FailedLeft'
  BY <1>1, <1>3, <1>4, <1>10 DEF FailedLeft
<1>12. \A x \in Objects : Uses(x)' = Uses(x)
  BY <1>3 DEF Uses
<1>13. NoOrphans'
  <2>1. CASE CollectCM
    <3> SUFFICES ASSUME NEW n \in native', NEW x \in Uses(n)'
                 PROVE  x \in native' \/ (x = Ctx /\ wrapper'[Cmid] = "collected")
      BY OneByOneNext
    <3>1. wrapper'[Cmid] = "collected"
      BY <1>1, <1>2, <2>1 DEF CollectCM, LifeTypes
    <3>2. n \in native /\ n \in Objects
      BY <1>1, <1>5 DEF LifeTypes
    <3>3. x \in Uses(n) /\ x \in native
      BY <1>3, <1>12, <3>2, OneByOne DEF LifeInv
    <3>4. x # Cmid /\ x \notin QPs
      BY <1>1, <3>2, <3>3, UsedBy
    <3> QED BY <1>5, <3>1, <3>3, <3>4
  <2>2. CASE CloseCM
    <3> SUFFICES ASSUME NEW n \in native' PROVE Uses(n)' \subseteq native'
      BY DEF NoOrphans
    <3>1. native' = native \ {Ctx, Cmid} /\ native \cap Counted = {}
      BY <2>2, NoChildren DEF CloseCM
    <3>2. n \in native /\ n \in Objects /\ n \notin Counted \cup {Cmid}
      BY <1>1, <3>1 DEF LifeTypes
    <3>3. Ctx \notin Uses(n) /\ Cmid \notin Uses(n)
      BY <1>1, <3>2, UsedBy
    <3>4. Uses(n) \subseteq native
      BY <1>3, <3>2, OneByOne DEF LifeInv
    <3> QED BY <1>12, <3>1, <3>2, <3>3, <3>4
  <2> QED BY <2>1, <2>2
<1>14. LeaksExplained'
  <2> SUFFICES ASSUME NEW x \in native', wrapper'[x] = "collected"
               PROVE  \E n \in failed \cap native' : Reaches(n, x)'
    BY <1>3, LeaksReachedNext
  <2>1. x \in native /\ wrapper[x] = "collected"
    BY <1>1, <1>4, <1>5 DEF LifeTypes
  <2>2. PICK n \in failed \cap native : Reaches(n, x)
    BY <2>1, LeaksReached DEF LifeInv
  <2>3. n \in Objects /\ n \in native'
    BY <1>10
  <2>4. Reaches(n, x)'
    BY <1>1, <1>12, <2>2, <2>3, ReachesSame
  <2> QED BY <2>3, <2>4
<1>15. EventNamesLiveCQ'
  <2> SUFFICES ASSUME taken # None
               PROVE  \/ wrapper'[taken] = "open" \/ unacked'[taken] < 0
                      \/ \E n \in failed : n = taken \/ taken \in Uses(n)'
    BY <1>3 DEF EventNamesLiveCQ
  <2>1. taken \in Objects \ {Ctx, Cmid}
    BY <1>1, CQsApart DEF LifeTypes
  <2> QED BY <1>3, <1>4, <1>10, <1>12, <2>1 DEF LifeInv, EventNamesLiveCQ
<1> QED BY <1>6, <1>7, <1>8, <1>9, <1>11, <1>13, <1>14, <1>15 DEF LifeInv

\* The owned context is closed or collected.
LEMMA LifeContext ==
    ASSUME LifeInv, ChildInv, CloseContext \/ CollectContext
    PROVE  LifeInv'
<1> USE DEF eventVars
<1>1. LifeTypes /\ RefTypes /\ Backed /\ BorrowedContext
  BY DEF LifeInv
<1>2. Ctx \in Objects /\ Ctx # Cmid /\ Ctx \notin QPs /\ Ctx \notin CQs /\ None # Ctx
  BY ObjectsAssumption DEF Objects, Counted
<1>3. wrapper[Ctx] = "open" /\ Ctx \in native /\ UNCHANGED <<refs, failed, taken, unacked>>
  BY <1>1, <1>2 DEF CloseContext, CollectContext, Backed
<1>4. taken # Ctx
  BY <1>1, <1>2 DEF LifeTypes
<1>5. wrapper[Cmid] = "absent"
  <2>1. CASE CloseContext
    BY <2>1 DEF CloseContext
  <2>2. CASE CollectContext
    <3>1. Ctx \in Garbage
      BY <2>2 DEF CollectContext, Collectable
    <3>2. Cmid \in Objects /\ wrapper[Cmid] \in WrapperStates
      BY <1>1 DEF Objects, LifeTypes
    <3>3. ASSUME wrapper[Cmid] = "open" PROVE FALSE
      <4>1. refs[Cmid] = {Ctx} /\ Cmid \in native
        BY <1>1, <3>2, <3>3 DEF BorrowedContext, Backed
      <4> QED BY <3>1, <3>3, <4>1, GarbageUnused
    <3> QED BY <1>1, <1>3, <3>2, <3>3 DEF BorrowedContext, WrapperStates
  <2> QED BY <2>1, <2>2
<1>6. ASSUME children = 0 PROVE ~ Busy(Ctx)
  <2>1. native \cap Counted = {} /\ Cmid \notin native
    BY <1>1, <1>5, <1>6, NoChildren DEF Backed, Objects
  <2>2. \A n \in native : n \in Objects /\ n \notin Counted \cup {Cmid}
    BY <1>1, <2>1 DEF LifeTypes
  <2> QED BY <1>1, <2>2, UsedBy DEF Busy
<1>7. ASSUME children # 0 PROVE Busy(Ctx)
  <2>1. native \cap Counted # {}
    <3>1. IsFiniteSet(native \cap Counted)
      BY ObjectsAssumption, FS_Subset, CountedApart
    <3> QED BY <1>7, <3>1, FS_EmptySet DEF ChildInv, ChildrenExact
  <2>2. PICK n \in native : n \in Counted
    BY <2>1
  <2>3. Ctx \in refs[n]
    BY <1>1, <2>2, CountedApart DEF Backed
  <2> QED BY <1>2, <2>2, <2>3 DEF Busy, Uses
<1>8. CASE children = 0
  <2>1. native' = native \ {Ctx}
        /\ \E state \in {"closed", "collected"} : wrapper' = [wrapper EXCEPT ![Ctx] = state]
    BY <1>5, <1>8 DEF CloseContext, CollectContext
  <2> QED BY <1>2, <1>3, <1>4, <1>5, <1>6, <1>8, <2>1, LifeFree DEF NegativeStays
<1>9. CASE children # 0
  <2>1. /\ native' = native /\ wrapper' = [wrapper EXCEPT ![Ctx] = "collected"]
        /\ Ctx \in Garbage
    BY <1>9 DEF CloseContext, CollectContext, Collectable
  <2> QED BY <1>2, <1>3, <1>7, <1>9, <2>1, LifeLeave DEF NegativeStays
<1> QED BY <1>8, <1>9


\* The objects on the context or on a PD.
LEMMA LifeWrap ==
    ASSUME LifeInv, NEW o \in Objects \ {Ctx, Cmid}, NEW parents \in SUBSET Objects,
           Wrap(o, parents), \A p \in parents : wrapper[p] = "open",
           o \in PDs \cup Channels => parents \subseteq {Ctx},
           o \in Counted => Ctx \in parents,
           o \in CQs => parents \subseteq {Ctx} \cup Channels,
           o \in OnPD => parents \subseteq PDs,
           o \in QPs => parents \subseteq PDs \cup CQs \cup SRQs \cup {Cmid}
    PROVE  LifeInv'
<1>1. /\ wrapper[o] = "absent" /\ wrapper' = [wrapper EXCEPT ![o] = "open"]
      /\ native' = native \cup {o} /\ refs' = [refs EXCEPT ![o] = parents]
      /\ UNCHANGED <<failed, taken, unacked>>
  BY DEF Wrap, eventVars
<1>2. parents \ {Cmid} \subseteq native
  BY DEF LifeInv, Backed
<1> QED BY <1>1, <1>2, LifeMake

LEMMA LifeMakes ==
    ASSUME LifeInv, Make
    PROVE  LifeInv'
<1>1. CASE Open \/ Resolve
  BY <1>1, LifeOpen
<1>a. /\ Ctx \in Objects /\ Cmid \in Objects
      /\ PDs \cup Channels \cup CQs \cup OnPD \cup QPs \subseteq Objects \ {Ctx, Cmid}
      /\ (PDs \cup Channels) \cap (CQs \cup OnPD \cup QPs) = {}
      /\ CQs \cap (OnPD \cup QPs) = {} /\ OnPD \cap QPs = {} /\ SRQs \subseteq OnPD
      /\ Counted \cap (OnPD \cup QPs) = {}
  BY ObjectsAssumption DEF Objects, Counted, OnPD
<1>2. ASSUME NEW o \in PDs \cup Channels, CreateOnContext(o) PROVE LifeInv'
  BY <1>a, <1>2, LifeWrap DEF CreateOnContext
<1>3. ASSUME NEW cq \in CQs, NEW ch \in Optional(Channels), CreateCQ(cq, ch)
      PROVE  LifeInv'
  <2>1. ch \subseteq Channels
    BY DEF Optional
  <2>2. /\ Wrap(cq, {Ctx} \cup ch) /\ \A p \in {Ctx} \cup ch : wrapper[p] = "open"
        /\ {Ctx} \cup ch \in SUBSET Objects /\ cq \in Objects \ {Ctx, Cmid}
        /\ cq \notin PDs \cup Channels /\ cq \notin OnPD /\ cq \notin QPs
        /\ {Ctx} \cup ch \subseteq {Ctx} \cup Channels
    BY <1>a, <1>3, <2>1 DEF CreateCQ
  <2> QED BY <2>2, LifeWrap
<1>4. ASSUME NEW o \in OnPD, NEW pd \in PDs, CreateOnPD(o, pd)
      PROVE  LifeInv'
  <2>1. /\ Wrap(o, {pd}) /\ \A p \in {pd} : wrapper[p] = "open" /\ {pd} \in SUBSET Objects
        /\ o \in Objects \ {Ctx, Cmid} /\ o \notin Counted /\ o \notin PDs \cup Channels
        /\ o \notin CQs /\ o \notin QPs /\ {pd} \subseteq PDs
    BY <1>a, <1>4 DEF CreateOnPD
  <2> QED BY <2>1, LifeWrap
<1>5. ASSUME NEW q \in QPs, NEW pd \in PDs, NEW scq \in CQs, NEW rcq \in CQs,
             NEW srq \in Optional(SRQs), NEW cm \in Optional({Cmid}),
             QPArguments(pd, scq, rcq, srq), Wrap(q, {pd, scq, rcq} \cup cm \cup srq),
             \A c \in cm : wrapper[c] = "open"
      PROVE  LifeInv'
  <2> DEFINE parents == {pd, scq, rcq} \cup cm \cup srq
  <2>1. srq \subseteq SRQs /\ cm \subseteq {Cmid}
    BY DEF Optional
  <2>2. parents \in SUBSET Objects /\ parents \subseteq PDs \cup CQs \cup SRQs \cup {Cmid}
    BY <1>a, <2>1
  <2>3. \A p \in parents : wrapper[p] = "open"
    BY <1>5 DEF QPArguments
  <2>4. /\ q \in Objects \ {Ctx, Cmid} /\ q \notin Counted /\ q \notin PDs \cup Channels
        /\ q \notin CQs /\ q \notin OnPD
    BY <1>a
  <2>5. Wrap(q, parents)
    BY <1>5
  <2> HIDE DEF parents
  <2> QED BY <2>2, <2>3, <2>4, <2>5, LifeWrap
<1>6. ASSUME NEW q \in QPs, NEW pd \in PDs, NEW scq \in CQs, NEW rcq \in CQs,
             NEW srq \in Optional(SRQs),
             CreateQP(q, pd, scq, rcq, srq) \/ CMCreateQP(q, pd, scq, rcq, srq)
      PROVE  LifeInv'
  <2>1. CASE CreateQP(q, pd, scq, rcq, srq)
    <3>1. {pd, scq, rcq} \cup {} \cup srq = {pd, scq, rcq} \cup srq /\ {} \in Optional({Cmid})
      BY DEF Optional
    <3>2. Wrap(q, {pd, scq, rcq} \cup {} \cup srq) /\ QPArguments(pd, scq, rcq, srq)
      BY <2>1, <3>1 DEF CreateQP
    <3> QED BY <1>5, <3>1, <3>2
  <2>2. CASE CMCreateQP(q, pd, scq, rcq, srq)
    <3>1. {pd, scq, rcq} \cup {Cmid} \cup srq = {pd, scq, rcq, Cmid} \cup srq
          /\ {Cmid} \in Optional({Cmid})
      BY DEF Optional
    <3>2. /\ Wrap(q, {pd, scq, rcq} \cup {Cmid} \cup srq) /\ QPArguments(pd, scq, rcq, srq)
          /\ wrapper[Cmid] = "open"
      BY <2>2, <3>1 DEF CMCreateQP
    <3> QED BY <1>5, <3>1, <3>2
  <2> QED BY <1>6, <2>1, <2>2
<1> QED BY <1>1, <1>2, <1>3, <1>4, <1>6
     DEF Make, AllocPD, CreateCompChannel, RegMR, RegDmabufMR, CreateAH, CreateSRQ, OnPD
\* close() and __dealloc__ of PDs, channels, MRs, AHs and SRQs.
LEMMA LifeEndObject ==
    ASSUME LifeInv, NEW o \in PDs \cup Channels \cup OnPD, NEW ok \in BOOLEAN,
           CloseObject(o) \/ CollectObject(o, ok)
    PROVE  LifeInv'
<1> USE DEF eventVars
<1>1. o \in Objects /\ o # Ctx /\ o # Cmid /\ o \notin QPs /\ o \notin CQs /\ None # o
  BY ObjectsAssumption DEF Objects, Counted
<1>2. wrapper[o] = "open" /\ UNCHANGED <<refs, taken, unacked>>
  BY DEF CloseObject, CollectObject
<1>3. taken # o
  BY <1>1 DEF LifeInv, LifeTypes
<1>4. CASE /\ native' = native \ {o} /\ ~ Busy(o) /\ failed' = failed
           /\ \E state \in {"closed", "collected"} : wrapper' = [wrapper EXCEPT ![o] = state]
  BY <1>1, <1>2, <1>3, <1>4, LifeFree DEF NegativeStays
<1>5. CASE /\ native' = native /\ o \in Garbage /\ wrapper' = [wrapper EXCEPT ![o] = "collected"]
           /\ (failed' = failed /\ Busy(o)) \/ failed' = failed \cup {o}
  BY <1>1, <1>2, <1>5, LifeLeave DEF NegativeStays
<1>6. CASE CloseObject(o)
  BY <1>4, <1>6 DEF CloseObject
<1>7. CASE CollectObject(o, ok)
  BY <1>4, <1>5, <1>7 DEF CollectObject, Collectable
<1> QED BY <1>6, <1>7

\* QP.close and QP.__dealloc__: nothing is built on a QP.
LEMMA LifeEndQP ==
    ASSUME LifeInv, NEW q \in QPs, NEW ok \in BOOLEAN, CloseQP(q) \/ CollectQP(q, ok)
    PROVE  LifeInv'
<1> USE DEF eventVars
<1>1. q \in Objects /\ q # Ctx /\ q # Cmid /\ q \notin CQs /\ None # q
  BY ObjectsAssumption DEF Objects, Counted
<1>2. wrapper[q] = "open" /\ taken' = taken /\ unacked' = unacked
  BY DEF CloseQP, CollectQP
<1>3. taken # q
  BY <1>1 DEF LifeInv, LifeTypes
<1>4. ~ Busy(q)
  BY UsedBy DEF LifeInv, LifeTypes, Busy
<1>5. CASE UNCHANGED <<wrapper, native, refs, failed>>
  BY <1>2, <1>5, LifeQuiet DEF NegativeStays
<1>6. CASE /\ native' = native \ {q} /\ failed' = failed
           /\ refs' = refs \/ refs' = [refs EXCEPT ![q] = @ \ {Cmid}]
           /\ \E state \in {"closed", "collected"} : wrapper' = [wrapper EXCEPT ![q] = state]
  BY <1>1, <1>2, <1>3, <1>4, <1>6, LifeFree DEF NegativeStays
<1>7. CASE /\ UNCHANGED <<native, refs>> /\ q \in Garbage /\ Cmid \notin refs[q]
           /\ wrapper' = [wrapper EXCEPT ![q] = "collected"] /\ failed' = failed \cup {q}
  BY <1>1, <1>2, <1>7, LifeLeave DEF NegativeStays
<1>8. CASE CloseQP(q)
  BY <1>5, <1>6, <1>8 DEF CloseQP
<1>9. CASE CollectQP(q, ok)
  BY <1>5, <1>6, <1>7, <1>9 DEF CollectQP, Collectable
<1> QED BY <1>8, <1>9

\* CQ.close and CQ.__dealloc__: a CQ whose event a thread has taken is not freed.
LEMMA LifeEndCQ ==
    ASSUME LifeInv, EventInv, NEW cq \in CQs, NEW ok \in BOOLEAN, CloseCQ(cq) \/ CollectCQ(cq, ok)
    PROVE  LifeInv'
<1>1. cq \in Objects /\ cq # Ctx /\ cq # Cmid /\ cq \notin QPs
  BY ObjectsAssumption DEF Objects, Counted
<1>2. wrapper[cq] = "open" /\ UNCHANGED <<refs, taken>>
  BY DEF CloseCQ, CollectCQ
<1> DEFINE t == IF taken = cq THEN 1 ELSE 0
<1>9. /\ reported' = [reported EXCEPT ![cq] = Unsigned(@ - Owed(cq))]
      /\ unacked' = [unacked EXCEPT ![cq] = @ - Owed(cq)]
      /\ unacked[cq] \in (-Half)..(Half - 1) /\ t \in {0, 1}
      /\ reported[cq] = Unsigned(unacked[cq] + t)
      /\ Owed(cq) = IF unacked[cq] > 0 THEN unacked[cq] ELSE 0
  BY <1>2 DEF CloseCQ, CollectCQ, EventInv, EventTypes, CountExact, Owed
<1>3. ASSUME reported'[cq] = 0 PROVE taken = cq => unacked'[cq] < 0
  <2>1. reported'[cq] = Unsigned(Unsigned(unacked[cq] + t) - Owed(cq))
        /\ unacked'[cq] = unacked[cq] - Owed(cq)
    BY <1>9 DEF EventInv, EventTypes
  <2>2. unacked'[cq] \in (-Half)..(Half - 1) /\ (unacked'[cq] >= 0 => reported'[cq] = t)
    <3> HIDE DEF t
    <3> QED BY <1>9, <2>1, Settled
  <2> QED BY <1>3, <2>2, SpanIsInt
<1>10. NegativeStays
  BY <1>9, SpanIsInt DEF NegativeStays, EventInv, EventTypes
<1>4. CASE UNCHANGED <<wrapper, native, failed>>
  BY <1>2, <1>4, <1>10, LifeQuiet
<1>5. CASE /\ native' = native \ {cq} /\ failed' = failed /\ ~ Busy(cq) /\ reported'[cq] = 0
           /\ \E state \in {"closed", "collected"} : wrapper' = [wrapper EXCEPT ![cq] = state]
  BY <1>1, <1>2, <1>3, <1>5, <1>10, LifeFree
<1>6. CASE /\ native' = native /\ cq \in Garbage
           /\ wrapper' = [wrapper EXCEPT ![cq] = "collected"]
           /\ (failed' = failed /\ Busy(cq)) \/ failed' = failed \cup {cq}
  BY <1>1, <1>2, <1>6, <1>10, LifeLeave
<1>7. CASE CloseCQ(cq)
  BY <1>4, <1>5, <1>7 DEF CloseCQ, FreeCQ
<1>8. CASE CollectCQ(cq, ok)
  BY <1>4, <1>5, <1>6, <1>8 DEF CollectCQ, FreeCQ, Collectable
<1> QED BY <1>7, <1>8

\* Every step of Next, and stuttering.
LEMMA LifeInvStep == LifeInv /\ EventInv /\ ChildInv /\ [Next]_vars => LifeInv'
<1> SUFFICES ASSUME LifeInv, EventInv, ChildInv, [Next]_vars PROVE LifeInv'
  OBVIOUS
<1>1. CASE Make
  BY <1>1, LifeMakes
<1>2. CASE End
  <2>1. CASE CloseContext \/ CloseCM
    BY <2>1, LifeContext, LifeEndCM
  <2>2. ASSUME NEW o \in PDs \cup Channels \cup OnPD, CloseObject(o) PROVE LifeInv'
    BY <2>2, LifeEndObject
  <2>3. ASSUME NEW q \in QPs, CloseQP(q) PROVE LifeInv'
    BY <2>3, LifeEndQP
  <2>4. ASSUME NEW cq \in CQs, CloseCQ(cq) PROVE LifeInv'
    BY <2>4, LifeEndCQ
  <2>5. ASSUME NEW o \in Objects, Drop(o) PROVE LifeInv'
    BY <2>5, LifeQuiet DEF Drop, eventVars, NegativeStays
  <2> QED BY <1>2, <2>1, <2>2, <2>3, <2>4, <2>5
       DEF End, ClosePD, CloseMR, CloseAH, CloseSRQ, CloseCompChannel, OnPD
<1>3. CASE Collect
  <2>1. ASSUME NEW o \in Objects, CollectClosed(o) PROVE LifeInv'
    BY <2>1, LifeCollectClosed
  <2>2. CASE CollectContext \/ CollectCM
    BY <2>2, LifeContext, LifeEndCM
  <2>3. ASSUME NEW ok \in BOOLEAN, NEW o \in PDs \cup Channels \cup OnPD,
               CollectObject(o, ok)
        PROVE  LifeInv'
    BY <2>3, LifeEndObject
  <2>4. ASSUME NEW ok \in BOOLEAN, NEW q \in QPs, CollectQP(q, ok) PROVE LifeInv'
    BY <2>4, LifeEndQP
  <2>5. ASSUME NEW ok \in BOOLEAN, NEW cq \in CQs, CollectCQ(cq, ok) PROVE LifeInv'
    BY <2>5, LifeEndCQ
  <2> QED BY <1>3, <2>1, <2>2, <2>3, <2>4, <2>5
       DEF Collect, CollectPD, CollectMR, CollectAH, CollectSRQ, CollectCompChannel, OnPD
<1>4. CASE Events
  <2>1. ASSUME NEW cq \in CQs, TakeEvent(cq) PROVE LifeInv'
    BY <2>1, LifeTake
  <2>2. CASE ~ \E cq \in CQs : TakeEvent(cq)
    <3>1. UNCHANGED <<wrapper, native, refs, failed>> /\ (taken' = taken \/ taken' = None)
      BY <1>4, <2>2 DEF Events, ReqNotify, HwEvent, GetEvent, CountEvent, AckEvents, objVars
    <3>2. \/ unacked' = unacked
          \/ \E cq \in CQs : /\ wrapper[cq] = "open"
                             /\ \A c \in CQs \ {cq} : unacked'[c] = unacked[c]
      <4>1. unacked \in [CQs -> (-Half)..(Half - 1)] /\ (taken # None => taken \in CQs)
        BY DEF EventInv, EventTypes
      <4> QED BY <1>4, <2>2, <4>1 DEF Events, ReqNotify, HwEvent, GetEvent, CountEvent, AckEvents
    <3>3. NegativeStays
      BY <3>1, <3>2 DEF NegativeStays
    <3> QED BY <3>1, <3>3, LifeQuiet
  <2> QED BY <2>1, <2>2
<1>5. CASE AsyncEvents \/ Export \/ UNCHANGED vars
  <2>1. UNCHANGED <<wrapper, native, refs, failed, taken, unacked>>
    BY <1>5 DEF AsyncEvents, TakeAsync, ReturnAsync, AckAsync, Export, BridgeInfo, ExportFails,
                Acquire, Release, vars, objVars, eventVars
  <2> QED BY <2>1, LifeQuiet DEF NegativeStays
<1> QED BY <1>1, <1>2, <1>3, <1>4, <1>5 DEF Next

\* The inductive invariant of the objects' lives.
THEOREM LifeInvHolds == Spec => []LifeInv
<1>1. Init => LifeInv
  BY CQsApart DEF Init, LifeInv, LifeTypes, RefTypes, Backed, BorrowedContext, FailedLeft,
     NoOrphans, LeaksExplained, EventNamesLiveCQ, WrapperStates, Objects, Counted
<1> QED BY <1>1, LifeInvStep, EventInvHolds, ChildInvHolds, PTL DEF Spec

\* A native object outlives nothing that it is built on, unless an endpoint
\* that was collected took its context along.
THEOREM NoOrphansHolds == Spec => []NoOrphans
<1>1. LifeInv => NoOrphans
  BY DEF LifeInv
<1> QED BY <1>1, LifeInvHolds, PTL

\* Whatever the order in which the program lets go of its objects, a native
\* object without a wrapper is one that the provider failed to free in
\* __dealloc__, or carries such an object.
THEOREM LeaksExplainedHolds == Spec => []LeaksExplained
<1>1. LifeInv => LeaksExplained
  BY DEF LifeInv
<1> QED BY <1>1, LifeInvHolds, PTL

\* The raw pointer of a completion event names a CQ whose wrapper still exists
\* when get_cq_event comes back, one whose __dealloc__ met a failing provider, or
\* one whose counter ack_events made negative.
THEOREM EventNamesLiveCQHolds == Spec => []EventNamesLiveCQ
<1>1. LifeInv => EventNamesLiveCQ
  BY DEF LifeInv
<1> QED BY <1>1, LifeInvHolds, PTL

-----------------------------------------------------------------------------
\* What the program refers to has a wrapper.
HeldAlive == held \subseteq Objects /\ \A o \in held : Alive(o)

\* A wrapper that the program keeps, or gets, is not collected by the step.
LEMMA HeldAliveStep ==
    ASSUME HeldAlive, LifeInv, [Next]_vars
    PROVE  HeldAlive'
<1> USE DEF HeldAlive, Alive
<1>1. wrapper \in [Objects -> WrapperStates] /\ taken \in CQs \cup {None}
  BY DEF LifeInv, LifeTypes
<1>2. \A o \in Garbage : o \in Objects \ held
  BY DEF Garbage
<1>3. CQs \subseteq Objects /\ Ctx \in Objects /\ Cmid \in Objects
  BY DEF Objects, Counted
<1>4. ASSUME NEW o \in Objects, NEW parents, Wrap(o, parents) PROVE HeldAlive'
  BY <1>1, <1>4 DEF Wrap
<1>5. CASE Make
  <2>1. CASE Open \/ Resolve
    BY <2>1, <1>1, <1>3 DEF Open, Resolve
  <2>2. CASE \E pd \in PDs : AllocPD(pd)
    BY <2>2, <1>4 DEF AllocPD, CreateOnContext, Objects, Counted
  <2>3. CASE \E ch \in Channels : CreateCompChannel(ch)
    BY <2>3, <1>4 DEF CreateCompChannel, CreateOnContext, Objects, Counted
  <2>4. CASE \E cq \in CQs, ch \in Optional(Channels) : CreateCQ(cq, ch)
    BY <2>4, <1>3, <1>4 DEF CreateCQ
  <2>5. CASE \E mr \in MRs, pd \in PDs : RegMR(mr, pd) \/ RegDmabufMR(mr, pd)
    BY <2>5, <1>4 DEF RegMR, RegDmabufMR, CreateOnPD, Objects, OnPD
  <2>6. CASE \E ah \in AHs, pd \in PDs : CreateAH(ah, pd)
    BY <2>6, <1>4 DEF CreateAH, CreateOnPD, Objects, OnPD
  <2>7. CASE \E srq \in SRQs, pd \in PDs : CreateSRQ(srq, pd)
    BY <2>7, <1>4 DEF CreateSRQ, CreateOnPD, Objects, OnPD
  <2>8. CASE \E q \in QPs, pd \in PDs, scq, rcq \in CQs, srq \in Optional(SRQs) :
                 CreateQP(q, pd, scq, rcq, srq) \/ CMCreateQP(q, pd, scq, rcq, srq)
    BY <2>8, <1>4 DEF CreateQP, CMCreateQP, Objects
  <2> QED BY <1>5, <2>1, <2>2, <2>3, <2>4, <2>5, <2>6, <2>7, <2>8 DEF Make
<1>6. CASE End
  <2>1. CASE CloseContext \/ CloseCM
    BY <2>1, <1>1 DEF CloseContext, CloseCM
  <2>2. ASSUME NEW o, CloseObject(o) PROVE HeldAlive'
    BY <2>2, <1>1 DEF CloseObject
  <2>3. ASSUME NEW q \in QPs, CloseQP(q) PROVE HeldAlive'
    BY <2>3, <1>1 DEF CloseQP
  <2>4. ASSUME NEW cq \in CQs, CloseCQ(cq) PROVE HeldAlive'
    BY <2>4, <1>1 DEF CloseCQ, FreeCQ
  <2>5. ASSUME NEW o \in Objects, Drop(o) PROVE HeldAlive'
    BY <2>5 DEF Drop
  <2> QED BY <1>6, <2>1, <2>2, <2>3, <2>4, <2>5
          DEF End, ClosePD, CloseMR, CloseAH, CloseSRQ, CloseCompChannel
<1>7. CASE Collect
  <2>1. ASSUME NEW o \in Objects, CollectClosed(o) PROVE HeldAlive'
    BY <2>1, <1>1, <1>2 DEF CollectClosed, Collectable
  <2>2. CASE CollectContext \/ CollectCM
    BY <2>2, <1>1, <1>2 DEF CollectContext, CollectCM, Collectable
  <2>3. ASSUME NEW o, NEW ok, CollectObject(o, ok) PROVE HeldAlive'
    BY <2>3, <1>1, <1>2 DEF CollectObject, Collectable
  <2>4. ASSUME NEW q, NEW ok, CollectQP(q, ok) PROVE HeldAlive'
    BY <2>4, <1>1, <1>2 DEF CollectQP, Collectable
  <2>5. ASSUME NEW cq, NEW ok, CollectCQ(cq, ok) PROVE HeldAlive'
    BY <2>5, <1>1, <1>2 DEF CollectCQ, FreeCQ, Collectable
  <2> QED BY <1>7, <2>1, <2>2, <2>3, <2>4, <2>5
          DEF Collect, CollectPD, CollectMR, CollectAH, CollectSRQ, CollectCompChannel
<1>8. CASE Events
  <2>1. CASE CountEvent
    BY <2>1, <1>1, <1>3 DEF CountEvent
  <2> QED BY <1>8, <2>1 DEF Events, ReqNotify, HwEvent, TakeEvent, GetEvent, AckEvents, objVars
<1>9. CASE AsyncEvents
  BY <1>9 DEF AsyncEvents, TakeAsync, AckAsync, ReturnAsync, objVars
<1>10. CASE Export
  BY <1>10 DEF Export, BridgeInfo, ExportFails, Acquire, Release, objVars
<1>11. CASE UNCHANGED vars
  BY <1>11 DEF vars, objVars
<1> QED BY <1>5, <1>6, <1>7, <1>8, <1>9, <1>10, <1>11 DEF Next

\* The wrappers that the program refers to are never collected under it.
THEOREM HeldAliveHolds == Spec => []HeldAlive
<1>1. Init => HeldAlive
  BY DEF Init, HeldAlive
<1> QED BY <1>1, HeldAliveStep, LifeInvHolds, PTL DEF Spec
=============================================================================
