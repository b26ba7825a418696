------------------------ MODULE ReadSchedulerProofs ------------------------
(***************************************************************************)
(* Proofs about ReadScheduler, for every number of QPs, queue depth, chunk *)
(* size, poll batch and wr_id space, and for owned and injected QPs.       *)
(***************************************************************************)
EXTENDS ReadScheduler, SequenceTheorems, FiniteSetTheorems, WellFoundedInduction, TLAPS

TypeInv == TypeOK /\ CallHasBatch /\ HandledAreOwed /\ IterInRequest

(***************************************************************************)
(* Facts about the operators                                               *)
(***************************************************************************)

\* The smaller of two integers is one of them.
LEMMA MinOfTwo ==
    ASSUME NEW a \in Int, NEW b \in Int
    PROVE  Min({a, b}) \in {a, b} /\ Min({a, b}) <= a /\ Min({a, b}) <= b
<1>1. \E x \in {a, b} : \A y \in {a, b} : x <= y
  <2>1. CASE a <= b
    BY <2>1
  <2>2. CASE b <= a
    BY <2>2
  <2> QED BY <2>1, <2>2
<1> QED BY <1>1 DEF Min

\* A poll asks for no more than the CQ has, nor than the QP is owed.
LEMMA PollCountBounds ==
    ASSUME NEW q, outstanding[q] \in Nat, cq[q] \in Seq(WorkCompletion)
    PROVE  PollCount(q) \in 0..Len(cq[q]) /\ PollCount(q) <= outstanding[q]
<1>1. PollBatch \in Nat /\ Len(cq[q]) \in Nat
  BY ConstantsAssumption
<1> DEFINE S == {PollBatch, outstanding[q], Len(cq[q])}
<1>2. \E x \in S : \A y \in S : x <= y
  BY <1>1
<1>3. Min(S) \in S /\ \A y \in S : Min(S) <= y
  BY <1>2 DEF Min
<1> QED BY <1>1, <1>3 DEF PollCount

\* _allocate_wr_id hands out ids of the range, also at the wrap.
LEMMA WrIdAfterType ==
    ASSUME nextWrId \in WrIds, NEW d \in Nat
    PROVE  WrIdAfter(d) \in WrIds
BY ConstantsAssumption DEF WrIdAfter, WrIds

\* A request list is a sequence of positive lengths.
LEMMA ReqsType ==
    ASSUME BatchTypes, NEW b \in 1..MaxBatches
    PROVE  batch[b].reqs \in Seq(Nat \ {0})
<1>1. batch[b].reqs \in RequestLists \cup {<<>>}
  BY DEF BatchTypes, BatchState
<1>2. <<>> \in Seq(Nat \ {0})
  OBVIOUS
<1> QED BY <1>1, <1>2, ConstantsAssumption

\* The chunk that the generator yields is a chunk, and not an empty one.
LEMMA NextChunkType ==
    ASSUME BatchTypes, IterInRequest, HasChunk
    PROVE  NextChunk \in Chunk /\ NextChunk.len > 0
<1> DEFINE len == batch[active].reqs[iter.req]
<1>1. active \in 1..MaxBatches
  BY ConstantsAssumption DEF BatchTypes, HasChunk, NoBatch
<1>2. iter.req \in Nat \ {0} /\ iter.off \in Nat
  BY DEF BatchTypes
<1>3. batch[active].reqs \in Seq(Nat \ {0}) /\ iter.req \in 1..Len(batch[active].reqs)
  BY <1>1, <1>2, ReqsType DEF HasChunk
<1>4. len \in Nat \ {0}
  BY <1>3
<1>5. len - iter.off \in Nat \ {0}
  BY <1>2, <1>4 DEF IterInRequest
<1> HIDE DEF len
<1>6. Min({ChunkSize, len - iter.off}) \in Nat \ {0}
  <2> DEFINE left == len - iter.off
  <2>1. left \in Nat \ {0} /\ left \in Int /\ ChunkSize \in Int /\ ChunkSize \in Nat \ {0}
    BY <1>5, ConstantsAssumption
  <2> HIDE DEF left
  <2>2. Min({ChunkSize, left}) \in {ChunkSize, left}
    BY <2>1, MinOfTwo
  <2>3. Min({ChunkSize, left}) \in Nat \ {0}
    BY <2>1, <2>2
  <2> QED BY <2>3 DEF left
<1>7. NextChunk = [batch |-> active, req |-> iter.req, off |-> iter.off,
                   len |-> Min({ChunkSize, len - iter.off})]
  BY DEF NextChunk, len
<1> QED BY <1>1, <1>2, <1>6, <1>7 DEF Chunk

\* The generator moves to a byte of this request or to the start of the next.
LEMMA AdvanceIterType ==
    ASSUME BatchTypes, IterInRequest, HasChunk
    PROVE  /\ AdvanceIter \in [req : Nat \ {0}, off : Nat]
           /\ AdvanceIter.req <= Len(batch[active].reqs)
                => AdvanceIter.off < batch[active].reqs[AdvanceIter.req]
<1>1. active \in 1..MaxBatches
  BY ConstantsAssumption DEF BatchTypes, HasChunk, NoBatch
<1>2. iter \in [req : Nat \ {0}, off : Nat]
  BY DEF BatchTypes
<1>3. batch[active].reqs \in Seq(Nat \ {0}) /\ iter.req \in 1..Len(batch[active].reqs)
  BY <1>1, <1>2, ReqsType DEF HasChunk
<1>4. CASE iter.off + ChunkSize < batch[active].reqs[iter.req]
  <2>1. AdvanceIter = [iter EXCEPT !.off = @ + ChunkSize]
    BY <1>4 DEF AdvanceIter
  <2>2. AdvanceIter \in [req : Nat \ {0}, off : Nat]
    BY <1>2, <2>1, ConstantsAssumption
  <2>3. AdvanceIter.req = iter.req /\ AdvanceIter.off = iter.off + ChunkSize
    BY <1>2, <2>1
  <2> QED BY <1>4, <2>2, <2>3
<1>5. CASE ~(iter.off + ChunkSize < batch[active].reqs[iter.req])
  <2>1. AdvanceIter = [req |-> iter.req + 1, off |-> 0]
    BY <1>5 DEF AdvanceIter
  <2> QED BY <1>2, <1>3, <2>1
<1> QED BY <1>4, <1>5

(***************************************************************************)
(* Type correctness                                                        *)
(***************************************************************************)

\* The empty frame has its types, and no call is in progress.
LEMMA EmptyFrameType ==
    ASSUME EmptyFrame, closed' \in BOOLEAN, poisoned' \in BOOLEAN, owns' \in BOOLEAN
    PROVE  FrameTypes' /\ pc' = "idle"
<1>1. posts' \in [QPs -> Seq(Work)] /\ wcs' \in Seq(WorkCompletion)
  BY DEF EmptyFrame
<1>2. cursor' \in 1..(NQP + 1)
  BY ConstantsAssumption DEF EmptyFrame
<1> QED BY <1>1, <1>2 DEF EmptyFrame, FrameTypes, Places

\* Ending a batch keeps the batches' types and their requests.
LEMMA EndBatchType ==
    ASSUME BatchTypes, NEW b, NEW e \in Errors, EndBatch(b, e)
    PROVE  batch' \in [1..MaxBatches -> BatchState]
<1> DEFINE ended == [batch[b] EXCEPT !.done = TRUE, !.error = e]
<1>1. batch \in [1..MaxBatches -> BatchState]
  BY DEF BatchTypes
<1>2. batch' = [batch EXCEPT ![b] = ended]
  BY <1>1 DEF EndBatch
<1>3. b \in 1..MaxBatches => ended \in BatchState
  BY <1>1 DEF BatchState
<1> QED BY <1>1, <1>2, <1>3

\* Losing the transport keeps the types, whatever the adapter accepted before.
LEMMA LoseTransportType ==
    ASSUME TypeInv, batch' \in [1..MaxBatches -> BatchState],
           NEW queues \in [QPs -> Seq(Work)], LoseTransport(queues)
    PROVE  TypeInv'
<1> USE DEF TypeInv, TypeOK, LoseTransport
<1>1. BatchTypes'
  BY DEF BatchTypes, NoBatch
<1>2. WrTypes'
  BY DEF WrTypes, ForgetWork
<1>3. FrameTypes' /\ pc' = "idle"
  <2>1. closed' \in BOOLEAN /\ poisoned' \in BOOLEAN
    BY DEF FrameTypes
  <2>2. owns' \in BOOLEAN
    BY DEF CloseOwned
  <2> QED BY <2>1, <2>2, EmptyFrameType
<1>4. HwTypes'
  BY DEF HwTypes, CloseOwned
<1>5. CallHasBatch' /\ HandledAreOwed' /\ IterInRequest'
  BY <1>3 DEF CallHasBatch, HandledAreOwed, IterInRequest, HasChunk
<1> QED BY <1>1, <1>2, <1>3, <1>4, <1>5

\* _fail_transport keeps the types.
LEMMA FailTransportType ==
    ASSUME TypeInv, NEW e \in Errors, NEW queues \in [QPs -> Seq(Work)],
           FailTransport(e, queues)
    PROVE  TypeInv'
<1>1. batch' \in [1..MaxBatches -> BatchState]
  BY EndBatchType DEF FailTransport, TypeInv, TypeOK
<1> QED BY <1>1, LoseTransportType DEF FailTransport

\* wait() on a batch that is not active keeps the types, whoever's it is.
LEMMA WaitElsewhereType ==
    ASSUME TypeInv, WaitForeign \/ \E b \in 1..MaxBatches : WaitLeftBehind(b) \/ ForeignWait(b)
    PROVE  TypeInv'
<1> USE DEF TypeInv, TypeOK
<1>1. sq \in [QPs -> Seq(Work)] /\ "transport" \in Errors
  BY DEF HwTypes, Errors
<1>2. CASE WaitForeign
  <2>1. batch' \in [1..MaxBatches -> BatchState]
    BY <1>2 DEF WaitForeign, BatchTypes
  <2> QED BY <1>1, <1>2, <2>1, LoseTransportType DEF WaitForeign
<1>3. CASE \E b \in 1..MaxBatches : WaitLeftBehind(b)
  <2>1. PICK b \in 1..MaxBatches : WaitLeftBehind(b)
    BY <1>3
  <2>2. batch' \in [1..MaxBatches -> BatchState]
    BY <1>1, <2>1, EndBatchType DEF WaitLeftBehind
  <2> QED BY <1>1, <2>1, <2>2, LoseTransportType DEF WaitLeftBehind
<1>4. CASE \E b \in 1..MaxBatches : ForeignWait(b)
  <2>1. PICK b \in 1..MaxBatches : ForeignWait(b)
    BY <1>4
  <2> USE <2>1 DEF ForeignWait, wrVars, lifeVars, frameVars, hwVars
  <2>2. batch' \in [1..MaxBatches -> BatchState]
    BY <1>1, EndBatchType
  <2>3. BatchTypes'
    BY <2>2 DEF BatchTypes
  <2>4. WrTypes' /\ HwTypes' /\ FrameTypes' /\ CallHasBatch' /\ HandledAreOwed'
    BY DEF WrTypes, HwTypes, FrameTypes, CallHasBatch, HandledAreOwed
  <2>5. \A c \in 1..MaxBatches : batch'[c].reqs = batch[c].reqs
    BY DEF EndBatch, BatchTypes, BatchState
  <2>6. IterInRequest'
    <3>1. active # NoBatch => active \in 1..MaxBatches
      BY ConstantsAssumption DEF BatchTypes, NoBatch
    <3> QED BY <2>5, <3>1 DEF IterInRequest, HasChunk
  <2> QED BY <2>3, <2>4, <2>6
<1> QED BY <1>2, <1>3, <1>4

\* The steps of _refill keep the types.
LEMMA RefillType ==
    ASSUME TypeInv, Refill
    PROVE  TypeInv'
<1> USE DEF TypeInv, TypeOK, batchVars, wrVars, lifeVars, hwVars
<1>1. CASE AllocSkip
  <2>1. BatchTypes' /\ WrTypes' /\ HwTypes' /\ IterInRequest'
    BY <1>1 DEF AllocSkip, BatchTypes, WrTypes, HwTypes, IterInRequest, HasChunk
  <2>2. FrameTypes' /\ CallHasBatch' /\ HandledAreOwed'
    BY <1>1, ConstantsAssumption DEF AllocSkip, FrameTypes, CallHasBatch, HandledAreOwed
  <2> QED BY <2>1, <2>2
<1>2. CASE AllocChunk
  <2> USE <1>2 DEF AllocChunk
  <2>1. PICK d \in 0..(MaxWrId - 1) :
            /\ posts' = [posts EXCEPT ![cursor] =
                            Append(@, [id |-> WrIdAfter(d), chunk |-> NextChunk])]
            /\ nextWrId' = WrIdAfter(d + 1)
    OBVIOUS
  <2>2. nextWrId \in WrIds
    BY DEF WrTypes
  <2>3. WrIdAfter(d) \in WrIds /\ nextWrId' \in WrIds
    BY <2>1, <2>2, WrIdAfterType, ConstantsAssumption
  <2>4. [id |-> WrIdAfter(d), chunk |-> NextChunk] \in Work
    BY <2>3, NextChunkType DEF Work
  <2>5. cursor \in QPs
    BY ConstantsAssumption DEF FrameTypes, QPs
  <2>6. posts' \in [QPs -> Seq(Work)]
    BY <2>1, <2>4, <2>5 DEF FrameTypes
  <2>7. BatchTypes' /\ IterInRequest'
    BY AdvanceIterType DEF BatchTypes, IterInRequest, HasChunk
  <2>8. WrTypes' /\ HwTypes'
    BY <2>3 DEF WrTypes, HwTypes
  <2>9. FrameTypes' /\ CallHasBatch' /\ HandledAreOwed'
    BY <2>6, ConstantsAssumption DEF FrameTypes, CallHasBatch, HandledAreOwed
  <2> QED BY <2>7, <2>8, <2>9
<1>3. CASE AllocStop
  <2>1. BatchTypes' /\ WrTypes' /\ HwTypes' /\ IterInRequest'
    BY <1>3 DEF AllocStop, BatchTypes, WrTypes, HwTypes, IterInRequest, HasChunk
  <2>2. FrameTypes' /\ CallHasBatch' /\ HandledAreOwed'
    BY <1>3, ConstantsAssumption DEF AllocStop, FrameTypes, CallHasBatch, HandledAreOwed, Places
  <2> QED BY <2>1, <2>2
<1>4. CASE AllocRound
  <2>1. BatchTypes' /\ WrTypes' /\ HwTypes' /\ IterInRequest'
    BY <1>4 DEF AllocRound, BatchTypes, WrTypes, HwTypes, IterInRequest, HasChunk
  <2>2. FrameTypes' /\ CallHasBatch' /\ HandledAreOwed'
    <3>1. pc' \in {"alloc", "post"}
      BY <1>4 DEF AllocRound
    <3>2. cursor' = 1 /\ made' = FALSE /\ UNCHANGED <<lifeVars, caller, posts, wcs, completed, active>>
      BY <1>4 DEF AllocRound
    <3>3. active # NoBatch
      BY <1>4 DEF AllocRound, CallHasBatch
    <3>4. FrameTypes'
      <4>1. pc' \in Places /\ cursor' \in 1..(NQP + 1)
        BY <3>1, <3>2, ConstantsAssumption DEF Places
      <4>2. made' \in BOOLEAN
        BY <3>2
      <4> QED BY <3>2, <4>1, <4>2 DEF FrameTypes
    <3> QED BY <3>1, <3>2, <3>3, <3>4 DEF CallHasBatch, HandledAreOwed, NoBatch
  <2> QED BY <2>1, <2>2
<1>5. CASE PostQP
  <2> USE <1>5 DEF PostQP
  <2>1. cursor \in QPs
    BY ConstantsAssumption DEF FrameTypes, QPs
  <2>2. posts[cursor] \in Seq(Work)
    BY <2>1 DEF FrameTypes
  <2>3. \A w \in Range(posts[cursor]) : w \in Work
    BY <2>2 DEF Range
  <2>4. PostIds(cursor) \subseteq WrIds
    BY <2>3 DEF PostIds, Work
  <2>5. ASSUME NEW id \in DOMAIN pending'
        PROVE  id \in WrIds /\ pending'[id] \in [qp : QPs, chunk : Chunk]
    <3>1. DOMAIN pending' = DOMAIN pending \cup PostIds(cursor)
      BY DEF PendingWith
    <3>2. CASE id \in PostIds(cursor)
      <4> DEFINE w == CHOOSE w \in Range(posts[cursor]) : w.id = id
      <4>1. w \in Range(posts[cursor])
        BY <3>2 DEF PostIds
      <4>2. pending'[id] = [qp |-> cursor, chunk |-> w.chunk]
        BY <3>1, <3>2 DEF PendingWith
      <4>3. w \in Work
        BY <2>3, <4>1
      <4> HIDE DEF w
      <4> QED BY <2>1, <2>4, <3>2, <4>2, <4>3 DEF Work
    <3>3. CASE id \notin PostIds(cursor)
      BY <2>5, <3>1, <3>3 DEF PendingWith, WrTypes
    <3> QED BY <3>2, <3>3
  <2>6. WrTypes'
    <3>1. outstanding' \in [QPs -> Nat]
      BY <2>1, <2>2 DEF WrTypes
    <3>2. nextWrId' \in WrIds
      BY DEF WrTypes
    <3>3. DOMAIN pending' \subseteq WrIds
      BY <2>5
    <3>4. pending' \in [DOMAIN pending' -> [qp : QPs, chunk : Chunk]]
      BY <2>5 DEF PendingWith
    <3> QED BY <3>1, <3>2, <3>3, <3>4 DEF WrTypes
  <2>7. HwTypes'
    BY <2>1, <2>2 DEF HwTypes
  <2>8. BatchTypes' /\ IterInRequest'
    BY DEF BatchTypes, IterInRequest, HasChunk
  <2>9. FrameTypes' /\ CallHasBatch' /\ HandledAreOwed'
    BY <2>1, ConstantsAssumption DEF FrameTypes, CallHasBatch, HandledAreOwed
  <2> QED BY <2>6, <2>7, <2>8, <2>9
<1>6. CASE RefillReturn
  <2>1. BatchTypes' /\ WrTypes' /\ HwTypes' /\ IterInRequest'
    BY <1>6 DEF RefillReturn, BatchTypes, WrTypes, HwTypes, IterInRequest, HasChunk
  <2>2. CASE caller = "submit"
    <3>1. FrameTypes' /\ pc' = "idle"
      BY <1>6, <2>2, EmptyFrameType DEF RefillReturn, FrameTypes
    <3> QED BY <2>1, <3>1 DEF CallHasBatch, HandledAreOwed
  <2>3. CASE caller # "submit"
    <3>1. FrameTypes' /\ CallHasBatch' /\ HandledAreOwed'
      BY <1>6, <2>3, ConstantsAssumption DEF RefillReturn, FrameTypes, CallHasBatch, HandledAreOwed, Places
    <3> QED BY <2>1, <3>1
  <2> QED BY <2>2, <2>3
<1> QED BY <1>1, <1>2, <1>3, <1>4, <1>5, <1>6 DEF Refill

\* Ending the active batch with success keeps the types.
LEMMA SucceedType ==
    ASSUME TypeInv, Succeed
    PROVE  TypeInv'
<1> USE DEF TypeInv, TypeOK, Succeed, FinishSuccess, wrVars, lifeVars, hwVars
<1>1. active \in 1..MaxBatches
  BY ConstantsAssumption, SMTT(30) DEF BatchTypes, CallHasBatch, NoBatch
<1>2. BatchTypes'
  <2>1. batch' \in [1..MaxBatches -> BatchState]
    <3>1. CASE batch[active].onComplete
      <4> DEFINE r == [batch[active] EXCEPT !.done = TRUE, !.calls = @ + 1]
      <4>1. batch' = [batch EXCEPT ![active] = r]
        BY <1>1, <3>1 DEF BatchTypes
      <4>2. batch[active] \in BatchState
        BY <1>1 DEF BatchTypes
      <4>3. batch[active].calls + 1 \in Nat
        BY <4>2 DEF BatchState
      <4>4. r \in BatchState
        BY <4>2, <4>3 DEF BatchState
      <4> QED BY <1>1, <4>1, <4>4 DEF BatchTypes
    <3>2. CASE ~batch[active].onComplete
      <4>1. batch' = [batch EXCEPT ![active] = [batch[active] EXCEPT !.done = TRUE]]
        BY <1>1, <3>2 DEF BatchTypes, BatchState
      <4>2. batch[active] \in BatchState
        BY <1>1 DEF BatchTypes
      <4>3. [batch[active] EXCEPT !.done = TRUE] \in BatchState
        BY <4>2 DEF BatchState
      <4> QED BY <1>1, <4>1, <4>3 DEF BatchTypes
    <3> QED BY <3>1, <3>2
  <2>2. callbacks' \in Seq(1..MaxBatches)
    <3>1. CASE batch[active].onComplete
      BY <1>1, <3>1 DEF BatchTypes
    <3>2. CASE ~batch[active].onComplete
      BY <1>1, <3>2 DEF BatchTypes
    <3> QED BY <3>1, <3>2
  <2>3. active' \in 0..nbatch'
    BY DEF BatchTypes, NoBatch
  <2> QED BY <2>1, <2>2, <2>3 DEF BatchTypes
<1>3. WrTypes' /\ HwTypes'
  BY DEF WrTypes, HwTypes
<1>4. FrameTypes' /\ pc' = "idle"
  BY EmptyFrameType DEF FrameTypes
<1>5. CallHasBatch' /\ HandledAreOwed' /\ IterInRequest'
  BY <1>4 DEF CallHasBatch, HandledAreOwed, IterInRequest, HasChunk
<1> QED BY <1>2, <1>3, <1>4, <1>5

\* The steps of progress keep the types.
LEMMA PollType ==
    ASSUME TypeInv, Poll
    PROVE  TypeInv'
<1> USE DEF TypeInv, TypeOK, batchVars, wrVars, lifeVars, hwVars
<1>1. CASE PollCQ
  <2> USE <1>1 DEF PollCQ
  <2>1. cursor \in QPs
    BY ConstantsAssumption DEF FrameTypes, QPs
  <2>2. cq[cursor] \in Seq(WorkCompletion)
    BY <2>1 DEF HwTypes
  <2>3. PollCount(cursor) \in 0..Len(cq[cursor]) /\ PollCount(cursor) <= outstanding[cursor]
    <3>1. outstanding[cursor] \in Nat
      BY <2>1 DEF WrTypes
    <3> QED BY <2>2, <3>1, PollCountBounds
  <2>4. /\ wcs' \in Seq(WorkCompletion) /\ Len(wcs') = PollCount(cursor)
        /\ SubSeq(cq[cursor], PollCount(cursor) + 1, Len(cq[cursor])) \in Seq(WorkCompletion)
    BY <2>2, <2>3
  <2>5. HwTypes'
    BY <2>1, <2>4 DEF HwTypes
  <2>6. FrameTypes' /\ CallHasBatch' /\ HandledAreOwed'
    BY <2>3, <2>4 DEF FrameTypes, Places, CallHasBatch, HandledAreOwed
  <2>7. BatchTypes' /\ WrTypes' /\ IterInRequest'
    BY DEF BatchTypes, WrTypes, IterInRequest, HasChunk
  <2> QED BY <2>5, <2>6, <2>7
<1>2. CASE HandleWc
  <2> USE <1>2 DEF HandleWc
  <2> DEFINE id == Head(wcs).id
  <2>1. cursor \in QPs
    BY ConstantsAssumption DEF FrameTypes, HandledAreOwed, QPs
  <2>2. id \in DOMAIN pending /\ pending[id].chunk.len \in Nat
    BY DEF Known, WrTypes, Chunk
  <2>3. Len(wcs) \in Nat \ {0} /\ Tail(wcs) \in Seq(WorkCompletion) /\ Len(Tail(wcs)) = Len(wcs) - 1
    BY DEF FrameTypes
  <2>4. outstanding[cursor] \in Nat \ {0}
    BY <2>1, <2>3 DEF WrTypes, HandledAreOwed
  <2>5. batch' \in [1..MaxBatches -> BatchState] /\ \A b \in 1..MaxBatches : batch'[b].reqs = batch[b].reqs
    <3>1. batch' = [batch EXCEPT ![active].chunks = @ + 1,
                                 ![active].bytes = @ + pending[id].chunk.len]
      OBVIOUS
    <3> DEFINE n == pending[id].chunk.len
    <3>2. n \in Nat /\ batch' = [batch EXCEPT ![active].chunks = @ + 1, ![active].bytes = @ + n]
      BY <2>2, <3>1
    <3> HIDE DEF n
    <3>3. batch \in [1..MaxBatches -> BatchState]
      BY DEF BatchTypes
    <3> DEFINE r == [batch[active] EXCEPT !.chunks = @ + 1, !.bytes = @ + n]
    <3>4. active \in 1..MaxBatches
      BY ConstantsAssumption DEF BatchTypes, CallHasBatch, NoBatch
    <3>5. r \in BatchState /\ r.reqs = batch[active].reqs
      <4>1. batch[active] \in BatchState
        BY <3>3, <3>4
      <4>2. batch[active].chunks + 1 \in Nat /\ batch[active].bytes + n \in Nat
        BY <3>2, <4>1 DEF BatchState
      <4> QED BY ONLY <4>1, <4>2 DEF BatchState
    <3>6. batch' = [batch EXCEPT ![active] = r]
      BY <3>2, <3>3, <3>4
    <3> HIDE DEF r
    <3> QED BY ONLY <3>3, <3>4, <3>5, <3>6
  <2>6. BatchTypes' /\ IterInRequest'
    <3>1. BatchTypes'
      BY <2>5 DEF BatchTypes
    <3>2. active \in 1..MaxBatches
      BY ConstantsAssumption DEF BatchTypes, CallHasBatch, NoBatch
    <3> QED BY <2>5, <3>1, <3>2 DEF IterInRequest, HasChunk
  <2>7. WrTypes'
    <3>1. outstanding' \in [QPs -> Nat]
      BY <2>1, <2>4 DEF WrTypes
    <3>2. /\ DOMAIN pending' \subseteq WrIds
          /\ pending' \in [DOMAIN pending' -> [qp : QPs, chunk : Chunk]]
      BY DEF WrTypes
    <3> QED BY <3>1, <3>2 DEF WrTypes
  <2>8. FrameTypes' /\ CallHasBatch' /\ HandledAreOwed'
    <3>1. FrameTypes'
      BY <2>3 DEF FrameTypes
    <3>2. outstanding'[cursor] = outstanding[cursor] - 1
      BY <2>1 DEF WrTypes
    <3> QED BY <2>3, <2>4, <3>1, <3>2 DEF CallHasBatch, HandledAreOwed
  <2>9. HwTypes'
    BY DEF HwTypes
  <2> QED BY <2>6, <2>7, <2>8, <2>9
<1>3. CASE HandleBadWc
  BY <1>3, FailTransportType DEF HandleBadWc, HwTypes, Errors
<1>4. CASE NextCQ
  <2>1. BatchTypes' /\ WrTypes' /\ HwTypes' /\ IterInRequest'
    BY <1>4 DEF NextCQ, BatchTypes, WrTypes, HwTypes, IterInRequest, HasChunk
  <2>2. FrameTypes' /\ CallHasBatch' /\ HandledAreOwed'
    BY <1>4, ConstantsAssumption DEF NextCQ, FrameTypes, CallHasBatch, HandledAreOwed, Places
  <2> QED BY <2>1, <2>2
<1>5. CASE PollEnd
  <2>1. BatchTypes' /\ WrTypes' /\ HwTypes' /\ IterInRequest'
    BY <1>5 DEF PollEnd, BatchTypes, WrTypes, HwTypes, IterInRequest, HasChunk
  <2>2. CASE completed > 0
    <3>1. pc' \in {"alloc", "post"}
      BY <1>5, <2>2 DEF PollEnd, EnterRefill
    <3>2. /\ caller' = "progress" /\ cursor' = 1 /\ made' = FALSE /\ wcs' = <<>>
          /\ posts' = [q \in QPs |-> <<>>]
          /\ UNCHANGED <<lifeVars, completed, active>> /\ pc = "poll"
      BY <1>5, <2>2 DEF PollEnd, EnterRefill
    <3>3. FrameTypes'
      <4>1. pc' \in Places /\ cursor' \in 1..(NQP + 1)
        BY <3>1, <3>2, ConstantsAssumption DEF Places
      <4>2. made' \in BOOLEAN
        BY <3>2
      <4>3. posts' \in [QPs -> Seq(Work)] /\ wcs' \in Seq(WorkCompletion)
        BY <3>2
      <4> QED BY <3>2, <4>1, <4>2, <4>3 DEF FrameTypes
    <3> QED BY <2>1, <3>1, <3>2, <3>3 DEF CallHasBatch, HandledAreOwed
  <2>3. CASE ~(completed > 0)
    <3>1. FrameTypes' /\ CallHasBatch' /\ HandledAreOwed'
      BY <1>5, <2>3, ConstantsAssumption DEF PollEnd, FrameTypes, CallHasBatch, HandledAreOwed, Places
    <3> QED BY <2>1, <3>1
  <2> QED BY <2>2, <2>3
<1>6. CASE Succeed
  BY <1>6, SucceedType
<1>7. CASE NotYet
  <2>1. BatchTypes' /\ WrTypes' /\ HwTypes' /\ IterInRequest'
    BY <1>7 DEF NotYet, BatchTypes, WrTypes, HwTypes, IterInRequest, HasChunk
  <2>2. FrameTypes' /\ CallHasBatch' /\ HandledAreOwed'
    BY <1>7 DEF NotYet, FrameTypes, CallHasBatch, HandledAreOwed, Places
  <2> QED BY <2>1, <2>2
<1> QED BY <1>1, <1>2, <1>3, <1>4, <1>5, <1>6, <1>7 DEF Poll

\* The failures of a call keep the types.
LEMMA FailureType ==
    ASSUME TypeInv, Failure
    PROVE  TypeInv'
<1> USE DEF TypeInv, TypeOK
<1>1. sq \in [QPs -> Seq(Work)] /\ {"transport", "timeout", "cancelled"} \subseteq Errors
  BY DEF HwTypes, Errors
<1>2. CASE AllocFail
  BY <1>1, <1>2, FailTransportType DEF AllocFail
<1>3. CASE PostFail
  <2>1. PICK n \in 0..(Len(posts[cursor]) - 1) :
            FailTransport("transport",
                [sq EXCEPT ![cursor] = @ \o SubSeq(posts[cursor], 1, n)])
    BY <1>3 DEF PostFail
  <2>2. cursor \in QPs
    BY <1>3, ConstantsAssumption DEF PostFail, FrameTypes, QPs
  <2>3. SubSeq(posts[cursor], 1, n) \in Seq(Work)
    BY <2>2 DEF FrameTypes
  <2>4. [sq EXCEPT ![cursor] = @ \o SubSeq(posts[cursor], 1, n)] \in [QPs -> Seq(Work)]
    BY <1>1, <2>2, <2>3
  <2> QED BY <1>1, <2>1, <2>4, FailTransportType
<1>4. CASE PollFail
  BY <1>1, <1>4, FailTransportType DEF PollFail
<1>5. CASE TimedOut
  BY <1>1, <1>5, FailTransportType DEF TimedOut
<1>6. CASE Cancelled
  BY <1>1, <1>6, FailTransportType DEF Cancelled
<1>7. CASE WaitForeign
  BY <1>7, WaitElsewhereType
<1> QED BY <1>2, <1>3, <1>4, <1>5, <1>6, <1>7 DEF Failure

\* submit keeps the types: the new batch starts at its first byte.
LEMMA SubmitType ==
    ASSUME TypeInv, NEW reqs \in RequestLists, NEW cb \in BOOLEAN, Submit(reqs, cb)
    PROVE  TypeInv'
<1> USE DEF TypeInv, TypeOK, Submit, wrVars, lifeVars, hwVars
<1> DEFINE b == nbatch + 1
<1> DEFINE added == [batch EXCEPT ![b] = NewBatch(reqs, cb)]
<1>1. b \in 1..MaxBatches /\ nbatch' = b
  BY ConstantsAssumption DEF BatchTypes
<1>2. NewBatch(reqs, cb) \in BatchState
  BY DEF NewBatch, BatchState, Errors
<1>3. added \in [1..MaxBatches -> BatchState] /\ added[b] = NewBatch(reqs, cb)
  BY <1>1, <1>2 DEF BatchTypes
<1>4. WrTypes' /\ HwTypes'
  BY DEF WrTypes, HwTypes
<1>5. iter' \in [req : Nat \ {0}, off : Nat] /\ exhausted' \in BOOLEAN
  OBVIOUS
<1>6. CASE TotalChunks(reqs) = 0
  <2>1. FinishSuccess(b, added)
    BY <1>6
  <2> HIDE DEF added, b
  <2>2. FrameTypes' /\ pc' = "idle" /\ active' = NoBatch
    BY <2>1, EmptyFrameType DEF FinishSuccess, FrameTypes
  <2>3. batch' \in [1..MaxBatches -> BatchState]
    <3> DEFINE n == IF added[b].onComplete THEN added[b].calls + 1 ELSE added[b].calls
    <3>1. batch' = [added EXCEPT ![b] = [added[b] EXCEPT !.done = TRUE, !.calls = n]]
      BY <1>1, <1>3, <2>1 DEF FinishSuccess
    <3>2. added[b] \in BatchState
      BY <1>1, <1>3
    <3>3. n \in Nat
      BY <3>2 DEF BatchState
    <3> HIDE DEF n
    <3>4. [added[b] EXCEPT !.done = TRUE, !.calls = n] \in BatchState
      BY <3>2, <3>3 DEF BatchState
    <3> QED BY <1>1, <1>3, <3>1, <3>4
  <2>4. callbacks' \in Seq(1..MaxBatches)
    <3>1. CASE added[b].onComplete
      BY <1>1, <2>1, <3>1 DEF FinishSuccess, BatchTypes
    <3>2. CASE ~added[b].onComplete
      BY <2>1, <3>2 DEF FinishSuccess, BatchTypes
    <3> QED BY <3>1, <3>2
  <2>5. BatchTypes'
    BY <1>1, <1>5, <2>2, <2>3, <2>4 DEF BatchTypes, NoBatch
  <2>6. CallHasBatch' /\ HandledAreOwed' /\ IterInRequest'
    BY <2>2 DEF CallHasBatch, HandledAreOwed, IterInRequest, HasChunk
  <2> QED BY <1>4, <2>2, <2>5, <2>6
<1>7. CASE TotalChunks(reqs) # 0
  <2>1. batch' = added /\ active' = b /\ EnterRefill("submit", FALSE) /\ completed' = 0
        /\ UNCHANGED callbacks /\ iter' = [req |-> 1, off |-> 0]
    BY <1>7
  <2> HIDE DEF added, b
  <2>2. BatchTypes'
    <3>1. batch' \in [1..MaxBatches -> BatchState] /\ callbacks' \in Seq(1..MaxBatches)
      BY <1>3, <2>1 DEF BatchTypes
    <3>2. nbatch' \in 0..MaxBatches /\ active' \in 0..nbatch'
      BY <1>1, <2>1
    <3> QED BY <1>5, <3>1, <3>2 DEF BatchTypes
  <2>3. FrameTypes' /\ CallHasBatch' /\ HandledAreOwed'
    <3>1. pc' = "alloc" /\ caller' = "submit" /\ cursor' = 1 /\ wcs' = <<>>
      BY <2>1 DEF EnterRefill
    <3>2. made' \in BOOLEAN
      BY <2>1 DEF EnterRefill
    <3>3. posts' \in [QPs -> Seq(Work)]
      BY <2>1 DEF EnterRefill
    <3>4. FrameTypes'
      BY <2>1, <3>1, <3>2, <3>3, ConstantsAssumption DEF FrameTypes, Places
    <3> QED BY <1>1, <2>1, <3>1, <3>4 DEF CallHasBatch, HandledAreOwed, NoBatch
  <2>4. IterInRequest'
    <3>1. batch'[active'].reqs = reqs
      BY <1>3, <2>1 DEF NewBatch
    <3>2. reqs \in Seq(Nat \ {0})
      BY ConstantsAssumption
    <3> QED BY <2>1, <3>1, <3>2 DEF IterInRequest, HasChunk
  <2> QED BY <1>4, <2>2, <2>3, <2>4
<1> QED BY <1>6, <1>7

\* The other calls keep the types.
LEMMA CallType ==
    ASSUME TypeInv, Call
    PROVE  TypeInv'
<1> USE DEF TypeInv, TypeOK, batchVars, wrVars, lifeVars, frameVars, hwVars
<1>1. CASE \E reqs \in RequestLists, cb \in BOOLEAN : Submit(reqs, cb)
  BY <1>1, SubmitType
<1>2. CASE Progress
  <2>1. BatchTypes' /\ WrTypes' /\ HwTypes' /\ IterInRequest'
    BY <1>2 DEF Progress, BatchTypes, WrTypes, HwTypes, IterInRequest, HasChunk
  <2>2. FrameTypes' /\ CallHasBatch' /\ HandledAreOwed'
    BY <1>2, ConstantsAssumption
    DEF Progress, FrameTypes, CallHasBatch, HandledAreOwed, Places
  <2> QED BY <2>1, <2>2
<1>3. CASE KeepWaiting
  <2>1. BatchTypes' /\ WrTypes' /\ HwTypes' /\ IterInRequest'
    BY <1>3 DEF KeepWaiting, BatchTypes, WrTypes, HwTypes, IterInRequest, HasChunk
  <2>2. FrameTypes' /\ pc' = "idle"
    BY <1>3, EmptyFrameType DEF KeepWaiting, FrameTypes
  <2> QED BY <2>1, <2>2 DEF CallHasBatch, HandledAreOwed
<1>4. CASE Close
  <2> USE <1>4 DEF Close
  <2>1. BatchTypes'
    <3>1. batch' \in [1..MaxBatches -> BatchState]
      <4>1. CASE active # NoBatch /\ ~batch[active].done
        <5>1. EndBatch(active, "closed") /\ "closed" \in Errors
          BY <4>1 DEF Errors
        <5> QED BY <5>1, EndBatchType
      <4>2. CASE ~(active # NoBatch /\ ~batch[active].done)
        BY <4>2 DEF BatchTypes
      <4> QED BY <4>1, <4>2
    <3> QED BY <3>1 DEF BatchTypes, NoBatch
  <2>2. WrTypes' /\ HwTypes'
    BY DEF ForgetWork, CloseOwned, WrTypes, HwTypes
  <2>3. FrameTypes' /\ CallHasBatch' /\ HandledAreOwed' /\ IterInRequest'
    BY DEF CloseOwned, FrameTypes, CallHasBatch, HandledAreOwed, IterInRequest, HasChunk
  <2> QED BY <2>1, <2>2, <2>3
<1>5. CASE Connect
  <2>1. BatchTypes' /\ WrTypes' /\ HwTypes' /\ IterInRequest'
    BY <1>5 DEF Connect, BatchTypes, WrTypes, HwTypes, IterInRequest, HasChunk
  <2>2. FrameTypes' /\ CallHasBatch' /\ HandledAreOwed'
    BY <1>5 DEF Connect, FrameTypes, CallHasBatch, HandledAreOwed
  <2> QED BY <2>1, <2>2
<1>6. CASE ConnectFail
  <2>1. BatchTypes' /\ WrTypes' /\ IterInRequest'
    BY <1>6 DEF ConnectFail, BatchTypes, WrTypes, IterInRequest, HasChunk
  <2>2. HwTypes' /\ owns' \in BOOLEAN
    BY <1>6 DEF ConnectFail, CloseOwned, HwTypes
  <2>3. FrameTypes' /\ CallHasBatch' /\ HandledAreOwed'
    BY <1>6, <2>2 DEF ConnectFail, FrameTypes, CallHasBatch, HandledAreOwed
  <2> QED BY <2>1, <2>2, <2>3
<1>7. CASE \E ok \in BOOLEAN : CallbackReturns(ok)
  <2>1. PICK ok \in BOOLEAN : CallbackReturns(ok)
    BY <1>7
  <2> USE <2>1 DEF CallbackReturns
  <2>2. /\ batch' \in [1..MaxBatches -> BatchState]
        /\ \A b \in 1..MaxBatches : batch'[b].reqs = batch[b].reqs
    <3>1. CASE ok
      BY <3>1 DEF BatchTypes
    <3>2. CASE ~ok
      <4>1. batch' = [batch EXCEPT ![Last(callbacks)].error = "callback"]
        BY <3>2
      <4> DEFINE c == Last(callbacks)
      <4>2. batch \in [1..MaxBatches -> BatchState] /\ "callback" \in Errors
        BY DEF BatchTypes, Errors
      <4>3. batch' = [batch EXCEPT ![c].error = "callback"]
        BY <4>1
      <4> HIDE DEF c
      <4> QED BY ONLY <4>2, <4>3 DEF BatchState
    <3> QED BY <3>1, <3>2
  <2>3. callbacks' \in Seq(1..MaxBatches)
    <3>1. callbacks' = SubSeq(callbacks, 1, Len(callbacks) - 1)
      BY DEF Front
    <3>2. callbacks \in Seq(1..MaxBatches) /\ callbacks # <<>>
      BY DEF BatchTypes
    <3> DEFINE S == 1..MaxBatches
    <3>3. callbacks \in Seq(S)
      BY <3>2
    <3> HIDE DEF S
    <3>4. SubSeq(callbacks, 1, Len(callbacks) - 1) \in Seq(S)
      BY ONLY <3>2, <3>3, SubSeqProperties
    <3> QED BY <3>1, <3>4 DEF S
  <2>4. BatchTypes'
    BY <2>2, <2>3 DEF BatchTypes
  <2>5. WrTypes' /\ HwTypes' /\ FrameTypes' /\ CallHasBatch' /\ HandledAreOwed'
    BY DEF WrTypes, HwTypes, FrameTypes, CallHasBatch, HandledAreOwed
  <2>6. IterInRequest'
    <3>1. active # NoBatch => active \in 1..MaxBatches
      BY ConstantsAssumption DEF BatchTypes, NoBatch
    <3> QED BY <2>2, <3>1 DEF IterInRequest, HasChunk
  <2> QED BY <2>4, <2>5, <2>6
<1>8. CASE \E b \in 1..MaxBatches : WaitLeftBehind(b) \/ ForeignWait(b)
  BY <1>8, WaitElsewhereType
<1> QED BY <1>1, <1>2, <1>3, <1>4, <1>5, <1>6, <1>7, <1>8 DEF Call, Wait

\* The adapter's steps keep the types.
LEMMA HardwareType ==
    ASSUME TypeInv, Hardware
    PROVE  TypeInv'
<1> USE DEF TypeInv, TypeOK, batchVars, wrVars, lifeVars, frameVars
<1>1. PICK q \in QPs : HwComplete(q) \/ HwError(q)
  BY DEF Hardware
<1>2. sq[q] \in Seq(Work) /\ cq[q] \in Seq(WorkCompletion) /\ sq[q] # <<>>
  BY <1>1 DEF HwTypes, HwComplete, HwError
<1>3. Head(sq[q]) \in Work /\ Tail(sq[q]) \in Seq(Work)
  BY <1>2
<1>4. \A ok \in BOOLEAN :
        [id |-> Head(sq[q]).id, chunk |-> Head(sq[q]).chunk, ok |-> ok] \in WorkCompletion
  BY <1>3 DEF Work, WorkCompletion
<1>5. HwTypes'
  <2>1. sq' \in [QPs -> Seq(Work)]
    BY <1>1, <1>3 DEF HwTypes, HwComplete, HwError
  <2>2. cq' \in [QPs -> Seq(WorkCompletion)]
    <3>1. PICK ok \in BOOLEAN : cq' = [cq EXCEPT ![q] = Append(@,
              [id |-> Head(sq[q]).id, chunk |-> Head(sq[q]).chunk, ok |-> ok])]
      BY <1>1 DEF HwComplete, HwError
    <3> QED BY <1>2, <1>4, <3>1 DEF HwTypes
  <2>3. qp' \in [QPs -> {"reset", "rts", "error", "destroyed"}]
    BY <1>1 DEF HwTypes, HwComplete, HwError
  <2> QED BY <2>1, <2>2, <2>3 DEF HwTypes
<1>6. UNCHANGED <<batchVars, wrVars, lifeVars, frameVars, callbacks>>
  BY <1>1 DEF HwComplete, HwError
<1>7. BatchTypes' /\ WrTypes' /\ FrameTypes'
  BY <1>6 DEF BatchTypes, WrTypes, FrameTypes
<1>8. CallHasBatch' /\ HandledAreOwed' /\ IterInRequest'
  BY <1>6 DEF CallHasBatch, HandledAreOwed, IterInRequest, HasChunk
<1> QED BY <1>5, <1>7, <1>8

\* TypeInv holds at the start.
LEMMA InitType == Init => TypeInv
<1> SUFFICES ASSUME Init PROVE TypeInv
  OBVIOUS
<1> USE DEF Init, TypeInv, TypeOK
<1>1. NewBatch(<<>>, FALSE) \in BatchState
  BY DEF NewBatch, BatchState, Errors
<1>2. BatchTypes
  <2>1. batch \in [1..MaxBatches -> BatchState] /\ callbacks \in Seq(1..MaxBatches)
    <3> DEFINE b0 == NewBatch(<<>>, FALSE)
    <3>1. batch = [b \in 1..MaxBatches |-> b0] /\ b0 \in BatchState
      BY <1>1
    <3> HIDE DEF b0
    <3>2. batch \in [1..MaxBatches -> BatchState]
      BY ONLY <3>1
    <3>3. callbacks = <<>>
      OBVIOUS
    <3>4. callbacks \in Seq(1..MaxBatches)
      BY ONLY <3>3
    <3> QED BY ONLY <3>2, <3>4
  <2>2. nbatch \in 0..MaxBatches /\ active \in 0..nbatch
    BY ConstantsAssumption DEF NoBatch
  <2>3. exhausted \in BOOLEAN /\ iter \in [req : Nat \ {0}, off : Nat]
    OBVIOUS
  <2> QED BY <2>1, <2>2, <2>3 DEF BatchTypes
<1>3. WrTypes
  <2>1. NQP * QueueDepth >= 1
    BY ConstantsAssumption, SMTT(30)
  <2> QED BY <2>1, ConstantsAssumption DEF WrTypes, WrIds
<1>4. FrameTypes /\ HwTypes
  <2>1. closed \in BOOLEAN /\ poisoned \in BOOLEAN /\ owns \in BOOLEAN /\ made \in BOOLEAN
    BY ConstantsAssumption
  <2>2. pc \in Places /\ caller \in {"none", "submit", "progress"} /\ cursor \in 1..(NQP + 1)
    BY ConstantsAssumption DEF Places
  <2>3. /\ posts \in [QPs -> Seq(Work)] /\ wcs \in Seq(WorkCompletion) /\ completed \in Nat
        /\ sq \in [QPs -> Seq(Work)] /\ cq \in [QPs -> Seq(WorkCompletion)]
    OBVIOUS
  <2>4. qp \in [QPs -> {"reset", "rts", "error", "destroyed"}]
    OBVIOUS
  <2> QED BY <2>1, <2>2, <2>3, <2>4 DEF FrameTypes, HwTypes
<1>5. CallHasBatch /\ HandledAreOwed /\ IterInRequest
  BY DEF CallHasBatch, HandledAreOwed, IterInRequest, HasChunk
<1> QED BY <1>2, <1>3, <1>4, <1>5

\* TypeInv is inductive.
THEOREM TypeInvHolds == Spec => []TypeInv
<1>1. ASSUME TypeInv, [Next]_vars
      PROVE  TypeInv'
  <2>1. CASE Next
    BY <1>1, <2>1, RefillType, PollType, FailureType, CallType, HardwareType DEF Next
  <2>2. CASE UNCHANGED vars
    BY <1>1, <2>2 DEF TypeInv, TypeOK, BatchTypes, WrTypes, FrameTypes, HwTypes,
        CallHasBatch, HandledAreOwed, IterInRequest, HasChunk, vars, batchVars, wrVars,
        lifeVars, frameVars, hwVars
  <2> QED BY <1>1, <2>1, <2>2
<1> QED BY <1>1, InitType, PTL DEF Spec

\* Every variable of the scheduler keeps its type: in particular a wr_id
\* never leaves 1.._MAX_WR_ID when it wraps, and no QP's count of outstanding
\* work becomes negative.
THEOREM TypeCorrect == Spec => []TypeOK
BY TypeInvHolds, PTL DEF TypeInv

(***************************************************************************)
(* Routing: what the scheduler's books say of the work in flight           *)
(***************************************************************************)

\* Room was made before anything was allocated.
FitsDepth == \A q \in QPs : outstanding[q] + Len(posts[q]) <= QueueDepth

\* Lists of work requests exist only inside _refill, and those of the QPs
\* behind the cursor have been posted.
ListsInRefill ==
    /\ pc \notin {"alloc", "post"} => \A q \in QPs : posts[q] = <<>>
    /\ pc = "post" => \A q \in QPs : q < cursor => posts[q] = <<>>

\* Between batches nothing is booked, and the QPs of a scheduler that takes
\* another batch are empty.
QuietBetween ==
    active = NoBatch =>
        /\ DOMAIN pending = {} /\ \A q \in QPs : outstanding[q] = 0
        /\ Usable => \A q \in QPs : Len(sq[q]) = 0 /\ Len(cq[q]) = 0

\* _outstanding counts the work posted, and _pending names it and nothing else.
Booked ==
    active # NoBatch =>
        /\ \A q \in QPs : outstanding[q] = Len(Posted(q))
        /\ \A q \in QPs : \A i \in 1..Len(Posted(q)) :
            /\ Posted(q)[i].id \in DOMAIN pending
            /\ pending[Posted(q)[i].id] = [qp |-> q, chunk |-> Posted(q)[i].chunk]
        /\ \A id \in DOMAIN pending :
            \E q \in QPs : \E i \in 1..Len(Posted(q)) : Posted(q)[i].id = id

AllPostIds == UNION {PostIds(q) : q \in QPs}

\* j lies on the way from a, where it starts, to b, where it ends, in a walk
\* over the wr_ids that goes from MaxWrId to 1; all do when b is a.
OnTheWay(a, j, b) == IF a < b THEN a <= j /\ j < b ELSE a <= j \/ j < b

\* Since the _refill began the search for wr_ids has left no free id behind.
SearchedAll ==
    pc = "alloc" =>
        \A a \in AllPostIds, j \in WrIds :
            OnTheWay(a, j, nextWrId) => j \in DOMAIN pending \cup AllPostIds

RoutingInv ==
    /\ FitsDepth /\ ListsInRefill /\ QuietBetween /\ Booked /\ SearchedAll
    /\ WrIdsUnique /\ DepthBound

Joined(u, c, s) == (u \o c) \o s

\* The oldest work request leaves the send queue for the end of the CQ.
LEMMA MoveHead ==
    ASSUME NEW T, NEW u \in Seq(T), NEW c \in Seq(T), NEW s \in Seq(T), s # <<>>
    PROVE  Joined(u, Append(c, Head(s)), Tail(s)) = Joined(u, c, s)
<1>1. Head(s) \in T /\ Tail(s) \in Seq(T)
  OBVIOUS
<1>2. Append(c, Head(s)) = c \o <<Head(s)>> /\ <<Head(s)>> \in Seq(T)
  BY <1>1, AppendIsConcat
<1>3. s = <<Head(s)>> \o Tail(s)
  <2>1. <<Head(s)>> \o Tail(s) \in Seq(T) /\ Len(<<Head(s)>> \o Tail(s)) = Len(s)
    BY <1>1, <1>2
  <2>2. \A i \in 1..Len(s) : s[i] = (<<Head(s)>> \o Tail(s))[i]
    BY <1>1, <1>2
  <2> QED BY <2>1, <2>2, SeqEqual
<1> DEFINE h == <<Head(s)>>
<1> DEFINE t == Tail(s)
<1>4. h \in Seq(T) /\ t \in Seq(T) /\ s = h \o t /\ Append(c, Head(s)) = c \o h
  BY <1>1, <1>2, <1>3
<1> HIDE DEF h, t
<1>5. (u \o (c \o h)) \o t = ((u \o c) \o h) \o t
  BY <1>4, ConcatAssociative, SMTT(30)
<1>6. u \o c \in Seq(T)
  BY ConcatProperties
<1>7. ((u \o c) \o h) \o t = (u \o c) \o (h \o t)
  BY <1>4, <1>6, ConcatAssociative, SMTT(30)
<1>8. (u \o Append(c, Head(s))) \o t = (u \o c) \o s
  BY <1>4, <1>5, <1>7
<1> QED BY <1>8 DEF t, Joined

\* The work behind a queue of completions.
LEMMA WorksType ==
    ASSUME NEW c \in Seq(WorkCompletion)
    PROVE  /\ Works(c) \in Seq(Work) /\ Len(Works(c)) = Len(c)
           /\ \A i \in 1..Len(c) : Works(c)[i] = [id |-> c[i].id, chunk |-> c[i].chunk]
<1>1. DOMAIN c = 1..Len(c) /\ Len(c) \in Nat
  OBVIOUS
<1>2. \A i \in 1..Len(c) : [id |-> c[i].id, chunk |-> c[i].chunk] \in Work
  <2>1. \A i \in 1..Len(c) : c[i] \in WorkCompletion
    OBVIOUS
  <2> QED BY <2>1 DEF WorkCompletion, Work
<1>3. Works(c) \in [1..Len(c) -> Work]
  BY <1>1, <1>2 DEF Works
<1> QED BY <1>1, <1>3 DEF Works

\* A completion added to a queue is its work added to the work behind it.
LEMMA WorksAppend ==
    ASSUME NEW c \in Seq(WorkCompletion), NEW x \in WorkCompletion
    PROVE  Works(Append(c, x)) = Append(Works(c), [id |-> x.id, chunk |-> x.chunk])
<1> DEFINE w == [id |-> x.id, chunk |-> x.chunk]
<1>1. w \in Work
  BY DEF WorkCompletion, Work
<1>2. Append(c, x) \in Seq(WorkCompletion) /\ Len(Append(c, x)) = Len(c) + 1
  OBVIOUS
<1>3. Works(Append(c, x)) \in Seq(Work) /\ Len(Works(Append(c, x))) = Len(c) + 1
  BY <1>2, WorksType
<1>4. Works(c) \in Seq(Work) /\ Len(Works(c)) = Len(c)
  BY WorksType
<1>5. Append(Works(c), w) \in Seq(Work) /\ Len(Append(Works(c), w)) = Len(c) + 1
  BY <1>1, <1>4
<1>6. \A i \in 1..(Len(c) + 1) : Works(Append(c, x))[i] = Append(Works(c), w)[i]
  <2> TAKE i \in 1..(Len(c) + 1)
  <2>1. Works(Append(c, x))[i] = [id |-> Append(c, x)[i].id, chunk |-> Append(c, x)[i].chunk]
    BY <1>2, WorksType
  <2>2. CASE i = Len(c) + 1
    BY <1>1, <1>4, <2>1, <2>2
  <2>3. CASE i # Len(c) + 1
    <3>1. i \in 1..Len(c)
      BY <2>3
    <3>2. Append(c, x)[i] = c[i] /\ Append(Works(c), w)[i] = Works(c)[i]
      BY <1>1, <1>4, <3>1
    <3> QED BY <2>1, <3>1, <3>2, WorksType
  <2> QED BY <2>2, <2>3
<1> QED BY <1>3, <1>5, <1>6, SeqEqual

\* Polling takes completions from the head of a queue and leaves the others.
LEMMA WorksSplit ==
    ASSUME NEW c \in Seq(WorkCompletion), NEW n \in 0..Len(c)
    PROVE  Works(SubSeq(c, 1, n)) \o Works(SubSeq(c, n + 1, Len(c))) = Works(c)
<1> DEFINE a == SubSeq(c, 1, n)
<1> DEFINE b == SubSeq(c, n + 1, Len(c))
<1>1. /\ a \in Seq(WorkCompletion) /\ Len(a) = n
      /\ b \in Seq(WorkCompletion) /\ Len(b) = Len(c) - n
      /\ \A i \in 1..n : a[i] = c[i]
      /\ \A i \in 1..(Len(c) - n) : b[i] = c[n + i]
  <2>1. \A i \in 1..Len(c) : c[i] \in WorkCompletion
    OBVIOUS
  <2>2. a \in Seq(WorkCompletion) /\ Len(a) = n /\ \A i \in 1..n : a[i] = c[i]
    <3>1. \A i \in 1..n : c[i] \in WorkCompletion
      BY <2>1
    <3> QED BY <3>1, SubSeqProperties
  <2>3. /\ b \in Seq(WorkCompletion) /\ Len(b) = Len(c) - n
        /\ \A i \in 1..(Len(c) - n) : b[i] = c[n + i]
    <3>1. \A i \in (n + 1)..Len(c) : c[i] \in WorkCompletion
      BY <2>1
    <3> QED BY <3>1, SubSeqProperties
  <2> QED BY <2>2, <2>3
<1> HIDE DEF a, b
<1>2. Works(a) \in Seq(Work) /\ Len(Works(a)) = n /\ Works(b) \in Seq(Work) /\ Len(Works(b)) = Len(c) - n
  BY <1>1, WorksType
<1>3. Works(c) \in Seq(Work) /\ Len(Works(c)) = Len(c)
  BY WorksType
<1>4. Works(a) \o Works(b) \in Seq(Work) /\ Len(Works(a) \o Works(b)) = Len(c)
  BY <1>2
<1>5. \A i \in 1..Len(c) : (Works(a) \o Works(b))[i] = Works(c)[i]
  <2> TAKE i \in 1..Len(c)
  <2>1. Works(c)[i] = [id |-> c[i].id, chunk |-> c[i].chunk]
    BY WorksType
  <2>2. CASE i <= n
    <3>1. (Works(a) \o Works(b))[i] = Works(a)[i]
      BY <1>2, <2>2
    <3>2. Works(a)[i] = [id |-> a[i].id, chunk |-> a[i].chunk] /\ a[i] = c[i]
      BY <1>1, <2>2, WorksType
    <3> QED BY <2>1, <3>1, <3>2
  <2>3. CASE i > n
    <3>1. (Works(a) \o Works(b))[i] = Works(b)[i - n]
      BY <1>2, <2>3
    <3>2. i - n \in 1..Len(b) /\ b[i - n] = c[i]
      BY <1>1, <2>3
    <3>3. Works(b)[i - n] = [id |-> b[i - n].id, chunk |-> b[i - n].chunk]
      BY <1>1, <3>2, WorksType
    <3> QED BY <2>1, <3>1, <3>2, <3>3
  <2>4. i <= n \/ i > n
    OBVIOUS
  <2> QED BY <2>2, <2>3, <2>4
<1>6. Works(a) \o Works(b) = Works(c)
  BY <1>3, <1>4, <1>5, SeqEqual
<1> QED BY <1>6 DEF a, b

\* Taking the first element of a concatenation.
LEMMA TailConcat ==
    ASSUME NEW T, NEW a \in Seq(T), a # <<>>, NEW x \in Seq(T)
    PROVE  a \o x # <<>> /\ Tail(a \o x) = Tail(a) \o x /\ Head(a \o x) = Head(a)
<1> DEFINE k == Len(a)
           l == Len(x)
           t == Tail(a)
<1>1. k \in Nat \ {0} /\ l \in Nat
  BY EmptySeq, LenProperties
<1>2. /\ a \o x \in Seq(T) /\ Len(a \o x) = k + l
      /\ \A i \in 1..(k + l) : (a \o x)[i] = IF i <= k THEN a[i] ELSE x[i - k]
  BY ConcatProperties
<1>3. t \in Seq(T) /\ Len(t) = k - 1 /\ \A i \in 1..(k - 1) : t[i] = a[i + 1]
  BY HeadTailProperties
<1> HIDE DEF t
<1>4. /\ t \o x \in Seq(T) /\ Len(t \o x) = (k - 1) + l
      /\ \A i \in 1..((k - 1) + l) : (t \o x)[i] = IF i <= k - 1 THEN t[i] ELSE x[i - (k - 1)]
  <2> DEFINE n == Len(t)
  <2>1. /\ t \o x \in Seq(T) /\ Len(t \o x) = n + l
        /\ \A i \in 1..(n + l) : (t \o x)[i] = IF i <= n THEN t[i] ELSE x[i - n]
    BY <1>3, ConcatProperties
  <2>2. n = k - 1
    BY <1>3
  <2> HIDE DEF n, k, l
  <2> QED BY <2>1, <2>2
<1> HIDE DEF k, l
<1>5. a \o x # <<>>
  BY ConcatEqualIffEmpty
<1>6. /\ Tail(a \o x) \in Seq(T) /\ Len(Tail(a \o x)) = (k - 1) + l
      /\ \A i \in 1..((k - 1) + l) : Tail(a \o x)[i] = (a \o x)[i + 1]
  <2>1. (k + l) - 1 = (k - 1) + l
    BY <1>1
  <2> QED BY <1>2, <1>5, <2>1, HeadTailProperties
<1>7. ASSUME NEW i \in 1..((k - 1) + l) PROVE Tail(a \o x)[i] = (t \o x)[i]
  <2>1. i + 1 \in 1..(k + l)
    BY <1>1
  <2>2. CASE i <= k - 1
    <3>1. i + 1 <= k /\ i \in 1..(k - 1)
      BY <1>1, <2>2
    <3>2. Tail(a \o x)[i] = a[i + 1]
      BY <1>2, <1>6, <2>1, <3>1
    <3>3. (t \o x)[i] = a[i + 1]
      BY <1>3, <1>4, <2>2, <3>1
    <3> QED BY <3>2, <3>3
  <2>3. CASE ~ (i <= k - 1)
    <3>1. ~ (i + 1 <= k) /\ (i + 1) - k = i - (k - 1)
      BY <1>1, <2>3
    <3>2. Tail(a \o x)[i] = x[(i + 1) - k]
      BY <1>2, <1>6, <2>1, <3>1
    <3>3. (t \o x)[i] = x[i - (k - 1)]
      BY <1>4, <2>3
    <3> QED BY <3>1, <3>2, <3>3
  <2> QED BY <2>2, <2>3
<1>8. Tail(a \o x) = t \o x
  BY <1>4, <1>6, <1>7, SeqEqual
<1>9. Head(a \o x) = Head(a)
  <2>1. 1 \in 1..(k + l) /\ 1 <= k
    BY <1>1
  <2>2. (a \o x)[1] = a[1]
    BY <1>2, <2>1
  <2> QED BY <2>2 DEF Head
<1> QED BY <1>5, <1>8, <1>9 DEF t

\* Handling a completion takes the oldest work request off.
LEMMA WorksTail ==
    ASSUME NEW c \in Seq(WorkCompletion), c # <<>>, NEW x \in Seq(Work), NEW y \in Seq(Work)
    PROVE  /\ Joined(Works(Tail(c)), x, y) = Tail(Joined(Works(c), x, y))
           /\ Joined(Works(c), x, y) # <<>>
           /\ Head(Joined(Works(c), x, y)) = [id |-> Head(c).id, chunk |-> Head(c).chunk]
<1>1. Tail(c) \in Seq(WorkCompletion) /\ Len(Tail(c)) = Len(c) - 1 /\ Len(c) \in Nat \ {0}
      /\ \A i \in 1..(Len(c) - 1) : Tail(c)[i] = c[i + 1]
  OBVIOUS
<1> DEFINE a == Works(c)
<1> DEFINE b == Works(Tail(c))
<1>2. /\ a \in Seq(Work) /\ Len(a) = Len(c) /\ b \in Seq(Work) /\ Len(b) = Len(c) - 1
      /\ \A i \in 1..(Len(c) - 1) : b[i] = a[i + 1]
      /\ a[1] = [id |-> Head(c).id, chunk |-> Head(c).chunk]
  <2>1. /\ a \in Seq(Work) /\ Len(a) = Len(c)
        /\ \A i \in 1..Len(c) : a[i] = [id |-> c[i].id, chunk |-> c[i].chunk]
    BY WorksType
  <2>2. /\ b \in Seq(Work) /\ Len(b) = Len(c) - 1
        /\ \A i \in 1..(Len(c) - 1) : b[i] = [id |-> Tail(c)[i].id, chunk |-> Tail(c)[i].chunk]
    BY <1>1, WorksType
  <2> HIDE DEF a, b
  <2>3. \A i \in 1..(Len(c) - 1) : b[i] = a[i + 1]
    <3> TAKE i \in 1..(Len(c) - 1)
    <3>1. i + 1 \in 1..Len(c) /\ Tail(c)[i] = c[i + 1]
      BY <1>1
    <3>2. a[i + 1] = [id |-> c[i + 1].id, chunk |-> c[i + 1].chunk]
      BY <2>1, <3>1
    <3> QED BY <2>2, <3>1, <3>2
  <2>4. a[1] = [id |-> c[1].id, chunk |-> c[1].chunk] /\ Head(c) = c[1]
    BY <1>1, <2>1
  <2> QED BY <2>1, <2>2, <2>3, <2>4
<1> HIDE DEF a, b
<1>3. b = Tail(a) /\ a # <<>> /\ Head(a) = a[1]
  <2> DEFINE m == Len(c)
  <2>1. m \in Nat \ {0} /\ Len(a) = m /\ Len(b) = m - 1 /\ \A i \in 1..(m - 1) : b[i] = a[i + 1]
    BY <1>1, <1>2
  <2> HIDE DEF m
  <2>2. a # <<>>
    BY <1>2, <2>1, EmptySeq
  <2>3. Tail(a) \in Seq(Work) /\ Len(Tail(a)) = m - 1 /\ \A i \in 1..(m - 1) : Tail(a)[i] = a[i + 1]
    BY <1>2, <2>1, <2>2, HeadTailProperties
  <2>4. b = Tail(a)
    BY <1>2, <2>1, <2>3, SeqEqual
  <2> QED BY <2>2, <2>4 DEF Head
<1>4. a \o x # <<>> /\ Tail(a \o x) = b \o x /\ Head(a \o x) = a[1] /\ a \o x \in Seq(Work)
  BY <1>2, <1>3, TailConcat, ConcatProperties
<1>5. (a \o x) \o y # <<>> /\ Tail((a \o x) \o y) = Tail(a \o x) \o y
      /\ Head((a \o x) \o y) = Head(a \o x)
  BY <1>4, TailConcat
<1>8. Joined(b, x, y) = Tail(Joined(a, x, y)) /\ Joined(a, x, y) # <<>> /\ Head(Joined(a, x, y)) = a[1]
  BY <1>4, <1>5 DEF Joined
<1> QED BY <1>2, <1>8 DEF a, b

\* The work in flight on a QP is a sequence of work requests.
LEMMA FlightType ==
    ASSUME FrameTypes, HwTypes, NEW q \in QPs
    PROVE  /\ Unhandled(q) \in Seq(WorkCompletion)
           /\ Works(Unhandled(q)) \in Seq(Work) /\ Works(cq[q]) \in Seq(Work)
           /\ sq[q] \in Seq(Work) /\ posts[q] \in Seq(Work)
           /\ Posted(q) \in Seq(Work) /\ Flight(q) \in Seq(Work)
           /\ Len(Posted(q)) \in Nat /\ Len(posts[q]) \in Nat
           /\ Len(Posted(q)) = Len(Unhandled(q)) + Len(cq[q]) + Len(sq[q])
           /\ Len(Flight(q)) = Len(Posted(q)) + Len(posts[q])
           /\ \A i \in 1..Len(Posted(q)) : Flight(q)[i] = Posted(q)[i]
           /\ \A i \in 1..Len(posts[q]) : Flight(q)[Len(Posted(q)) + i] = posts[q][i]
<1>1. Unhandled(q) \in Seq(WorkCompletion) /\ cq[q] \in Seq(WorkCompletion)
  BY DEF Unhandled, FrameTypes, HwTypes
<1>2. sq[q] \in Seq(Work) /\ posts[q] \in Seq(Work)
  BY DEF FrameTypes, HwTypes
<1>3. /\ Works(Unhandled(q)) \in Seq(Work) /\ Len(Works(Unhandled(q))) = Len(Unhandled(q))
      /\ Works(cq[q]) \in Seq(Work) /\ Len(Works(cq[q])) = Len(cq[q])
  BY <1>1, WorksType
<1>4. /\ Works(Unhandled(q)) \o Works(cq[q]) \in Seq(Work)
      /\ Len(Works(Unhandled(q)) \o Works(cq[q])) = Len(Unhandled(q)) + Len(cq[q])
  <2> DEFINE u == Works(Unhandled(q))
  <2> DEFINE c == Works(cq[q])
  <2>1. u \in Seq(Work) /\ c \in Seq(Work)
    BY <1>3
  <2> HIDE DEF u, c
  <2>2. u \o c \in Seq(Work) /\ Len(u \o c) = Len(u) + Len(c)
    BY <2>1, ConcatProperties
  <2> QED BY <1>3, <2>2 DEF u, c
<1>5. Posted(q) \in Seq(Work) /\ Len(Posted(q)) = Len(Unhandled(q)) + Len(cq[q]) + Len(sq[q])
  <2> DEFINE u == Works(Unhandled(q)) \o Works(cq[q])
  <2> DEFINE c == sq[q]
  <2>1. u \in Seq(Work) /\ c \in Seq(Work) /\ Posted(q) = u \o c
    BY <1>2, <1>4 DEF Posted
  <2> HIDE DEF u, c
  <2>2. u \o c \in Seq(Work) /\ Len(u \o c) = Len(u) + Len(c)
    BY <2>1, ConcatProperties
  <2> QED BY <1>4, <2>1, <2>2 DEF u, c
<1>6. /\ Flight(q) \in Seq(Work) /\ Len(Flight(q)) = Len(Posted(q)) + Len(posts[q])
      /\ \A i \in 1..(Len(Posted(q)) + Len(posts[q])) :
            Flight(q)[i] = IF i <= Len(Posted(q)) THEN Posted(q)[i]
                                                   ELSE posts[q][i - Len(Posted(q))]
  BY <1>2, <1>5, ConcatProperties DEF Flight
<1>7. Len(Posted(q)) \in Nat /\ Len(posts[q]) \in Nat
  BY <1>2, <1>5, LenProperties
<1>8. \A i \in 1..Len(Posted(q)) : Flight(q)[i] = Posted(q)[i]
  BY <1>6, <1>7
<1>9. \A i \in 1..Len(posts[q]) : Flight(q)[Len(Posted(q)) + i] = posts[q][i]
  <2> TAKE i \in 1..Len(posts[q])
  <2> DEFINE k == Len(Posted(q)) + i
  <2>1. k \in 1..(Len(Posted(q)) + Len(posts[q])) /\ ~(k <= Len(Posted(q)))
        /\ k - Len(Posted(q)) = i
    BY <1>7
  <2> HIDE DEF k
  <2>2. Flight(q)[k] = posts[q][k - Len(Posted(q))]
    BY <1>6, <2>1
  <2>3. Flight(q)[k] = posts[q][i]
    BY <2>1, <2>2
  <2> QED BY <2>3 DEF k
<1> QED BY <1>1, <1>2, <1>3, <1>5, <1>6, <1>7, <1>8, <1>9

FlightTyped ==
    \A q \in QPs :
        /\ Posted(q) \in Seq(Work) /\ Flight(q) \in Seq(Work)
        /\ Len(Posted(q)) = Len(Unhandled(q)) + Len(cq[q]) + Len(sq[q])
        /\ Len(Flight(q)) = Len(Posted(q)) + Len(posts[q])
        /\ \A i \in 1..Len(Posted(q)) : Flight(q)[i] = Posted(q)[i]

\* FlightType as a state predicate, which holds in the next state as well.
LEMMA FlightTypeAlways == FrameTypes /\ HwTypes => FlightTyped
BY FlightType DEF FlightTyped

\* FlightType in the next state.
LEMMA FlightTypePrimed ==
    ASSUME FrameTypes', HwTypes', NEW q \in QPs
    PROVE  /\ Posted(q)' \in Seq(Work) /\ Flight(q)' \in Seq(Work)
           /\ Len(Posted(q)') = Len(Unhandled(q)') + Len(cq'[q]) + Len(sq'[q])
           /\ Len(Flight(q)') = Len(Posted(q)') + Len(posts'[q])
           /\ \A i \in 1..Len(Posted(q)') : Flight(q)'[i] = Posted(q)'[i]
<1>1. FrameTypes' /\ HwTypes' => FlightTyped'
  BY FlightTypeAlways, PTL
<1> QED BY <1>1 DEF FlightTyped

\* x mod m for x below 2m.
LEMMA ModBelowTwice ==
    ASSUME NEW m \in Nat \ {0}, NEW x \in 0..(2 * m - 1)
    PROVE  x % m = IF x < m THEN x ELSE x - m
<1> DEFINE k == x \div m
<1>1. x = m * k + (x % m) /\ x % m \in 0..(m - 1) /\ k \in Int
  OBVIOUS
<1> HIDE DEF k
<1>2. k = 0 \/ k = 1
  <2>1. k >= 0
    BY <1>1
  <2>2. k <= 1
    BY <1>1
  <2> QED BY <1>1, <2>1, <2>2
<1>3. CASE k = 0
  BY <1>1, <1>3
<1>4. CASE k = 1
  BY <1>1, <1>4
<1> QED BY <1>2, <1>3, <1>4

\* The candidates of _allocate_wr_id: upwards from the next one to the last,
\* then on from 1.
LEMMA WrIdAfterIs ==
    ASSUME nextWrId \in WrIds, NEW d \in 0..MaxWrId
    PROVE  WrIdAfter(d) = IF nextWrId + d <= MaxWrId THEN nextWrId + d
                                                      ELSE nextWrId + d - MaxWrId
<1> DEFINE x == nextWrId + d - 1
<1>1. MaxWrId \in Nat \ {0} /\ x \in 0..(2 * MaxWrId - 1) /\ nextWrId \in Nat /\ d \in Nat
  BY ConstantsAssumption DEF WrIds
<1>2. WrIdAfter(d) = (x % MaxWrId) + 1
  BY DEF WrIdAfter
<1> HIDE DEF x
<1>3. x % MaxWrId = IF x < MaxWrId THEN x ELSE x - MaxWrId
  BY <1>1, ModBelowTwice
<1>4. WrIdAfter(d) = IF x < MaxWrId THEN x + 1 ELSE x - MaxWrId + 1
  BY <1>1, <1>2, <1>3
<1> QED BY <1>1, <1>4, ConstantsAssumption DEF x

\* A search that ends at WrIdAfter(d) found every id on its way in _pending.
LEMMA SearchPasses ==
    ASSUME nextWrId \in WrIds, NEW d \in 0..(MaxWrId - 1), Allocates(d),
           NEW j \in WrIds, WrIdAfter(d) # nextWrId, OnTheWay(nextWrId, j, WrIdAfter(d))
    PROVE  j \in DOMAIN pending
<1>1. nextWrId \in 1..MaxWrId /\ MaxWrId \in Nat \ {0} /\ d \in Nat /\ j \in 1..MaxWrId
  BY ConstantsAssumption DEF WrIds
<1>2. WrIdAfter(d) = IF nextWrId + d <= MaxWrId THEN nextWrId + d ELSE nextWrId + d - MaxWrId
  BY WrIdAfterIs, <1>1
<1> DEFINE e == IF j >= nextWrId THEN j - nextWrId ELSE j + MaxWrId - nextWrId
<1>3. e \in 0..(d - 1)
  BY <1>1, <1>2 DEF OnTheWay
<1>4. e \in 0..MaxWrId
  BY <1>1, <1>3
<1>5. j = IF nextWrId + e <= MaxWrId THEN nextWrId + e ELSE nextWrId + e - MaxWrId
  BY <1>1
<1> HIDE DEF e
<1>6. WrIdAfter(e) = j
  BY <1>4, <1>5, WrIdAfterIs
<1> QED BY <1>3, <1>6 DEF Allocates

\* With room left on a QP not all wr_ids are in use: each one in use names a
\* slot of a QP, and there are no more slots than wr_ids.
LEMMA SomeIdFree ==
    ASSUME TypeInv, FitsDepth, Booked, active # NoBatch,
           NEW c \in QPs, HasRoom(c)
    PROVE  ~(WrIds \subseteq DOMAIN pending \cup AllPostIds)
<1> SUFFICES ASSUME WrIds \subseteq DOMAIN pending \cup AllPostIds PROVE FALSE
  OBVIOUS
<1>1. FrameTypes /\ HwTypes /\ WrTypes
  BY DEF TypeInv, TypeOK
<1> DEFINE All == QPs \X (1..QueueDepth)
<1> DEFINE Free == <<c, QueueDepth>>
<1> DEFINE Used == {s \in All : s[2] <= Len(Flight(s[1]))}
<1> DEFINE f == [s \in Used |-> Flight(s[1])[s[2]].id]
<1>2. \A q \in QPs : Len(Flight(q)) = outstanding[q] + Len(posts[q])
  BY <1>1, FlightType DEF Booked
<1>3. \A q \in QPs : Len(Flight(q)) \in Nat /\ Len(Flight(q)) <= QueueDepth
  BY <1>1, <1>2, FlightType DEF FitsDepth
<1>4. Len(Flight(c)) < QueueDepth
  BY <1>2 DEF HasRoom
<1>5. Used \subseteq All \ {Free}
  BY <1>3, <1>4, ConstantsAssumption
<1>6. \A id \in WrIds : \E q \in QPs : \E i \in 1..Len(Flight(q)) : Flight(q)[i].id = id
  <2> TAKE id \in WrIds
  <2>1. CASE id \in DOMAIN pending
    <3>1. PICK q \in QPs : \E i \in 1..Len(Posted(q)) : Posted(q)[i].id = id
      BY <2>1 DEF Booked
    <3>2. PICK i \in 1..Len(Posted(q)) : Posted(q)[i].id = id
      BY <3>1
    <3>3. /\ Len(Flight(q)) = Len(Posted(q)) + Len(posts[q]) /\ Flight(q)[i] = Posted(q)[i]
          /\ Len(Posted(q)) \in Nat /\ Len(posts[q]) \in Nat
      BY <1>1, FlightType
    <3>4. i \in 1..Len(Flight(q)) /\ Flight(q)[i].id = id
      BY <3>2, <3>3
    <3> QED BY <3>4
  <2>2. CASE id \in AllPostIds
    <3>1. PICK q \in QPs : id \in PostIds(q)
      BY <2>2 DEF AllPostIds
    <3>2. posts[q] \in Seq(Work)
      BY <1>1 DEF FrameTypes
    <3>3. PICK i \in 1..Len(posts[q]) : posts[q][i].id = id
      BY <3>1, <3>2 DEF PostIds, Range
    <3>4. /\ Len(Flight(q)) = Len(Posted(q)) + Len(posts[q])
          /\ Flight(q)[Len(Posted(q)) + i] = posts[q][i]
          /\ Len(Posted(q)) \in Nat /\ Len(posts[q]) \in Nat
      BY <1>1, FlightType
    <3>5. Len(Posted(q)) + i \in 1..Len(Flight(q)) /\ Flight(q)[Len(Posted(q)) + i].id = id
      BY <3>3, <3>4
    <3> QED BY <3>5
  <2> QED BY <2>1, <2>2
<1>7. f \in Surjection(Used, WrIds)
  <2>1. \A s \in Used : f[s] \in WrIds
    <3> TAKE s \in Used
    <3>1. s[1] \in QPs /\ s[2] \in 1..QueueDepth /\ s[2] <= Len(Flight(s[1]))
      OBVIOUS
    <3>2. Flight(s[1]) \in Seq(Work)
      BY <1>1, <3>1, FlightType
    <3>3. s[2] \in 1..Len(Flight(s[1]))
      BY <1>3, <3>1, ConstantsAssumption
    <3>4. Flight(s[1])[s[2]] \in Work
      BY <3>2, <3>3
    <3> QED BY <3>4 DEF Work
  <2>2. \A id \in WrIds : \E s \in Used : f[s] = id
    <3> TAKE id \in WrIds
    <3>1. PICK q \in QPs : \E i \in 1..Len(Flight(q)) : Flight(q)[i].id = id
      BY <1>6
    <3>2. PICK i \in 1..Len(Flight(q)) : Flight(q)[i].id = id
      BY <3>1
    <3>3. <<q, i>> \in Used
      BY <1>3, ConstantsAssumption
    <3>4. f[<<q, i>>] = id
      BY <3>2, <3>3
    <3> QED BY <3>3, <3>4
  <2> HIDE DEF Used
  <2>3. f \in [Used -> WrIds]
    BY <2>1
  <2> HIDE DEF f
  <2> QED BY <2>2, <2>3 DEF Surjection
<1>8. /\ IsFiniteSet(QPs) /\ Cardinality(QPs) = NQP
      /\ IsFiniteSet(1..QueueDepth) /\ Cardinality(1..QueueDepth) = QueueDepth
      /\ Cardinality(WrIds) = MaxWrId
  <2>1. 1 \in Int /\ NQP \in Int /\ QueueDepth \in Int /\ MaxWrId \in Int
        /\ NQP >= 1 /\ QueueDepth >= 1 /\ MaxWrId >= 0
    BY ConstantsAssumption
  <2>2. \A n \in Nat : IsFiniteSet(1..n) /\ Cardinality(1..n) = n
    <3> TAKE n \in Nat
    <3>1. IsFiniteSet(1..n) /\ Cardinality(1..n) = IF 1 > n THEN 0 ELSE n - 1 + 1
      BY FS_Interval
    <3> QED BY <3>1
  <2> QED BY <2>1, <2>2 DEF QPs, WrIds
<1>9. IsFiniteSet(All) /\ Cardinality(All) = NQP * QueueDepth
  BY <1>8, FS_Product
<1>10. Free \in All
  BY ConstantsAssumption
<1> HIDE DEF All, Free, Used, f
<1>11. IsFiniteSet(All \ {Free}) /\ Cardinality(All \ {Free}) = NQP * QueueDepth - 1
  BY <1>9, <1>10, FS_RemoveElement
<1>12. IsFiniteSet(Used) /\ Cardinality(Used) <= NQP * QueueDepth - 1
  BY <1>5, <1>11, FS_Subset
<1>13. MaxWrId <= Cardinality(Used) /\ Cardinality(Used) \in Nat
  BY <1>7, <1>8, <1>12, FS_Surjection, FS_CardinalityType
<1>14. NQP * QueueDepth \in Nat /\ MaxWrId \in Nat /\ MaxWrId >= NQP * QueueDepth
  BY ConstantsAssumption
<1> QED BY <1>12, <1>13, <1>14

\* A wr_id that _allocate_wr_id returns is not one that the same _refill has
\* handed out and not entered in _pending yet.
LEMMA FreshWrId ==
    ASSUME TypeInv, FitsDepth, Booked, SearchedAll, pc = "alloc",
           NEW c \in QPs, HasRoom(c), NEW d \in 0..(MaxWrId - 1), Allocates(d)
    PROVE  WrIdAfter(d) \notin AllPostIds
<1> SUFFICES ASSUME WrIdAfter(d) \in AllPostIds PROVE FALSE
  OBVIOUS
<1> DEFINE a == WrIdAfter(d)
<1>1. nextWrId \in WrIds /\ d \in Nat /\ active # NoBatch
  BY ConstantsAssumption DEF TypeInv, TypeOK, WrTypes, CallHasBatch
<1>2. a \in WrIds
  BY <1>1, WrIdAfterType
<1>3. ASSUME NEW j \in WrIds PROVE j \in DOMAIN pending \cup AllPostIds
  <2>1. CASE OnTheWay(a, j, nextWrId)
    BY <2>1 DEF SearchedAll
  <2>2. CASE ~OnTheWay(a, j, nextWrId)
    <3>1. a # nextWrId /\ OnTheWay(nextWrId, j, a)
      <4>1. a \in Nat /\ j \in Nat /\ nextWrId \in Nat
        BY <1>1, <1>2, ConstantsAssumption DEF WrIds
      <4> HIDE DEF a
      <4> QED BY <2>2, <4>1 DEF OnTheWay
    <3> QED BY <1>1, <3>1, SearchPasses
  <2> QED BY <2>1, <2>2
<1> QED BY <1>1, <1>3, SomeIdFree

(***************************************************************************)
(* The steps that keep the routing                                         *)
(***************************************************************************)

\* The order of the work in flight is that of the queues.
LEMMA PostedSame ==
    ASSUME UNCHANGED <<sq, cq>>, NEW q \in QPs,
           \/ pc # "handle" /\ pc' # "handle"
           \/ UNCHANGED <<pc, cursor, wcs>>
    PROVE  Posted(q)' = Posted(q)
BY DEF Posted, Unhandled

\* Steps that leave the books and the order of the work in flight alone.
LEMMA RoutingSteady ==
    ASSUME TypeInv, TypeInv', RoutingInv,
           UNCHANGED <<pending, outstanding, active, nextWrId, posts>>,
           \A q \in QPs : Posted(q)' = Posted(q),
           \A q \in QPs : Len(sq'[q]) + Len(cq'[q]) <= Len(sq[q]) + Len(cq[q]),
           Usable' => Usable,
           pc' = "alloc" => pc = "alloc" \/ \A q \in QPs : posts[q] = <<>>,
           ListsInRefill'
    PROVE  RoutingInv'
<1> USE DEF RoutingInv
<1>1. FitsDepth'
  BY DEF FitsDepth
<1>2. /\ \A q \in QPs : Len(sq[q]) \in Nat /\ Len(cq[q]) \in Nat
      /\ \A q \in QPs : Len(sq'[q]) \in Nat /\ Len(cq'[q]) \in Nat
  BY DEF TypeInv, TypeOK, HwTypes
<1>3. QuietBetween'
  <2>1. CASE active = NoBatch /\ Usable'
    <3>1. \A q \in QPs : Len(sq[q]) = 0 /\ Len(cq[q]) = 0
      BY <2>1 DEF QuietBetween
    <3>2. ASSUME NEW q \in QPs PROVE Len(sq'[q]) = 0 /\ Len(cq'[q]) = 0
      <4> DEFINE a == Len(sq'[q])
      <4> DEFINE b == Len(cq'[q])
      <4>1. a \in Nat /\ b \in Nat /\ a + b <= Len(sq[q]) + Len(cq[q])
        BY <1>2
      <4>2. a + b <= 0 + 0
        BY <3>1, <4>1
      <4> HIDE DEF a, b
      <4>3. a = 0 /\ b = 0
        BY <4>1, <4>2
      <4> QED BY <4>3 DEF a, b
    <3> QED BY <2>1, <3>2 DEF QuietBetween
  <2>2. CASE ~(active = NoBatch /\ Usable')
    BY <2>2 DEF QuietBetween
  <2> QED BY <2>1, <2>2
<1>4. Booked'
  BY SMTT(30) DEF Booked
<1>5. \A q \in QPs : PostIds(q)' = PostIds(q)
  BY DEF PostIds
<1>6. AllPostIds' = AllPostIds
  BY <1>5 DEF AllPostIds
<1>7. SearchedAll'
  <2>1. CASE pc = "alloc"
    BY <1>6, <2>1 DEF SearchedAll
  <2>2. CASE pc' = "alloc" /\ pc # "alloc"
    <3>1. AllPostIds = {}
      BY <2>2 DEF AllPostIds, PostIds, Range
    <3> QED BY <1>6, <3>1 DEF SearchedAll
  <2>3. CASE pc' # "alloc"
    BY <2>3 DEF SearchedAll
  <2> QED BY <2>1, <2>2, <2>3
<1>8. \A q \in QPs : Flight(q)' = Flight(q)
  BY DEF Flight
<1>9. WrIdsUnique'
  BY <1>8 DEF WrIdsUnique
<1>10. DepthBound'
  <2> SUFFICES ASSUME NEW q \in QPs PROVE Len(sq'[q]) + Len(cq'[q]) <= QueueDepth
    BY DEF DepthBound
  <2> DEFINE a == Len(sq[q])
  <2> DEFINE b == Len(cq[q])
  <2> DEFINE a1 == Len(sq'[q])
  <2> DEFINE b1 == Len(cq'[q])
  <2>1. a + b <= QueueDepth /\ a1 + b1 <= a + b
    BY DEF DepthBound
  <2>2. a \in Nat /\ b \in Nat /\ a1 \in Nat /\ b1 \in Nat
    BY <1>2
  <2> HIDE DEF a, b, a1, b1
  <2>3. a1 + b1 <= QueueDepth
    BY <2>1, <2>2, ConstantsAssumption
  <2> QED BY <2>3 DEF a1, b1
<1> QED BY <1>1, <1>3, <1>4, <1>7, <1>9, <1>10

\* The adapter's steps.
LEMMA HardwareRouting ==
    ASSUME TypeInv, TypeInv', RoutingInv, Hardware
    PROVE  RoutingInv'
<1> USE DEF batchVars, wrVars, lifeVars, frameVars
<1>1. PICK q \in QPs : HwComplete(q) \/ HwError(q)
  BY DEF Hardware
<1>2. sq \in [QPs -> Seq(Work)] /\ cq \in [QPs -> Seq(WorkCompletion)] /\ sq[q] # <<>>
  BY <1>1 DEF TypeInv, TypeOK, HwTypes, HwComplete, HwError
<1>3. PICK ok \in BOOLEAN : cq' = [cq EXCEPT ![q] = Append(@,
          [id |-> Head(sq[q]).id, chunk |-> Head(sq[q]).chunk, ok |-> ok])]
  BY <1>1 DEF HwComplete, HwError
<1> DEFINE h == [id |-> Head(sq[q]).id, chunk |-> Head(sq[q]).chunk, ok |-> ok]
<1>4. sq' = [sq EXCEPT ![q] = Tail(@)] /\ cq' = [cq EXCEPT ![q] = Append(@, h)]
      /\ UNCHANGED <<batchVars, wrVars, lifeVars, frameVars, callbacks>>
  BY <1>1, <1>3 DEF HwComplete, HwError
<1>5. Head(sq[q]) \in Work /\ h \in WorkCompletion
      /\ [id |-> h.id, chunk |-> h.chunk] = Head(sq[q])
  <2>1. Head(sq[q]) \in Work
    BY <1>2
  <2> QED BY <2>1 DEF Work, WorkCompletion
<1> HIDE DEF h
<1>6. ASSUME NEW p \in QPs PROVE Posted(p)' = Posted(p)
  <2>1. CASE p # q
    BY <1>2, <1>4, <2>1 DEF Posted, Unhandled
  <2>2. CASE p = q
    <3> DEFINE u == Works(Unhandled(q))
    <3> DEFINE c == Works(cq[q])
    <3> DEFINE s == sq[q]
    <3>1. u \in Seq(Work) /\ c \in Seq(Work) /\ s \in Seq(Work) /\ s # <<>>
      BY <1>2, FlightType DEF TypeInv, TypeOK
    <3>2. Unhandled(q)' = Unhandled(q)
      BY <1>4 DEF Unhandled
    <3>3. Works(cq'[q]) = Append(c, Head(s))
      <4>1. cq'[q] = Append(cq[q], h)
        BY <1>2, <1>4
      <4>2. Works(Append(cq[q], h)) = Append(c, [id |-> h.id, chunk |-> h.chunk])
        BY <1>2, <1>5, WorksAppend
      <4> QED BY <1>5, <4>1, <4>2
    <3>4. sq'[q] = Tail(s)
      BY <1>2, <1>4
    <3>5. Posted(q)' = Joined(u, Append(c, Head(s)), Tail(s))
      BY <3>2, <3>3, <3>4 DEF Posted, Joined
    <3>6. Posted(q) = Joined(u, c, s)
      BY DEF Posted, Joined
    <3> HIDE DEF u, c, s
    <3>7. Joined(u, Append(c, Head(s)), Tail(s)) = Joined(u, c, s)
      BY <3>1, MoveHead
    <3> QED BY <2>2, <3>5, <3>6, <3>7
  <2> QED BY <2>1, <2>2
<1>7. ASSUME NEW p \in QPs PROVE Len(sq'[p]) + Len(cq'[p]) <= Len(sq[p]) + Len(cq[p])
  <2>1. CASE p # q
    BY <1>2, <1>4, <2>1
  <2>2. CASE p = q
    <3>1. sq'[q] = Tail(sq[q]) /\ cq'[q] = Append(cq[q], h)
      BY <1>2, <1>4
    <3>2. Len(sq'[q]) = Len(sq[q]) - 1
      BY <1>2, <3>1
    <3>3. Len(cq'[q]) = Len(cq[q]) + 1
      BY <1>2, <1>5, <3>1
    <3>4. Len(sq[q]) \in Nat /\ Len(cq[q]) \in Nat
      BY <1>2
    <3> DEFINE a == Len(sq[q])
    <3> DEFINE b == Len(cq[q])
    <3> DEFINE a1 == Len(sq'[q])
    <3> DEFINE b1 == Len(cq'[q])
    <3>5. a \in Nat /\ b \in Nat /\ a1 = a - 1 /\ b1 = b + 1
      BY <3>2, <3>3, <3>4
    <3> HIDE DEF a, b, a1, b1
    <3>6. a1 + b1 <= a + b
      BY <3>5
    <3> QED BY <2>2, <3>6 DEF a, b, a1, b1
  <2> QED BY <2>1, <2>2
<1>8. /\ UNCHANGED <<pending, outstanding, active, nextWrId, posts, pc>>
      /\ Usable' => Usable
  BY <1>4 DEF Usable
<1>9. ListsInRefill'
  BY <1>4 DEF RoutingInv, ListsInRefill
<1> QED BY <1>6, <1>7, <1>8, <1>9, RoutingSteady

\* The step that polls a CQ.
LEMMA PollCQRouting ==
    ASSUME TypeInv, TypeInv', RoutingInv, PollCQ
    PROVE  RoutingInv'
<1> USE DEF PollCQ, batchVars, wrVars, lifeVars
<1>1. cursor \in QPs
  BY ConstantsAssumption DEF TypeInv, TypeOK, FrameTypes, QPs
<1>2. cq \in [QPs -> Seq(WorkCompletion)] /\ outstanding[cursor] \in Nat
  BY <1>1 DEF TypeInv, TypeOK, HwTypes, WrTypes
<1> DEFINE n == PollCount(cursor)
<1> DEFINE c == cq[cursor]
<1>3. n \in 0..Len(c) /\ c \in Seq(WorkCompletion)
  BY <1>1, <1>2, PollCountBounds
<1>4. /\ Unhandled(cursor) = <<>> /\ Unhandled(cursor)' = SubSeq(c, 1, n)
      /\ cq'[cursor] = SubSeq(c, n + 1, Len(c))
      /\ UNCHANGED sq
  BY <1>1, <1>2 DEF Unhandled
<1> HIDE DEF n
<1>5. ASSUME NEW p \in QPs PROVE Posted(p)' = Posted(p)
  <2>1. CASE p # cursor
    <3>1. Unhandled(p) = <<>> /\ Unhandled(p)' = <<>> /\ cq'[p] = cq[p]
      BY <1>2, <2>1 DEF Unhandled
    <3> QED BY <1>4, <3>1 DEF Posted
  <2>2. CASE p = cursor
    <3>1. Works(<<>>) = <<>>
      BY DEF Works
    <3>2. Works(SubSeq(c, 1, n)) \o Works(SubSeq(c, n + 1, Len(c))) = Works(c)
      BY <1>3, WorksSplit
    <3>3. Works(c) \in Seq(Work)
      BY <1>3, WorksType
    <3>4. <<>> \o Works(c) = Works(c)
      BY <3>3, ConcatEmptySeq
    <3>5. Posted(cursor)' = Works(c) \o sq[cursor]
      BY <1>4, <3>2 DEF Posted
    <3>6. Posted(cursor) = Works(c) \o sq[cursor]
      BY <1>4, <3>1, <3>4 DEF Posted
    <3> QED BY <2>2, <3>5, <3>6
  <2> QED BY <2>1, <2>2
<1>6. ASSUME NEW p \in QPs PROVE Len(sq'[p]) + Len(cq'[p]) <= Len(sq[p]) + Len(cq[p])
  <2> DEFINE a == Len(sq[p])
  <2> DEFINE b == Len(cq[p])
  <2> DEFINE b1 == Len(cq'[p])
  <2>1. a \in Nat /\ b \in Nat
    BY DEF TypeInv, TypeOK, HwTypes
  <2>2. b1 \in Nat /\ b1 <= b
    <3>1. CASE p # cursor
      BY <1>2, <2>1, <3>1
    <3>2. CASE p = cursor
      <4> DEFINE k == Len(c)
      <4>1. k \in Nat /\ n \in 0..k
        BY <1>3
      <4>2. Len(SubSeq(c, n + 1, k)) = IF n + 1 <= k THEN k - (n + 1) + 1 ELSE 0
        <5>1. \A i \in (n + 1)..k : c[i] \in WorkCompletion
          BY <1>3
        <5> QED BY <4>1, <5>1, SubSeqProperties
      <4>3. b1 = Len(SubSeq(c, n + 1, k)) /\ b = k
        BY <1>4, <3>2
      <4> HIDE DEF k, b1, b
      <4> QED BY <4>1, <4>2, <4>3
    <3> QED BY <3>1, <3>2
  <2> HIDE DEF a, b, b1
  <2>3. a + b1 <= a + b
    BY <2>1, <2>2
  <2> QED BY <1>4, <2>3 DEF a, b, b1
<1>7. UNCHANGED <<pending, outstanding, active, nextWrId, posts>> /\ (Usable' => Usable)
  BY DEF Usable
<1>8. ListsInRefill'
  BY DEF RoutingInv, ListsInRefill
<1>9. pc' # "alloc"
  OBVIOUS
<1> QED BY <1>5, <1>6, <1>7, <1>8, <1>9, RoutingSteady

\* The other steps of the loops that do not change the books.
LEMMA LoopRouting ==
    ASSUME TypeInv, TypeInv', RoutingInv,
           AllocSkip \/ AllocStop \/ AllocRound \/ RefillReturn \/ NextCQ \/ PollEnd \/ NotYet
    PROVE  RoutingInv'
<1> USE DEF batchVars, wrVars, lifeVars, hwVars
<1>1. UNCHANGED <<pending, outstanding, active, nextWrId, sq, cq, closed, poisoned>>
  BY DEF AllocSkip, AllocStop, AllocRound, RefillReturn, NextCQ, PollEnd, NotYet
<1>2. ListsInRefill
  BY DEF RoutingInv
<1>3. posts \in [QPs -> Seq(Work)] /\ cursor \in 1..(NQP + 1)
  BY DEF TypeInv, TypeOK, FrameTypes
<1>4. /\ posts' = posts /\ ListsInRefill'
      /\ pc' = "alloc" => pc = "alloc" \/ \A q \in QPs : posts[q] = <<>>
  <2>1. CASE AllocSkip
    BY <1>2, <2>1 DEF AllocSkip, ListsInRefill
  <2>2. CASE AllocStop
    BY <1>2, <2>2 DEF AllocStop, ListsInRefill, QPs
  <2>3. CASE AllocRound
    <3>1. posts' = posts /\ pc = "alloc" /\ cursor' = 1 /\ pc' \in {"alloc", "post"}
      BY <2>3 DEF AllocRound
    <3> QED BY <3>1 DEF ListsInRefill, QPs
  <2>4. CASE RefillReturn
    <3>1. \A q \in QPs : posts[q] = <<>>
      BY <1>2, <1>3, <2>4, ConstantsAssumption DEF RefillReturn, ListsInRefill, QPs
    <3>2. posts' = posts
      <4>1. posts' = posts \/ posts' = [q \in QPs |-> <<>>]
        BY <2>4 DEF RefillReturn, EmptyFrame
      <4> QED BY <1>3, <3>1, <4>1
    <3>3. pc' \in {"idle", "check"}
      BY <2>4 DEF RefillReturn, EmptyFrame
    <3> QED BY <3>1, <3>2, <3>3 DEF ListsInRefill
  <2>5. CASE NextCQ
    BY <1>2, <2>5 DEF NextCQ, ListsInRefill
  <2>6. CASE PollEnd
    <3>1. \A q \in QPs : posts[q] = <<>>
      BY <1>2, <2>6 DEF PollEnd, ListsInRefill
    <3>2. posts' = posts
      <4>1. posts' = posts \/ posts' = [q \in QPs |-> <<>>]
        BY <2>6 DEF PollEnd, EnterRefill
      <4> QED BY <1>3, <3>1, <4>1
    <3> QED BY <3>1, <3>2 DEF ListsInRefill
  <2>7. CASE NotYet
    BY <1>2, <2>7 DEF NotYet, ListsInRefill
  <2> QED BY <2>1, <2>2, <2>3, <2>4, <2>5, <2>6, <2>7
<1>5. ASSUME NEW q \in QPs PROVE Posted(q)' = Posted(q)
  <2>1. CASE NextCQ
    <3>1. Unhandled(q) = <<>> /\ Unhandled(q)' = <<>>
      BY <2>1 DEF NextCQ, Unhandled
    <3> QED BY <1>1, <3>1 DEF Posted
  <2>2. CASE ~NextCQ
    <3>1. pc # "handle" /\ pc' # "handle"
      BY <2>2 DEF AllocSkip, AllocStop, AllocRound, RefillReturn, PollEnd, NotYet,
          EmptyFrame, EnterRefill
    <3> QED BY <1>1, <3>1, PostedSame
  <2> QED BY <2>1, <2>2
<1>6. ASSUME NEW q \in QPs PROVE Len(sq'[q]) + Len(cq'[q]) <= Len(sq[q]) + Len(cq[q])
  <2> DEFINE n == Len(sq[q])
  <2> DEFINE m == Len(cq[q])
  <2>1. n \in Nat /\ m \in Nat
    BY DEF TypeInv, TypeOK, HwTypes
  <2> HIDE DEF n, m
  <2>2. n + m <= n + m
    BY <2>1
  <2> QED BY <1>1, <2>2 DEF n, m
<1>7. Usable' => Usable
  BY <1>1 DEF Usable
<1> QED BY <1>1, <1>4, <1>5, <1>6, <1>7, RoutingSteady

\* The calls that do not change the books.
LEMMA CallRouting ==
    ASSUME TypeInv, TypeInv', RoutingInv,
           \/ Progress \/ KeepWaiting \/ Connect \/ ConnectFail
           \/ \E b \in 1..MaxBatches : ForeignWait(b)
           \/ \E ok \in BOOLEAN : CallbackReturns(ok)
    PROVE  RoutingInv'
<1> USE DEF batchVars, wrVars, lifeVars, hwVars, frameVars
<1>1. UNCHANGED <<pending, outstanding, active, nextWrId, sq, cq>> /\ (Usable' => Usable)
  BY DEF Progress, KeepWaiting, Connect, ConnectFail, ForeignWait, CallbackReturns, Usable
<1>2. pc \in {"idle", "returned"} /\ pc' \in {"idle", "poll"}
  BY DEF Progress, KeepWaiting, Connect, ConnectFail, ForeignWait, CallbackReturns, EmptyFrame
<1>3. \A q \in QPs : posts[q] = <<>>
  BY <1>2 DEF RoutingInv, ListsInRefill
<1>4. posts' = posts
  <2>1. posts' = posts \/ posts' = [q \in QPs |-> <<>>]
    BY DEF Progress, KeepWaiting, Connect, ConnectFail, ForeignWait, CallbackReturns, EmptyFrame
  <2>2. posts \in [QPs -> Seq(Work)]
    BY DEF TypeInv, TypeOK, FrameTypes
  <2> QED BY <1>3, <2>1, <2>2
<1>5. ListsInRefill'
  BY <1>2, <1>3, <1>4 DEF ListsInRefill
<1>6. \A q \in QPs : Posted(q)' = Posted(q)
  BY <1>1, <1>2, PostedSame
<1>7. ASSUME NEW q \in QPs PROVE Len(sq'[q]) + Len(cq'[q]) <= Len(sq[q]) + Len(cq[q])
  <2> DEFINE n == Len(sq[q])
  <2> DEFINE m == Len(cq[q])
  <2>1. n \in Nat /\ m \in Nat
    BY DEF TypeInv, TypeOK, HwTypes
  <2> HIDE DEF n, m
  <2>2. n + m <= n + m
    BY <2>1
  <2> QED BY <1>1, <2>2 DEF n, m
<1> QED BY <1>1, <1>3, <1>4, <1>5, <1>6, <1>7, RoutingSteady

\* Once the work in flight is forgotten, so is what the books say of it, and
\* no batch follows.
LEMMA LostRouting ==
    ASSUME active' = NoBatch, ForgetWork, ~Usable', pc' = "idle",
           \A q \in QPs : posts'[q] = <<>>, DepthBound'
    PROVE  RoutingInv'
<1>1. FitsDepth'
  <2> SUFFICES ASSUME NEW q \in QPs PROVE outstanding'[q] + Len(posts'[q]) <= QueueDepth
    BY DEF FitsDepth
  <2>1. outstanding'[q] = 0 /\ Len(posts'[q]) = 0
    BY DEF ForgetWork
  <2> QED BY <2>1, ConstantsAssumption
<1>2. ListsInRefill' /\ SearchedAll'
  BY DEF ListsInRefill, SearchedAll
<1>3. QuietBetween'
  BY DEF QuietBetween, ForgetWork
<1>4. Booked' /\ WrIdsUnique'
  BY DEF Booked, WrIdsUnique
<1> QED BY <1>1, <1>2, <1>3, <1>4 DEF RoutingInv

\* Losing the transport, with what the adapter accepted before.
LEMMA LoseTransportRouting ==
    ASSUME NEW queues, LoseTransport(queues),
           \A q \in QPs : Len(queues[q]) + Len(cq[q]) <= QueueDepth
    PROVE  RoutingInv'
<1>1. active' = NoBatch /\ ForgetWork /\ ~Usable' /\ pc' = "idle"
  BY DEF LoseTransport, Usable, EmptyFrame
<1>2. \A q \in QPs : posts'[q] = <<>>
  BY DEF LoseTransport, EmptyFrame
<1>3. DepthBound'
  BY DEF LoseTransport, DepthBound
<1> QED BY <1>1, <1>2, <1>3, LostRouting

\* The failures: what the adapter holds then is what it held before, and the
\* part of one list that it accepted before post_send raised.
LEMMA FailureRouting ==
    ASSUME TypeInv, TypeInv', RoutingInv,
           Failure \/ HandleBadWc \/ \E b \in 1..MaxBatches : WaitLeftBehind(b)
    PROVE  RoutingInv'
<1>1. CASE PostFail
  <2>1. PICK n \in 0..(Len(posts[cursor]) - 1) :
            LoseTransport([sq EXCEPT ![cursor] = @ \o SubSeq(posts[cursor], 1, n)])
    BY <1>1 DEF PostFail, FailTransport
  <2> DEFINE queues == [sq EXCEPT ![cursor] = @ \o SubSeq(posts[cursor], 1, n)]
  <2>2. cursor \in QPs /\ active # NoBatch
    BY <1>1, ConstantsAssumption DEF PostFail, TypeInv, TypeOK, FrameTypes, QPs, CallHasBatch
  <2>3. ASSUME NEW q \in QPs PROVE Len(queues[q]) + Len(cq[q]) <= QueueDepth
    <3>1. CASE q # cursor
      <4>1. queues[q] = sq[q]
        BY <3>1 DEF TypeInv, TypeOK, HwTypes
      <4> QED BY <4>1 DEF RoutingInv, DepthBound
    <3>2. CASE q = cursor
      <4> DEFINE u == Len(Unhandled(q))
      <4> DEFINE c == Len(cq[q])
      <4> DEFINE s == Len(sq[q])
      <4> DEFINE p == Len(posts[q])
      <4> DEFINE o == outstanding[q]
      <4>1. posts[q] \in Seq(Work) /\ sq[q] \in Seq(Work) /\ cq[q] \in Seq(WorkCompletion)
            /\ Unhandled(q) \in Seq(WorkCompletion) /\ sq \in [QPs -> Seq(Work)]
        BY FlightType DEF TypeInv, TypeOK, HwTypes
      <4>2. u \in Nat /\ c \in Nat /\ s \in Nat /\ p \in Nat /\ n \in 0..(p - 1)
        BY <3>2, <4>1
      <4>3. o = Len(Posted(q)) /\ o + p <= QueueDepth
        BY <2>2 DEF RoutingInv, Booked, FitsDepth
      <4>4. Len(Posted(q)) = u + c + s
        BY FlightType DEF TypeInv, TypeOK
      <4>5. SubSeq(posts[q], 1, n) \in Seq(Work) /\ Len(SubSeq(posts[q], 1, n)) = n
        <5>1. \A i \in 1..n : posts[q][i] \in Work
          BY <4>1, <4>2
        <5> QED BY <4>2, <5>1, SubSeqProperties
      <4>6. queues[q] = sq[q] \o SubSeq(posts[q], 1, n)
        BY <3>2, <4>1
      <4>7. Len(queues[q]) = s + n
        <5> DEFINE t == SubSeq(posts[q], 1, n)
        <5> DEFINE w == sq[q]
        <5>1. t \in Seq(Work) /\ w \in Seq(Work) /\ Len(t) = n /\ queues[q] = w \o t
          BY <4>1, <4>5, <4>6
        <5> HIDE DEF t, w, queues
        <5>2. Len(w \o t) = Len(w) + Len(t)
          BY <5>1, ConcatProperties
        <5> QED BY <5>1, <5>2 DEF w
      <4> HIDE DEF u, c, s, p, o, queues
      <4>8. (s + n) + c <= QueueDepth
        BY <4>2, <4>3, <4>4, ConstantsAssumption
      <4> QED BY <4>7, <4>8 DEF c
    <3> QED BY <3>1, <3>2
  <2> HIDE DEF queues
  <2> QED BY <2>1, <2>3, LoseTransportRouting DEF queues
<1>2. CASE ~PostFail
  <2>1. LoseTransport(sq)
    BY <1>2 DEF Failure, AllocFail, PollFail, TimedOut, Cancelled, WaitForeign, HandleBadWc,
        WaitLeftBehind, FailTransport
  <2>2. \A q \in QPs : Len(sq[q]) + Len(cq[q]) <= QueueDepth
    BY DEF RoutingInv, DepthBound
  <2> QED BY <2>1, <2>2, LoseTransportRouting
<1> QED BY <1>1, <1>2

\* close()
LEMMA CloseRouting ==
    ASSUME RoutingInv, Close
    PROVE  RoutingInv'
<1>1. active' = NoBatch /\ ForgetWork /\ ~Usable' /\ pc' = "idle"
  BY DEF Close, Usable, frameVars
<1>2. \A q \in QPs : posts'[q] = <<>>
  BY DEF Close, frameVars, RoutingInv, ListsInRefill
<1>3. DepthBound'
  BY DEF Close, RoutingInv, DepthBound
<1> QED BY <1>1, <1>2, <1>3, LostRouting

\* A batch succeeds with nothing in flight.
LEMMA SucceedRouting ==
    ASSUME TypeInv, TypeInv', RoutingInv, Succeed
    PROVE  RoutingInv'
<1>1. active # NoBatch /\ active' = NoBatch /\ DOMAIN pending = {} /\ pc' = "idle"
      /\ UNCHANGED <<pending, outstanding, sq, cq>>
  BY DEF Succeed, FinishSuccess, EmptyFrame, TypeInv, CallHasBatch, wrVars, hwVars
<1>2. ASSUME NEW q \in QPs
      PROVE  outstanding[q] = 0 /\ Len(sq[q]) = 0 /\ Len(cq[q]) = 0
  <2> DEFINE n == Len(Posted(q))
  <2> DEFINE u == Len(Unhandled(q))
  <2> DEFINE c == Len(cq[q])
  <2> DEFINE s == Len(sq[q])
  <2>1. outstanding[q] = n /\ \A i \in 1..n : FALSE
    BY <1>1 DEF RoutingInv, Booked
  <2>2. n \in Nat /\ n = u + c + s
    BY FlightType DEF TypeInv, TypeOK
  <2>3. u \in Nat /\ c \in Nat /\ s \in Nat
    <3>1. sq[q] \in Seq(Work) /\ cq[q] \in Seq(WorkCompletion) /\ Unhandled(q) \in Seq(WorkCompletion)
      BY FlightType DEF TypeInv, TypeOK, HwTypes
    <3> QED BY <3>1
  <2> HIDE DEF n, u, c, s
  <2>4. n = 0
    BY <2>1, <2>2
  <2>5. c = 0 /\ s = 0
    BY <2>2, <2>3, <2>4
  <2> QED BY <2>1, <2>4, <2>5 DEF c, s
<1>3. \A q \in QPs : posts'[q] = <<>>
  BY DEF Succeed, FinishSuccess, EmptyFrame
<1>4. FitsDepth'
  <2> SUFFICES ASSUME NEW q \in QPs PROVE outstanding'[q] + Len(posts'[q]) <= QueueDepth
    BY DEF FitsDepth
  <2>1. outstanding'[q] = 0 /\ Len(posts'[q]) = 0
    BY <1>1, <1>2, <1>3
  <2> QED BY <2>1, ConstantsAssumption
<1>5. ListsInRefill' /\ SearchedAll'
  BY <1>1, <1>3 DEF ListsInRefill, SearchedAll
<1>6. QuietBetween'
  BY <1>1, <1>2 DEF QuietBetween
<1>7. Booked' /\ WrIdsUnique'
  BY <1>1 DEF Booked, WrIdsUnique
<1>8. DepthBound'
  BY <1>1 DEF RoutingInv, DepthBound
<1> QED BY <1>4, <1>5, <1>6, <1>7, <1>8 DEF RoutingInv

\* submit starts with nothing in flight.
LEMMA SubmitRouting ==
    ASSUME TypeInv, TypeInv', RoutingInv,
           NEW reqs \in RequestLists, NEW cb \in BOOLEAN, Submit(reqs, cb)
    PROVE  RoutingInv'
<1>1. UNCHANGED <<pending, outstanding, sq, cq>> /\ DOMAIN pending = {}
      /\ \A q \in QPs : outstanding[q] = 0 /\ Len(sq[q]) = 0 /\ Len(cq[q]) = 0
  BY DEF Submit, wrVars, hwVars, RoutingInv, QuietBetween
<1>2. pc' \in {"idle", "alloc"} /\ \A q \in QPs : posts'[q] = <<>>
  BY DEF Submit, FinishSuccess, EnterRefill, EmptyFrame
<1>3. FitsDepth'
  <2> SUFFICES ASSUME NEW q \in QPs PROVE outstanding'[q] + Len(posts'[q]) <= QueueDepth
    BY DEF FitsDepth
  <2>1. outstanding'[q] = 0 /\ Len(posts'[q]) = 0
    BY <1>1, <1>2
  <2> QED BY <2>1, ConstantsAssumption
<1>4. ListsInRefill'
  BY <1>2 DEF ListsInRefill
<1>5. SearchedAll'
  <2>1. AllPostIds' = {}
    BY <1>2 DEF AllPostIds, PostIds, Range
  <2> QED BY <2>1 DEF SearchedAll
<1>6. QuietBetween'
  BY <1>1 DEF QuietBetween
<1>7. ASSUME NEW q \in QPs PROVE Len(Posted(q)') = 0 /\ Len(Flight(q)') = 0
  <2>1. /\ Len(Posted(q)') = Len(Unhandled(q)') + Len(cq'[q]) + Len(sq'[q])
        /\ Len(Flight(q)') = Len(Posted(q)') + Len(posts'[q])
    <3>1. FrameTypes' /\ HwTypes'
      BY DEF TypeInv, TypeOK
    <3> QED BY <3>1, FlightTypePrimed
  <2>2. Len(Unhandled(q)') = 0 /\ Len(cq'[q]) = 0 /\ Len(sq'[q]) = 0 /\ Len(posts'[q]) = 0
    BY <1>1, <1>2 DEF Unhandled
  <2>3. Len(Posted(q)') = 0 + 0 + 0
    BY <2>1, <2>2
  <2>4. Len(Flight(q)') = 0 + 0 + 0 + 0
    BY <2>1, <2>2, <2>3
  <2> QED BY <2>3, <2>4
<1>8. Booked'
  <2>1. \A q \in QPs : outstanding'[q] = Len(Posted(q)')
    BY <1>1, <1>7
  <2>2. \A q \in QPs : \A i \in 1..Len(Posted(q)') : FALSE
    BY <1>7
  <2>3. DOMAIN pending' = {}
    BY <1>1
  <2> QED BY <2>1, <2>2, <2>3 DEF Booked
<1>9. WrIdsUnique'
  <2>1. ASSUME NEW q \in QPs PROVE DOMAIN (Flight(q)') = {}
    <3>1. Flight(q)' \in Seq(Work)
      BY FlightTypePrimed DEF TypeInv, TypeOK
    <3>2. DOMAIN (Flight(q)') = 1..Len(Flight(q)')
      BY <3>1, LenProperties
    <3> QED BY <1>7, <3>2
  <2> QED BY <2>1 DEF WrIdsUnique
<1>10. DepthBound'
  BY <1>1 DEF RoutingInv, DepthBound
<1> QED BY <1>3, <1>4, <1>5, <1>6, <1>8, <1>9, <1>10 DEF RoutingInv

(***************************************************************************)
(* The steps that change the books                                         *)
(***************************************************************************)

Followed(u, p) == u \o p

\* A work request added to the list is added behind the work in flight.
LEMMA FollowedAppend ==
    ASSUME NEW T, NEW u \in Seq(T), NEW p \in Seq(T), NEW w \in T
    PROVE  Followed(u, Append(p, w)) = Append(Followed(u, p), w)
<1>1. Append(p, w) = p \o <<w>> /\ <<w>> \in Seq(T)
  BY AppendIsConcat
<1> DEFINE x == <<w>>
<1> HIDE DEF x
<1>2. u \o p \in Seq(T)
  BY ConcatProperties
<1>3. Append(u \o p, w) = (u \o p) \o <<w>>
  BY <1>2, AppendIsConcat
<1>4. x \in Seq(T)
  BY <1>1 DEF x
<1>5. (u \o p) \o x = u \o (p \o x)
  BY <1>4, ConcatAssociative, SMTT(30)
<1> QED BY <1>1, <1>3, <1>5 DEF x, Followed

\* The list that is posted joins the work in the adapter.
LEMMA JoinedFollowed ==
    ASSUME NEW T, NEW u \in Seq(T), NEW c \in Seq(T), NEW s \in Seq(T), NEW p \in Seq(T)
    PROVE  Joined(u, c, s \o p) = Followed(Joined(u, c, s), p)
<1>1. u \o c \in Seq(T)
  BY ConcatProperties
<1>2. ((u \o c) \o s) \o p = (u \o c) \o (s \o p)
  BY <1>1, ConcatAssociative, SMTT(30)
<1> QED BY <1>2 DEF Joined, Followed

UniqueIds(F) ==
    \A p, q \in QPs : \A i \in 1..Len(F[p]), j \in 1..Len(F[q]) :
        F[p][i].id = F[q][j].id => p = q /\ i = j

\* A fresh id keeps the ids unique.
LEMMA UniqueAppend ==
    ASSUME NEW F \in [QPs -> Seq(Work)], UniqueIds(F), NEW c \in QPs, NEW w \in Work,
           \A q \in QPs : \A i \in 1..Len(F[q]) : F[q][i].id # w.id
    PROVE  UniqueIds([F EXCEPT ![c] = Append(@, w)])
<1> DEFINE G == [F EXCEPT ![c] = Append(@, w)]
<1>1. G[c] = Append(F[c], w) /\ \A q \in QPs : q # c => G[q] = F[q]
  OBVIOUS
<1>2. F[c] \in Seq(Work) /\ Len(F[c]) \in Nat
  OBVIOUS
<1>3. /\ Len(G[c]) = Len(F[c]) + 1 /\ G[c][Len(F[c]) + 1] = w
      /\ \A i \in 1..Len(F[c]) : G[c][i] = F[c][i]
  BY <1>1, <1>2, AppendProperties
<1> HIDE DEF G
<1>4. ASSUME NEW p \in QPs, NEW i \in 1..Len(G[p])
      PROVE  \/ p = c /\ i = Len(F[c]) + 1 /\ G[p][i] = w
             \/ i \in 1..Len(F[p]) /\ G[p][i] = F[p][i]
  <2>1. CASE p # c
    BY <1>1, <2>1
  <2>2. CASE p = c
    BY <1>2, <1>3, <2>2
  <2> QED BY <2>1, <2>2
<1>5. ASSUME NEW p \in QPs, NEW q \in QPs, NEW i \in 1..Len(G[p]), NEW j \in 1..Len(G[q]),
             G[p][i].id = G[q][j].id
      PROVE  p = q /\ i = j
  <2>1. CASE i \in 1..Len(F[p]) /\ G[p][i] = F[p][i] /\ j \in 1..Len(F[q]) /\ G[q][j] = F[q][j]
    BY <1>5, <2>1 DEF UniqueIds
  <2>2. CASE p = c /\ i = Len(F[c]) + 1 /\ G[p][i] = w /\ q = c /\ j = Len(F[c]) + 1
    BY <2>2
  <2>3. CASE G[p][i] = w /\ j \in 1..Len(F[q]) /\ G[q][j] = F[q][j]
    BY <1>5, <2>3
  <2>4. CASE G[q][j] = w /\ i \in 1..Len(F[p]) /\ G[p][i] = F[p][i]
    BY <1>5, <2>4
  <2> QED BY <1>4, <2>1, <2>2, <2>3, <2>4
<1> QED BY <1>5 DEF UniqueIds, G

\* G is F with the oldest of c taken off; what that leaves: ids still unique,
\* none that of the one taken, and otherwise what F had.
TailedAt(F, c, G) == G = [F EXCEPT ![c] = Tail(@)]

HeadRemoved(F, c, G) ==
    /\ UniqueIds(G)
    /\ \A q \in QPs : \A i \in 1..Len(G[q]) :
        /\ G[q][i].id # F[c][1].id
        /\ \E k \in 1..Len(F[q]) : G[q][i] = F[q][k]
    /\ \A q \in QPs : \A i \in 1..Len(F[q]) :
        \/ F[q][i].id = F[c][1].id
        \/ \E k \in 1..Len(G[q]) : F[q][i] = G[q][k]

\* Taking the oldest off keeps them unique, and leaves no other with its id.
LEMMA UniqueTail ==
    ASSUME NEW F \in [QPs -> Seq(Work)], UniqueIds(F), NEW c \in QPs, F[c] # <<>>,
           NEW G, TailedAt(F, c, G)
    PROVE  HeadRemoved(F, c, G)
<1>1. G[c] = Tail(F[c]) /\ \A q \in QPs : q # c => G[q] = F[q]
  BY DEF TailedAt
<1>2. F[c] \in Seq(Work) /\ Len(F[c]) \in Nat \ {0}
  BY EmptySeq
<1> DEFINE n == Len(F[c])
<1>3. Len(G[c]) = n - 1 /\ \A i \in 1..(n - 1) : G[c][i] = F[c][i + 1]
  BY <1>1, <1>2, HeadTailProperties
<1>4. n \in Nat \ {0}
  BY <1>2
<1> HIDE DEF n
<1> DEFINE Old(q, i) == IF q = c THEN i + 1 ELSE i
<1>5. ASSUME NEW q \in QPs, NEW i \in 1..Len(G[q])
      PROVE  /\ Old(q, i) \in 1..Len(F[q]) /\ G[q][i] = F[q][Old(q, i)]
             /\ q = c => Old(q, i) # 1
  <2>1. CASE q # c
    BY <1>1, <2>1
  <2>2. CASE q = c
    <3>1. i \in 1..(n - 1) /\ Len(F[q]) = n
      BY <1>3, <2>2 DEF n
    <3>2. i + 1 \in 1..n /\ i + 1 # 1
      BY <1>4, <3>1
    <3> QED BY <1>3, <2>2, <3>1, <3>2
  <2> QED BY <2>1, <2>2
<1>6. ASSUME NEW p \in QPs, NEW q \in QPs, NEW i \in 1..Len(G[p]), NEW j \in 1..Len(G[q]),
             G[p][i].id = G[q][j].id
      PROVE  p = q /\ i = j
  <2>1. p = q /\ Old(p, i) = Old(q, j)
    <3> DEFINE a == Old(p, i)
    <3> DEFINE b == Old(q, j)
    <3>1. a \in 1..Len(F[p]) /\ b \in 1..Len(F[q]) /\ F[p][a].id = F[q][b].id
      BY <1>5, <1>6
    <3> HIDE DEF a, b
    <3>2. p = q /\ a = b
      BY <3>1 DEF UniqueIds
    <3> QED BY <3>2 DEF a, b
  <2>2. Len(G[p]) \in Nat
    BY <1>1, <1>3, <1>4
  <2>3. i \in Nat /\ j \in Nat
    BY <2>1, <2>2
  <2> QED BY <2>1, <2>3
<1>7. 1 \in 1..Len(F[c])
  BY <1>2
<1>8. ASSUME NEW q \in QPs, NEW i \in 1..Len(G[q])
      PROVE  G[q][i].id # F[c][1].id /\ \E k \in 1..Len(F[q]) : G[q][i] = F[q][k]
  <2>1. /\ Old(q, i) \in 1..Len(F[q]) /\ G[q][i] = F[q][Old(q, i)]
        /\ ~(q = c /\ Old(q, i) = 1)
    BY <1>5
  <2> QED BY <1>7, <2>1 DEF UniqueIds
<1>9. ASSUME NEW q \in QPs, NEW i \in 1..Len(F[q]), F[q][i].id # F[c][1].id
      PROVE  \E k \in 1..Len(G[q]) : F[q][i] = G[q][k]
  <2>1. CASE q # c
    BY <1>1, <2>1
  <2>2. CASE q = c
    <3>1. i \in 1..n /\ i # 1
      BY <1>9, <2>2 DEF n
    <3>2. i - 1 \in 1..(n - 1) /\ (i - 1) + 1 = i
      BY <1>4, <3>1
    <3>3. G[c][i - 1] = F[c][i]
      BY <1>3, <3>2
    <3> QED BY <1>3, <2>2, <3>2, <3>3
  <2> QED BY <2>1, <2>2
<1>10. UniqueIds(G)
  BY <1>6 DEF UniqueIds
<1> QED BY <1>8, <1>9, <1>10 DEF HeadRemoved

FlightUnique == UniqueIds([q \in QPs |-> Flight(q)])

\* WrIdsUnique, about the function that gives the work in flight of each QP.
LEMMA UniqueInFlight ==
    FrameTypes /\ HwTypes => (WrIdsUnique <=> (active # NoBatch => FlightUnique))
<1> SUFFICES ASSUME FrameTypes, HwTypes
             PROVE  WrIdsUnique <=> (active # NoBatch => FlightUnique)
  OBVIOUS
<1>1. \A q \in QPs : DOMAIN Flight(q) = 1..Len(Flight(q))
  BY FlightType, LenProperties
<1> QED BY <1>1, SMTT(30) DEF WrIdsUnique, FlightUnique, UniqueIds

\* The same in the next state.
LEMMA UniqueInFlightPrimed ==
    FrameTypes' /\ HwTypes' => (WrIdsUnique' <=> ((active # NoBatch)' => FlightUnique'))
BY UniqueInFlight, PTL

\* The elements of a sequence with one more at its end.
LEMMA RangeAppend ==
    ASSUME NEW T, NEW p \in Seq(T), NEW w \in T
    PROVE  Range(Append(p, w)) = Range(p) \cup {w}
<1> DEFINE n == Len(p)
<1> DEFINE r == Append(p, w)
<1>1. /\ n \in Nat /\ DOMAIN p = 1..n /\ DOMAIN r = 1..(n + 1)
      /\ r[n + 1] = w /\ \A i \in 1..n : r[i] = p[i]
  BY AppendProperties, LenProperties
<1> HIDE DEF n, r
<1>2. \A x : x \in Range(r) <=> x \in Range(p) \/ x = w
  <2>1. \A x : x \in Range(r) <=> \E i \in 1..(n + 1) : r[i] = x
    BY <1>1 DEF Range
  <2>2. \A x : x \in Range(p) <=> \E i \in 1..n : p[i] = x
    BY <1>1 DEF Range
  <2>3. \A i \in 1..(n + 1) : i = n + 1 \/ i \in 1..n
    BY <1>1
  <2>4. n + 1 \in 1..(n + 1) /\ \A i \in 1..n : i \in 1..(n + 1)
    BY <1>1
  <2> QED BY <1>1, <2>1, <2>2, <2>3, <2>4
<1> QED BY <1>2 DEF r

\* Every wr_id in flight is in _pending, or in a list to be posted.
LEMMA FlightIdsKnown ==
    ASSUME TypeInv, Booked, active # NoBatch, NEW q \in QPs, NEW i \in 1..Len(Flight(q))
    PROVE  Flight(q)[i].id \in DOMAIN pending \cup AllPostIds
<1> DEFINE n == Len(Posted(q))
<1> DEFINE m == Len(posts[q])
<1>1. FrameTypes /\ HwTypes
  BY DEF TypeInv, TypeOK
<1>2. n \in Nat /\ m \in Nat /\ i \in 1..(n + m)
  BY <1>1, FlightType
<1>3. CASE i \in 1..n
  <2>1. Flight(q)[i] = Posted(q)[i]
    BY <1>1, <1>3, FlightType
  <2> QED BY <1>3, <2>1 DEF Booked
<1>4. CASE i \notin 1..n
  <2>1. i - n \in 1..m /\ n + (i - n) = i
    BY <1>2, <1>4
  <2>2. Flight(q)[n + (i - n)] = posts[q][i - n]
    BY <1>1, <2>1, FlightType
  <2>3. posts[q] \in Seq(Work) /\ DOMAIN posts[q] = 1..m
    BY <1>1 DEF FrameTypes
  <2>4. posts[q][i - n] \in Range(posts[q])
    BY <2>1, <2>3 DEF Range
  <2>5. Flight(q)[i] = posts[q][i - n]
    BY <2>1, <2>2
  <2> QED BY <2>4, <2>5 DEF AllPostIds, PostIds
<1> QED BY <1>3, <1>4

\* A chunk is given a wr_id.
LEMMA AllocChunkRouting ==
    ASSUME TypeInv, TypeInv', RoutingInv, AllocChunk
    PROVE  RoutingInv'
<1> USE DEF AllocChunk, lifeVars, hwVars
<1>1. PICK d \in 0..(MaxWrId - 1) :
        /\ Allocates(d)
        /\ posts' = [posts EXCEPT ![cursor] =
                        Append(@, [id |-> WrIdAfter(d), chunk |-> NextChunk])]
        /\ nextWrId' = WrIdAfter(d + 1)
  OBVIOUS
<1> DEFINE a == WrIdAfter(d)
<1> DEFINE w == [id |-> a, chunk |-> NextChunk]
<1>c. cursor \in QPs /\ active # NoBatch /\ HasRoom(cursor) /\ pc = "alloc"
  BY ConstantsAssumption DEF TypeInv, TypeOK, FrameTypes, QPs, CallHasBatch
<1> PICK c \in QPs : c = cursor
  BY <1>c
<1>2. active # NoBatch /\ HasRoom(c) /\ pc = "alloc"
  BY <1>c
<1>3. FrameTypes /\ HwTypes /\ WrTypes /\ FrameTypes' /\ HwTypes'
  BY DEF TypeInv, TypeOK
<1>4. nextWrId \in WrIds /\ a \in WrIds /\ d \in Nat
  <2>1. nextWrId \in WrIds /\ d \in Nat
    BY <1>3, ConstantsAssumption DEF WrTypes
  <2> QED BY <2>1, WrIdAfterType
<1>5. w \in Work
  BY <1>4, NextChunkType DEF Work, TypeInv, TypeOK
<1>6. a \notin DOMAIN pending /\ a \notin AllPostIds
  <2>1. a \notin AllPostIds
    BY <1>1, <1>2, FreshWrId DEF RoutingInv
  <2> QED BY <1>1, <2>1 DEF Allocates
<1>7. posts \in [QPs -> Seq(Work)] /\ posts' = [posts EXCEPT ![c] = Append(@, w)]
  BY <1>1, <1>3 DEF FrameTypes
<1>8. UNCHANGED <<pending, outstanding, active, sq, cq, pc>>
  OBVIOUS
<1>9. \A q \in QPs : Posted(q)' = Posted(q)
  BY <1>2, <1>8, PostedSame
<1> HIDE DEF w
<1>10. FitsDepth'
  <2> SUFFICES ASSUME NEW q \in QPs PROVE outstanding'[q] + Len(posts'[q]) <= QueueDepth
    BY DEF FitsDepth
  <2>1. CASE q # c
    BY <1>7, <1>8, <2>1 DEF RoutingInv, FitsDepth
  <2>2. CASE q = c
    <3> DEFINE p == Len(posts[q])
    <3> DEFINE p1 == Len(posts'[q])
    <3> DEFINE o == outstanding[q]
    <3>1. p \in Nat /\ p1 = p + 1 /\ o \in Nat
      BY <1>3, <1>5, <1>7, <2>2 DEF WrTypes
    <3>2. o + p < QueueDepth
      BY <1>2, <2>2 DEF HasRoom
    <3> HIDE DEF p, p1, o
    <3>3. o + p1 <= QueueDepth
      BY <3>1, <3>2, ConstantsAssumption
    <3> QED BY <1>8, <3>3 DEF p1, o
  <2> QED BY <2>1, <2>2
<1>11. ListsInRefill' /\ QuietBetween' /\ DepthBound'
  BY <1>2, <1>8 DEF RoutingInv, ListsInRefill, QuietBetween, DepthBound
<1>12. Booked'
  BY <1>8, <1>9, SMTT(30) DEF RoutingInv, Booked
<1>13. AllPostIds' = AllPostIds \cup {a}
  <2>1. \A q \in QPs : q # c => PostIds(q)' = PostIds(q)
    BY <1>7 DEF PostIds
  <2>2. PostIds(c)' = PostIds(c) \cup {a}
    <3>1. posts'[c] = Append(posts[c], w) /\ posts[c] \in Seq(Work)
      BY <1>2, <1>7
    <3>2. Range(Append(posts[c], w)) = Range(posts[c]) \cup {w}
      BY <1>5, <3>1, RangeAppend
    <3>3. w.id = a
      BY DEF w
    <3>4. PostIds(c)' = {v.id : v \in Range(posts[c]) \cup {w}}
      BY <3>1, <3>2 DEF PostIds
    <3>5. PostIds(c) = {v.id : v \in Range(posts[c])}
      BY DEF PostIds
    <3> QED BY <3>3, <3>4, <3>5
  <2>3. \A x : x \in AllPostIds' <=> \E q \in QPs : x \in PostIds(q)'
    BY DEF AllPostIds
  <2>4. \A x : x \in AllPostIds <=> \E q \in QPs : x \in PostIds(q)
    BY DEF AllPostIds
  <2>5. \A x : x \in AllPostIds' <=> x \in AllPostIds \/ x = a
    BY <2>1, <2>2, <2>3, <2>4
  <2> QED BY <2>5
<1>14. SearchedAll'
  <2>1. nextWrId' = IF a = MaxWrId THEN 1 ELSE a + 1
    <3>1. a = IF nextWrId + d <= MaxWrId THEN nextWrId + d ELSE nextWrId + d - MaxWrId
      BY <1>4, WrIdAfterIs, ConstantsAssumption
    <3>2. WrIdAfter(d + 1) = IF nextWrId + (d + 1) <= MaxWrId THEN nextWrId + (d + 1)
                                                    ELSE nextWrId + (d + 1) - MaxWrId
      BY <1>4, WrIdAfterIs, ConstantsAssumption
    <3> HIDE DEF a
    <3> QED BY <1>1, <1>4, <3>1, <3>2, ConstantsAssumption DEF WrIds
  <2> HIDE DEF a
  <2> SUFFICES ASSUME NEW b \in AllPostIds', NEW j \in WrIds, OnTheWay(b, j, nextWrId')
               PROVE  j \in DOMAIN pending' \cup AllPostIds'
    BY DEF SearchedAll
  <2>2. /\ nextWrId \in Nat /\ a \in Nat /\ j \in Nat
        /\ 1 <= j /\ j <= MaxWrId /\ 1 <= a /\ a <= MaxWrId
    BY <1>4, ConstantsAssumption DEF WrIds
  <2>3. CASE b = a
    <3>1. j = a
      BY <2>1, <2>2, <2>3, ConstantsAssumption DEF OnTheWay
    <3> QED BY <1>13, <3>1
  <2>4. CASE b # a
    <3>1. b \in AllPostIds
      BY <1>13, <2>4
    <3>2. b \in Nat /\ 1 <= b
      <4>1. PICK q \in QPs : b \in PostIds(q)
        BY <3>1 DEF AllPostIds
      <4>2. posts[q] \in Seq(Work)
        BY <1>3 DEF FrameTypes
      <4>3. PICK i \in 1..Len(posts[q]) : posts[q][i].id = b
        BY <4>1, <4>2 DEF PostIds, Range
      <4>4. posts[q][i] \in Work
        BY <4>2
      <4>5. b \in WrIds
        BY <4>3, <4>4 DEF Work
      <4> QED BY <4>5, ConstantsAssumption DEF WrIds
    <3>3. j = a \/ OnTheWay(b, j, nextWrId) \/ (a # nextWrId /\ OnTheWay(nextWrId, j, a))
      BY <2>1, <2>2, <2>4, <3>2, ConstantsAssumption DEF OnTheWay
    <3>4. CASE j = a
      BY <1>13, <3>4
    <3>5. CASE OnTheWay(b, j, nextWrId)
      BY <1>2, <1>8, <1>13, <3>1, <3>5 DEF RoutingInv, SearchedAll
    <3>6. CASE a # nextWrId /\ OnTheWay(nextWrId, j, a)
      BY <1>1, <1>4, <1>8, <3>6, SearchPasses DEF a
    <3> QED BY <3>3, <3>4, <3>5, <3>6
  <2> QED BY <2>3, <2>4
<1>15. WrIdsUnique'
  <2> DEFINE F == [q \in QPs |-> Flight(q)]
  <2>1. F \in [QPs -> Seq(Work)]
    BY <1>3, FlightType
  <2>2. UniqueIds(F)
    BY <1>2, <1>3, UniqueInFlight DEF RoutingInv, FlightUnique
  <2>3. \A q \in QPs : \A i \in 1..Len(F[q]) : F[q][i].id # w.id
    <3>1. w.id = a
      BY DEF w
    <3> QED BY <1>2, <1>6, <3>1, FlightIdsKnown DEF RoutingInv
  <2>4. [q \in QPs |-> Flight(q)'] = [F EXCEPT ![c] = Append(@, w)]
    <3>1. ASSUME NEW q \in QPs, q # c PROVE Flight(q)' = Flight(q)
      BY <1>7, <1>9, <3>1 DEF Flight
    <3>2. Flight(c)' = Append(Flight(c), w)
      <4>1. Posted(c) \in Seq(Work) /\ posts[c] \in Seq(Work)
        BY <1>2, <1>3, FlightType
      <4>2. Flight(c)' = Followed(Posted(c), Append(posts[c], w))
        BY <1>2, <1>7, <1>9 DEF Flight, Followed
      <4>3. Flight(c) = Followed(Posted(c), posts[c])
        BY DEF Flight, Followed
      <4> QED BY <1>5, <4>1, <4>2, <4>3, FollowedAppend, SMTT(30)
    <3> QED BY <1>2, <3>1, <3>2
  <2> HIDE DEF F
  <2>5. UniqueIds([F EXCEPT ![c] = Append(@, w)])
    BY <1>2, <1>5, <2>1, <2>2, <2>3, UniqueAppend
  <2>6. FlightUnique' <=> UniqueIds([q \in QPs |-> Flight(q)'])
    BY DEF FlightUnique, UniqueIds
  <2> QED BY <1>3, <2>4, <2>5, <2>6, UniqueInFlightPrimed
<1> QED BY <1>10, <1>11, <1>12, <1>14, <1>15 DEF RoutingInv

\* While a batch is active the books bound what the adapter holds.
LEMMA DepthOfBooks ==
    FrameTypes /\ HwTypes /\ WrTypes /\ Booked /\ FitsDepth /\ active # NoBatch => DepthBound
<1> SUFFICES ASSUME FrameTypes, HwTypes, WrTypes, Booked, FitsDepth, active # NoBatch,
                    NEW q \in QPs
             PROVE  Len(sq[q]) + Len(cq[q]) <= QueueDepth
  BY DEF DepthBound
<1> DEFINE u == Len(Unhandled(q))
<1> DEFINE c == Len(cq[q])
<1> DEFINE s == Len(sq[q])
<1> DEFINE p == Len(posts[q])
<1> DEFINE o == outstanding[q]
<1>1. sq[q] \in Seq(Work) /\ cq[q] \in Seq(WorkCompletion) /\ Unhandled(q) \in Seq(WorkCompletion)
  BY FlightType DEF HwTypes
<1>2. u \in Nat /\ c \in Nat /\ s \in Nat
  BY <1>1
<1>3. p \in Nat /\ o = u + c + s /\ o + p <= QueueDepth
  BY FlightType DEF Booked, FitsDepth
<1> HIDE DEF u, c, s, p, o
<1>4. s + c <= QueueDepth
  BY <1>2, <1>3, ConstantsAssumption
<1> QED BY <1>4 DEF s, c

\* The same in the next state.
LEMMA DepthFromBooks ==
    FrameTypes' /\ HwTypes' /\ WrTypes' /\ Booked' /\ FitsDepth' /\ (active # NoBatch)'
        => DepthBound'
BY DepthOfBooks, PTL

\* A list is posted.
LEMMA PostQPRouting ==
    ASSUME TypeInv, TypeInv', RoutingInv, PostQP
    PROVE  RoutingInv'
<1> USE DEF PostQP, batchVars, lifeVars
<1>1. cursor \in QPs /\ active # NoBatch /\ pc = "post" /\ pc' = "post"
  BY ConstantsAssumption DEF TypeInv, TypeOK, FrameTypes, QPs, CallHasBatch
<1> PICK c \in QPs : c = cursor
  BY <1>1
<1>2. FrameTypes /\ HwTypes /\ WrTypes /\ FrameTypes' /\ HwTypes' /\ WrTypes'
  BY DEF TypeInv, TypeOK
<1>3. /\ pending' = PendingWith(c)
      /\ sq \in [QPs -> Seq(Work)] /\ sq' = [sq EXCEPT ![c] = @ \o posts[c]]
      /\ outstanding \in [QPs -> Nat]
      /\ outstanding' = [outstanding EXCEPT ![c] = @ + Len(posts[c])]
      /\ posts \in [QPs -> Seq(Work)] /\ posts' = [posts EXCEPT ![c] = <<>>]
      /\ cursor' = c + 1 /\ UNCHANGED <<active, cq>>
  BY <1>2 DEF HwTypes, WrTypes, FrameTypes
<1>4. \A q \in QPs : q # c => Posted(q)' = Posted(q) /\ Flight(q)' = Flight(q)
  BY <1>1, <1>3 DEF Posted, Flight, Unhandled
<1>5. Posted(c)' = Flight(c)
  <2> DEFINE u == Works(Unhandled(c))
  <2> DEFINE v == Works(cq[c])
  <2> DEFINE s == sq[c]
  <2> DEFINE p == posts[c]
  <2>1. u \in Seq(Work) /\ v \in Seq(Work) /\ s \in Seq(Work) /\ p \in Seq(Work)
    BY <1>2, FlightType
  <2>2. Flight(c) = Followed(Joined(u, v, s), p)
    BY DEF Flight, Posted, Followed, Joined
  <2>3. Posted(c)' = Joined(u, v, s \o p)
    <3>1. Unhandled(c)' = Unhandled(c)
      BY <1>1 DEF Unhandled
    <3>2. sq'[c] = s \o p
      BY <1>3
    <3> QED BY <1>3, <3>1, <3>2 DEF Posted, Joined
  <2> HIDE DEF u, v, s, p
  <2>4. Joined(u, v, s \o p) = Followed(Joined(u, v, s), p)
    BY <2>1, JoinedFollowed
  <2> QED BY <2>2, <2>3, <2>4
<1>6. Flight(c)' = Flight(c)
  <2>1. Flight(c) \in Seq(Work)
    BY <1>2, FlightType
  <2>2. Flight(c)' = Flight(c) \o <<>>
    BY <1>3, <1>5 DEF Flight
  <2> QED BY <2>1, <2>2, ConcatEmptySeq
<1> DEFINE n == Len(Posted(c))
<1> DEFINE m == Len(posts[c])
<1>7. /\ n \in Nat /\ m \in Nat /\ Len(Flight(c)) = n + m /\ outstanding[c] = n
      /\ \A i \in 1..n : Flight(c)[i] = Posted(c)[i]
      /\ \A k \in 1..m : Flight(c)[n + k] = posts[c][k]
  BY <1>1, <1>2, FlightType DEF RoutingInv, Booked
<1>8. UniqueIds([q \in QPs |-> Flight(q)])
  BY <1>1, <1>2, UniqueInFlight DEF RoutingInv, FlightUnique
<1>9. \A x : x \in PostIds(c) <=> \E k \in 1..m : posts[c][k].id = x
  <2>1. posts[c] \in Seq(Work) /\ DOMAIN posts[c] = 1..m
    BY <1>3
  <2> QED BY <2>1 DEF PostIds, Range
<1> HIDE DEF n, m
<1>10. /\ DOMAIN pending' = DOMAIN pending \cup PostIds(c)
       /\ \A x \in DOMAIN pending : x \notin PostIds(c) => pending'[x] = pending[x]
  BY <1>3 DEF PendingWith
<1>11. ASSUME NEW k \in 1..m
       PROVE  pending'[posts[c][k].id] = [qp |-> c, chunk |-> posts[c][k].chunk]
  <2> DEFINE id == posts[c][k].id
  <2> DEFINE v == CHOOSE w \in Range(posts[c]) : w.id = id
  <2>1. id \in PostIds(c)
    BY <1>9
  <2>2. pending'[id] = [qp |-> c, chunk |-> v.chunk]
    BY <1>3, <2>1 DEF PendingWith
  <2>3. v \in Range(posts[c]) /\ v.id = id
    BY <2>1 DEF PostIds
  <2> HIDE DEF v
  <2>4. PICK l \in 1..m : v = posts[c][l]
    BY <1>3, <2>3 DEF Range, m
  <2>5. /\ n + k \in 1..Len(Flight(c)) /\ n + l \in 1..Len(Flight(c))
        /\ Flight(c)[n + k] = posts[c][k] /\ Flight(c)[n + l] = posts[c][l]
    BY <1>7, SMTT(30)
  <2>6. n + k = n + l
    BY <1>8, <2>3, <2>4, <2>5 DEF UniqueIds
  <2>7. k = l
    BY <1>7, <2>6
  <2> QED BY <2>2, <2>4, <2>7
<1>12. ASSUME NEW q \in QPs, NEW i \in 1..Len(Posted(q))
       PROVE  /\ Posted(q)[i].id \in DOMAIN pending'
              /\ pending'[Posted(q)[i].id] = [qp |-> q, chunk |-> Posted(q)[i].chunk]
  <2>1. /\ Posted(q)[i].id \in DOMAIN pending
        /\ pending[Posted(q)[i].id] = [qp |-> q, chunk |-> Posted(q)[i].chunk]
    BY <1>1 DEF RoutingInv, Booked
  <2>2. Posted(q)[i].id \notin PostIds(c)
    <3> SUFFICES ASSUME Posted(q)[i].id \in PostIds(c) PROVE FALSE
      OBVIOUS
    <3>1. PICK k \in 1..m : posts[c][k].id = Posted(q)[i].id
      BY <1>9
    <3>2. n + k \in 1..Len(Flight(c)) /\ Flight(c)[n + k] = posts[c][k] /\ n + k > n
      BY <1>7
    <3>3. i \in 1..Len(Flight(q)) /\ Flight(q)[i] = Posted(q)[i]
      <4> DEFINE x == Len(Posted(q))
      <4> DEFINE y == Len(posts[q])
      <4>1. x \in Nat /\ y \in Nat /\ Len(Flight(q)) = x + y /\ i \in 1..x
            /\ Flight(q)[i] = Posted(q)[i]
        BY <1>2, FlightType
      <4> HIDE DEF x, y
      <4> QED BY <4>1
    <3>4. q = c /\ i = n + k
      BY <1>8, <3>1, <3>2, <3>3 DEF UniqueIds
    <3>5. i \in 1..n
      BY <3>4 DEF n
    <3> QED BY <1>7, <3>2, <3>4, <3>5
  <2> QED BY <1>10, <2>1, <2>2
<1>13. Booked'
  <2>1. ASSUME NEW q \in QPs PROVE outstanding'[q] = Len(Posted(q)')
    <3>1. CASE q # c
      BY <1>1, <1>3, <1>4, <3>1 DEF RoutingInv, Booked
    <3>2. CASE q = c
      BY <1>3, <1>5, <1>7, <3>2 DEF m
    <3> QED BY <3>1, <3>2
  <2>2. ASSUME NEW q \in QPs, NEW i \in 1..Len(Posted(q)')
        PROVE  /\ Posted(q)'[i].id \in DOMAIN pending'
               /\ pending'[Posted(q)'[i].id] = [qp |-> q, chunk |-> Posted(q)'[i].chunk]
    <3>1. CASE q # c \/ i \in 1..n
      <4>1. i \in 1..Len(Posted(q)) /\ Posted(q)'[i] = Posted(q)[i]
        <5>1. CASE q # c
          BY <1>4, <5>1
        <5>2. CASE q = c /\ i \in 1..n
          BY <1>5, <1>7, <5>2 DEF n
        <5> QED BY <3>1, <5>1, <5>2
      <4> QED BY <1>12, <4>1
    <3>2. CASE q = c /\ i \notin 1..n
      <4>1. i \in 1..(n + m)
        BY <1>5, <1>7, <3>2
      <4>2. i - n \in 1..m /\ n + (i - n) = i
        BY <1>7, <3>2, <4>1
      <4>3. Posted(q)'[i] = posts[c][i - n]
        <5>1. Flight(c)[n + (i - n)] = posts[c][i - n]
          BY <1>7, <4>2
        <5> QED BY <1>5, <3>2, <4>2, <5>1
      <4>4. posts[c][i - n].id \in PostIds(c)
        BY <1>9, <4>2
      <4> QED BY <1>10, <1>11, <3>2, <4>2, <4>3, <4>4
    <3> QED BY <3>1, <3>2
  <2>3. ASSUME NEW id \in DOMAIN pending'
        PROVE  \E q \in QPs : \E i \in 1..Len(Posted(q)') : Posted(q)'[i].id = id
    <3>1. CASE id \in DOMAIN pending
      <4>1. PICK q \in QPs : \E i \in 1..Len(Posted(q)) : Posted(q)[i].id = id
        BY <1>1, <3>1 DEF RoutingInv, Booked
      <4>2. PICK i \in 1..Len(Posted(q)) : Posted(q)[i].id = id
        BY <4>1
      <4>3. i \in 1..Len(Posted(q)') /\ Posted(q)'[i] = Posted(q)[i]
        <5>1. CASE q # c
          BY <1>4, <5>1
        <5>2. CASE q = c
          <6>1. i \in 1..n /\ Flight(c)[i] = Posted(c)[i]
            BY <1>7, <5>2 DEF n
          <6>2. i \in 1..(n + m)
            BY <1>7, <6>1
          <6> QED BY <1>5, <1>7, <5>2, <6>1, <6>2
        <5> QED BY <5>1, <5>2
      <4> QED BY <4>2, <4>3
    <3>2. CASE id \in PostIds(c)
      <4>1. PICK k \in 1..m : posts[c][k].id = id
        BY <1>9, <3>2
      <4>2. n + k \in 1..Len(Flight(c)) /\ Flight(c)[n + k] = posts[c][k]
        BY <1>7
      <4> QED BY <1>5, <4>1, <4>2
    <3> QED BY <1>10, <3>1, <3>2
  <2> QED BY <2>1, <2>2, <2>3 DEF Booked
<1>14. FitsDepth'
  <2> SUFFICES ASSUME NEW q \in QPs PROVE outstanding'[q] + Len(posts'[q]) <= QueueDepth
    BY DEF FitsDepth
  <2>1. CASE q # c
    BY <1>3, <2>1 DEF RoutingInv, FitsDepth
  <2>2. CASE q = c
    <3>1. outstanding[c] + m <= QueueDepth
      BY DEF RoutingInv, FitsDepth, m
    <3>2. outstanding'[c] = n + m /\ Len(posts'[c]) = 0
      BY <1>3, <1>7 DEF m
    <3>3. outstanding'[c] + Len(posts'[c]) = (n + m) + 0
      BY <3>2
    <3>4. (n + m) + 0 <= QueueDepth
      BY <1>7, <3>1
    <3> QED BY <2>2, <3>3, <3>4
  <2> QED BY <2>1, <2>2
<1>15. ListsInRefill'
  <2>1. ASSUME NEW q \in QPs, q < c + 1 PROVE posts'[q] = <<>>
    <3>1. CASE q = c
      BY <1>3, <3>1
    <3>2. CASE q # c
      <4>1. q < c
        BY <2>1, <3>2, ConstantsAssumption DEF QPs
      <4> QED BY <1>1, <1>3, <3>2, <4>1 DEF RoutingInv, ListsInRefill
    <3> QED BY <3>1, <3>2
  <2> QED BY <1>1, <1>3, <2>1 DEF ListsInRefill
<1>16. QuietBetween' /\ SearchedAll'
  BY <1>1, <1>3 DEF QuietBetween, SearchedAll
<1>17. WrIdsUnique'
  <2>1. [q \in QPs |-> Flight(q)'] = [q \in QPs |-> Flight(q)]
    BY <1>4, <1>6
  <2>2. FlightUnique' <=> UniqueIds([q \in QPs |-> Flight(q)'])
    BY DEF FlightUnique, UniqueIds
  <2> QED BY <1>2, <1>8, <2>1, <2>2, UniqueInFlightPrimed
<1>18. DepthBound'
  BY <1>1, <1>2, <1>3, <1>13, <1>14, DepthFromBooks
<1> QED BY <1>13, <1>14, <1>15, <1>16, <1>17, <1>18 DEF RoutingInv

\* Length and elements of a list followed by another.
LEMMA FollowedElements ==
    ASSUME NEW T, NEW v \in Seq(T), NEW s \in Seq(T)
    PROVE  /\ Len(Followed(v, s)) = Len(v) + Len(s)
           /\ \A i \in 1..(Len(v) + Len(s)) :
                Followed(v, s)[i] = IF i <= Len(v) THEN v[i] ELSE s[i - Len(v)]
BY ConcatProperties DEF Followed

\* What is in one of the queues is in their concatenation.
LEMMA JoinedHas ==
    ASSUME NEW T, NEW u \in Seq(T), NEW c \in Seq(T), NEW s \in Seq(T)
    PROVE  LET J == Joined(u, c, s) IN
           /\ \A k \in 1..Len(u) : \E l \in 1..Len(J) : J[l] = u[k]
           /\ \A k \in 1..Len(c) : \E l \in 1..Len(J) : J[l] = c[k]
           /\ \A k \in 1..Len(s) : \E l \in 1..Len(J) : J[l] = s[k]
<1> DEFINE J == Joined(u, c, s)
<1> DEFINE a == Len(u)
<1> DEFINE b == Len(c)
<1> DEFINE d == Len(s)
<1> DEFINE v == u \o c
<1>1. a \in Nat /\ b \in Nat /\ d \in Nat
  OBVIOUS
<1>2. v \in Seq(T) /\ Len(v) = a + b
      /\ \A i \in 1..(a + b) : v[i] = IF i <= a THEN u[i] ELSE c[i - a]
  BY ConcatProperties
<1>3. J = Followed(v, s)
  BY DEF Joined, Followed
<1> HIDE DEF v, J
<1>4. Len(J) = (a + b) + d
      /\ \A i \in 1..((a + b) + d) : J[i] = IF i <= a + b THEN v[i] ELSE s[i - (a + b)]
  <2>1. /\ Len(Followed(v, s)) = Len(v) + Len(s)
        /\ \A i \in 1..(Len(v) + Len(s)) :
            Followed(v, s)[i] = IF i <= Len(v) THEN v[i] ELSE s[i - Len(v)]
    BY <1>2, FollowedElements
  <2> QED BY <1>2, <1>3, <2>1, Zenon
<1> HIDE DEF a, b, d
<1>5. ASSUME NEW k \in 1..a PROVE k \in 1..Len(J) /\ J[k] = u[k]
  BY <1>1, <1>2, <1>4
<1>6. ASSUME NEW k \in 1..b PROVE a + k \in 1..Len(J) /\ J[a + k] = c[k]
  <2>1. a + k \in 1..(a + b) /\ ~(a + k <= a) /\ (a + k) - a = k /\ a + k \in 1..((a + b) + d)
        /\ a + k <= a + b
    BY <1>1
  <2>2. v[a + k] = c[(a + k) - a]
    BY <1>2, <2>1
  <2>3. J[a + k] = v[a + k]
    BY <1>4, <2>1
  <2> QED BY <1>4, <2>1, <2>2, <2>3
<1>7. ASSUME NEW k \in 1..d PROVE (a + b) + k \in 1..Len(J) /\ J[(a + b) + k] = s[k]
  <2>1. (a + b) + k \in 1..((a + b) + d) /\ ~((a + b) + k <= a + b) /\ ((a + b) + k) - (a + b) = k
    BY <1>1
  <2>2. J[(a + b) + k] = s[((a + b) + k) - (a + b)]
    BY <1>4, <2>1
  <2> QED BY <1>4, <2>1, <2>2
<1> QED BY <1>5, <1>6, <1>7 DEF a, b, d, J

\* A completion is handled.
LEMMA HandleWcRouting ==
    ASSUME TypeInv, TypeInv', RoutingInv, HandleWc
    PROVE  RoutingInv'
<1> USE DEF HandleWc, lifeVars, hwVars
<1>1. cursor \in QPs /\ active # NoBatch /\ pc = "handle" /\ pc' = "handle" /\ cursor' = cursor
  BY ConstantsAssumption DEF TypeInv, TypeOK, FrameTypes, QPs, CallHasBatch, HandledAreOwed
<1> PICK c \in QPs : c = cursor
  BY <1>1
<1>2. FrameTypes /\ HwTypes /\ WrTypes /\ FrameTypes' /\ HwTypes' /\ WrTypes'
  BY DEF TypeInv, TypeOK
<1> DEFINE id == Head(wcs).id
<1>3. /\ pending' = [i \in DOMAIN pending \ {id} |-> pending[i]]
      /\ outstanding \in [QPs -> Nat]
      /\ outstanding' = [outstanding EXCEPT ![c] = @ - 1]
      /\ wcs \in Seq(WorkCompletion) /\ wcs # <<>> /\ wcs' = Tail(wcs)
      /\ UNCHANGED <<active, sq, cq, posts>>
  BY <1>2 DEF WrTypes, FrameTypes
<1>4. \A q \in QPs : posts[q] = <<>>
  BY <1>1 DEF RoutingInv, ListsInRefill
<1>5. \A q \in QPs : Flight(q) = Posted(q)
  <2> TAKE q \in QPs
  <2>1. Posted(q) \in Seq(Work)
    BY <1>2, FlightType
  <2>2. Flight(q) = Posted(q) \o <<>>
    BY <1>4 DEF Flight
  <2> QED BY <2>1, <2>2, ConcatEmptySeq
<1>6. \A q \in QPs : Flight(q)' = Posted(q)'
  <2> TAKE q \in QPs
  <2>1. Posted(q)' \in Seq(Work)
    BY <1>2, FlightTypePrimed
  <2>2. Flight(q)' = Posted(q)' \o <<>>
    BY <1>3, <1>4 DEF Flight
  <2> QED BY <2>1, <2>2, ConcatEmptySeq
<1>7. \A q \in QPs : q # c => Posted(q)' = Posted(q)
  BY <1>1, <1>3 DEF Posted, Unhandled
<1>8. /\ Posted(c)' = Tail(Posted(c)) /\ Posted(c) # <<>> /\ Posted(c)[1].id = id
      /\ Posted(c) \in Seq(Work)
  <2> DEFINE x == Works(cq[c])
  <2> DEFINE y == sq[c]
  <2>1. x \in Seq(Work) /\ y \in Seq(Work) /\ Posted(c) \in Seq(Work)
    BY <1>2, FlightType
  <2>2. Unhandled(c) = wcs /\ Unhandled(c)' = Tail(wcs)
    BY <1>1, <1>3 DEF Unhandled
  <2>3. Posted(c) = Joined(Works(wcs), x, y) /\ Posted(c)' = Joined(Works(Tail(wcs)), x, y)
    BY <1>3, <2>2 DEF Posted, Joined
  <2> HIDE DEF x, y
  <2>4. /\ Joined(Works(Tail(wcs)), x, y) = Tail(Joined(Works(wcs), x, y))
        /\ Joined(Works(wcs), x, y) # <<>>
        /\ Head(Joined(Works(wcs), x, y)) = [id |-> Head(wcs).id, chunk |-> Head(wcs).chunk]
    BY <1>3, <2>1, WorksTail
  <2>5. Head(Posted(c)).id = id /\ Posted(c) # <<>>
    BY <2>3, <2>4
  <2>6. Head(Posted(c)) = Posted(c)[1]
    BY <2>1, <2>5
  <2> QED BY <2>1, <2>3, <2>4, <2>5, <2>6
<1> HIDE DEF id
<1> DEFINE F == [q \in QPs |-> Posted(q)]
<1> DEFINE G == [q \in QPs |-> Posted(q)']
<1>9. F \in [QPs -> Seq(Work)] /\ UniqueIds(F) /\ F[c] # <<>> /\ F[c][1].id = id
  <2>1. F \in [QPs -> Seq(Work)]
    BY <1>2, FlightType
  <2>2. [q \in QPs |-> Flight(q)] = F
    BY <1>5
  <2>3. UniqueIds([q \in QPs |-> Flight(q)])
    BY <1>1, <1>2, UniqueInFlight DEF RoutingInv, FlightUnique
  <2>4. UniqueIds(F)
    BY <2>2, <2>3
  <2>5. F[c] = Posted(c)
    OBVIOUS
  <2> QED BY <1>8, <2>1, <2>4, <2>5
<1>10. G = [F EXCEPT ![c] = Tail(@)]
  BY <1>7, <1>8
<1>11. \A q \in QPs : F[q] = Posted(q) /\ G[q] = Posted(q)'
  OBVIOUS
<1> HIDE DEF F, G
<1>12. /\ UniqueIds(G)
       /\ \A q \in QPs : \A i \in 1..Len(G[q]) :
            G[q][i].id # id /\ \E k \in 1..Len(F[q]) : G[q][i] = F[q][k]
       /\ \A q \in QPs : \A i \in 1..Len(F[q]) :
            F[q][i].id = id \/ \E k \in 1..Len(G[q]) : F[q][i] = G[q][k]
  <2>1. /\ UniqueIds(G)
        /\ \A q \in QPs : \A i \in 1..Len(G[q]) :
            G[q][i].id # F[c][1].id /\ \E k \in 1..Len(F[q]) : G[q][i] = F[q][k]
        /\ \A q \in QPs : \A i \in 1..Len(F[q]) :
            F[q][i].id = F[c][1].id \/ \E k \in 1..Len(G[q]) : F[q][i] = G[q][k]
    <3>1. TailedAt(F, c, G)
      BY <1>10 DEF TailedAt
    <3>2. HeadRemoved(F, c, G)
      BY <1>9, <3>1, UniqueTail
    <3> QED BY <3>2 DEF HeadRemoved
  <2> QED BY <1>9, <2>1
<1>13. DOMAIN pending' = DOMAIN pending \ {id} /\ \A x \in DOMAIN pending' : pending'[x] = pending[x]
  BY <1>3
<1>14. outstanding'[c] = Len(Posted(c)')
  <2> DEFINE p == Posted(c)
  <2>1. p \in Seq(Work) /\ p # <<>> /\ Posted(c)' = Tail(p)
    BY <1>8
  <2>2. outstanding[c] = Len(p)
    BY <1>1 DEF RoutingInv, Booked
  <2>3. outstanding'[c] = outstanding[c] - 1
    BY <1>3
  <2> HIDE DEF p
  <2>4. Len(Tail(p)) = Len(p) - 1
    BY <2>1, HeadTailProperties
  <2> QED BY <2>1, <2>2, <2>3, <2>4
<1>15. Booked'
  <2>1. ASSUME NEW q \in QPs PROVE outstanding'[q] = Len(Posted(q)')
    <3>1. CASE q # c
      BY <1>1, <1>3, <1>7, <3>1 DEF RoutingInv, Booked
    <3>2. CASE q = c
      BY <1>14, <3>2
    <3> QED BY <3>1, <3>2
  <2>2. ASSUME NEW q \in QPs, NEW i \in 1..Len(Posted(q)')
        PROVE  /\ Posted(q)'[i].id \in DOMAIN pending'
               /\ pending'[Posted(q)'[i].id] = [qp |-> q, chunk |-> Posted(q)'[i].chunk]
    <3>1. i \in 1..Len(G[q])
      BY <1>11
    <3>2. PICK k \in 1..Len(F[q]) : G[q][i] = F[q][k] /\ G[q][i].id # id
      BY <1>12, <3>1, SMTT(30)
    <3>3. k \in 1..Len(Posted(q)) /\ Posted(q)'[i] = Posted(q)[k] /\ Posted(q)[k].id # id
      BY <1>11, <3>2
    <3>4. /\ Posted(q)[k].id \in DOMAIN pending
          /\ pending[Posted(q)[k].id] = [qp |-> q, chunk |-> Posted(q)[k].chunk]
      BY <1>1, <3>3 DEF RoutingInv, Booked
    <3> QED BY <1>13, <3>3, <3>4
  <2>3. ASSUME NEW x \in DOMAIN pending'
        PROVE  \E q \in QPs : \E i \in 1..Len(Posted(q)') : Posted(q)'[i].id = x
    <3>1. x \in DOMAIN pending /\ x # id
      BY <1>13
    <3>2. PICK q \in QPs : \E i \in 1..Len(Posted(q)) : Posted(q)[i].id = x
      BY <1>1, <3>1 DEF RoutingInv, Booked
    <3>3. PICK i \in 1..Len(F[q]) : F[q][i].id = x
      BY <1>11, <3>2
    <3>4. PICK k \in 1..Len(G[q]) : F[q][i] = G[q][k]
      BY <1>12, <3>1, <3>3
    <3>5. k \in 1..Len(Posted(q)') /\ Posted(q)'[k].id = x
      BY <1>11, <3>3, <3>4
    <3> QED BY <3>5
  <2> QED BY <2>1, <2>2, <2>3 DEF Booked
<1>16. FitsDepth'
  <2> SUFFICES ASSUME NEW q \in QPs PROVE outstanding'[q] + Len(posts'[q]) <= QueueDepth
    BY DEF FitsDepth
  <2> DEFINE o == outstanding[q]
  <2> DEFINE o1 == outstanding'[q]
  <2> DEFINE p == Len(posts[q])
  <2>1. o + p <= QueueDepth /\ o \in Nat /\ p = 0
    BY <1>3, <1>4 DEF RoutingInv, FitsDepth
  <2>2. o1 = o \/ o1 = o - 1
    BY <1>3
  <2> HIDE DEF o, o1, p
  <2>3. o1 + p <= QueueDepth
    BY <2>1, <2>2, ConstantsAssumption
  <2> QED BY <1>3, <2>3 DEF o1, p
<1>17. ListsInRefill' /\ QuietBetween' /\ SearchedAll'
  BY <1>1, <1>3, <1>4 DEF ListsInRefill, QuietBetween, SearchedAll
<1>18. WrIdsUnique'
  <2>1. [q \in QPs |-> Flight(q)'] = G
    BY <1>6 DEF G
  <2>2. FlightUnique' <=> UniqueIds([q \in QPs |-> Flight(q)'])
    BY DEF FlightUnique, UniqueIds
  <2> QED BY <1>2, <1>12, <2>1, <2>2, UniqueInFlightPrimed
<1>19. DepthBound'
  BY <1>1, <1>2, <1>3, <1>15, <1>16, DepthFromBooks
<1> QED BY <1>15, <1>16, <1>17, <1>18, <1>19 DEF RoutingInv

\* RoutingInv holds at the start.
LEMMA InitRouting == Init => RoutingInv
<1> SUFFICES ASSUME Init PROVE RoutingInv
  OBVIOUS
<1>1. active = NoBatch /\ pc = "idle" /\ DOMAIN pending = {}
  BY DEF Init
<1>2. \A q \in QPs : /\ outstanding[q] = 0 /\ posts[q] = <<>>
                     /\ Len(posts[q]) = 0 /\ Len(sq[q]) = 0 /\ Len(cq[q]) = 0
  BY DEF Init
<1>3. FitsDepth /\ DepthBound
  <2>1. \A q \in QPs : 0 + 0 <= QueueDepth
    BY ConstantsAssumption
  <2> QED BY <1>2, <2>1 DEF FitsDepth, DepthBound
<1>4. ListsInRefill /\ QuietBetween /\ Booked /\ SearchedAll /\ WrIdsUnique
  BY <1>1, <1>2 DEF ListsInRefill, QuietBetween, Booked, SearchedAll, WrIdsUnique
<1> QED BY <1>3, <1>4 DEF RoutingInv

\* RoutingInv is inductive, together with the types.
LEMMA RoutingStep ==
    ASSUME TypeInv, TypeInv', RoutingInv, [Next]_vars
    PROVE  RoutingInv'
<1>1. CASE Next
  <2>1. CASE Refill
    BY <2>1, LoopRouting, AllocChunkRouting, PostQPRouting DEF Refill
  <2>2. CASE Poll
    BY <2>2, LoopRouting, PollCQRouting, HandleWcRouting, FailureRouting, SucceedRouting DEF Poll
  <2>3. CASE Failure
    BY <2>3, FailureRouting
  <2>4. CASE Call
    BY <2>4, SubmitRouting, CallRouting, CloseRouting, FailureRouting DEF Call, Wait
  <2>5. CASE Hardware
    BY <2>5, HardwareRouting
  <2> QED BY <1>1, <2>1, <2>2, <2>3, <2>4, <2>5 DEF Next
<1>2. CASE UNCHANGED vars
  <2> USE <1>2 DEF vars, batchVars, wrVars, lifeVars, frameVars, hwVars
  <2>1. UNCHANGED <<pending, outstanding, active, nextWrId, posts, pc, sq, cq>> /\ (Usable' => Usable)
    BY DEF Usable
  <2>2. ListsInRefill'
    BY DEF RoutingInv, ListsInRefill
  <2>3. \A q \in QPs : Posted(q)' = Posted(q)
    BY PostedSame
  <2>4. ASSUME NEW q \in QPs PROVE Len(sq'[q]) + Len(cq'[q]) <= Len(sq[q]) + Len(cq[q])
    <3> DEFINE n == Len(sq[q])
    <3> DEFINE m == Len(cq[q])
    <3>1. n \in Nat /\ m \in Nat
      BY DEF TypeInv, TypeOK, HwTypes
    <3> HIDE DEF n, m
    <3>2. n + m <= n + m
      BY <3>1
    <3> QED BY <2>1, <3>2 DEF n, m
  <2> QED BY <2>1, <2>2, <2>3, <2>4, RoutingSteady
<1> QED BY <1>1, <1>2

\* RoutingInv holds in every reachable state.
THEOREM RoutingInvHolds == Spec => []RoutingInv
BY InitRouting, RoutingStep, TypeInvHolds, PTL DEF Spec

\* The send queue and the CQ of a QP, created for queue_depth entries, never
\* hold more between them, whatever fails and whoever gives up.
THEOREM DepthBounded == Spec => []DepthBound
BY RoutingInvHolds, PTL DEF RoutingInv

\* What the books say of the work in flight is what the adapter will report.
LEMMA RoutingFollows == TypeInv /\ RoutingInv => CompletionRouting
<1> SUFFICES ASSUME TypeInv, RoutingInv PROVE CompletionRouting
  OBVIOUS
<1>1. FrameTypes /\ HwTypes
  BY DEF TypeInv, TypeOK
<1>2. OutstandingIsOwed
  <2> SUFFICES ASSUME active # NoBatch, NEW q \in QPs
               PROVE  outstanding[q] = Len(sq[q]) + Len(cq[q]) + Len(Unhandled(q))
    BY DEF OutstandingIsOwed
  <2> DEFINE u == Len(Unhandled(q))
  <2> DEFINE c == Len(cq[q])
  <2> DEFINE s == Len(sq[q])
  <2>1. outstanding[q] = u + c + s
    BY <1>1, FlightType DEF RoutingInv, Booked
  <2>2. u \in Nat /\ c \in Nat /\ s \in Nat
    <3>1. sq[q] \in Seq(Work) /\ cq[q] \in Seq(WorkCompletion) /\ Unhandled(q) \in Seq(WorkCompletion)
      BY <1>1, FlightType DEF HwTypes
    <3> QED BY <3>1
  <2> HIDE DEF u, c, s
  <2>3. outstanding[q] = s + c + u
    BY <2>1, <2>2
  <2> QED BY <2>3 DEF u, c, s
<1>3. PendingKnowsAll
  <2> SUFFICES ASSUME active # NoBatch, NEW q \in QPs, NEW queue \in {sq[q], cq[q], Unhandled(q)},
                      NEW i \in DOMAIN queue
               PROVE  /\ queue[i].id \in DOMAIN pending
                      /\ pending[queue[i].id] = [qp |-> q, chunk |-> queue[i].chunk]
    BY DEF PendingKnowsAll
  <2> DEFINE u == Works(Unhandled(q))
  <2> DEFINE c == Works(cq[q])
  <2> DEFINE s == sq[q]
  <2>1. u \in Seq(Work) /\ c \in Seq(Work) /\ s \in Seq(Work)
    BY <1>1, FlightType
  <2>2. /\ Unhandled(q) \in Seq(WorkCompletion) /\ cq[q] \in Seq(WorkCompletion)
        /\ Len(u) = Len(Unhandled(q)) /\ Len(c) = Len(cq[q])
        /\ \A k \in 1..Len(u) :
            u[k] = [id |-> Unhandled(q)[k].id, chunk |-> Unhandled(q)[k].chunk]
        /\ \A k \in 1..Len(c) : c[k] = [id |-> cq[q][k].id, chunk |-> cq[q][k].chunk]
    <3>1. Unhandled(q) \in Seq(WorkCompletion) /\ cq[q] \in Seq(WorkCompletion)
      BY <1>1, FlightType DEF HwTypes
    <3> QED BY <3>1, WorksType
  <2>3. Posted(q) = Joined(u, c, s)
    BY DEF Posted, Joined
  <2> HIDE DEF u, c
  <2>4. \/ i \in 1..Len(u) /\ u[i].id = queue[i].id /\ u[i].chunk = queue[i].chunk
        \/ i \in 1..Len(c) /\ c[i].id = queue[i].id /\ c[i].chunk = queue[i].chunk
        \/ i \in 1..Len(s) /\ s[i].id = queue[i].id /\ s[i].chunk = queue[i].chunk
    <3>1. CASE queue = sq[q]
      <4>1. DOMAIN queue = 1..Len(s)
        BY <2>1, <3>1
      <4> QED BY <3>1, <4>1
    <3>2. CASE queue = cq[q]
      <4>1. DOMAIN queue = 1..Len(c)
        BY <2>2, <3>2
      <4>2. c[i] = [id |-> cq[q][i].id, chunk |-> cq[q][i].chunk]
        BY <2>2, <4>1
      <4>3. c[i].id = cq[q][i].id /\ c[i].chunk = cq[q][i].chunk
        BY <4>2
      <4> QED BY <3>2, <4>1, <4>3
    <3>3. CASE queue = Unhandled(q)
      <4>1. DOMAIN queue = 1..Len(u)
        BY <2>2, <3>3
      <4>2. u[i] = [id |-> Unhandled(q)[i].id, chunk |-> Unhandled(q)[i].chunk]
        BY <2>2, <4>1
      <4>3. u[i].id = Unhandled(q)[i].id /\ u[i].chunk = Unhandled(q)[i].chunk
        BY <4>2
      <4> QED BY <3>3, <4>1, <4>3
    <3> QED BY <3>1, <3>2, <3>3
  <2> HIDE DEF s
  <2>5. /\ \A k \in 1..Len(u) : \E l \in 1..Len(Joined(u, c, s)) : Joined(u, c, s)[l] = u[k]
        /\ \A k \in 1..Len(c) : \E l \in 1..Len(Joined(u, c, s)) : Joined(u, c, s)[l] = c[k]
        /\ \A k \in 1..Len(s) : \E l \in 1..Len(Joined(u, c, s)) : Joined(u, c, s)[l] = s[k]
    BY <2>1, JoinedHas
  <2>6. PICK k \in 1..Len(Posted(q)) :
            Posted(q)[k].id = queue[i].id /\ Posted(q)[k].chunk = queue[i].chunk
    <3> DEFINE J == Posted(q)
    <3>1. /\ \A k \in 1..Len(u) : \E l \in 1..Len(J) : J[l] = u[k]
          /\ \A k \in 1..Len(c) : \E l \in 1..Len(J) : J[l] = c[k]
          /\ \A k \in 1..Len(s) : \E l \in 1..Len(J) : J[l] = s[k]
      BY <2>3, <2>5, Zenon
    <3> HIDE DEF J
    <3>2. \E l \in 1..Len(J) : J[l].id = queue[i].id /\ J[l].chunk = queue[i].chunk
      BY <2>4, <3>1
    <3> QED BY <3>2 DEF J
  <2>7. /\ Posted(q)[k].id \in DOMAIN pending
        /\ pending[Posted(q)[k].id] = [qp |-> q, chunk |-> Posted(q)[k].chunk]
    BY DEF RoutingInv, Booked
  <2> QED BY <2>6, <2>7
<1>4. WrIdsUnique
  BY DEF RoutingInv
<1> QED BY <1>2, <1>3, <1>4 DEF CompletionRouting

\* Every completion is routed through its wr_id to the chunk and the QP it
\* belongs to, for any number of QPs, any depth and any wr_id space that has
\* an id for every slot, also after the ids have wrapped: progress meets
\* neither an unknown wr_id nor one of another CQ.
THEOREM CompletionsRouted == Spec => []CompletionRouting
BY RoutingInvHolds, TypeInvHolds, RoutingFollows, PTL

(***************************************************************************)
(* The pipeline: when a QP may have room and chunks are left               *)
(***************************************************************************)

\* A generator found exhausted has no chunk for the active batch.
ExhaustedIsDone == active # NoBatch /\ exhausted => ~HasChunk

\* Where _refill is not running and progress has met no completion yet.
Unserved == pc \in {"idle", "check", "returned"} \/ (pc \in {"poll", "handle"} /\ completed = 0)

Filled(q) == outstanding[q] + Len(posts[q]) = QueueDepth

\* Outside _refill all QPs are full as long as chunks are left; inside it, once
\* the lists are being posted; and while they are made, those passed over in a
\* round that has made none.
PipeInv ==
    /\ ExhaustedIsDone
    /\ HasChunk /\ (Unserved \/ pc = "post") => \A q \in QPs : Filled(q)
    /\ pc = "alloc" /\ ~made => \A q \in QPs : q < cursor => Filled(q)

\* What PipeInv reads of the state; HasChunk reads the batch and the iterator.
LEMMA HasChunkSame ==
    ASSUME UNCHANGED <<active, iter>>,
           active # NoBatch => batch'[active].reqs = batch[active].reqs
    PROVE  HasChunk' <=> HasChunk
BY DEF HasChunk, NoBatch

\* Steps that touch neither the books nor the place leave PipeInv alone.
LEMMA PipeSame ==
    ASSUME PipeInv, HasChunk' <=> HasChunk, ExhaustedIsDone',
           UNCHANGED <<outstanding, posts, pc, made, cursor, completed>>
    PROVE  PipeInv'
<1>1. \A q \in QPs : Filled(q)' <=> Filled(q)
  BY DEF Filled
<1>2. Unserved' <=> Unserved
  BY DEF Unserved
<1>3. HasChunk' /\ (Unserved' \/ pc' = "post") => \A q \in QPs : Filled(q)'
  BY <1>1, <1>2 DEF PipeInv
<1>4. pc' = "alloc" /\ ~made' => \A q \in QPs : q < cursor' => Filled(q)'
  BY <1>1 DEF PipeInv
<1> QED BY <1>3, <1>4 DEF PipeInv

\* PipeInv says nothing when no batch is active and no call is running.
LEMMA PipeEnded ==
    ASSUME active' = NoBatch, pc' = "idle"
    PROVE  PipeInv'
BY DEF PipeInv, ExhaustedIsDone, HasChunk

\* A batch's requests are never replaced while it is active.
LEMMA SetReqsSame ==
    ASSUME batch \in [1..MaxBatches -> BatchState], NEW b \in 1..MaxBatches, NEW c \in 1..MaxBatches,
           NEW e, NEW f, NEW g,
           \/ batch' = [batch EXCEPT ![c].done = TRUE, ![c].error = e]
           \/ batch' = [batch EXCEPT ![c].error = e]
           \/ batch' = [batch EXCEPT ![c].chunks = f, ![c].bytes = g]
    PROVE  batch'[b].reqs = batch[b].reqs
<1>1. batch[c] \in BatchState /\ batch \in [1..MaxBatches -> BatchState]
  OBVIOUS
<1>2. CASE batch' = [batch EXCEPT ![c].done = TRUE, ![c].error = e]
  BY <1>1, <1>2 DEF BatchState
<1>3. CASE batch' = [batch EXCEPT ![c].error = e]
  BY <1>1, <1>3 DEF BatchState
<1>4. CASE batch' = [batch EXCEPT ![c].chunks = f, ![c].bytes = g]
  BY <1>1, <1>4 DEF BatchState
<1> QED BY <1>2, <1>3, <1>4

\* Steps of the adapter, and calls that leave the running batch alone.
LEMMA OtherPipe ==
    ASSUME TypeInv, PipeInv,
           \/ Hardware \/ Connect \/ ConnectFail \/ UNCHANGED vars
           \/ \E b \in 1..MaxBatches : ForeignWait(b)
           \/ \E ok \in BOOLEAN : CallbackReturns(ok)
    PROVE  PipeInv'
<1> USE DEF batchVars, wrVars, lifeVars, frameVars, hwVars, vars
<1>1. UNCHANGED <<active, iter, exhausted, outstanding, posts, pc, made, cursor, completed>>
  BY DEF Hardware, HwComplete, HwError, Connect, ConnectFail, ForeignWait, CallbackReturns
<1>2. active # NoBatch => batch'[active].reqs = batch[active].reqs
  <2> SUFFICES ASSUME active # NoBatch PROVE batch'[active].reqs = batch[active].reqs
    OBVIOUS
  <2>1. active \in 1..MaxBatches /\ batch \in [1..MaxBatches -> BatchState] /\ callbacks \in Seq(1..MaxBatches)
    BY ConstantsAssumption DEF TypeInv, TypeOK, BatchTypes, NoBatch
  <2>2. CASE Hardware \/ Connect \/ ConnectFail \/ UNCHANGED vars
    BY <2>2 DEF Hardware, HwComplete, HwError, Connect, ConnectFail
  <2>3. ASSUME NEW b \in 1..MaxBatches, ForeignWait(b) PROVE batch'[active].reqs = batch[active].reqs
    BY <2>1, <2>3, SetReqsSame DEF ForeignWait, EndBatch
  <2>4. ASSUME NEW ok \in BOOLEAN, CallbackReturns(ok) PROVE batch'[active].reqs = batch[active].reqs
    <3>1. Last(callbacks) \in 1..MaxBatches
      <4>1. callbacks # <<>>
        BY <2>4 DEF CallbackReturns
      <4>2. Len(callbacks) \in 1..Len(callbacks)
        BY <2>1, <4>1, EmptySeq
      <4>3. \A i \in 1..Len(callbacks) : callbacks[i] \in 1..MaxBatches
        BY <2>1, ElementOfSeq
      <4>4. callbacks[Len(callbacks)] \in 1..MaxBatches
        BY <4>2, <4>3
      <4> QED BY <4>4 DEF Last
    <3>2. batch' = batch \/ batch' = [batch EXCEPT ![Last(callbacks)].error = "callback"]
      BY <2>4 DEF CallbackReturns
    <3> HIDE DEF batchVars, wrVars, lifeVars, frameVars, hwVars, vars
    <3> DEFINE l == Last(callbacks)
    <3> HIDE DEF l
    <3>3. batch' = batch \/ batch' = [batch EXCEPT ![l].error = "callback"]
      BY <3>2 DEF l
    <3>4. l \in 1..MaxBatches
      BY <3>1 DEF l
    <3> QED BY <2>1, <3>3, <3>4, SetReqsSame
  <2> QED BY <2>2, <2>3, <2>4
<1>3. HasChunk' <=> HasChunk
  BY <1>1, <1>2, HasChunkSame
<1>4. ExhaustedIsDone'
  BY <1>1, <1>3 DEF PipeInv, ExhaustedIsDone
<1> QED BY <1>1, <1>3, <1>4, PipeSame

\* Failures, close and the success of a batch leave none active.
LEMMA EndPipe ==
    ASSUME Failure \/ HandleBadWc \/ Succeed \/ Close \/ \E b \in 1..MaxBatches : WaitLeftBehind(b)
    PROVE  PipeInv'
<1>1. active' = NoBatch /\ pc' = "idle"
  BY DEF Failure, AllocFail, PostFail, PollFail, TimedOut, Cancelled, WaitForeign, HandleBadWc,
      Succeed, Close, WaitLeftBehind, FailTransport, LoseTransport, EmptyFrame, FinishSuccess, frameVars
<1> QED BY <1>1, PipeEnded

\* The steps of _refill and progress that move the place only.
LEMMA LoopPipe ==
    ASSUME TypeInv, RoutingInv, PipeInv,
           \/ AllocSkip \/ AllocStop \/ AllocRound \/ RefillReturn
           \/ PollCQ \/ NextCQ \/ PollEnd \/ NotYet \/ Progress \/ KeepWaiting
    PROVE  PipeInv'
<1> USE DEF batchVars, wrVars, lifeVars, hwVars
<1>1. UNCHANGED <<batch, active, iter, outstanding>>
  BY DEF AllocSkip, AllocStop, AllocRound, RefillReturn, PollCQ, NextCQ, PollEnd, NotYet,
      Progress, KeepWaiting
<1>2. HasChunk' <=> HasChunk
  BY <1>1 DEF HasChunk
<1>3. ExhaustedIsDone'
  <2>1. exhausted' = exhausted \/ ~HasChunk
    BY DEF AllocSkip, AllocStop, AllocRound, RefillReturn, PollCQ, NextCQ, PollEnd, NotYet,
        Progress, KeepWaiting
  <2> QED BY <1>1, <1>2, <2>1 DEF PipeInv, ExhaustedIsDone
<1>4. /\ posts \in [QPs -> Seq(Work)] /\ outstanding \in [QPs -> Nat]
      /\ cursor \in 1..(NQP + 1) /\ completed \in Nat
  BY DEF TypeInv, TypeOK, FrameTypes, WrTypes
<1>5. posts' = posts \/ posts' = [q \in QPs |-> <<>>]
  BY DEF AllocSkip, AllocStop, AllocRound, RefillReturn, PollCQ, NextCQ, PollEnd, NotYet,
      Progress, KeepWaiting, EmptyFrame, EnterRefill
<1>6. pc = "alloc" => posts' = posts
  BY DEF AllocSkip, AllocStop, AllocRound, RefillReturn, PollCQ, NextCQ, PollEnd, NotYet,
      Progress, KeepWaiting
<1>7. pc = "post" => cursor > NQP
  BY DEF AllocSkip, AllocStop, AllocRound, RefillReturn, PollCQ, NextCQ, PollEnd, NotYet,
      Progress, KeepWaiting
<1>8. posts' = posts
  <2>1. CASE pc = "alloc"
    BY <1>6, <2>1
  <2>2. CASE pc # "alloc"
    <3>1. \A q \in QPs : posts[q] = <<>>
      BY <1>4, <1>7, <2>2, ConstantsAssumption DEF RoutingInv, ListsInRefill, QPs
    <3> QED BY <1>4, <1>5, <3>1
  <2> QED BY <2>1, <2>2
<1>9. \A q \in QPs : Filled(q)' <=> Filled(q)
  BY <1>1, <1>8 DEF Filled
<1>10. HasChunk' /\ (Unserved' \/ pc' = "post") => \A q \in QPs : Filled(q)'
  <2> SUFFICES ASSUME HasChunk, Unserved' \/ pc' = "post" PROVE \A q \in QPs : Filled(q)
    BY <1>2, <1>9
  <2>1. CASE Unserved \/ pc = "post"
    BY <2>1 DEF PipeInv
  <2>2. CASE pc = "alloc"
    <3>1. AllocRound /\ ~made /\ cursor > NQP
      BY <2>2 DEF AllocSkip, AllocStop, AllocRound, RefillReturn, PollCQ, NextCQ, PollEnd, NotYet,
          Progress, KeepWaiting, Unserved
    <3>2. \A q \in QPs : q < cursor
      BY <1>4, <3>1, ConstantsAssumption DEF QPs
    <3> QED BY <2>2, <3>1, <3>2 DEF PipeInv
  <2>3. CASE pc \in {"poll", "handle"} /\ completed # 0
    <3>1. completed > 0
      BY <1>4, <2>3
    <3>2. PollEnd
      BY <2>3, <3>1 DEF AllocSkip, AllocStop, AllocRound, RefillReturn, PollCQ, NextCQ, NotYet,
          Progress, KeepWaiting, Unserved
    <3>3. exhausted
      BY <3>1, <3>2 DEF PollEnd, EnterRefill, Unserved
    <3>4. active # NoBatch
      BY DEF HasChunk
    <3> QED BY <3>3, <3>4 DEF PipeInv, ExhaustedIsDone
  <2>4. pc \in Places
    BY DEF TypeInv, TypeOK, FrameTypes
  <2> QED BY <2>1, <2>2, <2>3, <2>4 DEF Places, Unserved
<1>11. pc' = "alloc" /\ ~made' => \A q \in QPs : q < cursor' => Filled(q)'
  <2> SUFFICES ASSUME pc' = "alloc", ~made', NEW q \in QPs, q < cursor' PROVE Filled(q)
    BY <1>9
  <2>1. q \in 1..NQP /\ NQP \in Nat
    BY ConstantsAssumption DEF QPs
  <2>2. AllocSkip
    <3>1. cursor' # 1
      BY <2>1
    <3> QED BY <3>1 DEF AllocSkip, AllocStop, AllocRound, RefillReturn, PollCQ, NextCQ, PollEnd,
          NotYet, Progress, KeepWaiting, EmptyFrame, EnterRefill
  <2>3. pc = "alloc" /\ ~made /\ ~HasRoom(cursor) /\ cursor' = cursor + 1 /\ cursor \in QPs
    BY <1>4, <2>2 DEF AllocSkip, QPs
  <2>4. CASE q < cursor
    BY <2>3, <2>4 DEF PipeInv
  <2>5. CASE q = cursor
    <3> DEFINE n == Len(posts[q])
    <3>1. n \in Nat /\ outstanding[q] \in Nat
      BY <1>4
    <3>2. outstanding[q] + n <= QueueDepth /\ ~(outstanding[q] + n < QueueDepth)
      BY <2>3, <2>5 DEF RoutingInv, FitsDepth, HasRoom
    <3> HIDE DEF n
    <3>3. outstanding[q] + n = QueueDepth
      BY <3>1, <3>2, ConstantsAssumption
    <3> QED BY <3>3 DEF n, Filled
  <2>6. q < cursor \/ q = cursor
    BY <1>4, <2>1, <2>3
  <2> QED BY <2>4, <2>5, <2>6
<1> QED BY <1>3, <1>10, <1>11 DEF PipeInv

\* A chunk is taken off the iterator: the round has made progress.
LEMMA AllocChunkPipe ==
    ASSUME TypeInv, PipeInv, AllocChunk
    PROVE  PipeInv'
<1>1. pc' = "alloc" /\ made' /\ exhausted' = exhausted /\ active' = active /\ HasChunk
  BY DEF AllocChunk
<1>2. ~exhausted
  BY <1>1 DEF PipeInv, ExhaustedIsDone, HasChunk
<1> QED BY <1>1, <1>2 DEF PipeInv, ExhaustedIsDone, Unserved

\* A list is posted: its QP stays filled.
LEMMA PostQPPipe ==
    ASSUME TypeInv, PipeInv, PostQP
    PROVE  PipeInv'
<1> USE DEF batchVars, lifeVars
<1>1. UNCHANGED <<batch, active, iter, exhausted>> /\ pc = "post" /\ pc' = "post"
  BY DEF PostQP
<1>2. HasChunk' <=> HasChunk
  BY <1>1 DEF HasChunk
<1>3. cursor \in QPs /\ posts \in [QPs -> Seq(Work)] /\ outstanding \in [QPs -> Nat]
  BY DEF PostQP, TypeInv, TypeOK, FrameTypes, WrTypes, QPs
<1>4. ASSUME NEW q \in QPs, Filled(q) PROVE Filled(q)'
  <2> DEFINE n == Len(posts[q])
  <2>1. n \in Nat /\ outstanding[q] \in Nat
    BY <1>3
  <2>2. outstanding[q] + n = QueueDepth
    BY <1>4 DEF Filled
  <2>3. \/ outstanding'[q] = outstanding[q] /\ posts'[q] = posts[q]
        \/ outstanding'[q] = outstanding[q] + n /\ posts'[q] = <<>>
    BY <1>3 DEF PostQP
  <2>4. CASE posts'[q] = posts[q] /\ outstanding'[q] = outstanding[q]
    BY <2>2, <2>4 DEF Filled
  <2>5. CASE outstanding'[q] = outstanding[q] + n /\ posts'[q] = <<>>
    <3>1. Len(posts'[q]) = 0
      BY <2>5
    <3> HIDE DEF n
    <3>2. outstanding'[q] + 0 = QueueDepth
      BY <2>1, <2>2, <2>5
    <3> QED BY <3>1, <3>2 DEF Filled
  <2> QED BY <2>3, <2>4, <2>5
<1>5. HasChunk' => \A q \in QPs : Filled(q)'
  BY <1>1, <1>2, <1>4 DEF PipeInv
<1> QED BY <1>1, <1>2, <1>5 DEF PipeInv, ExhaustedIsDone

\* A completion is counted: progress will call _refill.
LEMMA HandleWcPipe ==
    ASSUME TypeInv, PipeInv, HandleWc
    PROVE  PipeInv'
<1> DEFINE f == batch[active].chunks + 1
<1> DEFINE g == batch[active].bytes + pending[Head(wcs).id].chunk.len
<1>1. /\ UNCHANGED <<active, iter, exhausted>> /\ pc' = "handle" /\ completed' = completed + 1
      /\ active # NoBatch /\ pc = "handle"
  BY DEF HandleWc, TypeInv, CallHasBatch
<1>2. active \in 1..MaxBatches /\ batch \in [1..MaxBatches -> BatchState] /\ completed \in Nat
  BY <1>1, ConstantsAssumption DEF TypeInv, TypeOK, BatchTypes, FrameTypes, NoBatch
<1>3. batch' = [batch EXCEPT ![active].chunks = f, ![active].bytes = g]
  BY <1>2 DEF HandleWc, BatchState
<1> HIDE DEF f, g
<1>4. batch'[active].reqs = batch[active].reqs
  BY <1>2, <1>3, SetReqsSame
<1>5. HasChunk' <=> HasChunk
  BY <1>1, <1>4, HasChunkSame
<1>6. ~Unserved'
  <2>1. completed' # 0
    BY <1>1, <1>2
  <2> QED BY <1>1, <2>1 DEF Unserved
<1> QED BY <1>1, <1>5, <1>6 DEF PipeInv, ExhaustedIsDone

\* A batch with a chunk enters _refill; one without ends at once.
LEMMA SubmitPipe ==
    ASSUME NEW reqs \in RequestLists, NEW cb \in BOOLEAN, TypeInv, Submit(reqs, cb)
    PROVE  PipeInv'
<1>1. CASE TotalChunks(reqs) = 0
  <2>1. active' = NoBatch /\ pc' = "idle"
    BY <1>1 DEF Submit, FinishSuccess, EmptyFrame
  <2> QED BY <2>1, PipeEnded
<1>2. CASE TotalChunks(reqs) # 0
  <2>1. ~exhausted' /\ pc' = "alloc" /\ cursor' = 1
    BY <1>2 DEF Submit, EnterRefill
  <2>2. \A q \in QPs : ~(q < 1)
    BY ConstantsAssumption DEF QPs
  <2> QED BY <2>1, <2>2 DEF PipeInv, ExhaustedIsDone, Unserved
<1> QED BY <1>1, <1>2

\* Every step keeps PipeInv.
LEMMA PipeStep ==
    ASSUME TypeInv, RoutingInv, PipeInv, [Next]_vars
    PROVE  PipeInv'
<1>1. CASE Refill
  BY <1>1, LoopPipe, AllocChunkPipe, PostQPPipe DEF Refill
<1>2. CASE Poll
  BY <1>2, LoopPipe, HandleWcPipe, EndPipe DEF Poll
<1>3. CASE Failure
  BY <1>3, EndPipe
<1>4. CASE Call
  BY <1>4, SubmitPipe, LoopPipe, OtherPipe, EndPipe DEF Call, Wait
<1>5. CASE Hardware \/ UNCHANGED vars
  BY <1>5, OtherPipe
<1> QED BY <1>1, <1>2, <1>3, <1>4, <1>5 DEF Next

\* PipeInv holds in every reachable state.
THEOREM PipeInvHolds == Spec => []PipeInv
<1>1. Init => PipeInv
  BY DEF Init, PipeInv, ExhaustedIsDone, HasChunk
<1>2. TypeInv /\ RoutingInv /\ PipeInv /\ [Next]_vars => PipeInv'
  BY PipeStep
<1> QED BY <1>1, <1>2, TypeInvHolds, RoutingInvHolds, PTL DEF Spec

\* Between calls every QP of a running batch holds queue_depth work requests
\* or the batch has no chunk left: _refill stops only at full QPs or at the end
\* of the chunks, and progress refills whenever a completion freed a slot.
THEOREM PipelineStaysFull == Spec => []PipelineFull
<1>1. TypeInv /\ RoutingInv /\ PipeInv => PipelineFull
  <2> SUFFICES ASSUME TypeInv, RoutingInv, PipeInv, pc \in {"idle", "returned"},
                      active # NoBatch, HasChunk, NEW q \in QPs
               PROVE  outstanding[q] = QueueDepth
    BY DEF PipelineFull
  <2>1. Filled(q)
    BY DEF PipeInv, Unserved
  <2>2. Len(posts[q]) = 0 /\ outstanding[q] \in Nat
    BY DEF RoutingInv, ListsInRefill, TypeInv, TypeOK, WrTypes
  <2> QED BY <2>1, <2>2 DEF Filled
<1> QED BY <1>1, TypeInvHolds, RoutingInvHolds, PipeInvHolds, PTL

(***************************************************************************)
(* Failure: what a failed batch says of the scheduler                      *)
(***************************************************************************)

Failed(b) == batch[b].done /\ ~Succeeded(b)

\* A batch that has failed, whoever declared it, leaves a scheduler between
\* calls that will not post: unusable, or holding a batch that is done.  A batch
\* that has not ended is the active one, or was left behind by such a failure.
FailInv ==
    /\ \A b \in 1..nbatch : Failed(b) =>
        /\ pc = "idle"
        /\ active = NoBatch => ~Usable
        /\ active # NoBatch => batch[active].done
    /\ \A b \in 1..nbatch : ~batch[b].done =>
        /\ b = active \/ (active = NoBatch /\ ~Usable)
        /\ batch[b].error \in {"none", "callback"}
    /\ pc # "idle" => active # NoBatch /\ ~batch[active].done

\* What was asked of a batch, and what it has counted, is the same in both.
SameCounts(x, y) == x.reqs = y.reqs /\ x.chunks = y.chunks /\ x.bytes = y.bytes

\* What ending a batch does to the batches.
Ended(c, e) ==
    /\ \A b \in 1..MaxBatches : b # c => batch'[b] = batch[b]
    /\ batch'[c].done /\ batch'[c].error = e
    /\ batch'[c].calls = batch[c].calls /\ batch'[c].onComplete = batch[c].onComplete
    /\ SameCounts(batch'[c], batch[c])

LEMMA EndBatchEnds ==
    ASSUME BatchTypes, NEW c \in 1..MaxBatches, NEW e, EndBatch(c, e)
    PROVE  Ended(c, e)
<1>1. batch \in [1..MaxBatches -> BatchState] /\ batch[c] \in BatchState
  BY DEF BatchTypes
<1> QED BY <1>1 DEF EndBatch, BatchState, Ended, SameCounts

\* The batches as FailInv and the callbacks see them are as before.
BatchesSame ==
    \A b \in 1..MaxBatches :
        /\ batch'[b].done = batch[b].done /\ batch'[b].error = batch[b].error
        /\ batch'[b].calls = batch[b].calls /\ batch'[b].onComplete = batch[b].onComplete
        /\ batch'[b].reqs = batch[b].reqs

\* The steps inside a call, those of the adapter, and the calls that end no batch.
QuietSteps ==
    \/ AllocSkip \/ AllocChunk \/ AllocStop \/ AllocRound \/ PostQP \/ RefillReturn
    \/ PollCQ \/ HandleWc \/ NextCQ \/ PollEnd \/ NotYet \/ Progress \/ KeepWaiting
    \/ Connect \/ ConnectFail \/ Hardware \/ UNCHANGED vars

LEMMA QuietEffects ==
    ASSUME TypeInv, QuietSteps
    PROVE  /\ UNCHANGED <<nbatch, active, callbacks>> /\ BatchesSame /\ (Usable' => Usable)
           /\ pc' = "idle" \/ pc # "idle" \/ (active # NoBatch /\ ~batch[active].done)
<1> USE DEF batchVars, wrVars, lifeVars, frameVars, hwVars, vars
<1>1. UNCHANGED <<nbatch, active, callbacks>>
  BY DEF QuietSteps, AllocSkip, AllocChunk, AllocStop, AllocRound, PostQP, RefillReturn, PollCQ,
      HandleWc, NextCQ, PollEnd, NotYet, Progress, KeepWaiting, Connect, ConnectFail, Hardware,
      HwComplete, HwError
<1>2. BatchesSame
  <2>1. CASE HandleWc
    <3> DEFINE f == batch[active].chunks + 1
    <3> DEFINE g == batch[active].bytes + pending[Head(wcs).id].chunk.len
    <3>1. active # NoBatch
      BY <2>1 DEF HandleWc, TypeInv, CallHasBatch
    <3>2. active \in 1..MaxBatches /\ batch \in [1..MaxBatches -> BatchState]
      BY <3>1, ConstantsAssumption DEF TypeInv, TypeOK, BatchTypes, NoBatch
    <3>3. batch' = [batch EXCEPT ![active].chunks = f, ![active].bytes = g]
      BY <2>1, <3>2 DEF HandleWc, BatchState
    <3> HIDE DEF f, g
    <3>4. batch[active] \in BatchState
      BY <3>2
    <3> QED BY <3>2, <3>3, <3>4 DEF BatchState, BatchesSame
  <2>2. CASE ~HandleWc
    <3>1. batch' = batch
      BY <2>2 DEF QuietSteps, AllocSkip, AllocChunk, AllocStop, AllocRound, PostQP, RefillReturn,
          PollCQ, NextCQ, PollEnd, NotYet, Progress, KeepWaiting, Connect, ConnectFail, Hardware,
          HwComplete, HwError
    <3> QED BY <3>1 DEF BatchesSame
  <2> QED BY <2>1, <2>2
<1>3. Usable' => Usable
  BY DEF Usable, QuietSteps, AllocSkip, AllocChunk, AllocStop, AllocRound, PostQP, RefillReturn,
      PollCQ, HandleWc, NextCQ, PollEnd, NotYet, Progress, KeepWaiting, Connect, ConnectFail,
      Hardware, HwComplete, HwError
<1>4. pc' = "idle" \/ pc # "idle" \/ (active # NoBatch /\ ~batch[active].done)
  BY DEF QuietSteps, AllocSkip, AllocChunk, AllocStop, AllocRound, PostQP, RefillReturn,
      PollCQ, HandleWc, NextCQ, PollEnd, NotYet, Progress, KeepWaiting, Connect, ConnectFail,
      Hardware, HwComplete, HwError
<1> QED BY <1>1, <1>2, <1>3, <1>4

\* Steps that lose the transport, and close: at most one batch is ended, one
\* that was not done, with an error.
LosingSteps == Failure \/ HandleBadWc \/ Close \/ \E b \in 1..MaxBatches : WaitLeftBehind(b)

LEMMA LosingEffects ==
    ASSUME TypeInv, FailInv, LosingSteps
    PROVE  /\ active' = NoBatch /\ pc' = "idle" /\ ~Usable' /\ UNCHANGED <<nbatch, callbacks>>
           /\ \/ batch' = batch
              \/ \E c \in 1..MaxBatches, e \in Errors \ {"none", "callback"} :
                    ~batch[c].done /\ Ended(c, e)
<1> USE DEF LosingSteps
<1>1. /\ active' = NoBatch /\ pc' = "idle" /\ (poisoned' = TRUE \/ closed' = TRUE)
      /\ UNCHANGED <<nbatch, callbacks>>
  BY DEF Failure, AllocFail, PostFail, PollFail, TimedOut, Cancelled, WaitForeign, HandleBadWc,
      Close, WaitLeftBehind, FailTransport, LoseTransport, EmptyFrame, frameVars
<1>2. ~Usable'
  BY <1>1 DEF Usable
<1>3. \/ batch' = batch
      \/ \E e \in Errors \ {"none", "callback"} :
            EndBatch(active, e) /\ (pc # "idle" \/ (active # NoBatch /\ ~batch[active].done))
      \/ \E b \in 1..MaxBatches, e \in Errors \ {"none", "callback"} :
            EndBatch(b, e) /\ ~batch[b].done
  BY DEF Failure, AllocFail, PostFail, PollFail, TimedOut, Cancelled, WaitForeign, HandleBadWc,
      Close, WaitLeftBehind, FailTransport, Errors
<1>4. BatchTypes
  BY DEF TypeInv, TypeOK
<1>5. ASSUME NEW e \in Errors \ {"none", "callback"}, EndBatch(active, e),
             pc # "idle" \/ (active # NoBatch /\ ~batch[active].done)
      PROVE  \E c \in 1..MaxBatches : ~batch[c].done /\ Ended(c, e)
  <2>1. active # NoBatch /\ ~batch[active].done
    BY <1>5 DEF FailInv
  <2>2. active \in 1..MaxBatches
    BY <1>4, <2>1, ConstantsAssumption DEF BatchTypes, NoBatch
  <2> QED BY <1>4, <1>5, <2>1, <2>2, EndBatchEnds
<1>6. ASSUME NEW b \in 1..MaxBatches, NEW e \in Errors \ {"none", "callback"},
             EndBatch(b, e), ~batch[b].done
      PROVE  \E c \in 1..MaxBatches : ~batch[c].done /\ Ended(c, e)
  BY <1>4, <1>6, EndBatchEnds
<1> QED BY <1>1, <1>2, <1>3, <1>5, <1>6

\* FinishSuccess, on a batch that is new or was active.
Finished(c, batches) ==
    /\ \A b \in 1..MaxBatches : b # c => batch'[b] = batches[b]
    /\ batch'[c].done /\ batch'[c].error = batches[c].error
    /\ batch'[c].onComplete = batches[c].onComplete
    /\ batch'[c].calls = IF batches[c].onComplete THEN batches[c].calls + 1 ELSE batches[c].calls
    /\ SameCounts(batch'[c], batches[c])

LEMMA FinishEffects ==
    ASSUME NEW c \in 1..MaxBatches, NEW batches \in [1..MaxBatches -> BatchState],
           FinishSuccess(c, batches)
    PROVE  /\ Finished(c, batches) /\ active' = NoBatch /\ pc' = "idle"
           /\ callbacks' = IF batches[c].onComplete THEN Append(callbacks, c) ELSE callbacks
<1>1. batches[c] \in BatchState
  OBVIOUS
<1>2. active' = NoBatch /\ pc' = "idle"
      /\ callbacks' = IF batches[c].onComplete THEN Append(callbacks, c) ELSE callbacks
  BY DEF FinishSuccess, EmptyFrame
<1> DEFINE k == IF batches[c].onComplete THEN batches[c].calls + 1 ELSE batches[c].calls
<1>3. batch' = [batches EXCEPT ![c].done = TRUE, ![c].calls = k]
  BY <1>1 DEF FinishSuccess, BatchState
<1> HIDE DEF k
<1>4. /\ \A b \in 1..MaxBatches : b # c => batch'[b] = batches[b]
      /\ batch'[c].done /\ batch'[c].error = batches[c].error
      /\ batch'[c].onComplete = batches[c].onComplete /\ batch'[c].calls = k
      /\ SameCounts(batch'[c], batches[c])
  BY <1>1, <1>3 DEF BatchState, SameCounts
<1> QED BY <1>2, <1>4 DEF k, Finished

\* What submit does to the batches: the new one is the active one, or done.
LEMMA SubmitEffects ==
    ASSUME NEW reqs \in RequestLists, NEW cb \in BOOLEAN, TypeInv, Submit(reqs, cb)
    PROVE  /\ nbatch + 1 \in 1..MaxBatches /\ nbatch' = nbatch + 1 /\ (Usable' <=> Usable)
           /\ \A b \in 1..nbatch : b \in 1..MaxBatches /\ batch'[b] = batch[b]
           /\ batch'[nbatch + 1].error = "none" /\ batch'[nbatch + 1].reqs = reqs
           /\ batch'[nbatch + 1].chunks = 0 /\ batch'[nbatch + 1].bytes = 0
           /\ \A b \in 1..MaxBatches : b # nbatch + 1 => batch'[b] = batch[b]
           /\ \/ /\ active' = NoBatch /\ pc' = "idle" /\ batch'[nbatch + 1].done
                 /\ batch'[nbatch + 1].calls = IF batch'[nbatch + 1].onComplete THEN 1 ELSE 0
                 /\ callbacks' = callbacks \/ callbacks' = Append(callbacks, nbatch + 1)
              \/ /\ active' = nbatch + 1 /\ ~batch'[nbatch + 1].done /\ callbacks' = callbacks
                 /\ batch'[nbatch + 1].calls = 0
<1> DEFINE n == nbatch + 1
<1> DEFINE added == [batch EXCEPT ![n] = NewBatch(reqs, cb)]
<1>1. n \in 1..MaxBatches /\ nbatch \in Nat /\ batch \in [1..MaxBatches -> BatchState]
  BY ConstantsAssumption DEF Submit, TypeInv, TypeOK, BatchTypes
<1>2. NewBatch(reqs, cb) \in BatchState
  BY DEF NewBatch, BatchState, Errors
<1>3. /\ added \in [1..MaxBatches -> BatchState] /\ added[n].error = "none" /\ ~added[n].done
      /\ added[n].reqs = reqs /\ added[n].chunks = 0 /\ added[n].bytes = 0
      /\ \A b \in 1..MaxBatches : b # n => added[b] = batch[b]
      /\ added[n].calls = 0 /\ \A b \in 1..nbatch : b \in 1..MaxBatches /\ b # n /\ added[b] = batch[b]
  <2>1. \A b \in 1..nbatch : b \in 1..MaxBatches /\ b # n
    BY <1>1, ConstantsAssumption
  <2> QED BY <1>1, <1>2, <2>1 DEF NewBatch
<1>4. nbatch' = n /\ (Usable' <=> Usable)
  BY DEF Submit, lifeVars, Usable
<1>5. CASE TotalChunks(reqs) = 0
  <2>1. FinishSuccess(n, added)
    BY <1>5 DEF Submit
  <2> HIDE DEF n, added
  <2>2. /\ Finished(n, added) /\ active' = NoBatch /\ pc' = "idle"
        /\ callbacks' = IF added[n].onComplete THEN Append(callbacks, n) ELSE callbacks
    BY <1>1, <1>3, <2>1, FinishEffects
  <2>3. /\ batch'[n].error = "none" /\ batch'[n].done
        /\ batch'[n].calls = IF batch'[n].onComplete THEN 1 ELSE 0
    BY <1>3, <2>2 DEF Finished
  <2>4. /\ \A b \in 1..nbatch : b \in 1..MaxBatches /\ batch'[b] = batch[b]
        /\ \A b \in 1..MaxBatches : b # n => batch'[b] = batch[b]
        /\ batch'[n].reqs = reqs /\ batch'[n].chunks = 0 /\ batch'[n].bytes = 0
    BY <1>3, <2>2 DEF Finished, SameCounts
  <2> QED BY <1>1, <1>4, <2>2, <2>3, <2>4 DEF n
<1>6. CASE TotalChunks(reqs) # 0
  <2>1. batch' = added /\ active' = n /\ callbacks' = callbacks
    BY <1>6 DEF Submit
  <2> HIDE DEF added
  <2> QED BY <1>1, <1>3, <1>4, <2>1
<1> QED BY <1>5, <1>6

\* Where the batches stand: numbered from 1, the active one among them.
LEMMA BatchNumbers ==
    ASSUME TypeInv
    PROVE  /\ nbatch \in Nat /\ \A b \in 1..nbatch : b \in 1..MaxBatches /\ b # NoBatch
           /\ active # NoBatch => active \in 1..nbatch
BY ConstantsAssumption DEF TypeInv, TypeOK, BatchTypes, NoBatch

\* A callback that returns changes the error of its batch at most.
LEMMA CallbackEffects ==
    ASSUME NEW ok \in BOOLEAN, TypeInv, CallbackReturns(ok)
    PROVE  /\ UNCHANGED <<nbatch, active, closed, poisoned, pc>> /\ callbacks # <<>>
           /\ callbacks' = SubSeq(callbacks, 1, Len(callbacks) - 1)
           /\ \A b \in 1..MaxBatches :
                /\ batch'[b].done = batch[b].done /\ batch'[b].calls = batch[b].calls
                /\ batch'[b].onComplete = batch[b].onComplete /\ SameCounts(batch'[b], batch[b])
                /\ \/ batch'[b].error = batch[b].error
                   \/ batch'[b].error = "callback" /\ b = callbacks[Len(callbacks)]
<1>1. /\ UNCHANGED <<nbatch, active, closed, poisoned, pc>> /\ callbacks # <<>>
      /\ callbacks' = SubSeq(callbacks, 1, Len(callbacks) - 1)
  BY DEF CallbackReturns, lifeVars, frameVars, Front
<1> DEFINE l == callbacks[Len(callbacks)]
<1>2. batch' = batch \/ batch' = [batch EXCEPT ![l].error = "callback"]
  BY DEF CallbackReturns, Last
<1>3. batch \in [1..MaxBatches -> BatchState]
  BY DEF TypeInv, TypeOK, BatchTypes
<1> HIDE DEF l
<1>4. \A b \in 1..MaxBatches :
        /\ batch'[b].done = batch[b].done /\ batch'[b].calls = batch[b].calls
        /\ batch'[b].onComplete = batch[b].onComplete /\ SameCounts(batch'[b], batch[b])
        /\ \/ batch'[b].error = batch[b].error
           \/ batch'[b].error = "callback" /\ b = l
  <2>1. CASE batch' = batch
    BY <2>1 DEF SameCounts
  <2>2. CASE batch' = [batch EXCEPT ![l].error = "callback"]
    BY <1>3, <2>2 DEF BatchState, SameCounts
  <2> QED BY <1>2, <2>1, <2>2
<1> QED BY <1>1, <1>4 DEF l

\* FailInv is kept by the steps that end no batch.
LEMMA QuietFail ==
    ASSUME TypeInv, FailInv, QuietSteps
    PROVE  FailInv'
<1>1. /\ UNCHANGED <<nbatch, active>> /\ BatchesSame /\ (Usable' => Usable)
      /\ pc' = "idle" \/ pc # "idle" \/ (active # NoBatch /\ ~batch[active].done)
  BY QuietEffects
<1>2. \A b \in 1..nbatch : b \in 1..MaxBatches /\ (Failed(b)' <=> Failed(b))
  BY <1>1, BatchNumbers DEF BatchesSame, Failed, Succeeded
<1>3. active # NoBatch => batch'[active].done = batch[active].done
  BY <1>1, BatchNumbers DEF BatchesSame
<1>4. ASSUME NEW b \in 1..nbatch', Failed(b)'
      PROVE  pc' = "idle" /\ (active' = NoBatch => ~Usable') /\ (active' # NoBatch => batch'[active'].done)
  <2>1. b \in 1..nbatch /\ Failed(b)
    BY <1>1, <1>2, <1>4
  <2>2. pc = "idle" /\ (active = NoBatch => ~Usable) /\ (active # NoBatch => batch[active].done)
    BY <2>1 DEF FailInv
  <2> QED BY <1>1, <1>3, <2>2
<1>5. ASSUME NEW b \in 1..nbatch', ~batch'[b].done
      PROVE  /\ b = active' \/ (active' = NoBatch /\ ~Usable')
             /\ batch'[b].error \in {"none", "callback"}
  <2>1. b \in 1..nbatch /\ b \in 1..MaxBatches /\ ~batch[b].done /\ batch'[b].error = batch[b].error
    BY <1>1, <1>2, <1>5 DEF BatchesSame
  <2> QED BY <1>1, <2>1 DEF FailInv
<1>6. pc' # "idle" => active' # NoBatch /\ ~batch'[active'].done
  BY <1>1, <1>3 DEF FailInv
<1> QED BY <1>4, <1>5, <1>6 DEF FailInv

\* ... and by those that lose the transport.
LEMMA LosingFail ==
    ASSUME TypeInv, FailInv, LosingSteps
    PROVE  FailInv'
<1>1. active' = NoBatch /\ pc' = "idle" /\ ~Usable' /\ nbatch' = nbatch
  BY LosingEffects
<1>2. \/ batch' = batch
      \/ \E c \in 1..MaxBatches, e \in Errors \ {"none", "callback"} : ~batch[c].done /\ Ended(c, e)
  BY LosingEffects
<1>3. ASSUME NEW b \in 1..nbatch, ~batch'[b].done
      PROVE  batch'[b].error \in {"none", "callback"}
  <2>1. b \in 1..MaxBatches
    BY BatchNumbers
  <2>2. batch'[b] = batch[b]
    BY <1>2, <1>3, <2>1 DEF Ended
  <2> QED BY <1>3, <2>2 DEF FailInv
<1> QED BY <1>1, <1>3 DEF FailInv

\* ... by the success of a batch,
LEMMA SucceedFail ==
    ASSUME TypeInv, FailInv, Succeed
    PROVE  FailInv'
<1>1. pc # "idle" /\ active # NoBatch /\ nbatch' = nbatch /\ Usable' = Usable
      /\ FinishSuccess(active, batch)
  BY DEF Succeed, TypeInv, CallHasBatch, lifeVars, Usable
<1>2. active \in 1..MaxBatches /\ active \in 1..nbatch /\ batch \in [1..MaxBatches -> BatchState]
  BY <1>1, BatchNumbers DEF TypeInv, TypeOK, BatchTypes
<1>3. Finished(active, batch) /\ active' = NoBatch /\ pc' = "idle"
  BY <1>1, <1>2, FinishEffects
<1>4. ~batch[active].done /\ batch[active].error \in {"none", "callback"}
  BY <1>1, <1>2 DEF FailInv
<1>5. ASSUME NEW b \in 1..nbatch PROVE ~Failed(b)' /\ batch'[b].done
  <2>1. ~Failed(b) /\ b \in 1..MaxBatches
    BY <1>1, BatchNumbers DEF FailInv
  <2>2. CASE b = active
    BY <1>3, <1>4, <2>2 DEF Finished, Failed, Succeeded
  <2>3. CASE b # active
    <3>1. batch'[b] = batch[b] /\ batch[b].done
      BY <1>1, <1>3, <2>1, <2>3 DEF Finished, FailInv
    <3> QED BY <2>1, <3>1 DEF Failed, Succeeded
  <2> QED BY <2>2, <2>3
<1> QED BY <1>1, <1>3, <1>5 DEF FailInv

\* ... by a new batch,
LEMMA SubmitFail ==
    ASSUME NEW reqs \in RequestLists, NEW cb \in BOOLEAN, TypeInv, FailInv, Submit(reqs, cb)
    PROVE  FailInv'
<1> DEFINE n == nbatch + 1
<1>1. /\ nbatch' = n /\ \A b \in 1..nbatch : b \in 1..MaxBatches /\ batch'[b] = batch[b]
      /\ batch'[n].error = "none" /\ n \in 1..MaxBatches
      /\ \/ active' = NoBatch /\ pc' = "idle" /\ batch'[n].done
         \/ active' = n /\ ~batch'[n].done
  BY SubmitEffects
<1>2. pc = "idle" /\ Usable /\ active = NoBatch
  BY DEF Submit
<1>3. nbatch \in Nat /\ n # NoBatch
  BY BatchNumbers DEF NoBatch
<1>4. ASSUME NEW b \in 1..n
      PROVE  ~Failed(b)' /\ (batch'[b].done \/ (b = n /\ active' = n /\ batch'[n].error = "none"))
  <2>1. CASE b = n
    BY <1>1, <2>1 DEF Failed, Succeeded
  <2>2. CASE b # n
    <3>1. b \in 1..nbatch
      BY <1>3, <2>2
    <3>2. ~Failed(b) /\ batch[b].done /\ batch'[b] = batch[b]
      BY <1>1, <1>2, <3>1, BatchNumbers DEF FailInv
    <3> QED BY <3>2 DEF Failed, Succeeded
  <2> QED BY <2>1, <2>2
<1>5. pc' # "idle" => active' # NoBatch /\ ~batch'[active'].done
  BY <1>1, <1>3
<1> HIDE DEF n
<1> QED BY <1>1, <1>4, <1>5 DEF FailInv

\* ... by another scheduler that declares a batch of this one failed,
LEMMA ForeignFail ==
    ASSUME NEW c \in 1..MaxBatches, TypeInv, FailInv, ForeignWait(c)
    PROVE  FailInv'
<1>1. /\ pc = "idle" /\ c <= nbatch /\ ~batch[c].done /\ EndBatch(c, "transport")
      /\ UNCHANGED <<nbatch, active, pc, closed, poisoned>>
  BY DEF ForeignWait, lifeVars, frameVars
<1>2. Ended(c, "transport") /\ c \in 1..nbatch
  BY <1>1, EndBatchEnds, BatchNumbers DEF TypeInv, TypeOK
<1>3. Usable' = Usable
  BY <1>1 DEF Usable
<1>4. (active = NoBatch => ~Usable) /\ (active # NoBatch => c = active)
  BY <1>1, <1>2, BatchNumbers DEF FailInv
<1>5. ASSUME NEW b \in 1..nbatch, ~batch'[b].done
      PROVE  b # c /\ batch'[b] = batch[b]
  BY <1>2, <1>5, BatchNumbers DEF Ended
<1>6. active # NoBatch => batch'[active].done
  BY <1>2, <1>4 DEF Ended
<1> QED BY <1>1, <1>3, <1>4, <1>5, <1>6 DEF FailInv

\* ... and by a callback that returns.
LEMMA CallbackFail ==
    ASSUME NEW ok \in BOOLEAN, TypeInv, FailInv, CallbackReturns(ok)
    PROVE  FailInv'
<1>1. /\ UNCHANGED <<nbatch, active, closed, poisoned, pc>> 
      /\ \A b \in 1..MaxBatches :
            /\ batch'[b].done = batch[b].done
            /\ batch'[b].error = batch[b].error \/ batch'[b].error = "callback"
  BY CallbackEffects
<1>2. Usable' = Usable
  BY <1>1 DEF Usable
<1>3. ASSUME NEW b \in 1..nbatch, Failed(b)' PROVE Failed(b)
  BY <1>1, <1>3, BatchNumbers DEF Failed, Succeeded
<1>4. active # NoBatch => batch'[active].done = batch[active].done
  BY <1>1, BatchNumbers
<1>5. ASSUME NEW b \in 1..nbatch, ~batch'[b].done
      PROVE  ~batch[b].done /\ (batch'[b].error = batch[b].error \/ batch'[b].error = "callback")
  BY <1>1, <1>5, BatchNumbers
<1>6. ASSUME NEW b \in 1..nbatch', Failed(b)'
      PROVE  pc' = "idle" /\ (active' = NoBatch => ~Usable') /\ (active' # NoBatch => batch'[active'].done)
  <2>1. b \in 1..nbatch /\ Failed(b)
    BY <1>1, <1>3, <1>6
  <2> QED BY <1>1, <1>2, <1>4, <2>1 DEF FailInv
<1>7. ASSUME NEW b \in 1..nbatch', ~batch'[b].done
      PROVE  /\ b = active' \/ (active' = NoBatch /\ ~Usable')
             /\ batch'[b].error \in {"none", "callback"}
  BY <1>1, <1>2, <1>5, <1>7 DEF FailInv
<1>8. pc' # "idle" => active' # NoBatch /\ ~batch'[active'].done
  BY <1>1, <1>4 DEF FailInv
<1> QED BY <1>6, <1>7, <1>8 DEF FailInv

\* Every step is of one of these kinds.
LEMMA StepKinds ==
    ASSUME [Next]_vars
    PROVE  \/ QuietSteps \/ LosingSteps \/ Succeed
           \/ \E reqs \in RequestLists, cb \in BOOLEAN : Submit(reqs, cb)
           \/ \E b \in 1..MaxBatches : ForeignWait(b)
           \/ \E ok \in BOOLEAN : CallbackReturns(ok)
BY DEF Next, Refill, Poll, Call, Wait, QuietSteps, LosingSteps

\* FailInv holds in every reachable state.
THEOREM FailInvHolds == Spec => []FailInv
<1>1. Init => FailInv
  BY DEF Init, FailInv
<1>2. TypeInv /\ FailInv /\ [Next]_vars => FailInv'
  BY StepKinds, QuietFail, LosingFail, SucceedFail, SubmitFail, ForeignFail, CallbackFail
<1> QED BY <1>1, <1>2, TypeInvHolds, PTL DEF Spec

\* Once a batch has failed, or the transport is lost with none active, no step
\* posts a work request, for any number of batches and QPs: not the call that
\* failed, none that follows, and not after another scheduler's wait() declared
\* the failure.
THEOREM NothingPostedAfterFailure == Spec => NoPostAfterFailure
<1>1. TypeInv /\ FailInv /\ [Next]_vars
        => [TransportLost => \A q \in QPs : Len(sq'[q]) <= Len(sq[q])]_vars
  <2> SUFFICES ASSUME TypeInv, FailInv, Next, TransportLost, NEW q \in QPs
               PROVE  Len(sq'[q]) <= Len(sq[q])
    OBVIOUS
  <2>1. pc = "idle"
    BY DEF TransportLost, TypeInv, CallHasBatch, FailInv, Failed
  <2>2. sq \in [QPs -> Seq(Work)]
    BY DEF TypeInv, TypeOK, HwTypes
  <2>3. sq'[q] = sq[q] \/ (sq[q] # <<>> /\ sq'[q] = Tail(sq[q]))
    <3>1. CASE Hardware
      BY <2>2, <3>1 DEF Hardware, HwComplete, HwError
    <3>2. CASE ~Hardware
      <4>1. sq' = sq
        BY <2>1, <3>2 DEF Next, Refill, Poll, Failure, Call, Wait, AllocSkip, AllocChunk, AllocStop,
            AllocRound, PostQP, RefillReturn, PollCQ, HandleWc, HandleBadWc, NextCQ, PollEnd, Succeed,
            NotYet, AllocFail, PostFail, PollFail, TimedOut, Cancelled, WaitForeign, Submit, Progress,
            KeepWaiting, WaitLeftBehind, Close, Connect, ConnectFail, ForeignWait, CallbackReturns,
            FailTransport, LoseTransport, hwVars
      <4> QED BY <4>1
    <3> QED BY <3>1, <3>2
  <2> DEFINE s == sq[q]
  <2>4. s \in Seq(Work)
    BY <2>2
  <2> HIDE DEF s
  <2>5. Len(s) <= Len(s)
    BY <2>4
  <2>6. s # <<>> => Len(Tail(s)) <= Len(s)
    BY <2>4
  <2> QED BY <2>3, <2>5, <2>6 DEF s
<1> QED BY <1>1, TypeInvHolds, FailInvHolds, PTL DEF Spec, NoPostAfterFailure

(***************************************************************************)
(* Callbacks                                                               *)
(***************************************************************************)

\* The callbacks on the stack are those of batches that succeeded.
CallbackInv ==
    /\ CalledExactly
    /\ \A i \in 1..Len(callbacks) : callbacks[i] \in 1..nbatch /\ Succeeded(callbacks[i])

\* Ended and unchanged batches keep the count of their calls.
LEMMA StillCalled ==
    ASSUME TypeInv, CallbackInv, UNCHANGED <<nbatch, callbacks>>,
           \A b \in 1..nbatch :
               /\ Succeeded(b)' <=> Succeeded(b)
               /\ batch'[b].calls = batch[b].calls /\ batch'[b].onComplete = batch[b].onComplete
    PROVE  CallbackInv'
<1>1. \A i \in 1..Len(callbacks) : callbacks[i] \in 1..nbatch /\ Succeeded(callbacks[i])'
  BY DEF CallbackInv
<1>2. CalledExactly'
  BY DEF CallbackInv, CalledExactly
<1> QED BY <1>1, <1>2 DEF CallbackInv

\* A batch that was not done and is ended with an error has not succeeded.
LEMMA EndedStillCalled ==
    ASSUME TypeInv, CallbackInv, UNCHANGED <<nbatch, callbacks>>,
           NEW c \in 1..MaxBatches, NEW e \in Errors \ {"none", "callback"},
           ~batch[c].done, Ended(c, e)
    PROVE  CallbackInv'
<1>1. ASSUME NEW b \in 1..nbatch
      PROVE  /\ Succeeded(b)' <=> Succeeded(b)
             /\ batch'[b].calls = batch[b].calls /\ batch'[b].onComplete = batch[b].onComplete
  <2>1. b \in 1..MaxBatches
    BY BatchNumbers
  <2>2. CASE b = c
    BY <2>2 DEF Ended, Succeeded
  <2>3. CASE b # c
    BY <2>1, <2>3 DEF Ended, Succeeded
  <2> QED BY <2>2, <2>3
<1> QED BY <1>1, StillCalled

\* The steps that call no on_complete and end no callback.
LEMMA QuietCallbacks ==
    ASSUME TypeInv, FailInv, CallbackInv,
           QuietSteps \/ LosingSteps \/ \E b \in 1..MaxBatches : ForeignWait(b)
    PROVE  CallbackInv'
<1>1. CASE QuietSteps
  <2>1. UNCHANGED <<nbatch, callbacks>> /\ BatchesSame
    BY <1>1, QuietEffects
  <2>2. \A b \in 1..nbatch :
            /\ Succeeded(b)' <=> Succeeded(b)
            /\ batch'[b].calls = batch[b].calls /\ batch'[b].onComplete = batch[b].onComplete
    BY <2>1, BatchNumbers DEF BatchesSame, Succeeded
  <2> QED BY <2>1, <2>2, StillCalled
<1>2. CASE LosingSteps
  <2>1. UNCHANGED <<nbatch, callbacks>>
    BY <1>2, LosingEffects
  <2>2. CASE batch' = batch
    <3>1. \A b \in 1..nbatch :
            /\ Succeeded(b)' <=> Succeeded(b)
            /\ batch'[b].calls = batch[b].calls /\ batch'[b].onComplete = batch[b].onComplete
      BY <2>2 DEF Succeeded
    <3> QED BY <2>1, <3>1, StillCalled
  <2>3. CASE batch' # batch
    <3>1. PICK c \in 1..MaxBatches : \E e \in Errors \ {"none", "callback"} : ~batch[c].done /\ Ended(c, e)
      BY <1>2, <2>3, LosingEffects
    <3> QED BY <2>1, <3>1, EndedStillCalled
  <2> QED BY <2>2, <2>3
<1>3. ASSUME NEW b \in 1..MaxBatches, ForeignWait(b) PROVE CallbackInv'
  <2>1. ~batch[b].done /\ EndBatch(b, "transport") /\ UNCHANGED <<nbatch, callbacks>>
    BY <1>3 DEF ForeignWait
  <2>2. Ended(b, "transport") /\ "transport" \in Errors \ {"none", "callback"}
    BY <2>1, EndBatchEnds DEF TypeInv, TypeOK, Errors
  <2> QED BY <2>1, <2>2, EndedStillCalled
<1> QED BY <1>1, <1>2, <1>3

\* A stack of numbers of batches that succeeded, with another such on top.
LEMMA OneMoreCallback ==
    ASSUME NEW S, NEW T, callbacks \in Seq(T), NEW n \in S,
           \A i \in 1..Len(callbacks) : callbacks[i] \in S,
           callbacks' = callbacks \/ (n \in T /\ callbacks' = Append(callbacks, n))
    PROVE  \A i \in 1..Len(callbacks') : callbacks'[i] \in S
<1>1. CASE callbacks' = callbacks
  BY <1>1
<1>2. CASE n \in T /\ callbacks' = Append(callbacks, n)
  <2>1. callbacks \in Seq(T) /\ n \in T
    BY <1>2
  <2>2. /\ Len(Append(callbacks, n)) = Len(callbacks) + 1
        /\ \A i \in 1..Len(callbacks) : Append(callbacks, n)[i] = callbacks[i]
        /\ Append(callbacks, n)[Len(callbacks) + 1] = n
    BY <2>1, AppendProperties
  <2> DEFINE k == Len(callbacks)
  <2>3. k \in Nat
    BY <2>1
  <2>4. Len(callbacks') = k + 1 /\ callbacks'[k + 1] = n /\ \A i \in 1..k : callbacks'[i] \in S
    BY <1>2, <2>2
  <2> HIDE DEF k
  <2>5. \A i \in 1..(k + 1) : i \in 1..k \/ i = k + 1
    BY <2>3
  <2> QED BY <2>4, <2>5
<1> QED BY <1>1, <1>2

\* The batch that succeeds is called back once: it was not done before.
LEMMA SucceedCallbacks ==
    ASSUME TypeInv, FailInv, CallbackInv, Succeed
    PROVE  CallbackInv'
<1>1. pc # "idle" /\ active # NoBatch /\ nbatch' = nbatch /\ FinishSuccess(active, batch)
  BY DEF Succeed, TypeInv, CallHasBatch
<1>2. /\ active \in 1..MaxBatches /\ active \in 1..nbatch /\ batch \in [1..MaxBatches -> BatchState]
      /\ callbacks \in Seq(1..MaxBatches)
  BY <1>1, BatchNumbers DEF TypeInv, TypeOK, BatchTypes
<1>3. /\ Finished(active, batch)
      /\ callbacks' = callbacks \/ callbacks' = Append(callbacks, active)
  BY <1>1, <1>2, FinishEffects
<1>4. ~batch[active].done /\ batch[active].error \in {"none", "callback"}
  BY <1>1, <1>2 DEF FailInv
<1>5. batch[active].calls = 0 /\ batch[active].onComplete \in BOOLEAN
  BY <1>2, <1>4 DEF CallbackInv, CalledExactly, Succeeded, BatchState
<1> PICK a \in 1..nbatch : a = active
  BY <1>2
<1>6. Succeeded(a)' /\ batch'[a].calls = IF batch'[a].onComplete THEN 1 ELSE 0
  <2>1. batch'[a].done /\ batch'[a].error \in {"none", "callback"}
    BY <1>3, <1>4 DEF Finished
  <2>2. batch'[a].calls = IF batch'[a].onComplete THEN 1 ELSE 0
    BY <1>3, <1>5 DEF Finished
  <2> QED BY <2>1, <2>2 DEF Succeeded
<1>7. \A b \in 1..nbatch : b # a => batch'[b] = batch[b] /\ (Succeeded(b)' <=> Succeeded(b))
  BY <1>3, BatchNumbers DEF Finished, Succeeded
<1>8. CalledExactly'
  BY <1>1, <1>6, <1>7 DEF CallbackInv, CalledExactly
<1> DEFINE S == {b \in 1..nbatch : Succeeded(b)'}
<1>9. \A i \in 1..Len(callbacks) : callbacks[i] \in S
  BY <1>6, <1>7 DEF CallbackInv
<1>10. a \in S
  BY <1>6
<1> HIDE DEF S
<1>11. \A i \in 1..Len(callbacks') : callbacks'[i] \in S
  BY <1>2, <1>3, <1>9, <1>10, OneMoreCallback
<1>12. \A i \in 1..Len(callbacks') :
          /\ callbacks'[i] \in 1..nbatch /\ batch'[callbacks'[i]].done
          /\ batch'[callbacks'[i]].error \in {"none", "callback"}
  BY <1>11 DEF S, Succeeded
<1> QED BY <1>1, <1>8, <1>12 DEF CallbackInv, Succeeded

\* The first n elements of a sequence.
LEMMA PrefixIs ==
    ASSUME NEW T, NEW s \in Seq(T), NEW n \in Nat, n <= Len(s)
    PROVE  Len(SubSeq(s, 1, n)) = n /\ \A i \in 1..n : SubSeq(s, 1, n)[i] = s[i]
<1> DEFINE k == Len(s)
<1>1. k \in Nat /\ n <= k
  OBVIOUS
<1>2. \A i \in 1..k : s[i] \in T
  BY ElementOfSeq
<1> HIDE DEF k
<1>3. \A i \in 1..n : s[i] \in T
  BY <1>1, <1>2
<1>4. /\ Len(SubSeq(s, 1, n)) = IF 1 <= n THEN n - 1 + 1 ELSE 0
      /\ \A i \in 1..(n - 1 + 1) : SubSeq(s, 1, n)[i] = s[1 + i - 1]
  <2>1. 1 \in Int /\ n \in Int
    OBVIOUS
  <2> QED BY <1>3, <2>1, SubSeqProperties
<1>5. (IF 1 <= n THEN n - 1 + 1 ELSE 0) = n /\ n - 1 + 1 = n /\ \A i \in 1..n : 1 + i - 1 = i
  OBVIOUS
<1> DEFINE r == SubSeq(s, 1, n)
<1>6. Len(r) = n
  BY <1>4, <1>5
<1>7. \A i \in 1..n : r[i] = s[1 + i - 1]
  BY <1>4, <1>5
<1> HIDE DEF r
<1>8. \A i \in 1..n : r[i] = s[i]
  BY <1>5, <1>7
<1> QED BY <1>6, <1>8 DEF r

\* An empty batch is called back from submit.
LEMMA SubmitCallbacks ==
    ASSUME NEW reqs \in RequestLists, NEW cb \in BOOLEAN, TypeInv, CallbackInv, Submit(reqs, cb)
    PROVE  CallbackInv'
<1> PICK n : n = nbatch + 1
  OBVIOUS
<1>1. /\ nbatch' = n /\ \A b \in 1..nbatch : b \in 1..MaxBatches /\ batch'[b] = batch[b]
      /\ batch'[n].error = "none" /\ n \in 1..MaxBatches
  BY SubmitEffects
<1>2. \/ /\ batch'[n].done /\ batch'[n].calls = IF batch'[n].onComplete THEN 1 ELSE 0
         /\ callbacks' = callbacks \/ callbacks' = Append(callbacks, n)
      \/ ~batch'[n].done /\ callbacks' = callbacks /\ batch'[n].calls = 0
  BY SubmitEffects
<1>3. callbacks \in Seq(1..MaxBatches) /\ nbatch \in Nat
  BY BatchNumbers DEF TypeInv, TypeOK, BatchTypes
<1>4. n \in 1..n /\ \A b \in 1..n : b \in 1..nbatch \/ b = n
  BY <1>3
<1>5. 1..nbatch \subseteq 1..n
  BY <1>3
<1>6. \A b \in 1..nbatch : Succeeded(b)' <=> Succeeded(b)
  BY <1>1 DEF Succeeded
<1>7. ASSUME NEW b \in 1..n
      PROVE  batch'[b].calls = IF Succeeded(b)' /\ batch'[b].onComplete THEN 1 ELSE 0
  <2>1. CASE b = n
    BY <1>1, <1>2, <2>1 DEF Succeeded
  <2>2. CASE b \in 1..nbatch
    BY <1>1, <1>6, <2>2 DEF CallbackInv, CalledExactly
  <2> QED BY <1>4, <2>1, <2>2
<1>8. CalledExactly'
  BY <1>1, <1>7 DEF CalledExactly
<1> DEFINE S == {b \in 1..n : Succeeded(b)'}
<1>9. \A i \in 1..Len(callbacks) : callbacks[i] \in S
  BY <1>5, <1>6 DEF CallbackInv
<1>10. \A i \in 1..Len(callbacks') : callbacks'[i] \in S
  <2>1. CASE callbacks' = callbacks
    BY <1>9, <2>1
  <2>2. CASE batch'[n].done /\ callbacks' = Append(callbacks, n)
    <3>1. Succeeded(n)'
      BY <1>1, <2>2 DEF Succeeded
    <3>2. n \in S
      BY <1>4, <3>1
    <3> HIDE DEF S
    <3> QED BY <1>1, <1>3, <1>9, <2>2, <3>2, OneMoreCallback
  <2> QED BY <1>2, <2>1, <2>2
<1>11. \A i \in 1..Len(callbacks') :
          /\ callbacks'[i] \in 1..n /\ batch'[callbacks'[i]].done
          /\ batch'[callbacks'[i]].error \in {"none", "callback"}
  BY <1>10 DEF Succeeded
<1> QED BY <1>1, <1>8, <1>11 DEF CallbackInv, Succeeded

\* A callback that ends marks a batch that succeeded, which it stays.
LEMMA ReturnCallbacks ==
    ASSUME NEW ok \in BOOLEAN, TypeInv, CallbackInv, CallbackReturns(ok)
    PROVE  CallbackInv'
<1>1. nbatch' = nbatch /\ callbacks # <<>> /\ callbacks' = SubSeq(callbacks, 1, Len(callbacks) - 1)
  BY CallbackEffects
<1>2. \A b \in 1..MaxBatches :
        /\ batch'[b].done = batch[b].done /\ batch'[b].calls = batch[b].calls
        /\ batch'[b].onComplete = batch[b].onComplete
        /\ \/ batch'[b].error = batch[b].error
           \/ batch'[b].error = "callback" /\ b = callbacks[Len(callbacks)]
  BY CallbackEffects
<1>3. callbacks \in Seq(1..MaxBatches)
  BY DEF TypeInv, TypeOK, BatchTypes
<1> DEFINE k == Len(callbacks)
<1>4. k \in Nat \ {0}
  BY <1>1, <1>3, EmptySeq
<1>5. callbacks[k] \in 1..nbatch /\ Succeeded(callbacks[k])
  <2>1. k \in 1..k
    BY <1>4
  <2> QED BY <2>1 DEF CallbackInv
<1>6. ASSUME NEW b \in 1..nbatch PROVE Succeeded(b)' <=> Succeeded(b)
  <2>1. b \in 1..MaxBatches
    BY BatchNumbers
  <2>2. CASE batch'[b].error = batch[b].error
    BY <1>2, <2>1, <2>2 DEF Succeeded
  <2>3. CASE batch'[b].error = "callback" /\ b = callbacks[Len(callbacks)]
    <3>1. Succeeded(b) /\ batch[b].done
      BY <1>5, <2>3 DEF Succeeded
    <3>2. Succeeded(b)'
      BY <1>2, <2>1, <2>3, <3>1 DEF Succeeded
    <3> QED BY <3>1, <3>2
  <2> QED BY <1>2, <2>1, <2>2, <2>3
<1>7. CalledExactly'
  <2>1. \A b \in 1..nbatch : batch'[b].calls = batch[b].calls /\ batch'[b].onComplete = batch[b].onComplete
    BY <1>2, BatchNumbers
  <2> QED BY <1>1, <1>6, <2>1 DEF CallbackInv, CalledExactly
<1>8. Len(callbacks') = k - 1 /\ \A i \in 1..(k - 1) : callbacks'[i] = callbacks[i]
  <2>1. 1 \in 1..(k + 1) /\ k - 1 \in 0..k /\ k - 1 \in Nat
    BY <1>4
  <2> DEFINE T == 1..MaxBatches
  <2>2. callbacks \in Seq(T)
    BY <1>3
  <2> HIDE DEF T
  <2>3. Len(SubSeq(callbacks, 1, k - 1)) = (k - 1)
        /\ \A i \in 1..(k - 1) : SubSeq(callbacks, 1, k - 1)[i] = callbacks[i]
    <3>1. k - 1 <= Len(callbacks)
      BY <1>4
    <3> HIDE DEF k
    <3> QED BY <2>1, <2>2, <3>1, PrefixIs
  <2> QED BY <1>1, <2>3
<1>9. \A i \in 1..(k - 1) : i \in 1..k
  BY <1>4
<1>10. \A i \in 1..Len(callbacks') :
          /\ callbacks'[i] \in 1..nbatch /\ batch'[callbacks'[i]].done
          /\ batch'[callbacks'[i]].error \in {"none", "callback"}
  <2> SUFFICES ASSUME NEW i \in 1..Len(callbacks')
               PROVE  /\ callbacks'[i] \in 1..nbatch /\ batch'[callbacks'[i]].done
                      /\ batch'[callbacks'[i]].error \in {"none", "callback"}
    OBVIOUS
  <2> PICK b : b = callbacks[i]
    OBVIOUS
  <2>1. b \in 1..nbatch /\ Succeeded(b) /\ callbacks'[i] = b
    BY <1>8, <1>9 DEF CallbackInv
  <2>2. Succeeded(b)'
    BY <1>6, <2>1
  <2> QED BY <2>1, <2>2 DEF Succeeded
<1> QED BY <1>1, <1>7, <1>10 DEF CallbackInv, Succeeded

\* CallbackInv holds in every reachable state.
THEOREM CallbackInvHolds == Spec => []CallbackInv
<1>1. Init => CallbackInv
  <2> SUFFICES ASSUME Init PROVE CallbackInv
    OBVIOUS
  <2>1. nbatch = 0 /\ callbacks = <<>>
    BY DEF Init
  <2> QED BY <2>1 DEF CallbackInv, CalledExactly
<1>2. TypeInv /\ FailInv /\ CallbackInv /\ [Next]_vars => CallbackInv'
  BY StepKinds, QuietCallbacks, SucceedCallbacks, SubmitCallbacks, ReturnCallbacks
<1> QED BY <1>1, <1>2, TypeInvHolds, FailInvHolds, PTL DEF Spec

\* on_complete was called exactly once for every batch that succeeded with one,
\* and never for one that failed, whatever the callbacks do: submit, wait or
\* close from inside, or raise.
THEOREM CalledExactlyOnce == Spec => []CalledExactly
<1>1. CallbackInv => CalledExactly
  BY DEF CallbackInv
<1> QED BY <1>1, CallbackInvHolds, PTL

(***************************************************************************)
(* What submit adds up                                                     *)
(***************************************************************************)

\* A set of naturals that is not empty has a least element.
LEMMA LeastNatural ==
    ASSUME NEW T, T \subseteq Nat, T # {}
    PROVE  \E n \in T : \A m \in T : n <= m
<1>1. PICK n \in T : \A m \in T : ~ (<<m, n>> \in OpToRel(<, Nat))
  BY NatLessThanWellFounded, WFMin
<1>2. \A m \in T : ~ (m < n)
  BY <1>1 DEF OpToRel
<1> QED BY <1>2

\* Induction, as a fact about a set: one that holds 0 and the successors of its
\* elements holds every natural number.
LEMMA NatSet ==
    ASSUME NEW S, 0 \in S, \A n \in Nat : n \in S => n + 1 \in S
    PROVE  Nat \subseteq S
<1> SUFFICES ASSUME Nat \ S # {} PROVE FALSE
  OBVIOUS
<1>1. PICK n \in Nat \ S : \A m \in Nat \ S : n <= m
  <2> DEFINE T == Nat \ S
  <2>1. T \subseteq Nat /\ T # {}
    OBVIOUS
  <2> HIDE DEF T
  <2>2. \E n \in T : \A m \in T : n <= m
    BY <2>1, LeastNatural
  <2> QED BY <2>2 DEF T
<1>2. n - 1 \in Nat /\ n - 1 \in S
  BY <1>1
<1> QED BY <1>1, <1>2

\* The largest element of a set of positions.
LEMMA MaxIs ==
    ASSUME NEW n \in Nat, NEW s \in SUBSET (1..n), s # {}
    PROVE  Max(s) \in s /\ \A y \in s : Max(s) >= y
<1> DEFINE T == {k \in Nat : \A y \in s : k >= y}
<1>1. T \subseteq Nat /\ n \in T
  OBVIOUS
<1>2. PICK k \in T : \A m \in T : k <= m
  <2> HIDE DEF T
  <2> QED BY <1>1, LeastNatural
<1>3. k \in s
  <2> SUFFICES ASSUME k \notin s PROVE FALSE
    OBVIOUS
  <2>1. \A y \in s : y \in Nat \ {0} /\ k >= y /\ y # k
    BY <1>2
  <2> PICK z \in s : TRUE
    OBVIOUS
  <2>2. k \in Nat \ {0} /\ \A y \in s : k - 1 >= y
    <3>1. k \in Nat /\ z \in Nat \ {0} /\ k >= z
      BY <1>2, <2>1
    <3>2. k \in Nat \ {0}
      BY <3>1
    <3> QED BY <2>1, <3>2
  <2>3. k - 1 \in T
    BY <2>2
  <2> QED BY <1>2, <2>2, <2>3
<1>4. \E x \in s : \A y \in s : x >= y
  BY <1>2, <1>3
<1> QED BY <1>4 DEF Max

\* f is the fold that adds up the weights w at the positions of every part of D.
Adds(f, w, D) ==
    f = [s \in SUBSET D |-> IF s = {} THEN 0 ELSE f[s \ {Max(s)}] + w[Max(s)]]

\* There is such a fold: it is extended by a position at a time.
LEMMA AddsExists ==
    ASSUME NEW n \in Nat, NEW w
    PROVE  \E f : Adds(f, w, 1..n)
<1> DEFINE S == {m \in Nat : \E f : Adds(f, w, 1..m)}
<1>1. 0 \in S
  <2> DEFINE f == [s \in SUBSET (1..0) |-> 0]
  <2>1. \A s \in SUBSET (1..0) : s = {}
    OBVIOUS
  <2>2. f = [s \in SUBSET (1..0) |-> IF s = {} THEN 0 ELSE f[s \ {Max(s)}] + w[Max(s)]]
    BY <2>1
  <2> QED BY <2>2 DEF Adds
<1>2. ASSUME NEW m \in Nat, m \in S PROVE m + 1 \in S
  <2>1. PICK f : Adds(f, w, 1..m)
    BY <1>2
  <2> DEFINE E == SUBSET (1..(m + 1))
  <2> DEFINE g == [s \in E |-> IF m + 1 \in s THEN f[s \ {m + 1}] + w[m + 1] ELSE f[s]]
  <2>2. ASSUME NEW s \in E, s # {}
        PROVE  g[s] = g[s \ {Max(s)}] + w[Max(s)]
    <3>1. Max(s) \in s /\ \A y \in s : Max(s) >= y
      <4> DEFINE n1 == m + 1
      <4>1. n1 \in Nat /\ s \in SUBSET (1..n1)
        BY <1>2
      <4> HIDE DEF n1
      <4> QED BY <2>2, <4>1, MaxIs
    <3>2. s \ {Max(s)} \in E
      OBVIOUS
    <3>3. CASE m + 1 \in s
      <4>1. Max(s) \in 1..(m + 1) /\ Max(s) >= m + 1
        BY <3>1, <3>3
      <4>2. Max(s) = m + 1
        BY <4>1
      <4>3. m + 1 \notin s \ {Max(s)}
        BY <4>2
      <4>4. g[s \ {Max(s)}] = f[s \ {Max(s)}]
        BY <3>2, <4>3
      <4>5. g[s] = f[s \ {m + 1}] + w[m + 1]
        BY <3>3
      <4> QED BY <4>2, <4>4, <4>5
    <3>4. CASE m + 1 \notin s
      <4>1. s \in SUBSET (1..m)
        BY <3>4
      <4>2. f[s] = f[s \ {Max(s)}] + w[Max(s)]
        <5>1. f = [t \in SUBSET (1..m) |-> IF t = {} THEN 0 ELSE f[t \ {Max(t)}] + w[Max(t)]]
          BY <2>1 DEF Adds
        <5> DEFINE F(t) == IF t = {} THEN 0 ELSE f[t \ {Max(t)}] + w[Max(t)]
        <5>2. \A t \in SUBSET (1..m) : f[t] = F(t)
          <6>1. f = [t \in SUBSET (1..m) |-> F(t)]
            BY <5>1
          <6> HIDE DEF F
          <6> QED BY <6>1
        <5>3. f[s] = F(s)
          BY <4>1, <5>2
        <5> QED BY <2>2, <5>3
      <4>3. g[s] = f[s] /\ g[s \ {Max(s)}] = f[s \ {Max(s)}]
        BY <3>2, <3>4
      <4> QED BY <4>2, <4>3
    <3> QED BY <3>3, <3>4
  <2>3. g[{}] = 0
    <3>1. {} \in E /\ g[{}] = f[{}]
      OBVIOUS
    <3>2. f[{}] = 0
      BY <2>1 DEF Adds
    <3> QED BY <3>1, <3>2
  <2>4. DOMAIN g = E
    OBVIOUS
  <2>5. g = [s \in E |-> g[s]]
    BY <2>4
  <2> HIDE DEF g, E
  <2>6. g = [s \in E |-> IF s = {} THEN 0 ELSE g[s \ {Max(s)}] + w[Max(s)]]
    <3>1. \A s \in E : g[s] = IF s = {} THEN 0 ELSE g[s \ {Max(s)}] + w[Max(s)]
      BY <2>2, <2>3
    <3> QED BY <2>5, <3>1
  <2>7. Adds(g, w, 1..(m + 1))
    BY <2>6 DEF Adds, E
  <2>8. m + 1 \in Nat
    BY <1>2
  <2> QED BY <2>7, <2>8
<1> HIDE DEF S
<1>3. Nat \subseteq S
  BY <1>1, <1>2, NatSet
<1> QED BY <1>3 DEF S

\* p[k] is the sum of the first k of n weights.
RunningSums(p, w, n) == p \in [0..n -> Nat] /\ p[0] = 0 /\ \A k \in 1..n : p[k] = p[k - 1] + w[k]

\* A fold that adds up ends with the last of these sums.
LEMMA AddsPrefixes ==
    ASSUME NEW n \in Nat, NEW w, \A i \in 1..n : w[i] \in Nat, NEW f, Adds(f, w, 1..n)
    PROVE  \E p : RunningSums(p, w, n) /\ p[n] = f[1..n]
<1> DEFINE F(t) == IF t = {} THEN 0 ELSE f[t \ {Max(t)}] + w[Max(t)]
<1>1. \A t \in SUBSET (1..n) : f[t] = F(t)
  <2>1. f = [t \in SUBSET (1..n) |-> F(t)]
    BY DEF Adds
  <2> HIDE DEF F
  <2> QED BY <2>1
<1>2. f[1..0] = 0
  <2>1. 1..0 = {} /\ {} \in SUBSET (1..n)
    OBVIOUS
  <2> QED BY <1>1, <2>1
<1>3. ASSUME NEW k \in 1..n PROVE f[1..k] = f[1..(k - 1)] + w[k]
  <2>1. 1..k \in SUBSET (1..n) /\ 1..k # {} /\ k \in Nat
    OBVIOUS
  <2>2. Max(1..k) \in 1..k /\ \A y \in 1..k : Max(1..k) >= y
    <3> DEFINE s == 1..k
    <3>1. s \in SUBSET (1..n) /\ s # {}
      BY <2>1
    <3> HIDE DEF s
    <3>2. Max(s) \in s /\ \A y \in s : Max(s) >= y
      BY <3>1, MaxIs
    <3> QED BY <3>2 DEF s
  <2>3. Max(1..k) = k
    BY <2>1, <2>2
  <2>4. (1..k) \ {k} = 1..(k - 1)
    BY <2>1
  <2>5. f[1..k] = f[(1..k) \ {Max(1..k)}] + w[Max(1..k)]
    BY <1>1, <2>1
  <2> QED BY <2>3, <2>4, <2>5
<1> DEFINE p == [k \in 0..n |-> f[1..k]]
<1>4. p[0] = 0 /\ \A k \in 1..n : p[k] = p[k - 1] + w[k]
  <2>1. 0 \in 0..n /\ \A k \in 1..n : k \in 0..n /\ k - 1 \in 0..n
    OBVIOUS
  <2>2. p[0] = 0
    BY <1>2, <2>1
  <2>3. ASSUME NEW k \in 1..n PROVE p[k] = p[k - 1] + w[k]
    <3>1. p[k] = f[1..k] /\ p[k - 1] = f[1..(k - 1)]
      BY <2>1
    <3> QED BY <1>3, <3>1
  <2> QED BY <2>2, <2>3
<1>5. p[n] = f[1..n] /\ DOMAIN p = 0..n /\ p = [k \in 0..n |-> p[k]]
  OBVIOUS
<1> HIDE DEF p, F
<1> DEFINE S == {k \in Nat : k <= n => p[k] \in Nat}
<1>6. 0 \in S
  BY <1>4
<1>7. ASSUME NEW k \in Nat, k \in S PROVE k + 1 \in S
  <2> SUFFICES ASSUME k + 1 <= n PROVE p[k + 1] \in Nat
    OBVIOUS
  <2>1. p[k] \in Nat /\ k + 1 \in 1..n /\ (k + 1) - 1 = k
    BY <1>7
  <2>2. p[k + 1] = p[(k + 1) - 1] + w[k + 1]
    BY <1>4, <2>1
  <2>3. p[k + 1] = p[k] + w[k + 1] /\ w[k + 1] \in Nat
    BY <2>1, <2>2
  <2> QED BY <2>1, <2>3
<1> HIDE DEF S
<1>8. Nat \subseteq S
  BY <1>6, <1>7, NatSet
<1>9. \A k \in 0..n : p[k] \in Nat
  BY <1>8 DEF S
<1>10. p \in [0..n -> Nat]
  BY <1>5, <1>9
<1> QED BY <1>4, <1>5, <1>10 DEF RunningSums

\* The number of chunks of one request.
Ceil(len) == (len + ChunkSize - 1) \div ChunkSize

\* total_bytes and total_chunks of submit, as sums over the first requests.
BytesUpTo(reqs, p) ==
    /\ p \in [0..Len(reqs) -> Nat] /\ p[0] = 0 /\ p[Len(reqs)] = TotalBytes(reqs)
    /\ \A k \in 1..Len(reqs) : p[k] = p[k - 1] + reqs[k]

ChunksUpTo(reqs, p) ==
    /\ p \in [0..Len(reqs) -> Nat] /\ p[0] = 0 /\ p[Len(reqs)] = TotalChunks(reqs)
    /\ \A k \in 1..Len(reqs) : p[k] = p[k - 1] + Ceil(reqs[k])

\* total_bytes is the sum of the lengths, reached request by request.
LEMMA BytesAddUp ==
    ASSUME NEW reqs \in Seq(Nat \ {0})
    PROVE  \E p : BytesUpTo(reqs, p)
<1> DEFINE f == CHOOSE f : Adds(f, reqs, DOMAIN reqs)
<1> DEFINE n == Len(reqs)
<1>1. n \in Nat /\ DOMAIN reqs = 1..n /\ \A i \in 1..n : reqs[i] \in Nat
  BY LenProperties, ElementOfSeq
<1>2. TotalBytes(reqs) = f[DOMAIN reqs]
  BY DEF TotalBytes, FoldLeft, MapThenFoldSet, Adds
<1>3. \E g : Adds(g, reqs, DOMAIN reqs)
  <2> HIDE DEF n
  <2> QED BY <1>1, AddsExists
<1>4. Adds(f, reqs, 1..n)
  <2>1. Adds(f, reqs, DOMAIN reqs)
    BY <1>3
  <2> QED BY <1>1, <2>1
<1> HIDE DEF f, n
<1>5. \E p : RunningSums(p, reqs, n) /\ p[n] = f[1..n]
  <2>1. \A i \in 1..n : reqs[i] \in Nat
    BY <1>1
  <2> QED BY <1>1, <1>4, <2>1, AddsPrefixes
<1> QED BY <1>1, <1>2, <1>5 DEF BytesUpTo, RunningSums, n

\* A request has at least one chunk.
LEMMA CeilIs ==
    ASSUME NEW len \in Nat \ {0}
    PROVE  /\ Ceil(len) \in Nat \ {0}
           /\ \A k \in Nat : k * ChunkSize < len /\ len <= k * ChunkSize + ChunkSize => Ceil(len) = k + 1
<1>1. ChunkSize \in Nat \ {0}
  BY ConstantsAssumption
<1>2. Ceil(len) \in Nat
  BY <1>1 DEF Ceil
<1> DEFINE x == len + ChunkSize - 1
<1> DEFINE d == x \div ChunkSize
<1>3. x \in Nat /\ x >= ChunkSize
  BY <1>1
<1> HIDE DEF x
<1>4. d \in Nat /\ x = ChunkSize * d + (x % ChunkSize) /\ x % ChunkSize \in 0..(ChunkSize - 1)
  BY <1>1, <1>3
<1> DEFINE m == x % ChunkSize
<1> HIDE DEF d
<1>5. d # 0
  <2> SUFFICES ASSUME d = 0 PROVE FALSE
    OBVIOUS
  <2>1. x = m /\ m \in 0..(ChunkSize - 1)
    BY <1>1, <1>4
  <2> HIDE DEF m
  <2> QED BY <1>1, <1>3, <2>1
<1>6. ASSUME NEW k \in Nat, k * ChunkSize < len, len <= k * ChunkSize + ChunkSize
      PROVE  d = k + 1
  <2> DEFINE a == k * ChunkSize
  <2> DEFINE y == ChunkSize * d
  <2>1. m \in 0..(ChunkSize - 1) /\ x = y + m
    BY <1>4
  <2>2. a \in Nat /\ y \in Nat /\ a < len /\ len <= a + ChunkSize
    BY <1>1, <1>4, <1>6
  <2> HIDE DEF m, a, y
  <2>3. y > a /\ y < a + 2 * ChunkSize
    BY <1>1, <2>1, <2>2 DEF x
  <2>4. d > k
    <3> SUFFICES ASSUME d <= k PROVE FALSE
      BY <1>4
    <3>1. ChunkSize * d <= ChunkSize * k
      BY <1>1, <1>4, <1>6
    <3>2. ChunkSize * k = k * ChunkSize
      BY <1>1, <1>6
    <3> QED BY <2>2, <2>3, <3>1, <3>2 DEF a, y
  <2>5. d < k + 2
    <3> SUFFICES ASSUME d >= k + 2 PROVE FALSE
      BY <1>4
    <3>1. ChunkSize * d >= ChunkSize * (k + 2)
      BY <1>1, <1>4, <1>6
    <3>2. ChunkSize * (k + 2) = k * ChunkSize + 2 * ChunkSize
      BY <1>1, <1>6
    <3> QED BY <1>1, <2>2, <2>3, <3>1, <3>2 DEF a, y
  <2> QED BY <1>4, <2>4, <2>5
<1>7. d = Ceil(len)
  BY DEF d, x, Ceil
<1> QED BY <1>2, <1>5, <1>6, <1>7

\* total_chunks is the sum of the requests' chunks, reached request by request.
LEMMA ChunksAddUp ==
    ASSUME NEW reqs \in Seq(Nat \ {0})
    PROVE  \E p : ChunksUpTo(reqs, p)
<1> DEFINE n == Len(reqs)
<1> DEFINE D == DOMAIN reqs
<1> DEFINE w == [i \in D |-> Ceil(reqs[i])]
<1> DEFINE Fold(f) == f = [s \in SUBSET D |-> IF s = {} THEN 0 ELSE f[s \ {Max(s)}] + Ceil(reqs[Max(s)])]
<1> DEFINE f == CHOOSE g : Fold(g)
<1>1. n \in Nat /\ D = 1..n /\ \A i \in 1..n : reqs[i] \in Nat \ {0}
  BY LenProperties, ElementOfSeq
<1>2. TotalChunks(reqs) = f[D]
  BY DEF TotalChunks, FoldLeft, MapThenFoldSet, Ceil
<1>3. \A i \in 1..n : w[i] = Ceil(reqs[i]) /\ w[i] \in Nat
  BY <1>1, CeilIs
<1>4. PICK g : Adds(g, w, D)
  <2> HIDE DEF n, w, D
  <2> QED BY <1>1, AddsExists
<1>5. ASSUME NEW h PROVE Fold(h) <=> Adds(h, w, D)
  <2>1. ASSUME NEW s \in SUBSET D, s # {} PROVE w[Max(s)] = Ceil(reqs[Max(s)])
    <3>1. s \in SUBSET (1..n)
      BY <1>1
    <3>2. Max(s) \in s
      <4> HIDE DEF n, D
      <4> QED BY <1>1, <2>1, <3>1, MaxIs
    <3> QED BY <3>2
  <2> DEFINE A(s) == IF s = {} THEN 0 ELSE h[s \ {Max(s)}] + Ceil(reqs[Max(s)])
  <2> DEFINE B(s) == IF s = {} THEN 0 ELSE h[s \ {Max(s)}] + w[Max(s)]
  <2>2. \A s \in SUBSET D : A(s) = B(s)
    <3> HIDE DEF w, D
    <3> QED BY <2>1
  <2>3. [s \in SUBSET D |-> A(s)] = [s \in SUBSET D |-> B(s)]
    <3> HIDE DEF A, B
    <3> QED BY <2>2
  <2> QED BY <2>3 DEF Adds
<1>6. Adds(f, w, 1..n)
  <2>1. Fold(g)
    BY <1>4, <1>5
  <2>2. Fold(f)
    <3> HIDE DEF Fold
    <3> QED BY <2>1
  <2> HIDE DEF Fold, f
  <2>3. Adds(f, w, D)
    BY <1>5, <2>2
  <2> QED BY <1>1, <2>3
<1> HIDE DEF f, w
<1>7. \E p : RunningSums(p, w, n) /\ p[n] = f[1..n]
  <2> HIDE DEF n, D
  <2>1. \A i \in 1..n : w[i] \in Nat
    BY <1>3
  <2> QED BY <1>1, <1>6, <2>1, AddsPrefixes
<1>8. PICK p : RunningSums(p, w, n) /\ p[n] = f[1..n]
  BY <1>7
<1>9. p[n] = TotalChunks(reqs)
  BY <1>1, <1>2, <1>8
<1>10. p \in [0..n -> Nat] /\ p[0] = 0 /\ \A k \in 1..n : p[k] = p[k - 1] + w[k]
  BY <1>8 DEF RunningSums
<1>11. \A k \in 1..n : p[k] = p[k - 1] + Ceil(reqs[k])
  BY <1>3, <1>10
<1>12. ChunksUpTo(reqs, p)
  BY <1>9, <1>10, <1>11 DEF ChunksUpTo
<1> QED BY <1>12

\* A list of requests without chunks is empty.
LEMMA NoChunksNoRequests ==
    ASSUME NEW reqs \in Seq(Nat \ {0})
    PROVE  TotalChunks(reqs) = 0 <=> reqs = <<>>
<1>1. PICK p : ChunksUpTo(reqs, p)
  BY ChunksAddUp
<1> DEFINE n == Len(reqs)
<1>2. n \in Nat /\ (n = 0 <=> reqs = <<>>)
  BY EmptySeq, LenProperties
<1>3. p \in [0..n -> Nat] /\ p[0] = 0 /\ p[n] = TotalChunks(reqs)
  BY <1>1 DEF ChunksUpTo
<1>4. ASSUME n # 0 PROVE p[n] # 0
  <2>1. n \in 1..n /\ n - 1 \in 0..n
    BY <1>2, <1>4
  <2>2. p[n] = p[n - 1] + Ceil(reqs[n])
    BY <1>1, <2>1 DEF ChunksUpTo
  <2>3. p[n - 1] \in Nat /\ Ceil(reqs[n]) \in Nat \ {0}
    <3>1. reqs[n] \in Nat \ {0}
      BY <2>1, ElementOfSeq
    <3> QED BY <1>3, <2>1, <3>1, CeilIs
  <2> QED BY <2>2, <2>3
<1> QED BY <1>2, <1>3, <1>4

(***************************************************************************)
(* How a batch is cut up                                                   *)
(***************************************************************************)

\* The chunk of request r of batch b that starts at off.
ChunkAt(b, r, off) ==
    [batch |-> b, req |-> r, off |-> off, len |-> Min({ChunkSize, batch[b].reqs[r] - off})]

\* All chunks of a batch.
Cut(b) ==
    {c \in Chunk : \E r \in 1..Len(batch[b].reqs), k \in Nat :
        k * ChunkSize < batch[b].reqs[r] /\ c = ChunkAt(b, r, k * ChunkSize)}

\* Two multiples of the chunk size less than a chunk apart are the same.
LEMMA SameMultiple ==
    ASSUME NEW k \in Nat, NEW m \in Nat,
           k * ChunkSize < m * ChunkSize + ChunkSize, m * ChunkSize < k * ChunkSize + ChunkSize
    PROVE  k = m
<1>1. ChunkSize \in Nat \ {0}
  BY ConstantsAssumption
<1>2. ASSUME NEW a \in Nat, NEW b \in Nat, a < b PROVE a * ChunkSize + ChunkSize <= b * ChunkSize
  <2> DEFINE d == b - a - 1
  <2>1. d \in Nat /\ b = a + 1 + d
    BY <1>2
  <2> HIDE DEF d
  <2>2. b * ChunkSize = a * ChunkSize + ChunkSize + d * ChunkSize
    BY <1>1, <2>1
  <2>3. d * ChunkSize \in Nat /\ a * ChunkSize \in Nat
    BY <1>1, <2>1
  <2> QED BY <1>1, <2>2, <2>3
<1>3. k * ChunkSize \in Nat /\ m * ChunkSize \in Nat
  BY <1>1
<1>4. ~(k < m)
  <2> SUFFICES ASSUME k < m PROVE FALSE
    OBVIOUS
  <2>1. k * ChunkSize + ChunkSize <= m * ChunkSize
    BY <1>2
  <2> QED BY <1>1, <1>3, <2>1
<1>5. ~(m < k)
  <2> SUFFICES ASSUME m < k PROVE FALSE
    OBVIOUS
  <2>1. m * ChunkSize + ChunkSize <= k * ChunkSize
    BY <1>2
  <2> QED BY <1>1, <1>3, <2>1
<1> QED BY <1>4, <1>5

\* What a chunk of a batch is.
LEMMA CutIs ==
    ASSUME BatchTypes, NEW b \in 1..MaxBatches, NEW c \in Cut(b)
    PROVE  /\ c \in Chunk /\ c.batch = b /\ c.req \in 1..Len(batch[b].reqs)
           /\ c.off \in Nat /\ c.len \in Nat \ {0} /\ batch[b].reqs[c.req] \in Nat \ {0}
           /\ c.off + c.len <= batch[b].reqs[c.req] /\ c.len <= ChunkSize
           /\ c = ChunkAt(b, c.req, c.off) /\ \E k \in Nat : c.off = k * ChunkSize
<1>1. PICK r \in 1..Len(batch[b].reqs), k \in Nat :
        k * ChunkSize < batch[b].reqs[r] /\ c = ChunkAt(b, r, k * ChunkSize)
  BY DEF Cut
<1> DEFINE len == batch[b].reqs[r]
<1> DEFINE off == k * ChunkSize
<1>2. len \in Nat \ {0} /\ off \in Nat /\ off < len /\ ChunkSize \in Nat \ {0}
  <2>1. batch[b].reqs \in Seq(Nat \ {0})
    BY ReqsType
  <2>2. len \in Nat \ {0}
    BY <2>1, ElementOfSeq
  <2> QED BY <1>1, <2>2, ConstantsAssumption
<1>3. c = [batch |-> b, req |-> r, off |-> off, len |-> Min({ChunkSize, len - off})]
  BY <1>1 DEF ChunkAt
<1> HIDE DEF len, off
<1> DEFINE left == len - off
<1>4. left \in Nat \ {0} /\ left \in Int /\ ChunkSize \in Int
  BY <1>2
<1>5. c.batch = b /\ c.req = r /\ c.off = off /\ c.len = Min({ChunkSize, left})
  BY <1>3
<1> HIDE DEF left
<1>6. Min({ChunkSize, left}) \in {ChunkSize, left} /\ Min({ChunkSize, left}) <= ChunkSize
      /\ Min({ChunkSize, left}) <= left
  BY <1>4, MinOfTwo
<1>7. c.len \in Nat \ {0} /\ c.len <= ChunkSize /\ c.len <= left
  BY <1>2, <1>4, <1>5, <1>6
<1>8. off + c.len <= len
  BY <1>2, <1>7 DEF left
<1>9. c \in Chunk
  BY DEF Cut
<1> QED BY <1>1, <1>2, <1>5, <1>7, <1>8, <1>9 DEF len, off

\* Chunks of a batch that have a byte in common are the same.
LEMMA CutDisjoint ==
    ASSUME BatchTypes, NEW b \in 1..MaxBatches, NEW c \in Cut(b), NEW d \in Cut(b), c.req = d.req,
           NEW o \in Int, o \in c.off..(c.off + c.len - 1), o \in d.off..(d.off + d.len - 1)
    PROVE  c = d
<1>1. PICK k \in Nat : c.off = k * ChunkSize
  BY CutIs
<1>2. PICK m \in Nat : d.off = m * ChunkSize
  BY CutIs
<1>3. /\ c.off \in Nat /\ c.len \in Nat /\ c.len <= ChunkSize
      /\ d.off \in Nat /\ d.len \in Nat /\ d.len <= ChunkSize
  BY CutIs
<1>4. c.off < d.off + ChunkSize /\ d.off < c.off + ChunkSize
  <2>1. c.off <= o /\ o <= c.off + c.len - 1 /\ d.off <= o /\ o <= d.off + d.len - 1
    BY <1>3
  <2>2. ChunkSize \in Nat
    BY ConstantsAssumption
  <2> QED BY <1>3, <2>1, <2>2
<1>5. k = m
  BY <1>1, <1>2, <1>4, SameMultiple
<1>6. c = ChunkAt(b, c.req, c.off) /\ d = ChunkAt(b, d.req, d.off)
  BY CutIs
<1> QED BY <1>1, <1>2, <1>5, <1>6

\* The place of the generator is the start of a chunk of the batch.
LEMMA AtIsCut ==
    ASSUME BatchTypes, NEW b \in 1..MaxBatches, NEW r \in 1..Len(batch[b].reqs), NEW k \in Nat,
           k * ChunkSize < batch[b].reqs[r]
    PROVE  ChunkAt(b, r, k * ChunkSize) \in Cut(b)
<1> DEFINE len == batch[b].reqs[r]
<1> DEFINE off == k * ChunkSize
<1>1. len \in Nat \ {0} /\ off \in Nat /\ off < len /\ ChunkSize \in Nat \ {0}
  <2>1. batch[b].reqs \in Seq(Nat \ {0})
    BY ReqsType
  <2>2. len \in Nat \ {0}
    BY <2>1, ElementOfSeq
  <2> QED BY <2>2, ConstantsAssumption
<1> HIDE DEF len, off
<1> DEFINE left == len - off
<1>2. left \in Nat \ {0} /\ left \in Int /\ ChunkSize \in Int
  BY <1>1
<1> HIDE DEF left
<1>3. Min({ChunkSize, left}) \in Nat
  BY <1>1, <1>2, MinOfTwo
<1>4. ChunkAt(b, r, off) = [batch |-> b, req |-> r, off |-> off, len |-> Min({ChunkSize, left})]
  BY DEF ChunkAt, len, left
<1>5. r \in Nat
  <2>1. batch[b].reqs \in Seq(Nat \ {0})
    BY ReqsType
  <2> QED BY <2>1
<1>6. ChunkAt(b, r, off) \in Chunk
  BY <1>1, <1>3, <1>4, <1>5 DEF Chunk
<1> QED BY <1>1, <1>6 DEF Cut, len, off

\* Every byte of a batch lies in a chunk.
LEMMA CutCovers ==
    ASSUME BatchTypes, NEW b \in 1..MaxBatches, NEW x \in BytesOf(batch[b].reqs)
    PROVE  \E c \in Cut(b) : Carries(c, x)
<1> DEFINE reqs == batch[b].reqs
<1>1. PICK r \in DOMAIN reqs : \E o \in 0..(reqs[r] - 1) : x = <<r, o>>
  BY DEF BytesOf
<1>2. PICK o \in 0..(reqs[r] - 1) : x = <<r, o>>
  BY <1>1
<1>3. reqs \in Seq(Nat \ {0})
  BY ReqsType
<1>4. r \in 1..Len(reqs) /\ reqs[r] \in Nat \ {0} /\ o \in Nat /\ o < reqs[r]
  <2>1. r \in 1..Len(reqs)
    BY <1>3, LenProperties
  <2>2. reqs[r] \in Nat \ {0}
    BY <1>3, <2>1, ElementOfSeq
  <2> QED BY <2>1, <2>2
<1> DEFINE k == o \div ChunkSize
<1> DEFINE m == o % ChunkSize
<1>5. ChunkSize \in Nat \ {0}
  BY ConstantsAssumption
<1>6. k \in Nat /\ m \in 0..(ChunkSize - 1) /\ o = ChunkSize * k + m
  BY <1>4, <1>5
<1> HIDE DEF k, m, reqs
<1> DEFINE off == k * ChunkSize
<1>7. off \in Nat /\ o = off + m
  BY <1>5, <1>6
<1>8. off < reqs[r]
  <2> HIDE DEF off
  <2> QED BY <1>4, <1>6, <1>7
<1>9. ChunkAt(b, r, off) \in Cut(b)
  BY <1>4, <1>6, <1>8, AtIsCut DEF reqs
<1> DEFINE c == ChunkAt(b, r, off)
<1> DEFINE left == reqs[r] - off
<1>10. c.req = r /\ c.off = off /\ c.len = Min({ChunkSize, left})
  BY DEF ChunkAt, reqs
<1> HIDE DEF c, off
<1>11. left \in Int /\ m < left /\ m < ChunkSize /\ ChunkSize \in Int
  BY <1>4, <1>5, <1>6, <1>7, <1>8
<1> HIDE DEF left
<1>12. Min({ChunkSize, left}) \in {ChunkSize, left}
  BY <1>11, MinOfTwo
<1>13. c.len \in Int /\ m < c.len
  BY <1>10, <1>11, <1>12
<1>14. o \in c.off..(c.off + c.len - 1)
  BY <1>4, <1>6, <1>7, <1>10, <1>13
<1>15. Carries(c, x)
  BY <1>2, <1>10, <1>14 DEF Carries
<1> QED BY <1>9, <1>15 DEF c

\* What is before the place of the generator in the active batch.
Before(c) == c.req < iter.req \/ (c.req = iter.req /\ c.off < iter.off)

\* The generator stands at the start of a chunk, or behind the last request.
IterCut ==
    active # NoBatch =>
        /\ iter.req <= Len(batch[active].reqs) + 1
        /\ iter.req = Len(batch[active].reqs) + 1 => iter.off = 0
        /\ \E k \in Nat : iter.off = k * ChunkSize

\* The chunk that the generator yields is the one at its place.
LEMMA NextIsCut ==
    ASSUME BatchTypes, IterInRequest, IterCut, HasChunk
    PROVE  NextChunk \in Cut(active) /\ ~Before(NextChunk) /\ NextChunk.batch = active
<1>1. active \in 1..MaxBatches /\ active # NoBatch
  BY ConstantsAssumption DEF BatchTypes, HasChunk, NoBatch
<1>2. PICK k \in Nat : iter.off = k * ChunkSize
  BY <1>1 DEF IterCut
<1>3. iter.req \in 1..Len(batch[active].reqs) /\ iter.off \in Nat /\ iter.req \in Nat
  <2>1. iter.req \in Nat \ {0} /\ iter.off \in Nat /\ iter.req <= Len(batch[active].reqs)
    BY DEF BatchTypes, HasChunk
  <2>2. Len(batch[active].reqs) \in Nat
    BY <1>1, ReqsType, LenProperties
  <2> QED BY <2>1, <2>2
<1>4. NextChunk = ChunkAt(active, iter.req, iter.off)
  BY DEF NextChunk, ChunkAt
<1>5. NextChunk.req = iter.req /\ NextChunk.off = iter.off /\ NextChunk.batch = active
  BY DEF NextChunk
<1> QED BY <1>1, <1>2, <1>3, <1>4, <1>5, AtIsCut DEF IterInRequest, Before

\* The generator's step puts this chunk, and no other, behind it.
LEMMA AdvanceIs ==
    ASSUME BatchTypes, IterInRequest, IterCut, HasChunk, iter' = AdvanceIter, UNCHANGED <<active, batch>>
    PROVE  IterCut' /\ \A c \in Cut(active) : Before(c)' <=> Before(c) \/ c = NextChunk
<1>1. active \in 1..MaxBatches /\ active # NoBatch
  BY ConstantsAssumption DEF BatchTypes, HasChunk, NoBatch
<1>2. PICK k \in Nat : iter.off = k * ChunkSize
  BY <1>1 DEF IterCut
<1> DEFINE n == Len(batch[active].reqs)
<1> DEFINE len == batch[active].reqs[iter.req]
<1>3. iter.req \in 1..n /\ iter.off \in Nat /\ iter.req \in Nat /\ n \in Nat
      /\ iter \in [req : Nat \ {0}, off : Nat]
  <2>1. iter.req \in Nat \ {0} /\ iter.off \in Nat /\ iter.req <= n
    BY DEF BatchTypes, HasChunk
  <2>2. n \in Nat
    BY <1>1, ReqsType, LenProperties
  <2> QED BY <2>1, <2>2 DEF BatchTypes
<1>4. len \in Nat \ {0} /\ iter.off < len /\ ChunkSize \in Nat \ {0}
  <2>1. batch[active].reqs \in Seq(Nat \ {0})
    BY <1>1, ReqsType
  <2>2. len \in Nat \ {0}
    BY <1>3, <2>1, ElementOfSeq
  <2> QED BY <2>2, ConstantsAssumption DEF IterInRequest
<1>5. NextChunk = ChunkAt(active, iter.req, iter.off)
  BY DEF NextChunk, ChunkAt
<1>6. ASSUME NEW c \in Cut(active), c.req = iter.req
      PROVE  /\ c.off \in Nat /\ c.off < len
             /\ c.off < iter.off + ChunkSize <=> c.off < iter.off \/ c = NextChunk
  <2>1. PICK m \in Nat : c.off = m * ChunkSize
    BY <1>1, CutIs
  <2>2. c = ChunkAt(active, c.req, c.off) /\ c.off \in Nat /\ c.off < len
    <3>1. /\ c = ChunkAt(active, c.req, c.off) /\ c.off \in Nat /\ c.len \in Nat \ {0}
          /\ c.off + c.len <= batch[active].reqs[c.req]
      BY <1>1, CutIs
    <3> QED BY <1>4, <1>6, <3>1
  <2>3. c.off < iter.off + ChunkSize => c.off < iter.off \/ c = NextChunk
    <3> SUFFICES ASSUME c.off < iter.off + ChunkSize, ~(c.off < iter.off) PROVE c = NextChunk
      OBVIOUS
    <3>1. iter.off < c.off + ChunkSize
      BY <1>3, <1>4, <2>2
    <3>2. k = m
      BY <1>2, <2>1, <3>1, SameMultiple
    <3> QED BY <1>2, <1>5, <1>6, <2>1, <2>2, <3>2
  <2>4. c = NextChunk => c.off = iter.off
    BY DEF NextChunk
  <2> QED BY <1>3, <1>4, <2>2, <2>3, <2>4
<1>7. \A c \in Cut(active) : c.req \in Nat /\ (c = NextChunk => c.req = iter.req)
  <2> SUFFICES ASSUME NEW c \in Cut(active) PROVE c.req \in Nat /\ (c = NextChunk => c.req = iter.req)
    OBVIOUS
  <2>1. c.req \in 1..n
    BY <1>1, CutIs
  <2> QED BY <1>3, <2>1 DEF NextChunk
<1>8. CASE iter.off + ChunkSize < len
  <2>1. iter'.req = iter.req /\ iter'.off = iter.off + ChunkSize
    BY <1>3, <1>8 DEF AdvanceIter
  <2>2. IterCut'
    <3>1. iter.off + ChunkSize = (k + 1) * ChunkSize
      BY <1>2, <1>4
    <3>2. k + 1 \in Nat
      OBVIOUS
    <3> QED BY <1>3, <2>1, <3>1, <3>2 DEF IterCut
  <2>3. ASSUME NEW c \in Cut(active) PROVE Before(c)' <=> Before(c) \/ c = NextChunk
    <3>1. CASE c.req = iter.req
      BY <1>3, <1>6, <2>1, <3>1 DEF Before
    <3>2. CASE c.req # iter.req
      BY <1>3, <1>7, <2>1, <3>2 DEF Before
    <3> QED BY <3>1, <3>2
  <2> QED BY <2>2, <2>3
<1>9. CASE ~(iter.off + ChunkSize < len)
  <2>1. iter'.req = iter.req + 1 /\ iter'.off = 0
    BY <1>3, <1>9 DEF AdvanceIter
  <2>2. IterCut'
    <3>1. 0 = 0 * ChunkSize
      BY <1>4
    <3> QED BY <1>3, <2>1, <3>1 DEF IterCut
  <2>3. ASSUME NEW c \in Cut(active) PROVE Before(c)' <=> Before(c) \/ c = NextChunk
    <3>1. CASE c.req = iter.req
      <4>1. c.off < iter.off + ChunkSize
        BY <1>3, <1>4, <1>6, <1>9, <3>1
      <4>2. Before(c)'
        BY <1>3, <2>1, <3>1 DEF Before
      <4> QED BY <1>6, <3>1, <4>1, <4>2 DEF Before
    <3>2. CASE c.req # iter.req
      <4>1. ~(c.off < 0)
        BY <1>1, CutIs
      <4> QED BY <1>3, <1>7, <2>1, <3>2, <4>1 DEF Before
    <3> QED BY <3>1, <3>2
  <2> QED BY <2>2, <2>3
<1> QED BY <1>8, <1>9

(***************************************************************************)
(* Where the bytes of a batch are                                          *)
(***************************************************************************)

\* The chunks of the active batch that are booked, or in a list to be posted.
InFlight ==
    {c \in Chunk : \/ \E id \in DOMAIN pending : pending[id].chunk = c
                   \/ \E q \in QPs : \E i \in 1..Len(posts[q]) : posts[q][i].chunk = c}

\* The work requests of q that the adapter has not carried out.
Waiting(q) == sq[q] \o posts[q]

\* The completions that nobody has looked at yet.
Seen == Range(wcs) \cup UNION {Range(cq[q]) : q \in QPs}

\* A chunk whose data may yet move: of a batch that has not succeeded.
Fresh(c) ==
    /\ c.batch \in 1..nbatch /\ c \in Cut(c.batch)
    /\ c \notin DOMAIN moved[c.batch] /\ ~Succeeded(c.batch)

\* Chunks of a batch, each of them once, are all that was moved for it.
MovedOnce ==
    /\ moved = [b \in 1..MaxBatches |-> moved[b]]
    /\ \A b \in 1..MaxBatches :
        /\ moved[b] = [c \in DOMAIN moved[b] |-> 1] /\ DOMAIN moved[b] \subseteq Cut(b)
        /\ b > nbatch => DOMAIN moved[b] = {} /\ batch[b].reqs = <<>>

\* What the adapter may still carry out moves no byte again.
WaitingFresh == \A q \in QPs : \A i \in 1..Len(Waiting(q)) : Fresh(Waiting(q)[i].chunk)

\* No chunk waits twice.
WaitingOnce ==
    \A p, q \in QPs : \A i \in 1..Len(Waiting(p)), j \in 1..Len(Waiting(q)) :
        Waiting(p)[i].chunk = Waiting(q)[j].chunk => p = q /\ i = j

\* What the generator has yielded is in flight or was moved, and nothing else.
YieldedIs ==
    active # NoBatch =>
        /\ InFlight \subseteq Cut(active)
        /\ InFlight \cup DOMAIN moved[active] = {c \in Cut(active) : Before(c)}

\* A completion without error tells of data that was moved.
OkMoved == \A wc \in Seen : wc.ok => wc.chunk \in DOMAIN moved[wc.chunk.batch]

\* What holds of the queues, and of the generator with them.
QueueInv == MovedOnce /\ WaitingFresh /\ WaitingOnce /\ OkMoved
TransferInv == QueueInv /\ IterCut /\ YieldedIs

\* s is a part of t without a gap.
Within(s, t) == \E d \in Nat : \A i \in 1..Len(s) : d + i \in 1..Len(t) /\ s[i] = t[d + i]

\* The same requests are cut up in the same way.
LEMMA CutSame ==
    ASSUME NEW b, batch'[b].reqs = batch[b].reqs
    PROVE  Cut(b)' = Cut(b)
BY DEF Cut, ChunkAt

\* Waiting work requests are work requests.
LEMMA WaitingType ==
    ASSUME FrameTypes, HwTypes, NEW q \in QPs
    PROVE  /\ Waiting(q) \in Seq(Work) /\ Len(Waiting(q)) = Len(sq[q]) + Len(posts[q])
           /\ Len(sq[q]) \in Nat /\ Len(posts[q]) \in Nat
           /\ sq[q] \in Seq(Work) /\ posts[q] \in Seq(Work)
           /\ \A i \in 1..Len(sq[q]) : Waiting(q)[i] = sq[q][i]
           /\ \A i \in 1..Len(posts[q]) : Waiting(q)[Len(sq[q]) + i] = posts[q][i]
           /\ \A i \in 1..Len(Waiting(q)) : Waiting(q)[i].chunk \in Chunk
<1> DEFINE s == sq[q]
<1> DEFINE t == posts[q]
<1>1. s \in Seq(Work) /\ t \in Seq(Work)
  BY DEF FrameTypes, HwTypes
<1>2. Waiting(q) = s \o t
  BY DEF Waiting
<1> HIDE DEF s, t
<1>3. /\ s \o t \in Seq(Work) /\ Len(s \o t) = Len(s) + Len(t) /\ Len(s) \in Nat /\ Len(t) \in Nat
      /\ \A i \in 1..(Len(s) + Len(t)) : (s \o t)[i] = IF i <= Len(s) THEN s[i] ELSE t[i - Len(s)]
  BY <1>1, ConcatProperties, LenProperties
<1>4. \A i \in 1..Len(s) : (s \o t)[i] = s[i]
  BY <1>3
<1>5. ASSUME NEW i \in 1..Len(t) PROVE (s \o t)[Len(s) + i] = t[i]
  <2> DEFINE k == Len(s) + i
  <2>1. k \in 1..(Len(s) + Len(t)) /\ ~(k <= Len(s)) /\ k - Len(s) = i
    BY <1>3
  <2> HIDE DEF k
  <2>2. (s \o t)[k] = t[i]
    BY <1>3, <2>1
  <2> QED BY <2>2 DEF k
<1>6. \A i \in 1..Len(s \o t) : (s \o t)[i].chunk \in Chunk
  <2>1. \A i \in 1..Len(s \o t) : (s \o t)[i] \in Work
    BY <1>3, ElementOfSeq
  <2> QED BY <2>1 DEF Work
<1> QED BY <1>1, <1>2, <1>3, <1>4, <1>5, <1>6 DEF s, t

\* A step that moves nothing and makes no new work.
LEMMA QueueFrame ==
    ASSUME TypeInv, QueueInv, UNCHANGED <<moved, nbatch>>,
           \A b \in 1..MaxBatches : batch'[b].reqs = batch[b].reqs,
           \A q \in QPs : Within(Waiting(q)', Waiting(q)),
           \A wc \in Seen' : wc.ok => wc \in Seen,
           \/ \A b \in 1..nbatch : Succeeded(b)' => Succeeded(b)
           \/ \A q \in QPs : Len(Waiting(q)') = 0
    PROVE  QueueInv'
<1>1. \A b \in 1..MaxBatches : Cut(b)' = Cut(b)
  BY CutSame
<1>2. MovedOnce'
  BY <1>1 DEF QueueInv, MovedOnce
<1>3. OkMoved'
  BY DEF QueueInv, OkMoved
<1>4. WaitingFresh'
  <2> SUFFICES ASSUME NEW q \in QPs, NEW i \in 1..Len(Waiting(q)') PROVE Fresh(Waiting(q)[i].chunk)'
    BY DEF WaitingFresh
  <2>1. CASE \A b \in 1..nbatch : Succeeded(b)' => Succeeded(b)
    <3>1. PICK d \in Nat : \A j \in 1..Len(Waiting(q)') :
              d + j \in 1..Len(Waiting(q)) /\ Waiting(q)'[j] = Waiting(q)[d + j]
      BY DEF Within
    <3> PICK c : c = Waiting(q)[d + i].chunk
      OBVIOUS
    <3>2. Fresh(c) /\ Waiting(q)'[i].chunk = c
      BY <3>1 DEF QueueInv, WaitingFresh
    <3>3. c.batch \in 1..nbatch /\ c.batch \in 1..MaxBatches
      BY <3>2, BatchNumbers DEF Fresh
    <3>4. Fresh(c)'
      BY <1>1, <2>1, <3>2, <3>3 DEF Fresh
    <3> QED BY <3>2, <3>4 DEF Fresh, Succeeded
  <2>2. CASE \A p \in QPs : Len(Waiting(p)') = 0
    BY <2>2
  <2> QED BY <2>1, <2>2
<1>5. WaitingOnce'
  <2> SUFFICES ASSUME NEW p \in QPs, NEW q \in QPs, NEW i \in 1..Len(Waiting(p)'),
                      NEW j \in 1..Len(Waiting(q)'), Waiting(p)'[i].chunk = Waiting(q)'[j].chunk
               PROVE  p = q /\ i = j
    BY DEF WaitingOnce
  <2>1. PICK d \in [QPs -> Nat] : \A r \in QPs : \A k \in 1..Len(Waiting(r)') :
            d[r] + k \in 1..Len(Waiting(r)) /\ Waiting(r)'[k] = Waiting(r)[d[r] + k]
    <3> DEFINE D(r, n) == \A k \in 1..Len(Waiting(r)') :
            n + k \in 1..Len(Waiting(r)) /\ Waiting(r)'[k] = Waiting(r)[n + k]
    <3>1. \A r \in QPs : \E n \in Nat : D(r, n)
      BY DEF Within
    <3> DEFINE d == [r \in QPs |-> CHOOSE n \in Nat : D(r, n)]
    <3> HIDE DEF D
    <3>2. \A r \in QPs : d[r] \in Nat /\ D(r, d[r])
      BY <3>1
    <3>3. d \in [QPs -> Nat]
      BY <3>2
    <3> QED BY <3>2, <3>3 DEF D
  <2>2. p = q /\ d[p] + i = d[q] + j
    <3> PICK m, n : m = d[p] + i /\ n = d[q] + j
      OBVIOUS
    <3>1. /\ m \in 1..Len(Waiting(p)) /\ Waiting(p)'[i] = Waiting(p)[m]
          /\ n \in 1..Len(Waiting(q)) /\ Waiting(q)'[j] = Waiting(q)[n]
      BY <2>1
    <3>2. Waiting(p)[m].chunk = Waiting(q)[n].chunk
      BY <3>1
    <3>3. p = q /\ m = n
      BY <3>1, <3>2 DEF QueueInv, WaitingOnce
    <3> QED BY <3>3
  <2>3. d[p] \in Nat /\ i \in Int /\ j \in Int
    BY <2>1
  <2> QED BY <2>2, <2>3
<1> QED BY <1>2, <1>3, <1>4, <1>5 DEF QueueInv

\* A queue as it was.
LEMMA WithinSame ==
    ASSUME NEW T, NEW s \in Seq(T)
    PROVE  Within(s, s)
<1>1. \A i \in 1..Len(s) : 0 + i \in 1..Len(s) /\ s[i] = s[0 + i]
  BY LenProperties
<1> QED BY <1>1 DEF Within

\* The lists that were to be posted are dropped, from some entry on.
LEMMA WithinCut ==
    ASSUME NEW T, NEW s \in Seq(T), NEW t \in Seq(T), NEW n \in 0..Len(t)
    PROVE  Within(s \o SubSeq(t, 1, n), s \o t) /\ Within(s, s \o t)
<1> DEFINE u == SubSeq(t, 1, n)
<1>1. Len(t) \in Nat /\ n \in Nat /\ n <= Len(t)
  BY LenProperties
<1>2. Len(u) = n /\ \A i \in 1..n : u[i] = t[i]
  BY <1>1, PrefixIs
<1>3. u \in Seq(T)
  BY <1>1, SubSeqProperties
<1> HIDE DEF u
<1>4. /\ Len(s \o t) = Len(s) + Len(t) /\ Len(s) \in Nat
      /\ \A i \in 1..(Len(s) + Len(t)) : (s \o t)[i] = IF i <= Len(s) THEN s[i] ELSE t[i - Len(s)]
  BY ConcatProperties, LenProperties
<1>5. /\ Len(s \o u) = Len(s) + Len(u)
      /\ \A i \in 1..(Len(s) + Len(u)) : (s \o u)[i] = IF i <= Len(s) THEN s[i] ELSE u[i - Len(s)]
  BY <1>3, ConcatProperties
<1>6. ASSUME NEW i \in 1..Len(s \o u) PROVE 0 + i \in 1..Len(s \o t) /\ (s \o u)[i] = (s \o t)[0 + i]
  <2>1. i \in 1..(Len(s) + n) /\ i \in 1..(Len(s) + Len(t)) /\ 0 + i = i
    BY <1>1, <1>2, <1>4, <1>5
  <2>2. CASE i <= Len(s)
    BY <1>2, <1>4, <1>5, <2>1, <2>2
  <2>3. CASE ~(i <= Len(s))
    <3> DEFINE j == i - Len(s)
    <3>1. j \in 1..n
      BY <1>1, <1>4, <2>1, <2>3
    <3> HIDE DEF j
    <3>2. u[j] = t[j]
      BY <1>2, <3>1
    <3>3. (s \o u)[i] = u[j] /\ (s \o t)[i] = t[j]
      BY <1>2, <1>4, <1>5, <2>1, <2>3 DEF j
    <3> QED BY <1>4, <2>1, <3>2, <3>3
  <2> QED BY <2>2, <2>3
<1>7. Within(s \o u, s \o t)
  BY <1>6 DEF Within
<1>8. ASSUME NEW i \in 1..Len(s) PROVE 0 + i \in 1..Len(s \o t) /\ s[i] = (s \o t)[0 + i]
  BY <1>1, <1>4
<1>9. Within(s, s \o t)
  BY <1>8 DEF Within
<1> QED BY <1>7, <1>9 DEF u

\* The oldest work request leaves.
LEMMA WithinTail ==
    ASSUME NEW T, NEW s \in Seq(T), NEW t \in Seq(T), s # <<>>
    PROVE  /\ Tail(s) \o t = Tail(s \o t) /\ s \o t # <<>> /\ (s \o t)[1] = Head(s)
           /\ \A i \in 1..Len(Tail(s \o t)) : 1 + i \in 1..Len(s \o t) /\ Tail(s \o t)[i] = (s \o t)[1 + i]
<1>1. s \o t # <<>> /\ Tail(s \o t) = Tail(s) \o t /\ Head(s \o t) = Head(s)
  BY TailConcat
<1> DEFINE w == s \o t
<1>2. w \in Seq(T) /\ w # <<>>
  BY <1>1, ConcatProperties
<1> HIDE DEF w
<1>3. Len(w) \in Nat \ {0} /\ Len(Tail(w)) = Len(w) - 1 /\ Head(w) = w[1]
      /\ \A i \in 1..Len(Tail(w)) : Tail(w)[i] = w[1 + i]
  <2>1. Len(w) \in Nat \ {0}
    BY <1>2, EmptySeq, LenProperties
  <2>2. Len(Tail(w)) = Len(w) - 1 /\ \A i \in 1..(Len(w) - 1) : Tail(w)[i] = w[i + 1]
    BY <1>2, HeadTailProperties
  <2>3. Head(w) = w[1]
    BY <1>2, HeadTailProperties
  <2>4. \A i \in 1..(Len(w) - 1) : i + 1 = 1 + i
    OBVIOUS
  <2> QED BY <2>1, <2>2, <2>3, <2>4
<1>4. \A i \in 1..Len(Tail(w)) : 1 + i \in 1..Len(w)
  BY <1>3
<1> QED BY <1>1, <1>3, <1>4 DEF w

\* The generator and what it yielded are as before.
LEMMA YieldedSame ==
    ASSUME TypeInv, TransferInv, UNCHANGED <<active, iter, moved>>, InFlight' = InFlight,
           \A b \in 1..MaxBatches : batch'[b].reqs = batch[b].reqs
    PROVE  IterCut' /\ YieldedIs'
<1>1. CASE active = NoBatch
  BY <1>1 DEF IterCut, YieldedIs
<1>2. CASE active # NoBatch
  <2>1. active \in 1..MaxBatches
    BY <1>2, BatchNumbers
  <2>2. IterCut'
    BY <1>2, <2>1 DEF TransferInv, IterCut
  <2> PICK a \in 1..MaxBatches : a = active
    BY <2>1
  <2>3. Cut(a)' = Cut(a)
    BY CutSame
  <2>4. \A c : Before(c)' <=> Before(c)
    BY DEF Before
  <2>5. InFlight \subseteq Cut(a) /\ InFlight \cup DOMAIN moved[a] = {c \in Cut(a) : Before(c)}
    BY <1>2 DEF TransferInv, YieldedIs
  <2>6. YieldedIs'
    BY <1>2, <2>3, <2>4, <2>5 DEF YieldedIs
  <2> QED BY <2>2, <2>6
<1> QED BY <1>1, <1>2

\* The elements of a part of a sequence.
LEMMA RangeSubSeq ==
    ASSUME NEW T, NEW s \in Seq(T), NEW m \in 1..(Len(s) + 1), NEW n \in 0..Len(s)
    PROVE  Range(SubSeq(s, m, n)) \subseteq Range(s)
<1> DEFINE u == SubSeq(s, m, n)
<1>1. Len(s) \in Nat /\ DOMAIN s = 1..Len(s)
  BY LenProperties
<1>2. m \in 1..(Len(s) + 1) /\ (n \in (m - 1)..Len(s) \/ n < m - 1)
  BY <1>1
<1>3. \A i \in m..n : s[i] \in T
  BY <1>1, ElementOfSeq
<1>4. /\ u \in Seq(T) /\ Len(u) = IF m <= n THEN n - m + 1 ELSE 0
      /\ \A i \in 1..(n - m + 1) : u[i] = s[m + i - 1]
  BY <1>3, SubSeqProperties
<1> HIDE DEF u
<1>5. DOMAIN u = 1..Len(u)
  BY <1>4, LenProperties
<1>6. ASSUME NEW i \in 1..Len(u) PROVE m + i - 1 \in DOMAIN s /\ u[i] = s[m + i - 1]
  <2>1. i \in 1..(n - m + 1)
    BY <1>1, <1>4
  <2> QED BY <1>1, <1>4, <2>1, SMTT(30)
<1>7. ASSUME NEW x \in Range(u) PROVE x \in Range(s)
  <2>1. PICK i \in 1..Len(u) : x = u[i]
    BY <1>5, <1>7 DEF Range
  <2>2. m + i - 1 \in DOMAIN s /\ x = s[m + i - 1]
    BY <1>6, <2>1
  <2> QED BY <2>2 DEF Range
<1> QED BY <1>7 DEF u

\* Steps that leave the work alone, and at most look at completions.
CalmSteps ==
    \/ AllocSkip \/ AllocStop \/ AllocRound \/ RefillReturn \/ PollCQ \/ NextCQ \/ PollEnd
    \/ NotYet \/ Progress \/ KeepWaiting \/ Connect \/ ConnectFail \/ UNCHANGED vars

\* They change nothing that TransferInv is about.
LEMMA CalmTransfer ==
    ASSUME TypeInv, RoutingInv, TransferInv, CalmSteps
    PROVE  TransferInv' /\ InFlight' = InFlight /\ UNCHANGED <<pending, posts>>
<1> USE DEF batchVars, wrVars, lifeVars, frameVars, hwVars, vars
<1>1. UNCHANGED <<batch, nbatch, active, iter, pending, sq, moved>>
  BY DEF CalmSteps, AllocSkip, AllocStop, AllocRound, RefillReturn, PollCQ, NextCQ, PollEnd,
      NotYet, Progress, KeepWaiting, Connect, ConnectFail
<1>2. FrameTypes /\ HwTypes /\ posts \in [QPs -> Seq(Work)] /\ cq \in [QPs -> Seq(WorkCompletion)]
  BY DEF TypeInv, TypeOK, FrameTypes, HwTypes
<1>3. posts' = posts
  <2> DEFINE none == [q \in QPs |-> <<>>]
  <2>1. posts' = posts \/ (posts' = none /\ (pc \notin {"alloc", "post"} \/ (pc = "post" /\ cursor > NQP)))
    BY DEF CalmSteps, AllocSkip, AllocStop, AllocRound, RefillReturn, PollCQ, NextCQ, PollEnd,
        NotYet, Progress, KeepWaiting, Connect, ConnectFail, EmptyFrame, EnterRefill
  <2>2. CASE pc \notin {"alloc", "post"} \/ (pc = "post" /\ cursor > NQP)
    <3>1. \A q \in QPs : q < cursor \/ pc # "post"
      <4>1. cursor \in Nat
        BY <1>2, ConstantsAssumption DEF FrameTypes
      <4> QED BY <2>2, <4>1, ConstantsAssumption DEF QPs
    <3>2. \A q \in QPs : posts[q] = <<>>
      BY <2>2, <3>1 DEF RoutingInv, ListsInRefill
    <3>3. posts = none
      BY <1>2, <3>2
    <3> QED BY <2>1, <3>3
  <2> QED BY <2>1, <2>2
<1>4. Seen' \subseteq Seen
  <2>1. CASE PollCQ
    <3>1. cursor \in QPs
      BY <1>2, <2>1, ConstantsAssumption DEF PollCQ, FrameTypes, QPs
    <3> PICK q \in QPs : q = cursor
      BY <3>1
    <3> DEFINE s == cq[q]
    <3> DEFINE n == PollCount(q)
    <3>2. s \in Seq(WorkCompletion) /\ Len(s) \in Nat
      BY <1>2, LenProperties
    <3>3. n \in 0..Len(s)
      BY <3>2, PollCountBounds DEF TypeInv, TypeOK, WrTypes
    <3>4. wcs' = SubSeq(s, 1, n) /\ cq' = [cq EXCEPT ![q] = SubSeq(s, n + 1, Len(s))]
      BY <2>1 DEF PollCQ
    <3>5. cq'[q] = SubSeq(s, n + 1, Len(s)) /\ \A p \in QPs : p # q => cq'[p] = cq[p]
      BY <1>2, <3>4
    <3>6. Range(wcs') \subseteq Range(cq[q]) /\ Range(cq'[q]) \subseteq Range(cq[q])
      <4> HIDE DEF n, s
      <4>1. 1 \in 1..(Len(s) + 1) /\ n + 1 \in 1..(Len(s) + 1) /\ Len(s) \in 0..Len(s)
        BY <3>2, <3>3
      <4>2. Range(SubSeq(s, 1, n)) \subseteq Range(s) /\ Range(SubSeq(s, n + 1, Len(s))) \subseteq Range(s)
        BY <3>2, <3>3, <4>1, RangeSubSeq
      <4> QED BY <3>4, <3>5, <4>2 DEF s
    <3>7. \A p \in QPs : Range(cq'[p]) \subseteq UNION {Range(cq[r]) : r \in QPs}
      BY <3>5, <3>6
    <3> QED BY <3>6, <3>7 DEF Seen
  <2>2. CASE ~PollCQ
    <3>1. cq' = cq /\ (wcs' = wcs \/ wcs' = <<>>)
      BY <2>2 DEF CalmSteps, AllocSkip, AllocStop, AllocRound, RefillReturn, NextCQ, PollEnd,
          NotYet, Progress, KeepWaiting, Connect, ConnectFail, EmptyFrame, EnterRefill
    <3>2. Range(wcs') \subseteq Range(wcs)
      BY <3>1 DEF Range
    <3> QED BY <3>1, <3>2 DEF Seen
  <2> QED BY <2>1, <2>2
<1>5. \A q \in QPs : Waiting(q)' = Waiting(q) /\ Within(Waiting(q)', Waiting(q))
  BY <1>1, <1>2, <1>3, WaitingType, WithinSame DEF Waiting
<1>6. \A b \in 1..nbatch : Succeeded(b)' => Succeeded(b)
  BY <1>1 DEF Succeeded
<1>7. QueueInv'
  BY <1>1, <1>4, <1>5, <1>6, QueueFrame DEF TransferInv
<1>8. InFlight' = InFlight
  BY <1>1, <1>3 DEF InFlight
<1>9. IterCut' /\ YieldedIs'
  BY <1>1, <1>8, YieldedSame
<1> QED BY <1>1, <1>3, <1>7, <1>8, <1>9 DEF TransferInv

\* What waits for the adapter is booked or listed while its batch is active.
LEMMA WaitingInFlight ==
    ASSUME TypeInv, RoutingInv, active # NoBatch, NEW q \in QPs, NEW i \in 1..Len(Waiting(q))
    PROVE  Waiting(q)[i].chunk \in InFlight
<1>1. FrameTypes /\ HwTypes
  BY DEF TypeInv, TypeOK
<1> DEFINE s == Len(sq[q])
<1> DEFINE t == Len(posts[q])
<1>2. s \in Nat /\ t \in Nat /\ i \in 1..(s + t) /\ sq[q] \in Seq(Work)
  BY <1>1, WaitingType
<1>3. Waiting(q)[i].chunk \in Chunk
  BY <1>1, WaitingType
<1>4. CASE i \in 1..s
  <2>1. Waiting(q)[i] = sq[q][i] /\ i \in DOMAIN sq[q]
    BY <1>1, <1>2, <1>4, WaitingType, LenProperties
  <2>2. PendingKnowsAll
    BY RoutingFollows DEF CompletionRouting
  <2>3. sq[q][i].id \in DOMAIN pending /\ pending[sq[q][i].id] = [qp |-> q, chunk |-> sq[q][i].chunk]
    BY <2>1, <2>2 DEF PendingKnowsAll
  <2> QED BY <1>3, <2>1, <2>3 DEF InFlight
<1>5. CASE i \notin 1..s
  <2>1. i \in Nat /\ 1 <= i /\ i <= s + t /\ ~(i <= s)
    <3> HIDE DEF s, t
    <3> QED BY <1>2, <1>5
  <2> DEFINE j == i - s
  <2>2. j \in 1..t /\ i = s + j
    <3> HIDE DEF s, t
    <3> QED BY <1>2, <2>1
  <2> HIDE DEF j
  <2>3. Waiting(q)[i] = posts[q][j]
    BY <1>1, <2>2, WaitingType
  <2> QED BY <1>3, <2>2, <2>3 DEF InFlight
<1> QED BY <1>4, <1>5

\* The next chunk is taken up.
LEMMA AllocChunkTransfer ==
    ASSUME TypeInv, TypeInv', RoutingInv, FailInv, TransferInv, AllocChunk
    PROVE  /\ TransferInv' /\ InFlight' = InFlight \cup {NextChunk}
           /\ NextChunk \notin InFlight /\ NextChunk \notin DOMAIN moved[active]
           /\ \A q \in QPs : \A i \in 1..Len(posts'[q]) : posts'[q][i].chunk # NextChunk
                => i \in 1..Len(posts[q]) /\ posts[q][i] = posts'[q][i]
<1> USE DEF hwVars
<1>1. /\ UNCHANGED <<batch, nbatch, active, pending, sq, cq, wcs, moved>> /\ HasChunk
      /\ iter' = AdvanceIter /\ pc = "alloc"
  BY DEF AllocChunk
<1>2. FrameTypes /\ HwTypes /\ FrameTypes' /\ HwTypes' /\ BatchTypes /\ IterInRequest
      /\ posts \in [QPs -> Seq(Work)]
  BY DEF TypeInv, TypeOK, FrameTypes
<1>3. cursor \in QPs /\ active # NoBatch /\ active \in 1..nbatch /\ active \in 1..MaxBatches
  BY <1>2, ConstantsAssumption, BatchNumbers DEF AllocChunk, FrameTypes, QPs, HasChunk
<1> PICK q \in QPs : q = cursor
  BY <1>3
<1> PICK a \in 1..MaxBatches : a = active
  BY <1>3
<1> PICK new : new = NextChunk
  OBVIOUS
<1>4. PICK w : posts' = [posts EXCEPT ![q] = Append(@, w)] /\ w.chunk = new
  <2>1. PICK d \in 0..(MaxWrId - 1) :
          posts' = [posts EXCEPT ![cursor] = Append(@, [id |-> WrIdAfter(d), chunk |-> NextChunk])]
    BY DEF AllocChunk
  <2> PICK w : w = [id |-> WrIdAfter(d), chunk |-> new]
    OBVIOUS
  <2>2. posts' = [posts EXCEPT ![q] = Append(@, w)] /\ w.chunk = new
    BY <2>1
  <2> QED BY <2>2
<1>5. new \in Cut(a) /\ ~Before(new) /\ new.batch = a /\ new \in Chunk
  BY <1>1, <1>2, NextIsCut DEF TransferInv, Cut
<1>6. IterCut' /\ \A c \in Cut(a) : Before(c)' <=> Before(c) \/ c = new
  BY <1>1, <1>2, AdvanceIs DEF TransferInv
<1>7. new \notin InFlight /\ new \notin DOMAIN moved[a]
  BY <1>3, <1>5 DEF TransferInv, YieldedIs
<1>8. posts'[q] = Append(posts[q], w) /\ \A p \in QPs : p # q => posts'[p] = posts[p]
  BY <1>2, <1>4
<1> DEFINE k == Len(posts[q])
<1>9. /\ k \in Nat /\ Len(posts'[q]) = k + 1 /\ posts'[q][k + 1].chunk = new
      /\ \A i \in 1..k : posts'[q][i] = posts[q][i]
  BY <1>2, <1>4, <1>8, AppendProperties, LenProperties
<1>a. ASSUME NEW p \in QPs, NEW i \in 1..Len(posts'[p]), posts'[p][i].chunk # new
      PROVE  i \in 1..Len(posts[p]) /\ posts[p][i] = posts'[p][i]
  <2>1. CASE p = q
    <3>1. i \in 1..k
      <4> HIDE DEF k
      <4>1. i \in 1..(k + 1) /\ i # k + 1
        BY <1>9, <1>a, <2>1
      <4> QED BY <1>9, <4>1
    <3> QED BY <1>9, <2>1, <3>1
  <2>2. CASE p # q
    BY <1>8, <1>a, <2>2
  <2> QED BY <2>1, <2>2
<1>10. ASSUME NEW c \in Chunk
       PROVE  (\E p \in QPs : \E i \in 1..Len(posts'[p]) : posts'[p][i].chunk = c)
                <=> (c = new \/ \E p \in QPs : \E i \in 1..Len(posts[p]) : posts[p][i].chunk = c)
  <2>1. ASSUME NEW p \in QPs, NEW i \in 1..Len(posts'[p]), posts'[p][i].chunk = c, c # new
        PROVE  i \in 1..Len(posts[p]) /\ posts[p][i].chunk = c
    BY <1>a, <2>1
  <2>2. ASSUME NEW p \in QPs, NEW i \in 1..Len(posts[p]), posts[p][i].chunk = c
        PROVE  i \in 1..Len(posts'[p]) /\ posts'[p][i].chunk = c
    <3>1. CASE p = q
      <4>1. i \in 1..k /\ i \in 1..(k + 1)
        <5>1. i \in 1..k
          BY <3>1
        <5> HIDE DEF k
        <5> QED BY <1>9, <5>1
      <4> QED BY <1>9, <2>2, <3>1, <4>1
    <3>2. CASE p # q
      BY <1>8, <2>2, <3>2
    <3> QED BY <3>1, <3>2
  <2>3. k + 1 \in 1..Len(posts'[q]) /\ posts'[q][k + 1].chunk = new
    <3> HIDE DEF k
    <3> QED BY <1>9
  <2> HIDE DEF k
  <2> QED BY <2>1, <2>2, <2>3
<1>11. InFlight' = InFlight \cup {new}
  <2>1. \A c \in Chunk : c \in InFlight' <=> c \in InFlight \/ c = new
    BY <1>1, <1>10 DEF InFlight
  <2>2. InFlight \subseteq Chunk /\ InFlight' \subseteq Chunk
    BY DEF InFlight
  <2> QED BY <1>5, <2>1, <2>2
<1>12. Cut(a)' = Cut(a)
  BY <1>1, CutSame
<1>13. YieldedIs'
  <2>1. InFlight \subseteq Cut(a) /\ InFlight \cup DOMAIN moved[a] = {c \in Cut(a) : Before(c)}
    BY <1>3 DEF TransferInv, YieldedIs
  <2>2. InFlight' \subseteq Cut(a)' /\ InFlight' \cup DOMAIN moved[a] = {c \in Cut(a) : Before(c)'}
    BY <1>5, <1>6, <1>11, <1>12, <2>1
  <2> QED BY <1>1, <1>12, <2>2 DEF YieldedIs
<1>14. \A b \in 1..MaxBatches : Cut(b)' = Cut(b)
  BY <1>1, CutSame
<1>15. MovedOnce' /\ OkMoved'
  BY <1>1, <1>14 DEF TransferInv, QueueInv, MovedOnce, OkMoved, Seen
<1>16. ASSUME NEW c, Fresh(c) PROVE Fresh(c)'
  <2>1. c.batch \in 1..MaxBatches
    BY <1>16, BatchNumbers DEF Fresh
  <2> QED BY <1>1, <1>14, <1>16, <2>1 DEF Fresh, Succeeded
<1>17. Fresh(new)'
  <2>1. ~batch[a].done
    BY <1>1 DEF FailInv
  <2>2. Fresh(new)
    BY <1>3, <1>5, <1>7, <2>1 DEF Fresh, Succeeded
  <2> QED BY <1>16, <2>2
<1> DEFINE m == Len(Waiting(q))
<1>18. /\ \A p \in QPs : p # q => Waiting(p)' = Waiting(p)
       /\ m \in Nat /\ Len(Waiting(q)') = m + 1 /\ Waiting(q)'[m + 1].chunk = new
       /\ \A i \in 1..m : Waiting(q)'[i] = Waiting(q)[i]
  <2>1. \A p \in QPs : p # q => Waiting(p)' = Waiting(p)
    BY <1>1, <1>8 DEF Waiting
  <2> DEFINE s == sq[q]
  <2> DEFINE t == posts[q]
  <2>2. s \in Seq(Work) /\ t \in Seq(Work) /\ posts'[q] \in Seq(Work)
    BY <1>2, WaitingType DEF FrameTypes
  <2>3. w \in Work
    <3>1. k + 1 \in 1..Len(posts'[q])
      <4> HIDE DEF k
      <4> QED BY <1>9
    <3>2. posts'[q][k + 1] \in Work
      BY <2>2, <3>1, ElementOfSeq
    <3>3. posts'[q][k + 1] = w
      BY <1>8, <2>2, AppendProperties
    <3> QED BY <3>2, <3>3
  <2>4. Waiting(q) = s \o t /\ Waiting(q)' = s \o Append(t, w)
    BY <1>1, <1>8 DEF Waiting
  <2> HIDE DEF s, t
  <2>5. s \o Append(t, w) = Append(s \o t, w)
    <3>1. Append(t, w) = t \o <<w>> /\ <<w>> \in Seq(Work)
      BY <2>2, <2>3, AppendIsConcat
    <3>2. s \o t \in Seq(Work)
      BY <2>2, ConcatProperties
    <3>3. Append(s \o t, w) = (s \o t) \o <<w>>
      BY <2>3, <3>2, AppendIsConcat
    <3> QED BY <2>2, <3>1, <3>3, ConcatAssociative
  <2> DEFINE v == s \o t
  <2>6. v \in Seq(Work)
    BY <2>2, ConcatProperties
  <2> HIDE DEF v
  <2>7. /\ Len(v) \in Nat /\ Len(Append(v, w)) = Len(v) + 1 /\ Append(v, w)[Len(v) + 1] = w
        /\ \A i \in 1..Len(v) : Append(v, w)[i] = v[i]
    BY <2>3, <2>6, AppendProperties, LenProperties
  <2> QED BY <1>4, <2>1, <2>4, <2>5, <2>7 DEF v
<1> HIDE DEF m, k
<1>19. \A i \in 1..(m + 1) : i \in 1..m \/ i = m + 1
  BY <1>18
<1>20. WaitingFresh'
  <2> SUFFICES ASSUME NEW p \in QPs, NEW i \in 1..Len(Waiting(p)') PROVE Fresh(Waiting(p)[i].chunk)'
    BY DEF WaitingFresh
  <2> PICK c : c = Waiting(p)'[i].chunk
    OBVIOUS
  <2>1. Fresh(c)'
    <3>1. CASE p # q
      BY <1>16, <1>18, <3>1 DEF TransferInv, QueueInv, WaitingFresh
    <3>2. CASE p = q /\ i \in 1..m
      BY <1>16, <1>18, <3>2 DEF TransferInv, QueueInv, WaitingFresh, m
    <3>3. CASE p = q /\ i = m + 1
      BY <1>17, <1>18, <3>3
    <3> QED BY <1>18, <1>19, <3>1, <3>2, <3>3
  <2> QED BY <2>1 DEF Fresh, Succeeded
<1>21. \A p \in QPs : \A i \in 1..Len(Waiting(p)) : Waiting(p)[i].chunk # new
  BY <1>3, <1>7, WaitingInFlight
<1>22. WaitingOnce'
  <2> SUFFICES ASSUME NEW p \in QPs, NEW r \in QPs, NEW i \in 1..Len(Waiting(p)'),
                      NEW j \in 1..Len(Waiting(r)'), Waiting(p)'[i].chunk = Waiting(r)'[j].chunk
               PROVE  p = r /\ i = j
    BY DEF WaitingOnce
  <2> DEFINE Old(o, n) == n \in 1..Len(Waiting(o)) /\ Waiting(o)'[n] = Waiting(o)[n]
  <2>1. Old(p, i) \/ (p = q /\ i = m + 1 /\ Waiting(p)'[i].chunk = new)
    BY <1>18, <1>19 DEF m
  <2>2. Old(r, j) \/ (r = q /\ j = m + 1 /\ Waiting(r)'[j].chunk = new)
    BY <1>18, <1>19 DEF m
  <2>3. CASE Old(p, i) /\ Old(r, j)
    BY <2>3 DEF TransferInv, QueueInv, WaitingOnce
  <2>4. CASE ~(Old(p, i) /\ Old(r, j))
    BY <1>21, <2>1, <2>2, <2>4
  <2> QED BY <2>3, <2>4
<1>23. TransferInv'
  BY <1>6, <1>13, <1>15, <1>20, <1>22 DEF TransferInv, QueueInv
<1> QED BY <1>7, <1>a, <1>11, <1>23

\* A list that is entered in _pending overwrites nothing.
LEMMA BookedWith ==
    ASSUME TypeInv, RoutingInv, active # NoBatch, NEW c \in QPs
    PROVE  /\ DOMAIN PendingWith(c) = DOMAIN pending \cup PostIds(c)
           /\ \A x : x \in PostIds(c) <=> \E k \in 1..Len(posts[c]) : posts[c][k].id = x
           /\ \A x \in DOMAIN pending : x \notin PostIds(c) /\ PendingWith(c)[x] = pending[x]
           /\ \A k \in 1..Len(posts[c]) :
                PendingWith(c)[posts[c][k].id] = [qp |-> c, chunk |-> posts[c][k].chunk]
<1>1. FrameTypes /\ HwTypes /\ posts \in [QPs -> Seq(Work)]
  BY DEF TypeInv, TypeOK, FrameTypes
<1> DEFINE n == Len(Posted(c))
<1> DEFINE m == Len(posts[c])
<1>2. /\ n \in Nat /\ m \in Nat /\ Len(Flight(c)) = n + m
      /\ \A i \in 1..n : Flight(c)[i] = Posted(c)[i]
      /\ \A k \in 1..m : Flight(c)[n + k] = posts[c][k]
  BY <1>1, FlightType
<1>3. UniqueIds([q \in QPs |-> Flight(q)])
  BY <1>1, UniqueInFlight DEF RoutingInv, FlightUnique
<1>4. \A x : x \in PostIds(c) <=> \E k \in 1..m : posts[c][k].id = x
  <2>1. posts[c] \in Seq(Work) /\ DOMAIN posts[c] = 1..m
    BY <1>1
  <2> QED BY <2>1 DEF PostIds, Range
<1> HIDE DEF n, m
<1>5. ASSUME NEW k \in 1..m
      PROVE  PendingWith(c)[posts[c][k].id] = [qp |-> c, chunk |-> posts[c][k].chunk]
  <2> DEFINE id == posts[c][k].id
  <2> DEFINE v == CHOOSE w \in Range(posts[c]) : w.id = id
  <2>1. id \in PostIds(c)
    BY <1>4
  <2>2. PendingWith(c)[id] = [qp |-> c, chunk |-> v.chunk]
    BY <2>1 DEF PendingWith
  <2>3. v \in Range(posts[c]) /\ v.id = id
    BY <2>1 DEF PostIds
  <2> HIDE DEF v
  <2>4. PICK l \in 1..m : v = posts[c][l]
    BY <1>1, <2>3 DEF Range, m
  <2>5. /\ n + k \in 1..Len(Flight(c)) /\ n + l \in 1..Len(Flight(c))
        /\ Flight(c)[n + k] = posts[c][k] /\ Flight(c)[n + l] = posts[c][l]
    BY <1>2
  <2>6. n + k = n + l
    BY <1>3, <2>3, <2>4, <2>5 DEF UniqueIds
  <2>7. k = l
    BY <1>2, <2>6
  <2> QED BY <2>2, <2>4, <2>7
<1>6. ASSUME NEW x \in DOMAIN pending PROVE x \notin PostIds(c)
  <2> SUFFICES ASSUME x \in PostIds(c) PROVE FALSE
    OBVIOUS
  <2>1. PICK q \in QPs : \E i \in 1..Len(Posted(q)) : Posted(q)[i].id = x
    BY DEF RoutingInv, Booked
  <2>2. PICK i \in 1..Len(Posted(q)) : Posted(q)[i].id = x
    BY <2>1
  <2>3. PICK k \in 1..m : posts[c][k].id = x
    BY <1>4
  <2>4. n + k \in 1..Len(Flight(c)) /\ Flight(c)[n + k] = posts[c][k] /\ n + k > n
    BY <1>2
  <2>5. i \in 1..Len(Flight(q)) /\ Flight(q)[i] = Posted(q)[i]
    <3> DEFINE y == Len(Posted(q))
    <3> DEFINE z == Len(posts[q])
    <3>1. y \in Nat /\ z \in Nat /\ Len(Flight(q)) = y + z /\ i \in 1..y /\ Flight(q)[i] = Posted(q)[i]
      BY <1>1, FlightType
    <3> HIDE DEF y, z
    <3> QED BY <3>1
  <2>6. q = c /\ i = n + k
    BY <1>3, <2>2, <2>3, <2>4, <2>5 DEF UniqueIds
  <2>7. i \in 1..n
    BY <2>6 DEF n
  <2> QED BY <1>2, <2>4, <2>6, <2>7
<1>7. /\ DOMAIN PendingWith(c) = DOMAIN pending \cup PostIds(c)
      /\ \A x \in DOMAIN pending : x \notin PostIds(c) => PendingWith(c)[x] = pending[x]
  BY DEF PendingWith
<1> QED BY <1>4, <1>5, <1>6, <1>7 DEF m

\* A list is posted: the same chunks are in flight, in the same order.
LEMMA PostQPTransfer ==
    ASSUME TypeInv, RoutingInv, TransferInv, PostQP
    PROVE  TransferInv' /\ InFlight' = InFlight
<1> USE DEF batchVars, PostQP
<1>1. UNCHANGED <<batch, nbatch, active, iter, wcs, cq, moved>> /\ pc = "post"
  OBVIOUS
<1>2. FrameTypes /\ HwTypes /\ posts \in [QPs -> Seq(Work)] /\ sq \in [QPs -> Seq(Work)]
  BY DEF TypeInv, TypeOK, FrameTypes, HwTypes
<1>3. cursor \in QPs /\ active # NoBatch
  BY <1>1, <1>2, ConstantsAssumption DEF FrameTypes, QPs, TypeInv, CallHasBatch
<1> PICK c \in QPs : c = cursor
  BY <1>3
<1>4. /\ pending' = PendingWith(c) /\ sq'[c] = sq[c] \o posts[c] /\ posts'[c] = <<>>
      /\ \A q \in QPs : q # c => sq'[q] = sq[q] /\ posts'[q] = posts[q]
  BY <1>2
<1>5. ASSUME NEW q \in QPs PROVE Waiting(q)' = Waiting(q)
  <2>1. CASE q # c
    BY <1>4, <2>1 DEF Waiting
  <2>2. CASE q = c
    <3>1. Waiting(c) \in Seq(Work) /\ Waiting(c)' = Waiting(c) \o <<>>
      BY <1>2, <1>4, WaitingType DEF Waiting
    <3> QED BY <2>2, <3>1, ConcatEmptySeq
  <2> QED BY <2>1, <2>2
<1>6. \A q \in QPs : Within(Waiting(q)', Waiting(q))
  BY <1>2, <1>5, WaitingType, WithinSame
<1>7. \A b \in 1..nbatch : Succeeded(b)' => Succeeded(b)
  BY <1>1 DEF Succeeded
<1>8. Seen' = Seen
  BY <1>1 DEF Seen
<1>9. QueueInv'
  BY <1>1, <1>6, <1>7, <1>8, QueueFrame DEF TransferInv
<1>10. /\ DOMAIN pending' = DOMAIN pending \cup PostIds(c)
       /\ \A x : x \in PostIds(c) <=> \E k \in 1..Len(posts[c]) : posts[c][k].id = x
       /\ \A x \in DOMAIN pending : x \notin PostIds(c) /\ pending'[x] = pending[x]
       /\ \A k \in 1..Len(posts[c]) : pending'[posts[c][k].id] = [qp |-> c, chunk |-> posts[c][k].chunk]
  <2>1. /\ DOMAIN PendingWith(c) = DOMAIN pending \cup PostIds(c)
        /\ \A x : x \in PostIds(c) <=> \E k \in 1..Len(posts[c]) : posts[c][k].id = x
        /\ \A x \in DOMAIN pending : x \notin PostIds(c) /\ PendingWith(c)[x] = pending[x]
        /\ \A k \in 1..Len(posts[c]) :
             PendingWith(c)[posts[c][k].id] = [qp |-> c, chunk |-> posts[c][k].chunk]
    BY <1>3, BookedWith
  <2>2. pending' = PendingWith(c)
    BY <1>4
  <2> QED BY <2>1, <2>2 DEF batchVars
<1>11. ASSUME NEW d \in Chunk PROVE d \in InFlight' <=> d \in InFlight
  <2>1. ASSUME NEW x \in DOMAIN pending, pending[x].chunk = d PROVE d \in InFlight'
    BY <1>10, <2>1 DEF InFlight
  <2>2. ASSUME NEW q \in QPs, NEW k \in 1..Len(posts[q]), posts[q][k].chunk = d PROVE d \in InFlight'
    <3>1. CASE q # c
      BY <1>4, <2>2, <3>1 DEF InFlight
    <3>2. CASE q = c
      <4> PICK x : x = posts[c][k].id
        OBVIOUS
      <4>1. x \in PostIds(c) /\ pending'[x] = [qp |-> c, chunk |-> posts[c][k].chunk]
        BY <1>10, <3>2
      <4>2. x \in DOMAIN pending' /\ pending'[x].chunk = d
        BY <1>10, <2>2, <3>2, <4>1
      <4> QED BY <4>2 DEF InFlight
    <3> QED BY <3>1, <3>2
  <2>3. ASSUME NEW x \in DOMAIN pending', pending'[x].chunk = d PROVE d \in InFlight
    <3>1. CASE x \in DOMAIN pending
      BY <1>10, <2>3, <3>1 DEF InFlight
    <3>2. CASE x \in PostIds(c)
      <4>1. PICK k \in 1..Len(posts[c]) : posts[c][k].id = x
        BY <1>10, <3>2
      <4>2. pending'[posts[c][k].id] = [qp |-> c, chunk |-> posts[c][k].chunk]
        BY <1>10
      <4>3. pending'[x] = [qp |-> c, chunk |-> posts[c][k].chunk]
        BY <4>1, <4>2
      <4>4. posts[c][k].chunk = d
        BY <2>3, <4>3
      <4> QED BY <4>4 DEF InFlight
    <3> QED BY <1>10, <2>3, <3>1, <3>2
  <2>4. ASSUME NEW q \in QPs, NEW k \in 1..Len(posts'[q]), posts'[q][k].chunk = d PROVE d \in InFlight
    <3>1. q # c
      BY <1>4, <2>4
    <3> QED BY <1>4, <2>4, <3>1 DEF InFlight
  <2> QED BY <2>1, <2>2, <2>3, <2>4 DEF InFlight
<1>12. InFlight' = InFlight
  <2>1. InFlight \subseteq Chunk /\ InFlight' \subseteq Chunk
    BY DEF InFlight
  <2> QED BY <1>11, <2>1
<1>13. IterCut' /\ YieldedIs'
  BY <1>1, <1>12, YieldedSame
<1> QED BY <1>9, <1>12, <1>13 DEF TransferInv

\* The completion at hand names its chunk, which is of the active batch.
LEMMA HeadIsBooked ==
    ASSUME TypeInv, RoutingInv, TransferInv, HandleWc
    PROVE  /\ wcs \in Seq(WorkCompletion) /\ Head(wcs) \in Range(wcs) /\ Head(wcs).id \in DOMAIN pending
           /\ pending[Head(wcs).id].chunk = Head(wcs).chunk /\ pending \in [DOMAIN pending -> [qp : QPs, chunk : Chunk]]
           /\ Head(wcs).chunk \in InFlight /\ Head(wcs).chunk \in Cut(active)
           /\ Head(wcs).chunk.batch = active /\ Head(wcs).chunk \in DOMAIN moved[active]
<1>1. active # NoBatch /\ cursor \in QPs /\ wcs \in Seq(WorkCompletion) /\ wcs # <<>>
      /\ pc = "handle" /\ Head(wcs).ok /\ active \in 1..MaxBatches
  <2>1. active # NoBatch /\ wcs \in Seq(WorkCompletion) /\ wcs # <<>> /\ pc = "handle" /\ Head(wcs).ok
    BY DEF HandleWc, TypeInv, CallHasBatch, TypeOK, FrameTypes
  <2>2. cursor \in QPs
    BY <2>1, ConstantsAssumption DEF TypeInv, HandledAreOwed, TypeOK, FrameTypes, QPs
  <2> QED BY <2>1, <2>2, BatchNumbers
<1>2. 1 \in DOMAIN wcs /\ Head(wcs) = wcs[1]
  <2>1. Len(wcs) \in Nat \ {0} /\ DOMAIN wcs = 1..Len(wcs)
    BY <1>1, EmptySeq, LenProperties
  <2> QED BY <1>1, <2>1, HeadTailProperties
<1>3. Head(wcs) \in Range(wcs)
  BY <1>2 DEF Range
<1>4. Unhandled(cursor) = wcs
  BY <1>1 DEF Unhandled
<1>5. /\ wcs[1].id \in DOMAIN pending
      /\ pending[wcs[1].id] = [qp |-> cursor, chunk |-> wcs[1].chunk]
  <2>1. PendingKnowsAll
    BY RoutingFollows DEF CompletionRouting
  <2> QED BY <1>1, <1>2, <1>4, <2>1 DEF PendingKnowsAll
<1>6. pending \in [DOMAIN pending -> [qp : QPs, chunk : Chunk]]
  BY DEF TypeInv, TypeOK, WrTypes
<1>7. Head(wcs).chunk \in InFlight
  <2>1. pending[wcs[1].id].chunk = wcs[1].chunk /\ pending[wcs[1].id].chunk \in Chunk
    BY <1>5, <1>6
  <2> QED BY <1>2, <1>5, <2>1 DEF InFlight
<1>8. Head(wcs).chunk \in Cut(active)
  BY <1>1, <1>7 DEF TransferInv, YieldedIs
<1>9. Head(wcs).chunk.batch = active
  BY <1>1, <1>8, CutIs DEF TypeInv, TypeOK
<1>10. Head(wcs).chunk \in DOMAIN moved[active]
  BY <1>1, <1>3, <1>9 DEF TransferInv, QueueInv, OkMoved, Seen
<1> QED BY <1>1, <1>2, <1>3, <1>5, <1>6, <1>7, <1>8, <1>9, <1>10

\* A completion is counted: its chunk was moved.
LEMMA HandleWcTransfer ==
    ASSUME TypeInv, RoutingInv, TransferInv, HandleWc
    PROVE  TransferInv'
<1> USE DEF hwVars
<1>1. /\ UNCHANGED <<nbatch, active, iter, posts, sq, cq, moved>> /\ wcs' = Tail(wcs) /\ active # NoBatch
      /\ pending' = [i \in DOMAIN pending \ {Head(wcs).id} |-> pending[i]] /\ wcs # <<>>
  BY DEF HandleWc, TypeInv, CallHasBatch
<1>2. FrameTypes /\ HwTypes
  BY DEF TypeInv, TypeOK
<1>3. BatchesSame
  BY QuietEffects DEF QuietSteps
<1>4. \A b \in 1..MaxBatches : batch'[b].reqs = batch[b].reqs
  BY <1>3 DEF BatchesSame
<1>5. \A b \in 1..nbatch : Succeeded(b)' => Succeeded(b)
  BY <1>3, BatchNumbers DEF BatchesSame, Succeeded
<1>6. \A q \in QPs : Waiting(q)' = Waiting(q) /\ Within(Waiting(q)', Waiting(q))
  BY <1>1, <1>2, WaitingType, WithinSame DEF Waiting
<1>7. Seen' \subseteq Seen
  <2>1. wcs \in Seq(WorkCompletion) /\ wcs # <<>>
    BY <1>1, HeadIsBooked
  <2>2. /\ Tail(wcs) \in Seq(WorkCompletion) /\ Len(Tail(wcs)) = Len(wcs) - 1 /\ Len(wcs) \in Nat
        /\ \A i \in 1..(Len(wcs) - 1) : Tail(wcs)[i] = wcs[i + 1]
    BY <2>1, HeadTailProperties, LenProperties
  <2>3. DOMAIN wcs = 1..Len(wcs) /\ DOMAIN Tail(wcs) = 1..Len(Tail(wcs))
    BY <2>1, <2>2, LenProperties
  <2>4. \A i \in 1..(Len(wcs) - 1) : i + 1 \in 1..Len(wcs)
    BY <2>2
  <2>5. Range(Tail(wcs)) \subseteq Range(wcs)
    BY <2>2, <2>3, <2>4 DEF Range
  <2> QED BY <1>1, <2>5 DEF Seen
<1>8. QueueInv'
  BY <1>1, <1>4, <1>5, <1>6, <1>7, QueueFrame DEF TransferInv
<1> PICK a \in 1..MaxBatches : a = active
  BY <1>1, BatchNumbers
<1> PICK c : c = Head(wcs).chunk
  OBVIOUS
<1>9. c \in DOMAIN moved[a] /\ pending[Head(wcs).id].chunk = c /\ c \in Cut(a)
  BY HeadIsBooked
<1>10. InFlight' \subseteq InFlight /\ InFlight \subseteq InFlight' \cup {c}
  BY <1>1, <1>9 DEF InFlight
<1>11. IterCut'
  BY <1>1, <1>4 DEF TransferInv, IterCut
<1>12. YieldedIs'
  <2>1. InFlight \subseteq Cut(a) /\ InFlight \cup DOMAIN moved[a] = {d \in Cut(a) : Before(d)}
    BY <1>1 DEF TransferInv, YieldedIs
  <2>2. Cut(a)' = Cut(a) /\ \A d : Before(d)' <=> Before(d)
    BY <1>1, <1>4, CutSame DEF Before
  <2>3. InFlight' \subseteq Cut(a) /\ InFlight' \cup DOMAIN moved[a] = {d \in Cut(a) : Before(d)}
    BY <1>9, <1>10, <2>1
  <2>4. InFlight' \subseteq Cut(a)' /\ InFlight' \cup DOMAIN moved'[a] = {d \in Cut(a)' : Before(d)'}
    BY <1>1, <2>2, <2>3
  <2> QED BY <1>1, <2>4 DEF YieldedIs
<1> QED BY <1>8, <1>11, <1>12 DEF TransferInv

\* The adapter takes the oldest work request of q off its send queue.
LEMMA HwTakes ==
    ASSUME TypeInv, NEW q \in QPs, HwComplete(q) \/ HwError(q)
    PROVE  /\ UNCHANGED <<batch, nbatch, active, iter, pending, posts, wcs>> /\ InFlight' = InFlight
           /\ 1 \in 1..Len(Waiting(q)) /\ Waiting(q)[1].chunk = Head(sq[q]).chunk
           /\ \A i \in 1..Len(Waiting(q)') :
                1 + i \in 1..Len(Waiting(q)) /\ Waiting(q)'[i] = Waiting(q)[1 + i]
           /\ \A p \in QPs : p # q => Waiting(p)' = Waiting(p)
           /\ \A wc \in Seen' :
                wc \in Seen \/ (wc.chunk = Head(sq[q]).chunk /\ (wc.ok => qp'[q] = "rts"))
<1> USE DEF batchVars, wrVars, frameVars
<1>1. /\ UNCHANGED <<batch, nbatch, active, iter, pending, posts, wcs>> /\ sq[q] # <<>>
      /\ sq' = [sq EXCEPT ![q] = Tail(@)]
  BY DEF HwComplete, HwError
<1>2. FrameTypes /\ HwTypes /\ sq \in [QPs -> Seq(Work)] /\ cq \in [QPs -> Seq(WorkCompletion)]
  BY DEF TypeInv, TypeOK, HwTypes
<1>3. sq'[q] = Tail(sq[q]) /\ \A p \in QPs : p # q => sq'[p] = sq[p]
  BY <1>1, <1>2
<1>4. sq[q] \in Seq(Work) /\ posts[q] \in Seq(Work)
  BY <1>2, WaitingType
<1> DEFINE s == sq[q]
<1> DEFINE t == posts[q]
<1>5. Waiting(q) = s \o t /\ Waiting(q)' = Tail(s) \o t
  BY <1>1, <1>3 DEF Waiting
<1>6. s \in Seq(Work) /\ t \in Seq(Work) /\ s # <<>>
  BY <1>1, <1>4
<1> HIDE DEF s, t
<1>7. /\ Tail(s) \o t = Tail(s \o t) /\ s \o t # <<>> /\ (s \o t)[1] = Head(s)
      /\ \A i \in 1..Len(Tail(s \o t)) : 1 + i \in 1..Len(s \o t) /\ Tail(s \o t)[i] = (s \o t)[1 + i]
  BY <1>6, WithinTail
<1>8. 1 \in 1..Len(s \o t)
  <2>1. s \o t \in Seq(Work)
    BY <1>6, ConcatProperties
  <2>2. Len(s \o t) \in Nat \ {0}
    BY <1>7, <2>1, EmptySeq, LenProperties
  <2> QED BY <2>2
<1>9. /\ 1 \in 1..Len(Waiting(q)) /\ Waiting(q)[1] = Head(s)
      /\ \A i \in 1..Len(Waiting(q)') :
           1 + i \in 1..Len(Waiting(q)) /\ Waiting(q)'[i] = Waiting(q)[1 + i]
  BY <1>5, <1>7, <1>8
<1>10. \A p \in QPs : p # q => Waiting(p)' = Waiting(p)
  BY <1>1, <1>3 DEF Waiting
<1>11. InFlight' = InFlight
  BY <1>1 DEF InFlight
<1>12. PICK wc \in WorkCompletion : /\ cq'[q] = Append(cq[q], wc) /\ wc.chunk = Head(sq[q]).chunk
                                    /\ wc.ok => qp'[q] = "rts"
                                    /\ \A p \in QPs : p # q => cq'[p] = cq[p]
  <2> DEFINE new(ok) == [id |-> Head(sq[q]).id, chunk |-> Head(sq[q]).chunk, ok |-> ok]
  <2>1. Head(sq[q]) \in Work
    BY <1>1, <1>4, HeadTailProperties
  <2>2. \A ok \in BOOLEAN : new(ok) \in WorkCompletion /\ new(ok).chunk = Head(sq[q]).chunk /\ new(ok).ok = ok
    BY <2>1 DEF Work, WorkCompletion
  <2>3. CASE HwComplete(q)
    <3>1. cq' = [cq EXCEPT ![q] = Append(@, new(TRUE))]
      BY <2>3 DEF HwComplete
    <3> HIDE DEF new
    <3>2. cq'[q] = Append(cq[q], new(TRUE)) /\ \A p \in QPs : p # q => cq'[p] = cq[p]
      BY <1>2, <3>1
    <3>3. qp'[q] = "rts"
      BY <2>3 DEF HwComplete
    <3> QED BY <2>2, <3>2, <3>3
  <2>4. CASE HwError(q)
    <3>1. cq' = [cq EXCEPT ![q] = Append(@, new(FALSE))]
      BY <2>4 DEF HwError
    <3> HIDE DEF new
    <3>2. cq'[q] = Append(cq[q], new(FALSE)) /\ \A p \in QPs : p # q => cq'[p] = cq[p]
      BY <1>2, <3>1
    <3> QED BY <2>2, <3>2
  <2> QED BY <2>3, <2>4
<1>13. \A p \in QPs : Range(cq'[p]) \subseteq Range(cq[p]) \cup {wc}
  <2>1. cq[q] \in Seq(WorkCompletion)
    BY <1>2
  <2>2. Range(Append(cq[q], wc)) = Range(cq[q]) \cup {wc}
    BY <2>1, RangeAppend
  <2> QED BY <1>12, <2>2
<1>14. Seen' \subseteq Seen \cup {wc}
  BY <1>1, <1>13 DEF Seen
<1>15. \A x \in Seen' : x \in Seen \/ (x.chunk = Head(sq[q]).chunk /\ (x.ok => qp'[q] = "rts"))
  BY <1>12, <1>14
<1>16. Waiting(q)[1].chunk = Head(sq[q]).chunk
  BY <1>9 DEF s
<1> QED BY <1>1, <1>9, <1>10, <1>11, <1>15, <1>16

\* A work request that fails, or is flushed, moves nothing.
LEMMA HwErrorTransfer ==
    ASSUME TypeInv, TransferInv, NEW q \in QPs, HwError(q)
    PROVE  TransferInv'
<1>1. UNCHANGED <<batch, nbatch, active, iter, pending, posts, wcs>> /\ InFlight' = InFlight
  BY HwTakes
<1>2. moved' = moved /\ qp'[q] = "error" /\ FrameTypes /\ HwTypes
  <2>1. FrameTypes /\ HwTypes /\ qp \in [QPs -> {"reset", "rts", "error", "destroyed"}]
    BY DEF TypeInv, TypeOK, HwTypes
  <2>2. moved' = moved /\ qp' = [qp EXCEPT ![q] = "error"]
    BY DEF HwError
  <2> QED BY <2>1, <2>2
<1>3. \A p \in QPs : Within(Waiting(p)', Waiting(p))
  <2> SUFFICES ASSUME NEW p \in QPs PROVE Within(Waiting(p)', Waiting(p))
    OBVIOUS
  <2>1. CASE p # q
    BY <1>2, <2>1, HwTakes, WaitingType, WithinSame
  <2>2. CASE p = q
    BY <2>2, HwTakes DEF Within
  <2> QED BY <2>1, <2>2
<1>4. \A wc \in Seen' : wc.ok => wc \in Seen
  BY <1>2, HwTakes
<1>5. \A b \in 1..nbatch : Succeeded(b)' => Succeeded(b)
  BY <1>1 DEF Succeeded
<1>6. QueueInv'
  BY <1>1, <1>2, <1>3, <1>4, <1>5, QueueFrame DEF TransferInv
<1>7. IterCut' /\ YieldedIs'
  BY <1>1, <1>2, YieldedSame
<1> QED BY <1>6, <1>7 DEF TransferInv

\* A set of things, each of them once, and one more.
LEMMA AddOne ==
    ASSUME NEW B, NEW c, B = [e \in DOMAIN B |-> 1], c \notin DOMAIN B
    PROVE  /\ B (+) SetToBag({c}) = [e \in DOMAIN (B (+) SetToBag({c})) |-> 1]
           /\ DOMAIN (B (+) SetToBag({c})) = DOMAIN B \cup {c}
<1> DEFINE D == DOMAIN B
<1>1. B = [e \in D |-> 1] /\ c \notin D
  OBVIOUS
<1>2. SetToBag({c}) = [e \in {c} |-> 1] /\ DOMAIN SetToBag({c}) = {c}
  BY DEF SetToBag
<1>3. B (+) SetToBag({c})
      = [e \in D \cup {c} |-> (IF e \in D THEN B[e] ELSE 0) + (IF e \in {c} THEN SetToBag({c})[e] ELSE 0)]
  BY <1>2 DEF (+)
<1> HIDE DEF D
<1>4. \A e \in D \cup {c} : (IF e \in D THEN B[e] ELSE 0) + (IF e \in {c} THEN SetToBag({c})[e] ELSE 0) = 1
  BY <1>1, <1>2
<1>5. B (+) SetToBag({c}) = [e \in D \cup {c} |-> 1]
  BY <1>3, <1>4
<1> QED BY <1>5 DEF D

\* A work request is carried out: its chunk, never moved before, is now.
LEMMA HwCompleteMoves ==
    ASSUME TypeInv, TransferInv, NEW q \in QPs, HwComplete(q)
    PROVE  LET c == Waiting(q)[1].chunk IN
           /\ Fresh(c) /\ c \in Chunk /\ c.batch \in 1..MaxBatches
           /\ DOMAIN moved'[c.batch] = DOMAIN moved[c.batch] \cup {c}
           /\ moved'[c.batch] = [d \in DOMAIN moved'[c.batch] |-> 1]
           /\ moved' = [b \in 1..MaxBatches |-> moved'[b]]
           /\ \A b \in 1..MaxBatches : b # c.batch => moved'[b] = moved[b]
<1> PICK c : c = Waiting(q)[1].chunk
  OBVIOUS
<1>1. 1 \in 1..Len(Waiting(q)) /\ c = Head(sq[q]).chunk
  BY HwTakes
<1>2. Fresh(c)
  BY <1>1 DEF TransferInv, QueueInv, WaitingFresh
<1>3. c \in Chunk /\ c.batch \in 1..MaxBatches
  BY <1>2, BatchNumbers DEF Fresh, Cut
<1> PICK n \in 1..MaxBatches : n = c.batch
  BY <1>3
<1>4. /\ moved = [b \in 1..MaxBatches |-> moved[b]] /\ moved[n] = [d \in DOMAIN moved[n] |-> 1]
      /\ c \notin DOMAIN moved[n]
  BY <1>2 DEF TransferInv, QueueInv, MovedOnce, Fresh
<1>5. moved' = [moved EXCEPT ![n] = @ (+) SetToBag({c})]
  BY <1>1 DEF HwComplete
<1>6. /\ moved'[n] = moved[n] (+) SetToBag({c}) /\ DOMAIN moved' = 1..MaxBatches
      /\ \A b \in 1..MaxBatches : b # n => moved'[b] = moved[b]
      /\ moved' = [b \in 1..MaxBatches |-> moved'[b]]
  BY <1>4, <1>5
<1>7. DOMAIN moved'[n] = DOMAIN moved[n] \cup {c} /\ moved'[n] = [d \in DOMAIN moved'[n] |-> 1]
  <2> PICK B : B = moved[n]
    OBVIOUS
  <2>1. B = [d \in DOMAIN B |-> 1] /\ c \notin DOMAIN B
    BY <1>4
  <2>2. /\ B (+) SetToBag({c}) = [e \in DOMAIN (B (+) SetToBag({c})) |-> 1]
        /\ DOMAIN (B (+) SetToBag({c})) = DOMAIN B \cup {c}
    BY <2>1, AddOne
  <2>3. moved'[n] = B (+) SetToBag({c})
    BY <1>6
  <2> QED BY <2>2, <2>3
<1> QED BY <1>2, <1>3, <1>6, <1>7

\* ... and what waits behind it is as fresh as before.
LEMMA HwCompleteTransfer ==
    ASSUME TypeInv, RoutingInv, TransferInv, NEW q \in QPs, HwComplete(q)
    PROVE  TransferInv'
<1> PICK c : c = Waiting(q)[1].chunk
  OBVIOUS
<1>1. UNCHANGED <<batch, nbatch, active, iter, pending, posts, wcs>> /\ InFlight' = InFlight
  BY HwTakes
<1>2. /\ Fresh(c) /\ c.batch \in 1..MaxBatches
      /\ DOMAIN moved'[c.batch] = DOMAIN moved[c.batch] \cup {c}
      /\ moved'[c.batch] = [d \in DOMAIN moved'[c.batch] |-> 1]
      /\ moved' = [b \in 1..MaxBatches |-> moved'[b]]
      /\ \A b \in 1..MaxBatches : b # c.batch => moved'[b] = moved[b]
  BY HwCompleteMoves
<1> PICK n \in 1..MaxBatches : n = c.batch
  BY <1>2
<1>3. \A b \in 1..MaxBatches : Cut(b)' = Cut(b)
  BY <1>1, CutSame
<1>4. c \in Cut(n) /\ n \in 1..nbatch /\ nbatch \in Nat
  BY <1>2, BatchNumbers DEF Fresh
<1>5. MovedOnce'
  <2>1. ASSUME NEW b \in 1..MaxBatches
        PROVE  /\ moved'[b] = [d \in DOMAIN moved'[b] |-> 1] /\ DOMAIN moved'[b] \subseteq Cut(b)
               /\ b > nbatch => DOMAIN moved'[b] = {} /\ batch[b].reqs = <<>>
    <3>1. /\ moved[b] = [d \in DOMAIN moved[b] |-> 1] /\ DOMAIN moved[b] \subseteq Cut(b)
          /\ b > nbatch => DOMAIN moved[b] = {} /\ batch[b].reqs = <<>>
      BY DEF TransferInv, QueueInv, MovedOnce
    <3>2. CASE b = n
      <4>1. ~(b > nbatch)
        BY <1>4, <3>2
      <4> QED BY <1>2, <1>4, <3>1, <3>2, <4>1
    <3>3. CASE b # n
      BY <1>2, <3>1, <3>3
    <3> QED BY <3>2, <3>3
  <2> QED BY <1>1, <1>2, <1>3, <2>1 DEF MovedOnce
<1>6. \A p \in QPs : \A i \in 1..Len(Waiting(p)') :
        \E j \in 1..Len(Waiting(p)) :
            /\ Waiting(p)'[i] = Waiting(p)[j] /\ Waiting(p)[j].chunk # c
            /\ j = IF p = q THEN 1 + i ELSE i
  <2> SUFFICES ASSUME NEW p \in QPs, NEW i \in 1..Len(Waiting(p)')
               PROVE  \E j \in 1..Len(Waiting(p)) :
                          /\ Waiting(p)'[i] = Waiting(p)[j] /\ Waiting(p)[j].chunk # c
                          /\ j = IF p = q THEN 1 + i ELSE i
    OBVIOUS
  <2>1. PICK j \in 1..Len(Waiting(p)) : Waiting(p)'[i] = Waiting(p)[j] /\ j = IF p = q THEN 1 + i ELSE i
    <3>1. CASE p = q
      BY <3>1, HwTakes
    <3>2. CASE p # q
      BY <3>2, HwTakes
    <3> QED BY <3>1, <3>2
  <2>2. i \in Int /\ i >= 1 /\ 1 \in 1..Len(Waiting(q))
    BY HwTakes
  <2>3. ~(p = q /\ j = 1)
    BY <2>1, <2>2
  <2>4. Waiting(p)[j].chunk # c
    BY <2>2, <2>3 DEF TransferInv, QueueInv, WaitingOnce
  <2> QED BY <2>1, <2>4
<1>7. WaitingFresh'
  <2> SUFFICES ASSUME NEW p \in QPs, NEW i \in 1..Len(Waiting(p)') PROVE Fresh(Waiting(p)[i].chunk)'
    BY DEF WaitingFresh
  <2>1. PICK j \in 1..Len(Waiting(p)) : Waiting(p)'[i] = Waiting(p)[j] /\ Waiting(p)[j].chunk # c
    BY <1>6
  <2> PICK d : d = Waiting(p)[j].chunk
    OBVIOUS
  <2>2. Fresh(d) /\ d # c
    BY <2>1 DEF TransferInv, QueueInv, WaitingFresh
  <2>3. d.batch \in 1..MaxBatches /\ Cut(d.batch)' = Cut(d.batch)
    BY <1>3, <2>2, BatchNumbers DEF Fresh
  <2>4. d \notin DOMAIN moved'[d.batch]
    BY <1>2, <2>2, <2>3 DEF Fresh
  <2>5. d.batch \in 1..nbatch' /\ d \in Cut(d.batch)' /\ ~Succeeded(d.batch)'
    BY <1>1, <2>2, <2>3 DEF Fresh, Succeeded
  <2>6. Waiting(p)'[i].chunk = d
    BY <2>1
  <2> QED BY <2>4, <2>5, <2>6 DEF Fresh
<1>8. WaitingOnce'
  <2> SUFFICES ASSUME NEW p \in QPs, NEW r \in QPs, NEW i \in 1..Len(Waiting(p)'),
                      NEW j \in 1..Len(Waiting(r)'), Waiting(p)'[i].chunk = Waiting(r)'[j].chunk
               PROVE  p = r /\ i = j
    BY DEF WaitingOnce
  <2>1. PICK k \in 1..Len(Waiting(p)) : Waiting(p)'[i] = Waiting(p)[k] /\ k = IF p = q THEN 1 + i ELSE i
    BY <1>6
  <2>2. PICK l \in 1..Len(Waiting(r)) : Waiting(r)'[j] = Waiting(r)[l] /\ l = IF r = q THEN 1 + j ELSE j
    BY <1>6
  <2>3. p = r /\ k = l
    BY <2>1, <2>2 DEF TransferInv, QueueInv, WaitingOnce
  <2>4. i \in Int /\ j \in Int
    OBVIOUS
  <2> QED BY <2>1, <2>2, <2>3, <2>4
<1>9. OkMoved'
  <2> SUFFICES ASSUME NEW wc \in Seen', wc.ok PROVE wc.chunk \in DOMAIN moved'[wc.chunk.batch]
    BY DEF OkMoved
  <2>1. CASE wc.chunk = c
    BY <1>2, <2>1
  <2>2. CASE wc \in Seen
    <3>1. wc.chunk \in DOMAIN moved[wc.chunk.batch]
      BY <2>2 DEF TransferInv, QueueInv, OkMoved
    <3>2. CASE wc.chunk.batch = n
      BY <1>2, <3>1, <3>2
    <3>3. CASE wc.chunk.batch # n
      <4>1. wcs \in Seq(WorkCompletion) /\ cq \in [QPs -> Seq(WorkCompletion)]
        BY DEF TypeInv, TypeOK, FrameTypes, HwTypes
      <4>2. \A u \in Seq(WorkCompletion) : Range(u) \subseteq WorkCompletion
        BY DEF Range
      <4>3. wc \in WorkCompletion
        BY <2>2, <4>1, <4>2 DEF Seen
      <4>4. wc.chunk.batch \in 1..MaxBatches
        BY <4>3 DEF WorkCompletion, Chunk
      <4> QED BY <1>2, <3>1, <3>3, <4>4
    <3> QED BY <3>2, <3>3
  <2> QED BY <2>1, <2>2, HwTakes
<1>10. IterCut'
  BY <1>1 DEF TransferInv, IterCut
<1>11. YieldedIs'
  <2> SUFFICES ASSUME active # NoBatch PROVE YieldedIs'
    BY <1>1 DEF YieldedIs
  <2> PICK a \in 1..MaxBatches : a = active
    BY BatchNumbers
  <2>1. c \in InFlight
    BY HwTakes, WaitingInFlight
  <2>2. InFlight \subseteq Cut(a) /\ InFlight \cup DOMAIN moved[a] = {d \in Cut(a) : Before(d)}
    BY DEF TransferInv, YieldedIs
  <2>3. DOMAIN moved'[a] = DOMAIN moved[a] \/ DOMAIN moved'[a] = DOMAIN moved[a] \cup {c}
    BY <1>2
  <2>4. InFlight \cup DOMAIN moved'[a] = {d \in Cut(a) : Before(d)}
    BY <2>1, <2>2, <2>3
  <2>5. \A d : Before(d)' <=> Before(d)
    BY <1>1 DEF Before
  <2>6. InFlight' \subseteq Cut(a)' /\ InFlight' \cup DOMAIN moved'[a] = {d \in Cut(a)' : Before(d)'}
    BY <1>1, <1>3, <2>2, <2>4, <2>5
  <2> QED BY <1>1, <2>6 DEF YieldedIs
<1> QED BY <1>5, <1>7, <1>8, <1>9, <1>10, <1>11 DEF TransferInv, QueueInv

\* What steps that end the active batch do to its work: the adapter keeps what
\* it accepted, and what it did not is dropped.
LEMMA LosingQueues ==
    ASSUME TypeInv, RoutingInv, LosingSteps
    PROVE  /\ UNCHANGED <<moved, cq>> /\ Seen' \subseteq Seen
           /\ \A q \in QPs : Within(Waiting(q)', Waiting(q))
<1> USE DEF LosingSteps, frameVars
<1>1. UNCHANGED <<moved, cq>> /\ (wcs' = wcs \/ wcs' = <<>>)
  BY DEF Failure, AllocFail, PostFail, PollFail, TimedOut, Cancelled, WaitForeign, HandleBadWc,
      Close, WaitLeftBehind, FailTransport, LoseTransport, EmptyFrame
<1>2. Seen' \subseteq Seen
  BY <1>1 DEF Seen, Range
<1>3. \A q \in QPs : posts'[q] = <<>>
  <2>1. CASE Close
    BY <2>1 DEF Close, RoutingInv, ListsInRefill
  <2>2. CASE ~Close
    BY <2>2 DEF Failure, AllocFail, PostFail, PollFail, TimedOut, Cancelled, WaitForeign, HandleBadWc,
        WaitLeftBehind, FailTransport, LoseTransport, EmptyFrame
  <2> QED BY <2>1, <2>2
<1>4. FrameTypes /\ HwTypes /\ sq \in [QPs -> Seq(Work)] /\ posts \in [QPs -> Seq(Work)]
  BY DEF TypeInv, TypeOK, FrameTypes, HwTypes
<1>5. ASSUME NEW q \in QPs
      PROVE  \E n \in 0..Len(posts[q]) : sq'[q] = sq[q] \o SubSeq(posts[q], 1, n) \/ sq'[q] = sq[q]
  <2>1. Len(posts[q]) \in Nat
    BY <1>4, WaitingType
  <2>2. CASE PostFail
    <3>1. PICK n \in 0..(Len(posts[cursor]) - 1) :
            sq' = [sq EXCEPT ![cursor] = @ \o SubSeq(posts[cursor], 1, n)]
      BY <2>2 DEF PostFail, FailTransport, LoseTransport
    <3>2. CASE q = cursor
      <4>1. n \in 0..Len(posts[q]) /\ sq'[q] = sq[q] \o SubSeq(posts[q], 1, n)
        <5>1. n \in 0..(Len(posts[q]) - 1)
          BY <3>1, <3>2
        <5>2. sq' = [sq EXCEPT ![q] = @ \o SubSeq(posts[q], 1, n)]
          BY <3>1, <3>2
        <5>3. n \in 0..Len(posts[q])
          BY <2>1, <5>1
        <5> QED BY <1>4, <5>2, <5>3
      <4> QED BY <4>1
    <3>3. CASE q # cursor
      <4>1. sq'[q] = sq[q] /\ 0 \in 0..Len(posts[q])
        BY <1>4, <2>1, <3>1, <3>3
      <4> QED BY <4>1
    <3> QED BY <3>2, <3>3
  <2>3. CASE ~PostFail
    <3>1. sq' = sq /\ 0 \in 0..Len(posts[q])
      BY <2>1, <2>3 DEF Failure, AllocFail, PollFail, TimedOut, Cancelled, WaitForeign, HandleBadWc,
          Close, WaitLeftBehind, FailTransport, LoseTransport
    <3> QED BY <3>1
  <2> QED BY <2>2, <2>3
<1>6. ASSUME NEW q \in QPs PROVE Within(Waiting(q)', Waiting(q))
  <2> PICK s \in Seq(Work) : s = sq[q]
    BY <1>4
  <2> PICK t \in Seq(Work) : t = posts[q]
    BY <1>4
  <2>1. PICK n \in 0..Len(t) : sq'[q] = s \o SubSeq(t, 1, n) \/ sq'[q] = s
    BY <1>5
  <2> PICK u : u = SubSeq(t, 1, n)
    OBVIOUS
  <2>2. Within(s \o u, s \o t) /\ Within(s, s \o t)
    BY <2>1, WithinCut
  <2>3. u \in Seq(Work)
    <3>1. Len(t) \in Nat /\ n \in 0..Len(t)
      BY <2>1, LenProperties
    <3>2. \A i \in 1..n : i \in 1..Len(t)
      BY <3>1
    <3>3. \A i \in 1..n : t[i] \in Work
      BY <3>2, ElementOfSeq
    <3> QED BY <3>3, SubSeqProperties
  <2>4. Waiting(q)' = sq'[q] /\ Waiting(q) = s \o t
    <3>1. sq'[q] \in Seq(Work)
      <4>1. s \o u \in Seq(Work)
        BY <2>3, ConcatProperties
      <4> QED BY <2>1, <4>1
    <3>2. Waiting(q)' = sq'[q] \o <<>>
      BY <1>3 DEF Waiting
    <3> QED BY <3>1, <3>2, ConcatEmptySeq DEF Waiting
  <2> QED BY <2>1, <2>2, <2>4
<1> QED BY <1>1, <1>2, <1>6

\* A lost transport, or close: no batch succeeds, none is active.
LEMMA LosingTransfer ==
    ASSUME TypeInv, RoutingInv, FailInv, TransferInv, LosingSteps
    PROVE  TransferInv'
<1>1. active' = NoBatch /\ nbatch' = nbatch
  BY LosingEffects
<1>2. \A b \in 1..MaxBatches : batch'[b].reqs = batch[b].reqs /\ (Succeeded(b)' => Succeeded(b))
  <2>1. CASE batch' = batch
    BY <2>1 DEF Succeeded
  <2>2. ASSUME NEW c \in 1..MaxBatches, NEW e \in Errors \ {"none", "callback"}, Ended(c, e)
        PROVE  \A b \in 1..MaxBatches : batch'[b].reqs = batch[b].reqs /\ (Succeeded(b)' => Succeeded(b))
    <3> SUFFICES ASSUME NEW b \in 1..MaxBatches
                 PROVE  batch'[b].reqs = batch[b].reqs /\ (Succeeded(b)' => Succeeded(b))
      OBVIOUS
    <3>1. CASE b = c
      BY <2>2, <3>1 DEF Ended, SameCounts, Succeeded
    <3>2. CASE b # c
      BY <2>2, <3>2 DEF Ended, Succeeded
    <3> QED BY <3>1, <3>2
  <2> QED BY <2>1, <2>2, LosingEffects
<1>3. \A b \in 1..nbatch : Succeeded(b)' => Succeeded(b)
  BY <1>2, BatchNumbers
<1>4. moved' = moved /\ (\A wc \in Seen' : wc.ok => wc \in Seen) /\ \A q \in QPs : Within(Waiting(q)', Waiting(q))
  BY LosingQueues
<1>5. QueueInv'
  BY <1>1, <1>2, <1>3, <1>4, QueueFrame DEF TransferInv
<1>6. IterCut' /\ YieldedIs'
  BY <1>1 DEF IterCut, YieldedIs
<1> QED BY <1>5, <1>6 DEF TransferInv

\* A batch is marked by another scheduler's wait, or its callback ends.
LEMMA MarkTransfer ==
    ASSUME TypeInv, FailInv, CallbackInv, TransferInv,
           (\E b \in 1..MaxBatches : ForeignWait(b)) \/ (\E ok \in BOOLEAN : CallbackReturns(ok))
    PROVE  TransferInv'
<1> USE DEF frameVars, wrVars, hwVars
<1>1. UNCHANGED <<nbatch, active, iter, pending, posts, wcs, sq, cq, moved>>
  BY DEF ForeignWait, CallbackReturns
<1>2. \A b \in 1..MaxBatches : batch'[b].reqs = batch[b].reqs /\ (b \in 1..nbatch => (Succeeded(b)' => Succeeded(b)))
  <2>1. ASSUME NEW c \in 1..MaxBatches, ForeignWait(c)
        PROVE  \A b \in 1..MaxBatches : batch'[b].reqs = batch[b].reqs /\ (Succeeded(b)' => Succeeded(b))
    <3> SUFFICES ASSUME NEW b \in 1..MaxBatches
                 PROVE  batch'[b].reqs = batch[b].reqs /\ (Succeeded(b)' => Succeeded(b))
      OBVIOUS
    <3>1. Ended(c, "transport")
      BY <2>1, EndBatchEnds DEF ForeignWait, TypeInv, TypeOK
    <3>2. CASE b = c
      BY <3>1, <3>2 DEF Ended, SameCounts, Succeeded
    <3>3. CASE b # c
      BY <3>1, <3>3 DEF Ended, Succeeded
    <3> QED BY <3>2, <3>3
  <2>2. ASSUME NEW ok \in BOOLEAN, CallbackReturns(ok)
        PROVE  \A b \in 1..MaxBatches : batch'[b].reqs = batch[b].reqs /\ (b \in 1..nbatch => (Succeeded(b)' => Succeeded(b)))
    <3> SUFFICES ASSUME NEW b \in 1..MaxBatches
                 PROVE  batch'[b].reqs = batch[b].reqs /\ (b \in 1..nbatch => (Succeeded(b)' => Succeeded(b)))
      OBVIOUS
    <3>1. /\ batch'[b].done = batch[b].done /\ batch'[b].reqs = batch[b].reqs /\ callbacks # <<>>
          /\ \/ batch'[b].error = batch[b].error
             \/ batch'[b].error = "callback" /\ b = callbacks[Len(callbacks)]
      BY <2>2, CallbackEffects DEF SameCounts
    <3>2. callbacks # <<>> => Succeeded(callbacks[Len(callbacks)])
      <4>1. callbacks \in Seq(1..MaxBatches)
        BY DEF TypeInv, TypeOK, BatchTypes
      <4>2. callbacks # <<>> => Len(callbacks) \in 1..Len(callbacks)
        BY <4>1, EmptySeq, LenProperties
      <4> QED BY <4>2 DEF CallbackInv
    <3> QED BY <3>1, <3>2 DEF Succeeded
  <2> QED BY <2>1, <2>2
<1>3. \A b \in 1..nbatch : Succeeded(b)' => Succeeded(b)
  BY <1>2, BatchNumbers
<1>4. \A q \in QPs : Within(Waiting(q)', Waiting(q))
  <2>1. FrameTypes /\ HwTypes
    BY DEF TypeInv, TypeOK
  <2> QED BY <1>1, <2>1, WaitingType, WithinSame DEF Waiting
<1>5. Seen' = Seen /\ InFlight' = InFlight
  BY <1>1 DEF Seen, InFlight
<1>6. QueueInv'
  BY <1>1, <1>2, <1>3, <1>4, <1>5, QueueFrame DEF TransferInv
<1>7. IterCut' /\ YieldedIs'
  BY <1>1, <1>2, <1>5, YieldedSame
<1> QED BY <1>6, <1>7 DEF TransferInv

\* A batch succeeds when nothing of it is in flight.
LEMMA SucceedTransfer ==
    ASSUME TypeInv, RoutingInv, TransferInv, Succeed
    PROVE  TransferInv' /\ InFlight = {} /\ Finished(active, batch) /\ active \in 1..nbatch
<1> USE DEF hwVars
<1>1. /\ UNCHANGED <<nbatch, sq, cq, moved>> /\ active' = NoBatch /\ pc = "check" /\ DOMAIN pending = {}
      /\ wcs' = <<>> /\ posts' = [q \in QPs |-> <<>>]
  BY DEF Succeed, FinishSuccess, EmptyFrame
<1>2. active # NoBatch /\ FrameTypes /\ HwTypes /\ active \in 1..nbatch /\ active \in 1..MaxBatches
  BY <1>1, BatchNumbers DEF TypeInv, CallHasBatch, TypeOK
<1>3. \A q \in QPs : posts[q] = <<>>
  BY <1>1 DEF RoutingInv, ListsInRefill
<1>4. InFlight = {}
  BY <1>1, <1>3 DEF InFlight
<1>5. Finished(active, batch)
  <2>1. batch \in [1..MaxBatches -> BatchState]
    BY DEF TypeInv, TypeOK, BatchTypes
  <2> QED BY <1>2, <2>1, FinishEffects DEF Succeed
<1>6. \A b \in 1..MaxBatches : batch'[b].reqs = batch[b].reqs
  BY <1>5 DEF Finished, SameCounts
<1>7. \A q \in QPs : Waiting(q)' = Waiting(q) /\ Within(Waiting(q)', Waiting(q)) /\ Len(Waiting(q)') = 0
  <2> SUFFICES ASSUME NEW q \in QPs
               PROVE  Waiting(q)' = Waiting(q) /\ Within(Waiting(q)', Waiting(q)) /\ Len(Waiting(q)') = 0
    OBVIOUS
  <2>1. Waiting(q)' = Waiting(q) /\ Waiting(q) \in Seq(Work)
    BY <1>1, <1>2, <1>3, WaitingType DEF Waiting
  <2>2. Len(Waiting(q)) \in Nat /\ ~ \E i \in 1..Len(Waiting(q)) : TRUE
    BY <1>2, <1>4, <2>1, WaitingInFlight, LenProperties
  <2>3. Len(Waiting(q)) = 0
    BY <2>2
  <2> QED BY <2>1, <2>3, WithinSame
<1>8. Seen' \subseteq Seen
  BY <1>1 DEF Seen, Range
<1>9. QueueInv'
  BY <1>1, <1>6, <1>7, <1>8, QueueFrame DEF TransferInv
<1>10. IterCut' /\ YieldedIs'
  BY <1>1 DEF IterCut, YieldedIs
<1> QED BY <1>2, <1>4, <1>5, <1>9, <1>10 DEF TransferInv

\* A batch is submitted to QPs that hold nothing.
LEMMA SubmitTransfer ==
    ASSUME TypeInv, RoutingInv, TransferInv, NEW reqs \in RequestLists, NEW cb \in BOOLEAN, Submit(reqs, cb)
    PROVE  TransferInv' /\ DOMAIN moved[nbatch + 1] = {} /\ moved' = moved
<1> USE DEF hwVars, wrVars
<1>1. /\ UNCHANGED <<pending, sq, cq, moved>> /\ wcs' = <<>> /\ iter' = [req |-> 1, off |-> 0]
      /\ posts' = [q \in QPs |-> <<>>] /\ active = NoBatch /\ Usable
  BY DEF Submit, FinishSuccess, EnterRefill, EmptyFrame
<1>2. FrameTypes /\ HwTypes /\ sq \in [QPs -> Seq(Work)] /\ cq \in [QPs -> Seq(WorkCompletion)]
  BY DEF TypeInv, TypeOK, HwTypes
<1>3. DOMAIN pending = {} /\ \A q \in QPs : sq[q] = <<>> /\ cq[q] = <<>>
  <2>1. DOMAIN pending = {} /\ \A q \in QPs : Len(sq[q]) = 0 /\ Len(cq[q]) = 0
    BY <1>1 DEF RoutingInv, QuietBetween
  <2> QED BY <1>2, <2>1, EmptySeq
<1>4. InFlight' = {}
  BY <1>1, <1>3 DEF InFlight
<1>5. Seen' = {}
  BY <1>1, <1>3 DEF Seen, Range
<1>6. \A q \in QPs : Len(Waiting(q)') = 0
  <2> SUFFICES ASSUME NEW q \in QPs PROVE Len(Waiting(q)') = 0
    OBVIOUS
  <2>1. Waiting(q)' = <<>> \o <<>>
    BY <1>1, <1>3 DEF Waiting
  <2> QED BY <2>1
<1> PICK n : n = nbatch + 1
  OBVIOUS
<1>7. /\ n \in 1..MaxBatches /\ nbatch' = n /\ nbatch \in Nat
      /\ \A b \in 1..MaxBatches : b # n => batch'[b] = batch[b]
      /\ (active' = NoBatch \/ active' = n) /\ batch'[n].reqs = reqs
  BY SubmitEffects, BatchNumbers
<1>8. DOMAIN moved[n] = {}
  <2>1. n > nbatch
    BY <1>7
  <2> QED BY <1>7, <2>1 DEF TransferInv, QueueInv, MovedOnce
<1>9. MovedOnce'
  <2>1. ASSUME NEW b \in 1..MaxBatches
        PROVE  /\ moved[b] = [c \in DOMAIN moved[b] |-> 1] /\ DOMAIN moved[b] \subseteq Cut(b)'
               /\ b > n => DOMAIN moved[b] = {} /\ batch'[b].reqs = <<>>
    <3>1. /\ moved[b] = [c \in DOMAIN moved[b] |-> 1] /\ DOMAIN moved[b] \subseteq Cut(b)
          /\ b > nbatch => DOMAIN moved[b] = {} /\ batch[b].reqs = <<>>
      BY DEF TransferInv, QueueInv, MovedOnce
    <3>2. CASE b = n
      BY <1>7, <1>8, <3>1, <3>2
    <3>3. CASE b # n
      <4>1. Cut(b)' = Cut(b)
        BY <1>7, <3>3, CutSame
      <4>2. b > n => b > nbatch
        BY <1>7
      <4> QED BY <1>7, <3>1, <3>3, <4>1, <4>2
    <3> QED BY <3>2, <3>3
  <2>2. moved = [b \in 1..MaxBatches |-> moved[b]]
    BY DEF TransferInv, QueueInv, MovedOnce
  <2> QED BY <1>1, <1>7, <2>1, <2>2 DEF MovedOnce
<1>10. QueueInv'
  BY <1>5, <1>6, <1>9 DEF QueueInv, WaitingFresh, WaitingOnce, OkMoved
<1>11. IterCut'
  <2> DEFINE k == Len(batch'[n].reqs)
  <2>1. k \in Nat /\ iter'.req = 1 /\ iter'.off = 0
    BY <1>1, <1>7, LenProperties, ConstantsAssumption
  <2>2. 0 \in Nat /\ 0 = 0 * ChunkSize
    BY ConstantsAssumption
  <2> HIDE DEF k
  <2>3. iter'.req <= k + 1 /\ \E j \in Nat : iter'.off = j * ChunkSize
    BY <2>1, <2>2
  <2> QED BY <1>7, <2>1, <2>3 DEF IterCut, k
<1>12. YieldedIs'
  <2>1. ASSUME NEW c \in Cut(n)' PROVE ~Before(c)'
    <3>1. PICK r \in 1..Len(batch'[n].reqs) : c.req = r
      <4>1. PICK r \in 1..Len(batch'[n].reqs) : \E k \in Nat : c = ChunkAt(n, r, k * ChunkSize)'
        BY <2>1, Zenon DEF Cut
      <4>2. PICK k \in Nat : c = ChunkAt(n, r, k * ChunkSize)'
        BY <4>1
      <4>3. c.req = r
        BY <4>2 DEF ChunkAt
      <4> QED BY <4>3
    <3>2. c.req = r /\ r >= 1 /\ r \in Int
      <4>1. Len(batch'[n].reqs) \in Nat
        BY <1>7, LenProperties, ConstantsAssumption
      <4> QED BY <3>1, <4>1
    <3>3. c.off \in Nat
      BY <2>1 DEF Cut, Chunk
    <3>4. iter'.req = 1 /\ iter'.off = 0
      BY <1>1
    <3> QED BY <3>2, <3>3, <3>4 DEF Before
  <2>2. InFlight' \cup DOMAIN moved'[n] = {c \in Cut(n)' : Before(c)'} /\ InFlight' \subseteq Cut(n)'
    BY <1>1, <1>4, <1>8, <2>1
  <2>3. CASE active' = n
    BY <2>2, <2>3 DEF YieldedIs
  <2>4. CASE active' = NoBatch
    BY <2>4 DEF YieldedIs
  <2> QED BY <1>7, <2>3, <2>4
<1> QED BY <1>1, <1>8, <1>10, <1>11, <1>12 DEF TransferInv

\* At the start nothing was moved and nothing waits.
LEMMA InitTransfer == Init => TransferInv
<1> SUFFICES ASSUME Init PROVE TransferInv
  OBVIOUS
<1>1. /\ active = NoBatch /\ wcs = <<>> /\ posts = [q \in QPs |-> <<>>]
      /\ sq = [q \in QPs |-> <<>>] /\ cq = [q \in QPs |-> <<>>]
      /\ moved = [b \in 1..MaxBatches |-> EmptyBag]
      /\ batch = [b \in 1..MaxBatches |-> NewBatch(<<>>, FALSE)]
  BY DEF Init
<1>2. IterCut /\ YieldedIs
  BY <1>1 DEF IterCut, YieldedIs
<1>3. OkMoved
  BY <1>1 DEF OkMoved, Seen, Range
<1>4. WaitingFresh /\ WaitingOnce
  <2> SUFFICES ASSUME NEW q \in QPs PROVE Len(Waiting(q)) = 0
    BY DEF WaitingFresh, WaitingOnce
  <2>1. Waiting(q) = <<>> \o <<>>
    BY <1>1 DEF Waiting
  <2> QED BY <2>1
<1>5. MovedOnce
  <2>1. \A b \in 1..MaxBatches : batch[b].reqs = <<>>
    BY <1>1 DEF NewBatch
  <2>2. EmptyBag = [c \in {} |-> 1]
    BY DEF EmptyBag, SetToBag
  <2>3. \A b \in 1..MaxBatches : moved[b] = [c \in {} |-> 1]
    BY <1>1, <2>2
  <2>4. moved = [b \in 1..MaxBatches |-> moved[b]]
    BY <1>1
  <2> QED BY <2>1, <2>3, <2>4 DEF MovedOnce
<1> QED BY <1>2, <1>3, <1>4, <1>5 DEF TransferInv, QueueInv

\* The steps that end no batch.
LEMMA QuietTransfer ==
    ASSUME TypeInv, TypeInv', RoutingInv, FailInv, TransferInv, QuietSteps
    PROVE  TransferInv'
BY CalmTransfer, AllocChunkTransfer, PostQPTransfer, HandleWcTransfer, HwErrorTransfer, HwCompleteTransfer
   DEF QuietSteps, CalmSteps, Hardware

\* At any time a chunk of the active batch is still to come from the generator,
\* in flight, or was moved, once; chunks in the adapter's queues were not moved
\* before, and none of a batch that succeeded waits there.
THEOREM TransferInvHolds == Spec => []TransferInv
<1>1. Init => TransferInv
  BY InitTransfer
<1>2. TypeInv /\ TypeInv' /\ RoutingInv /\ FailInv /\ CallbackInv /\ TransferInv /\ [Next]_vars
        => TransferInv'
  BY StepKinds, QuietTransfer, LosingTransfer, SucceedTransfer, SubmitTransfer, MarkTransfer
<1> QED BY <1>1, <1>2, TypeInvHolds, RoutingInvHolds, FailInvHolds, CallbackInvHolds, PTL DEF Spec

(***************************************************************************)
(* The refinement of BatchTransfer                                         *)
(***************************************************************************)

\* The status of batch b, of n submitted, in the state x.
Stat(n, b, x) ==
    IF b > n THEN "new"
    ELSE IF ~x.done THEN "active"
    ELSE IF x.error \in {"none", "callback"} THEN "ok" ELSE "failed"

\* How often a byte was moved when each chunk of D was.
Times(D, x) == IF \E c \in D : Carries(c, x) THEN 1 ELSE 0

\* What the mapping shows of a batch: its status, and the bytes its chunks moved.
StatusIs == StatusOf = [b \in 1..MaxBatches |-> Stat(nbatch, b, batch[b])]
LandedIs ==
    LandedOf = [b \in 1..MaxBatches |-> [x \in BytesOf(batch[b].reqs) |-> Times(DOMAIN moved[b], x)]]

\* The status that the refinement shows.
LEMMA StatusAlways == TypeInv => StatusIs
<1> SUFFICES ASSUME TypeInv, NEW b \in 1..MaxBatches PROVE StatusOf[b] = Stat(nbatch, b, batch[b])
  BY DEF StatusIs, StatusOf
<1> DEFINE new == b > nbatch
           running == ~batch[b].done
           ok == batch[b].error \in {"none", "callback"}
<1>1. b <= nbatch <=> ~new
  BY BatchNumbers
<1>2. StatusOf[b] = CASE new -> "new"
                      [] b <= nbatch /\ running -> "active"
                      [] b <= nbatch /\ (~running /\ ok) -> "ok"
                      [] OTHER -> "failed"
  BY DEF StatusOf, Succeeded
<1>3. Stat(nbatch, b, batch[b])
        = IF new THEN "new" ELSE IF running THEN "active" ELSE IF ok THEN "ok" ELSE "failed"
  BY DEF Stat
<1> HIDE DEF new, running, ok
<1>4. CASE new
  BY <1>1, <1>2, <1>3, <1>4
<1>5. CASE ~new /\ running
  BY <1>1, <1>2, <1>3, <1>5
<1>6. CASE ~new /\ ~running /\ ok
  BY <1>1, <1>2, <1>3, <1>6
<1>7. CASE ~new /\ ~running /\ ~ok
  BY <1>1, <1>2, <1>3, <1>7
<1> QED BY <1>4, <1>5, <1>6, <1>7

\* A byte lies in one chunk at most, and no chunk was moved twice.
LEMMA TimesMovedIs ==
    ASSUME BatchTypes, MovedOnce, NEW b \in 1..MaxBatches, NEW x \in BytesOf(batch[b].reqs)
    PROVE  TimesMoved(b, x) = Times(DOMAIN moved[b], x)
<1> DEFINE D == DOMAIN moved[b]
<1> DEFINE carriers == {c \in D : Carries(c, x)}
<1>1. moved[b] = [c \in D |-> 1] /\ D \subseteq Cut(b)
  BY DEF MovedOnce
<1>2. TimesMoved(b, x) = IF \E c \in carriers : moved[b][c] > 1 THEN 2 ELSE Cardinality(carriers)
  BY DEF TimesMoved, BagToSet
<1>3. \A c \in carriers : ~(moved[b][c] > 1)
  BY <1>1
<1>4. TimesMoved(b, x) = Cardinality(carriers)
  BY <1>2, <1>3
<1>5. ASSUME NEW c \in carriers, NEW d \in carriers PROVE c = d
  <2>1. /\ c \in Cut(b) /\ d \in Cut(b) /\ c.req = d.req
        /\ x[2] \in c.off..(c.off + c.len - 1) /\ x[2] \in d.off..(d.off + d.len - 1)
    BY <1>1, <1>5 DEF Carries
  <2>2. x[2] \in Int
    BY <2>1
  <2> PICK o \in Int : o = x[2]
    BY <2>2
  <2> QED BY <2>1, CutDisjoint
<1>6. CASE carriers = {}
  BY <1>4, <1>6, FS_EmptySet DEF Times
<1>7. ASSUME NEW c \in carriers PROVE Cardinality(carriers) = 1 /\ Times(D, x) = 1
  <2>1. carriers = {c}
    BY <1>5, <1>7
  <2>2. Cardinality({c}) = 1
    BY FS_Singleton
  <2> QED BY <2>1, <2>2 DEF Times
<1> QED BY <1>4, <1>6, <1>7

\* What has landed, for the refinement.
LEMMA LandedAlways == TypeInv /\ TransferInv => LandedIs
BY TimesMovedIs DEF LandedIs, LandedOf, TypeInv, TypeOK, TransferInv, QueueInv

\* Both in the next state.
LEMMA MappedPrimed ==
    ASSUME TypeInv', TransferInv'
    PROVE  StatusIs' /\ LandedIs'
<1>1. TypeInv' => StatusIs'
  BY StatusAlways, PTL
<1>2. TypeInv' /\ TransferInv' => LandedIs'
  BY LandedAlways, PTL
<1> QED BY <1>1, <1>2

\* A step that changes no status, no request and moves nothing.
LEMMA TransferStutters ==
    ASSUME TypeInv, TransferInv, TypeInv', TransferInv', UNCHANGED <<nbatch, moved>>,
           \A b \in 1..MaxBatches : batch'[b].reqs = batch[b].reqs
    PROVE  /\ LandedOf' = LandedOf
           /\ (\A b \in 1..MaxBatches : Stat(nbatch, b, batch'[b]) = Stat(nbatch, b, batch[b]))
                => UNCHANGED Transfer!vars
<1>1. StatusIs /\ StatusIs' /\ LandedIs /\ LandedIs'
  BY StatusAlways, LandedAlways, MappedPrimed
<1>2. LandedOf' = LandedOf
  BY <1>1 DEF LandedIs, Times
<1>3. StatusOf' = [b \in 1..MaxBatches |-> Stat(nbatch, b, batch'[b])]
  BY <1>1 DEF StatusIs
<1>4. (\A b \in 1..MaxBatches : Stat(nbatch, b, batch'[b]) = Stat(nbatch, b, batch[b])) => StatusOf' = StatusOf
  BY <1>1, <1>3 DEF StatusIs
<1> QED BY <1>2, <1>4 DEF Transfer!vars

\* The steps inside a call, and those of the adapter that move nothing.
LEMMA QuietImplements ==
    ASSUME TypeInv, TransferInv, TypeInv', TransferInv', QuietSteps, \A q \in QPs : ~HwComplete(q)
    PROVE  UNCHANGED Transfer!vars
<1> USE DEF hwVars, vars
<1>1. nbatch' = nbatch /\ BatchesSame
  BY QuietEffects
<1>2. moved' = moved
  BY DEF QuietSteps, AllocSkip, AllocChunk, AllocStop, AllocRound, PostQP, RefillReturn, PollCQ,
      HandleWc, NextCQ, PollEnd, NotYet, Progress, KeepWaiting, Connect, ConnectFail, Hardware, HwError
<1>3. \A b \in 1..MaxBatches : batch'[b].reqs = batch[b].reqs /\ Stat(nbatch, b, batch'[b]) = Stat(nbatch, b, batch[b])
  BY <1>1 DEF BatchesSame, Stat
<1> QED BY <1>1, <1>2, <1>3, TransferStutters

\* A work request that is carried out moves bytes that were not moved before.
LEMMA MoveImplements ==
    ASSUME TypeInv, TransferInv, TypeInv', TransferInv', NEW q \in QPs, HwComplete(q)
    PROVE  \E b \in 1..MaxBatches : Transfer!Move(b)
<1> PICK c : c = Waiting(q)[1].chunk
  OBVIOUS
<1>1. UNCHANGED <<batch, nbatch>>
  BY HwTakes
<1>2. /\ Fresh(c) /\ c.batch \in 1..MaxBatches
      /\ DOMAIN moved'[c.batch] = DOMAIN moved[c.batch] \cup {c}
      /\ \A b \in 1..MaxBatches : b # c.batch => moved'[b] = moved[b]
  BY HwCompleteMoves
<1> PICK n \in 1..MaxBatches : n = c.batch
  BY <1>2
<1>3. StatusIs /\ StatusIs' /\ LandedIs /\ LandedIs'
  BY StatusAlways, LandedAlways, MappedPrimed
<1>4. StatusOf' = StatusOf
  BY <1>1, <1>3 DEF StatusIs
<1>5. StatusOf[n] \in {"active", "failed"}
  <2>1. n \in 1..nbatch /\ nbatch \in Nat /\ ~Succeeded(n)
    BY <1>2, BatchNumbers DEF Fresh
  <2>2. ~(n > nbatch)
    BY <2>1
  <2> QED BY <1>3, <2>1, <2>2 DEF StatusIs, Stat, Succeeded
<1> DEFINE plan == BytesOf(batch[n].reqs)
<1>6. /\ LandedOf[n] = [x \in plan |-> Times(DOMAIN moved[n], x)]
      /\ LandedOf'[n] = [x \in plan |-> Times(DOMAIN moved[n] \cup {c}, x)]
      /\ \A b \in 1..MaxBatches : b # n => LandedOf'[b] = LandedOf[b]
      /\ LandedOf = [b \in 1..MaxBatches |-> LandedOf[b]] /\ LandedOf' = [b \in 1..MaxBatches |-> LandedOf'[b]]
  BY <1>1, <1>2, <1>3 DEF LandedIs, Times
<1> HIDE DEF plan
<1>7. LandedOf' = [LandedOf EXCEPT ![n] = LandedOf'[n]] /\ DOMAIN LandedOf'[n] = DOMAIN LandedOf[n]
  BY <1>6
<1>8. \A x \in DOMAIN LandedOf[n] : LandedOf'[n][x] # LandedOf[n][x] => LandedOf[n][x] = 0 /\ LandedOf'[n][x] = 1
  BY <1>6 DEF Times
<1>9. Transfer!Move(n)
  BY <1>4, <1>5, <1>7, <1>8 DEF Transfer!Move
<1> QED BY <1>9

\* A batch succeeds with every chunk moved: the generator has none left, and of
\* those it has yielded none is in flight.
LEMMA AllMoved ==
    ASSUME TypeInv, RoutingInv, PipeInv, TransferInv, Succeed
    PROVE  DOMAIN moved[active] = Cut(active)
<1>1. exhausted
  BY DEF Succeed
<1>2. InFlight = {} /\ active \in 1..nbatch
  BY SucceedTransfer
<1> PICK a \in 1..MaxBatches : a = active
  BY <1>2, BatchNumbers
<1>3. a # NoBatch
  BY <1>2, BatchNumbers
<1>4. DOMAIN moved[a] = {c \in Cut(a) : Before(c)}
  BY <1>2, <1>3 DEF TransferInv, YieldedIs
<1>5. ~HasChunk
  BY <1>1, <1>3 DEF PipeInv, ExhaustedIsDone
<1>6. ASSUME NEW c \in Cut(a) PROVE Before(c)
  <2> DEFINE k == Len(batch[a].reqs)
  <2>1. c.req \in 1..k /\ k \in Nat /\ iter.req \in Nat
    <3>1. BatchTypes
      BY DEF TypeInv, TypeOK
    <3>2. batch[a].reqs \in Seq(Nat \ {0}) /\ iter.req \in Nat
      BY <3>1, ReqsType DEF BatchTypes
    <3> QED BY <3>1, <3>2, CutIs, LenProperties
  <2>2. ~(iter.req <= k)
    BY <1>3, <1>5 DEF HasChunk
  <2> HIDE DEF k
  <2>3. c.req < iter.req
    BY <2>1, <2>2
  <2> QED BY <2>3 DEF Before
<1> QED BY <1>4, <1>6

\* A batch succeeds with every byte moved.
LEMMA SucceedImplements ==
    ASSUME TypeInv, RoutingInv, PipeInv, FailInv, TransferInv, TypeInv', TransferInv', Succeed
    PROVE  \E b \in 1..MaxBatches : Transfer!Succeed(b)
<1> USE DEF hwVars
<1>1. UNCHANGED <<nbatch, moved>> /\ pc = "check" /\ exhausted
  BY DEF Succeed
<1>2. Finished(active, batch) /\ InFlight = {} /\ active \in 1..nbatch
  BY SucceedTransfer
<1> PICK a \in 1..MaxBatches : a = active
  BY <1>2, BatchNumbers
<1>3. a # NoBatch /\ nbatch \in Nat /\ ~(a > nbatch) /\ a \in 1..nbatch
  BY <1>2, BatchNumbers
<1>4. ~batch[a].done /\ batch[a].error \in {"none", "callback"}
  BY <1>1, <1>3 DEF FailInv
<1>5. /\ batch'[a].done /\ batch'[a].error = batch[a].error
      /\ \A b \in 1..MaxBatches : b # a => batch'[b] = batch[b]
      /\ \A b \in 1..MaxBatches : batch'[b].reqs = batch[b].reqs
  BY <1>2 DEF Finished, SameCounts
<1>6. StatusIs /\ StatusIs' /\ LandedIs
  BY StatusAlways, LandedAlways, MappedPrimed
<1>7. StatusOf[a] = "active" /\ StatusOf' = [StatusOf EXCEPT ![a] = "ok"]
  <2>1. Stat(nbatch, a, batch[a]) = "active" /\ Stat(nbatch, a, batch'[a]) = "ok"
    BY <1>3, <1>4, <1>5 DEF Stat
  <2>2. StatusOf' = [b \in 1..MaxBatches |-> Stat(nbatch, b, batch'[b])]
    BY <1>1, <1>6 DEF StatusIs
  <2>3. \A b \in 1..MaxBatches : b # a => Stat(nbatch, b, batch'[b]) = Stat(nbatch, b, batch[b])
    BY <1>5
  <2> QED BY <1>6, <2>1, <2>2, <2>3 DEF StatusIs
<1>8. LandedOf' = LandedOf
  BY <1>1, <1>5, TransferStutters
<1>9. DOMAIN moved[a] = Cut(a)
  BY AllMoved
<1>10. \A x \in DOMAIN LandedOf[a] : LandedOf[a][x] = 1
  <2>1. LandedOf[a] = [x \in BytesOf(batch[a].reqs) |-> Times(Cut(a), x)]
    BY <1>6, <1>9 DEF LandedIs
  <2>2. \A x \in BytesOf(batch[a].reqs) : Times(Cut(a), x) = 1
    BY CutCovers DEF Times, TypeInv, TypeOK
  <2> QED BY <2>1, <2>2
<1>11. Transfer!Succeed(a)
  BY <1>7, <1>8, <1>10 DEF Transfer!Succeed
<1> QED BY <1>11

\* Requests ask for bytes, and none for nothing.
LEMMA BytesOfNone ==
    ASSUME NEW reqs \in RequestLists
    PROVE  BytesOf(reqs) = {} <=> reqs = <<>>
<1>1. reqs \in Seq(Nat \ {0})
  BY ConstantsAssumption
<1>2. CASE reqs = <<>>
  BY <1>2 DEF BytesOf
<1>3. CASE reqs # <<>>
  <2>1. Len(reqs) \in Nat \ {0} /\ DOMAIN reqs = 1..Len(reqs)
    BY <1>1, <1>3, EmptySeq, LenProperties
  <2>2. 1 \in DOMAIN reqs /\ reqs[1] \in Nat \ {0}
    BY <1>1, <2>1, ElementOfSeq
  <2>3. 0 \in 0..(reqs[1] - 1)
    BY <2>2
  <2>4. <<1, 0>> \in BytesOf(reqs)
    BY <2>2, <2>3 DEF BytesOf
  <2> QED BY <1>3, <2>4
<1> QED BY <1>2, <1>3

\* submit begins a batch while no other is active.
LEMMA SubmitImplements ==
    ASSUME TypeInv, RoutingInv, FailInv, TransferInv, TypeInv', TransferInv',
           NEW reqs \in RequestLists, NEW cb \in BOOLEAN, Submit(reqs, cb)
    PROVE  \E b \in 1..MaxBatches : Transfer!Begin(b, BytesOf(reqs))
<1> PICK n : n = nbatch + 1
  OBVIOUS
<1> DEFINE plan == BytesOf(reqs)
<1>1. /\ n \in 1..MaxBatches /\ nbatch' = n /\ nbatch \in Nat
      /\ \A b \in 1..MaxBatches : b # n => batch'[b] = batch[b]
      /\ batch'[n].error = "none" /\ batch'[n].reqs = reqs
      /\ (active' = NoBatch /\ batch'[n].done) \/ (active' = n /\ ~batch'[n].done)
  BY SubmitEffects, BatchNumbers
<1>2. active = NoBatch /\ Usable /\ (TotalChunks(reqs) = 0 => active' = NoBatch)
      /\ (TotalChunks(reqs) # 0 => active' = nbatch + 1)
  BY DEF Submit, FinishSuccess
<1>3. n # NoBatch
  BY <1>1 DEF NoBatch
<1>4. DOMAIN moved[n] = {} /\ moved' = moved
  BY SubmitTransfer
<1>5. StatusIs /\ StatusIs' /\ LandedIs /\ LandedIs'
  BY StatusAlways, LandedAlways, MappedPrimed
<1>6. plan = {} <=> batch'[n].done
  <2>1. reqs \in Seq(Nat \ {0})
    BY ConstantsAssumption
  <2>2. TotalChunks(reqs) = 0 <=> reqs = <<>>
    BY <2>1, NoChunksNoRequests
  <2> QED BY <1>1, <1>2, <1>3, <2>2, BytesOfNone
<1> HIDE DEF plan
<1>7. StatusOf[n] = "new"
  <2>1. n > nbatch
    BY <1>1
  <2> QED BY <1>1, <1>5, <2>1 DEF StatusIs, Stat
<1>8. \A b \in 1..MaxBatches : StatusOf[b] # "active"
  <2> SUFFICES ASSUME NEW b \in 1..MaxBatches, StatusOf[b] = "active" PROVE FALSE
    OBVIOUS
  <2>1. ~(b > nbatch) /\ ~batch[b].done
    BY <1>5 DEF StatusIs, Stat
  <2>2. b \in 1..nbatch /\ b # NoBatch
    BY <1>1, <2>1 DEF NoBatch
  <2> QED BY <1>2, <2>1, <2>2 DEF FailInv
<1>9. StatusOf' = [StatusOf EXCEPT ![n] = IF plan = {} THEN "ok" ELSE "active"]
  <2>1. StatusOf' = [b \in 1..MaxBatches |-> Stat(n, b, batch'[b])]
    BY <1>1, <1>5 DEF StatusIs
  <2>2. Stat(n, n, batch'[n]) = IF plan = {} THEN "ok" ELSE "active"
    BY <1>1, <1>6 DEF Stat
  <2>3. ASSUME NEW b \in 1..MaxBatches, b # n PROVE Stat(n, b, batch'[b]) = Stat(nbatch, b, batch[b])
    <3>1. b > n <=> b > nbatch
      BY <1>1, <2>3
    <3> QED BY <1>1, <2>3, <3>1 DEF Stat
  <2> QED BY <1>5, <2>1, <2>2, <2>3 DEF StatusIs
<1>10. LandedOf' = [LandedOf EXCEPT ![n] = [x \in plan |-> 0]]
  <2>1. LandedOf' = [b \in 1..MaxBatches |-> [x \in BytesOf(batch'[b].reqs) |-> Times(DOMAIN moved[b], x)]]
    BY <1>4, <1>5 DEF LandedIs, Times
  <2>2. [x \in BytesOf(batch'[n].reqs) |-> Times(DOMAIN moved[n], x)] = [x \in plan |-> 0]
    BY <1>1, <1>4 DEF plan, Times
  <2>3. \A b \in 1..MaxBatches : b # n => BytesOf(batch'[b].reqs) = BytesOf(batch[b].reqs)
    BY <1>1
  <2>4. LandedOf' = [b \in 1..MaxBatches |-> LandedOf'[b]] /\ LandedOf = [b \in 1..MaxBatches |-> LandedOf[b]]
    BY <1>5, <2>1 DEF LandedIs
  <2>5. LandedOf'[n] = [x \in plan |-> 0]
    BY <1>1, <2>1, <2>2
  <2>6. ASSUME NEW b \in 1..MaxBatches, b # n PROVE LandedOf'[b] = LandedOf[b]
    BY <1>5, <2>1, <2>3, <2>6 DEF LandedIs
  <2> QED BY <1>1, <2>4, <2>5, <2>6
<1>11. Transfer!Begin(n, plan)
  BY <1>7, <1>8, <1>9, <1>10 DEF Transfer!Begin, Transfer!Idle
<1> QED BY <1>1, <1>11 DEF plan

\* A batch that ends with an error fails, or was never submitted.
LEMMA EndImplements ==
    ASSUME TypeInv, TransferInv, TypeInv', TransferInv', UNCHANGED <<nbatch, moved>>,
           NEW c \in 1..MaxBatches, NEW e \in Errors \ {"none", "callback"}, ~batch[c].done, Ended(c, e)
    PROVE  Transfer!Fail(c) \/ UNCHANGED Transfer!vars
<1>1. /\ batch'[c].done /\ batch'[c].error = e
      /\ \A b \in 1..MaxBatches : b # c => batch'[b] = batch[b]
      /\ \A b \in 1..MaxBatches : batch'[b].reqs = batch[b].reqs
  BY DEF Ended, SameCounts
<1>2. LandedOf' = LandedOf
  BY <1>1, TransferStutters
<1>3. \A b \in 1..MaxBatches : b # c => Stat(nbatch, b, batch'[b]) = Stat(nbatch, b, batch[b])
  BY <1>1
<1>4. CASE c > nbatch
  <2>1. Stat(nbatch, c, batch'[c]) = Stat(nbatch, c, batch[c])
    BY <1>4 DEF Stat
  <2> QED BY <1>1, <1>3, <2>1, TransferStutters
<1>5. CASE ~(c > nbatch)
  <2>1. Stat(nbatch, c, batch[c]) = "active" /\ Stat(nbatch, c, batch'[c]) = "failed"
    BY <1>1, <1>5 DEF Stat, Errors
  <2>2. StatusIs /\ StatusIs'
    BY StatusAlways, MappedPrimed
  <2>3. StatusOf' = [b \in 1..MaxBatches |-> Stat(nbatch, b, batch'[b])]
    BY <2>2 DEF StatusIs
  <2>4. StatusOf[c] = "active" /\ StatusOf' = [StatusOf EXCEPT ![c] = "failed"]
    BY <1>3, <2>1, <2>2, <2>3 DEF StatusIs
  <2> QED BY <1>2, <2>4 DEF Transfer!Fail
<1> QED BY <1>4, <1>5

\* Losing the transport, close, and another scheduler's wait.
LEMMA LosingImplements ==
    ASSUME TypeInv, RoutingInv, FailInv, TransferInv, TypeInv', TransferInv',
           LosingSteps \/ \E b \in 1..MaxBatches : ForeignWait(b)
    PROVE  (\E b \in 1..MaxBatches : Transfer!Fail(b)) \/ UNCHANGED Transfer!vars
<1>1. CASE LosingSteps
  <2>1. UNCHANGED <<nbatch, moved>>
    BY <1>1, LosingEffects, LosingQueues
  <2>2. CASE batch' = batch
    <3>1. \A b \in 1..MaxBatches :
            batch'[b].reqs = batch[b].reqs /\ Stat(nbatch, b, batch'[b]) = Stat(nbatch, b, batch[b])
      BY <2>2
    <3> QED BY <2>1, <3>1, TransferStutters
  <2>3. CASE \E c \in 1..MaxBatches, e \in Errors \ {"none", "callback"} : ~batch[c].done /\ Ended(c, e)
    BY <2>1, <2>3, EndImplements
  <2> QED BY <1>1, <2>2, <2>3, LosingEffects
<1>2. ASSUME NEW c \in 1..MaxBatches, ForeignWait(c) PROVE Transfer!Fail(c) \/ UNCHANGED Transfer!vars
  <2>1. UNCHANGED <<nbatch, moved>> /\ ~batch[c].done /\ EndBatch(c, "transport")
    BY <1>2 DEF ForeignWait, hwVars
  <2>2. Ended(c, "transport") /\ "transport" \in Errors \ {"none", "callback"}
    BY <2>1, EndBatchEnds DEF TypeInv, TypeOK, Errors
  <2> QED BY <2>1, <2>2, EndImplements
<1> QED BY <1>1, <1>2

\* A callback that returns or raises leaves its batch a success.
LEMMA CallbackImplements ==
    ASSUME TypeInv, CallbackInv, TransferInv, TypeInv', TransferInv', NEW ok \in BOOLEAN, CallbackReturns(ok)
    PROVE  UNCHANGED Transfer!vars
<1>1. UNCHANGED <<nbatch, moved>>
  BY DEF CallbackReturns, hwVars
<1>2. Succeeded(callbacks[Len(callbacks)])
  <2>1. callbacks \in Seq(1..MaxBatches) /\ callbacks # <<>>
    BY DEF CallbackReturns, TypeInv, TypeOK, BatchTypes
  <2>2. Len(callbacks) \in 1..Len(callbacks)
    BY <2>1, EmptySeq, LenProperties
  <2> QED BY <2>2 DEF CallbackInv
<1>3. ASSUME NEW b \in 1..MaxBatches
      PROVE  batch'[b].reqs = batch[b].reqs /\ Stat(nbatch, b, batch'[b]) = Stat(nbatch, b, batch[b])
  <2>1. /\ batch'[b].done = batch[b].done /\ batch'[b].reqs = batch[b].reqs
        /\ \/ batch'[b].error = batch[b].error
           \/ batch'[b].error = "callback" /\ b = callbacks[Len(callbacks)]
    BY CallbackEffects DEF SameCounts
  <2> QED BY <1>2, <2>1 DEF Stat, Succeeded
<1> QED BY <1>1, <1>3, TransferStutters

\* Every step of the scheduler or the adapter is one of the promise, or none.
LEMMA TransferStep ==
    ASSUME TypeInv, RoutingInv, PipeInv, FailInv, CallbackInv, TransferInv, TypeInv', TransferInv', [Next]_vars
    PROVE  [Transfer!Next]_(Transfer!vars)
<1>1. CASE QuietSteps
  <2>1. CASE \A q \in QPs : ~HwComplete(q)
    BY <1>1, <2>1, QuietImplements
  <2>2. CASE \E q \in QPs : HwComplete(q)
    BY <2>2, MoveImplements DEF Transfer!Next
  <2> QED BY <2>1, <2>2
<1>2. CASE LosingSteps \/ \E b \in 1..MaxBatches : ForeignWait(b)
  BY <1>2, LosingImplements DEF Transfer!Next
<1>3. CASE Succeed
  BY <1>3, SucceedImplements DEF Transfer!Next
<1>4. ASSUME NEW reqs \in RequestLists, NEW cb \in BOOLEAN, Submit(reqs, cb) PROVE Transfer!Next
  <2>1. PICK b \in 1..MaxBatches : Transfer!Begin(b, BytesOf(reqs))
    BY <1>4, SubmitImplements
  <2> QED BY <2>1 DEF Transfer!Next
<1>5. CASE \E ok \in BOOLEAN : CallbackReturns(ok)
  BY <1>5, CallbackImplements
<1> QED BY <1>1, <1>2, <1>3, <1>4, <1>5, StepKinds

\* Every behaviour of the scheduler is one the caller was promised, for every
\* number of QPs and batches, every depth, chunk size and request list: a batch
\* that succeeded moved each of its bytes exactly once, all of them before
\* on_complete starts and none afterwards, one batch at a time, also when the
\* wr_ids wrap, posts fail half way and old work still moves data.
THEOREM SchedulerImplementsTransfer == Spec => ImplementsTransfer
<1>1. Init => Transfer!Init
  <2> SUFFICES ASSUME Init PROVE Transfer!Init
    OBVIOUS
  <2>1. /\ batch = [b \in 1..MaxBatches |-> NewBatch(<<>>, FALSE)] /\ nbatch = 0
    BY DEF Init
  <2>2. StatusOf = [b \in 1..MaxBatches |-> "new"]
    <3>1. StatusIs
      BY InitType, StatusAlways
    <3>2. \A b \in 1..MaxBatches : b > nbatch
      BY <2>1
    <3> QED BY <3>1, <3>2 DEF StatusIs, Stat
  <2>3. LandedOf = [b \in 1..MaxBatches |-> [x \in {} |-> 0]]
    <3>1. \A b \in 1..MaxBatches : batch[b].reqs = <<>>
      BY <2>1 DEF NewBatch
    <3>2. BytesOf(<<>>) = {}
      BY DEF BytesOf
    <3>3. \A b \in 1..MaxBatches : [x \in BytesOf(batch[b].reqs) |-> TimesMoved(b, x)] = [x \in {} |-> 0]
      BY <3>1, <3>2
    <3> QED BY <3>3 DEF LandedOf
  <2> QED BY <2>2, <2>3 DEF Transfer!Init
<1>2. TypeInv /\ RoutingInv /\ PipeInv /\ FailInv /\ CallbackInv /\ TransferInv /\ TypeInv' /\ TransferInv'
        /\ [Next]_vars => [Transfer!Next]_(Transfer!vars)
  BY TransferStep
<1> QED BY <1>1, <1>2, TypeInvHolds, RoutingInvHolds, PipeInvHolds, FailInvHolds, CallbackInvHolds,
        TransferInvHolds, PTL DEF Spec, ImplementsTransfer, Transfer!Spec

(***************************************************************************)
(* What a batch counts                                                     *)
(***************************************************************************)

\* The places in r rows, of which row i has m[i].
Rows(m, r) == {x \in Nat \X Nat : x[1] \in 1..r /\ x[2] < m[x[1]]}

\* There are as many as the rows have together.
LEMMA RowsCount ==
    ASSUME NEW n \in Nat, NEW m, \A i \in 1..n : m[i] \in Nat, NEW p, RunningSums(p, m, n)
    PROVE  IsFiniteSet(Rows(m, n)) /\ Cardinality(Rows(m, n)) = p[n]
<1> DEFINE S == {r \in Nat : r <= n => IsFiniteSet(Rows(m, r)) /\ Cardinality(Rows(m, r)) = p[r]}
<1>1. 0 \in S
  <2>1. Rows(m, 0) = {}
    BY DEF Rows
  <2> QED BY <2>1, FS_EmptySet DEF RunningSums
<1>2. ASSUME NEW r \in Nat, r \in S PROVE r + 1 \in S
  <2> SUFFICES ASSUME r + 1 <= n
               PROVE  IsFiniteSet(Rows(m, r + 1)) /\ Cardinality(Rows(m, r + 1)) = p[r + 1]
    OBVIOUS
  <2> DEFINE R == Rows(m, r)
             k == m[r + 1]
             T == {r + 1} \X (0..(k - 1))
  <2>1. IsFiniteSet(R) /\ Cardinality(R) = p[r]
    BY <1>2
  <2>2. r + 1 \in 1..n /\ (r + 1) - 1 = r /\ r \in 0..n
    OBVIOUS
  <2>3. k \in Nat /\ p[r + 1] = p[r] + k /\ p[r] \in Nat
    <3>1. p[r + 1] = p[(r + 1) - 1] + m[r + 1] /\ p[r] \in Nat
      BY <2>2 DEF RunningSums
    <3> QED BY <2>2, <3>1
  <2> HIDE DEF k
  <2>4. IsFiniteSet(T) /\ Cardinality(T) = k
    <3>1. IsFiniteSet({r + 1}) /\ Cardinality({r + 1}) = 1
      BY FS_Singleton
    <3>2. IsFiniteSet(0..(k - 1)) /\ Cardinality(0..(k - 1)) = k
      <4>1. k - 1 \in Int
        BY <2>3
      <4>2. IsFiniteSet(0..(k - 1)) /\ Cardinality(0..(k - 1)) = IF 0 > k - 1 THEN 0 ELSE (k - 1) - 0 + 1
        BY <4>1, FS_Interval, SMTT(30)
      <4> QED BY <2>3, <4>2
    <3>3. IsFiniteSet(T) /\ Cardinality(T) = Cardinality({r + 1}) * Cardinality(0..(k - 1))
      BY <3>1, <3>2, FS_Product
    <3> QED BY <2>3, <3>1, <3>2, <3>3
  <2>5. Rows(m, r + 1) = R \cup T /\ R \cap T = {}
    <3>1. \A i : i \in 1..(r + 1) <=> i \in 1..r \/ i = r + 1
      OBVIOUS
    <3>2. \A o \in Nat : o < k <=> o \in 0..(k - 1)
      BY <2>3
    <3>3. \A x \in Nat \X Nat : x[1] \in Nat /\ x[2] \in Nat /\ x = <<x[1], x[2]>>
      OBVIOUS
    <3>4. T \subseteq Nat \X Nat
      OBVIOUS
    <3>5. \A x \in Nat \X Nat : x \in T <=> x[1] = r + 1 /\ x[2] < k
      BY <3>2, <3>3
    <3>6. \A x \in Nat \X Nat : x \in Rows(m, r + 1) <=> x \in R \/ x \in T
      BY <3>1, <3>5 DEF Rows, k
    <3>7. Rows(m, r + 1) \subseteq Nat \X Nat /\ R \subseteq Nat \X Nat
      BY DEF Rows
    <3>8. \A x \in R : x[1] # r + 1
      BY DEF Rows
    <3>9. \A x \in T : x[1] = r + 1
      OBVIOUS
    <3> HIDE DEF R, T
    <3> QED BY <3>4, <3>6, <3>7, <3>8, <3>9
  <2> HIDE DEF R, T
  <2>6. IsFiniteSet(R \cup T) /\ Cardinality(R \cup T) = Cardinality(R) + Cardinality(T) - Cardinality(R \cap T)
    BY <2>1, <2>4, FS_Union
  <2>7. Cardinality(R \cap T) = 0
    BY <2>5, FS_EmptySet
  <2>8. Cardinality(R \cup T) = p[r] + k - 0
    BY <2>1, <2>4, <2>6, <2>7
  <2>9. p[r] + k - 0 = p[r + 1]
    BY <2>3
  <2> QED BY <2>5, <2>6, <2>8, <2>9
<1> HIDE DEF S
<1>3. Nat \subseteq S
  BY <1>1, <1>2, NatSet
<1> QED BY <1>3 DEF S

\* The number of chunks of a request: those that start inside it.
LEMMA CeilCounts ==
    ASSUME NEW len \in Nat \ {0}, NEW k \in Nat
    PROVE  k * ChunkSize < len <=> k < Ceil(len)
<1> DEFINE x == len + ChunkSize - 1
           d == x \div ChunkSize
           m == x % ChunkSize
           y == ChunkSize * d
           a == k * ChunkSize
<1>1. ChunkSize \in Nat \ {0}
  BY ConstantsAssumption
<1>2. x \in Nat /\ d \in Nat /\ m \in 0..(ChunkSize - 1) /\ x = y + m
  BY <1>1
<1>3. a \in Nat /\ y \in Nat
  BY <1>1, <1>2
<1>4. Ceil(len) = d
  BY DEF Ceil
<1> HIDE DEF d, m
<1>5. CASE k < d
  <2>1. PICK e \in Nat : d = k + 1 + e
    <3>1. d - k - 1 \in Nat /\ d = k + 1 + (d - k - 1)
      BY <1>2, <1>5
    <3> QED BY <3>1
  <2>2. y = a + ChunkSize + ChunkSize * e /\ ChunkSize * e \in Nat
    BY <1>1, <2>1
  <2> HIDE DEF a, y
  <2>3. a < len
    BY <1>1, <1>2, <1>3, <2>2
  <2> QED BY <1>4, <1>5, <2>3 DEF a
<1>6. CASE ~(k < d)
  <2>1. PICK e \in Nat : k = d + e
    <3>1. k - d \in Nat /\ k = d + (k - d)
      BY <1>2, <1>6
    <3> QED BY <3>1
  <2>2. a = y + ChunkSize * e /\ ChunkSize * e \in Nat
    BY <1>1, <1>2, <2>1
  <2> HIDE DEF a, y
  <2>3. ~(a < len)
    BY <1>1, <1>2, <1>3, <2>2
  <2> QED BY <1>4, <1>6, <2>3 DEF a
<1> QED BY <1>5, <1>6

\* The bytes that chunks carry.
BytesIn(S) == {x \in Nat \X Nat : \E c \in S : Carries(c, x)}

\* The chunks of a batch carry total_bytes.
LEMMA BytesCount ==
    ASSUME BatchTypes, NEW b \in 1..MaxBatches
    PROVE  Cardinality(BytesIn(Cut(b))) = TotalBytes(batch[b].reqs)
<1> PICK reqs : reqs = batch[b].reqs
  OBVIOUS
<1> DEFINE n == Len(reqs)
<1>1. reqs \in Seq(Nat \ {0}) /\ n \in Nat /\ DOMAIN reqs = 1..n /\ \A i \in 1..n : reqs[i] \in Nat
  <2>1. reqs \in Seq(Nat \ {0})
    BY ReqsType
  <2> QED BY <2>1, LenProperties, ElementOfSeq
<1>2. PICK p : BytesUpTo(reqs, p)
  BY <1>1, BytesAddUp
<1>3. RunningSums(p, reqs, n) /\ p[n] = TotalBytes(reqs)
  BY <1>2 DEF BytesUpTo, RunningSums
<1>4. ASSUME NEW x \in BytesIn(Cut(b)) PROVE x \in Rows(reqs, n)
  <2>1. PICK c \in Cut(b) : x[1] = c.req /\ x[2] \in c.off..(c.off + c.len - 1)
    BY <1>4 DEF BytesIn, Carries
  <2>2. /\ c.req \in 1..n /\ c.off \in Nat /\ c.len \in Nat /\ reqs[c.req] \in Nat
        /\ c.off + c.len <= reqs[c.req]
    BY CutIs
  <2>3. x \in Nat \X Nat /\ x[2] < reqs[c.req]
    BY <1>4, <2>1, <2>2, SMTT(30) DEF BytesIn
  <2> QED BY <2>1, <2>2, <2>3 DEF Rows
<1>5. ASSUME NEW x \in Rows(reqs, n) PROVE x \in BytesIn(Cut(b))
  <2>1. x \in Nat \X Nat /\ x[1] \in 1..n /\ x[2] < reqs[x[1]] /\ x = <<x[1], x[2]>> /\ x[2] \in Nat
    BY <1>5 DEF Rows
  <2>2. x[2] \in 0..(reqs[x[1]] - 1)
    BY <1>1, <2>1
  <2>3. x \in BytesOf(reqs)
    BY <1>1, <2>1, <2>2 DEF BytesOf
  <2>4. \E c \in Cut(b) : Carries(c, x)
    BY <2>3, CutCovers
  <2> QED BY <2>1, <2>4 DEF BytesIn
<1>6. BytesIn(Cut(b)) = Rows(reqs, n)
  BY <1>4, <1>5
<1> HIDE DEF n
<1>7. Cardinality(Rows(reqs, n)) = p[n]
  BY <1>1, <1>3, RowsCount
<1> QED BY <1>3, <1>6, <1>7

\* There are total_chunks of them.
LEMMA ChunkCount ==
    ASSUME BatchTypes, NEW b \in 1..MaxBatches
    PROVE  Cardinality(Cut(b)) = TotalChunks(batch[b].reqs)
<1> PICK reqs : reqs = batch[b].reqs
  OBVIOUS
<1> DEFINE n == Len(reqs)
           w == [i \in 1..n |-> Ceil(reqs[i])]
           R == Rows(w, n)
           f == [x \in R |-> ChunkAt(b, x[1], x[2] * ChunkSize)]
<1>1. reqs \in Seq(Nat \ {0}) /\ n \in Nat /\ \A i \in 1..n : reqs[i] \in Nat \ {0}
  <2>1. reqs \in Seq(Nat \ {0})
    BY ReqsType
  <2> QED BY <2>1, LenProperties, ElementOfSeq
<1>2. \A i \in 1..n : w[i] = Ceil(reqs[i]) /\ w[i] \in Nat
  BY <1>1, CeilIs
<1>3. PICK p : RunningSums(p, w, n) /\ p[n] = TotalChunks(reqs)
  <2>1. PICK p : ChunksUpTo(reqs, p)
    BY <1>1, ChunksAddUp
  <2>2. p \in [0..n -> Nat] /\ p[0] = 0 /\ p[n] = TotalChunks(reqs)
    BY <2>1 DEF ChunksUpTo
  <2>3. \A k \in 1..n : p[k] = p[k - 1] + w[k]
    BY <1>2, <2>1 DEF ChunksUpTo
  <2> HIDE DEF n, w
  <2> QED BY <2>2, <2>3 DEF RunningSums
<1>4. IsFiniteSet(R) /\ Cardinality(R) = p[n]
  <2>1. \A i \in 1..n : w[i] \in Nat
    BY <1>2
  <2> HIDE DEF n, w
  <2> QED BY <1>1, <1>3, <2>1, RowsCount
<1>5. ASSUME NEW x \in R
      PROVE  /\ x[1] \in 1..n /\ x[2] \in Nat /\ x[2] * ChunkSize < reqs[x[1]] /\ x = <<x[1], x[2]>>
  <2>1. x \in Nat \X Nat /\ x[1] \in 1..n /\ x[2] < w[x[1]]
    BY <1>5 DEF Rows
  <2>2. x[2] \in Nat /\ x = <<x[1], x[2]>> /\ x[2] < Ceil(reqs[x[1]]) /\ reqs[x[1]] \in Nat \ {0}
    BY <1>1, <1>2, <2>1
  <2> HIDE DEF n, w
  <2>3. x[2] * ChunkSize < reqs[x[1]]
    BY <2>2, CeilCounts
  <2> QED BY <2>1, <2>2, <2>3
<1>6. f \in [R -> Cut(b)]
  <2> HIDE DEF R
  <2>1. \A x \in R : ChunkAt(b, x[1], x[2] * ChunkSize) \in Cut(b)
    BY <1>5, AtIsCut
  <2> QED BY <2>1
<1>7. ASSUME NEW x \in R, NEW y \in R, f[x] = f[y] PROVE x = y
  <2> HIDE DEF R
  <2>1. ChunkAt(b, x[1], x[2] * ChunkSize) = ChunkAt(b, y[1], y[2] * ChunkSize)
    BY <1>7
  <2>2. x[1] = y[1] /\ x[2] * ChunkSize = y[2] * ChunkSize
    BY <2>1 DEF ChunkAt
  <2>3. x[2] \in Nat /\ y[2] \in Nat /\ x = <<x[1], x[2]>> /\ y = <<y[1], y[2]>>
    BY <1>5
  <2>4. x[2] * ChunkSize < y[2] * ChunkSize + ChunkSize /\ y[2] * ChunkSize < x[2] * ChunkSize + ChunkSize
    <3> DEFINE u == x[2] * ChunkSize
               v == y[2] * ChunkSize
    <3>1. u \in Nat /\ v \in Nat /\ u = v /\ ChunkSize \in Nat \ {0}
      BY <2>2, <2>3, ConstantsAssumption
    <3> HIDE DEF u, v
    <3>2. u < v + ChunkSize /\ v < u + ChunkSize
      BY <3>1
    <3> QED BY <3>2 DEF u, v
  <2>5. x[2] = y[2]
    BY <2>3, <2>4, SameMultiple
  <2> QED BY <2>2, <2>3, <2>5
<1>8. ASSUME NEW c \in Cut(b) PROVE \E x \in R : f[x] = c
  <2>1. PICK r \in 1..n, k \in Nat : k * ChunkSize < reqs[r] /\ c = ChunkAt(b, r, k * ChunkSize)
    BY DEF Cut
  <2>2. k < w[r] /\ r \in Nat
    BY <1>1, <1>2, <2>1, CeilCounts
  <2>3. <<r, k>> \in R
    BY <2>1, <2>2 DEF Rows
  <2> HIDE DEF R
  <2>4. f[<<r, k>>] = c
    BY <2>1, <2>3
  <2> QED BY <2>3, <2>4
<1> HIDE DEF f, R
<1>9. ExistsBijection(R, Cut(b))
  <2>1. f \in Injection(R, Cut(b))
    BY <1>6, <1>7 DEF Injection, IsInjective
  <2>2. f \in Surjection(R, Cut(b))
    BY <1>6, <1>8 DEF Surjection
  <2> QED BY <2>1, <2>2 DEF ExistsBijection, Bijection
<1> QED BY <1>3, <1>4, <1>9, FS_Bijection

\* No chunk of the active batch is booked twice, or booked and still to be posted.
ChunksOnce ==
    active # NoBatch =>
        /\ \A i, j \in DOMAIN pending : pending[i].chunk = pending[j].chunk => i = j
        /\ \A i \in DOMAIN pending, q \in QPs : \A k \in 1..Len(posts[q]) :
            pending[i].chunk # posts[q][k].chunk

\* The chunks whose data was moved and whose completion was handled.
Handled == DOMAIN moved[active] \ InFlight

\* The running batch has counted the chunks handled and the bytes in them.
CountsHandled ==
    active # NoBatch =>
        /\ IsFiniteSet(Handled) /\ batch[active].chunks = Cardinality(Handled)
        /\ IsFiniteSet(BytesIn(Handled)) /\ batch[active].bytes = Cardinality(BytesIn(Handled))

\* What a batch counts, while it runs and when it is done.
CountInv == ChunksOnce /\ CountsHandled /\ CountedAll

\* A batch that has not just succeeded has the counts it had.
LEMMA CountedAllKept ==
    ASSUME CountInv, UNCHANGED nbatch,
           \A b \in 1..nbatch : Succeeded(b)' => Succeeded(b) /\ SameCounts(batch'[b], batch[b])
    PROVE  CountedAll'
BY DEF CountInv, CountedAll, SameCounts

\* Steps that handle no completion and book nothing keep the counts.
LEMMA CountsSame ==
    ASSUME TypeInv, CountInv, UNCHANGED <<nbatch, active, pending, posts>>,
           active # NoBatch => Handled' = Handled,
           \A b \in 1..nbatch : (Succeeded(b)' => Succeeded(b)) /\ SameCounts(batch'[b], batch[b])
    PROVE  CountInv'
<1>1. CountedAll'
  BY CountedAllKept
<1>2. ChunksOnce'
  BY DEF CountInv, ChunksOnce
<1>3. CountsHandled'
  <2> SUFFICES ASSUME active # NoBatch PROVE CountsHandled'
    BY DEF CountsHandled
  <2>1. active \in 1..nbatch /\ SameCounts(batch'[active], batch[active])
    BY BatchNumbers
  <2>2. BytesIn(Handled)' = BytesIn(Handled)
    BY DEF BytesIn, Carries
  <2>3. batch'[active'].chunks = batch[active].chunks /\ batch'[active'].bytes = batch[active].bytes
    BY <2>1 DEF SameCounts
  <2> QED BY <2>2, <2>3 DEF CountInv, CountsHandled
<1> QED BY <1>1, <1>2, <1>3 DEF CountInv

\* The same, when nothing about the batches has changed.
LEMMA BatchSame ==
    ASSUME TypeInv, batch' = batch
    PROVE  \A b \in 1..nbatch : (Succeeded(b)' => Succeeded(b)) /\ SameCounts(batch'[b], batch[b])
BY DEF Succeeded, SameCounts

\* The steps that move, yield, book and handle nothing.
LEMMA CalmCounts ==
    ASSUME TypeInv, RoutingInv, TransferInv, CountInv, CalmSteps
    PROVE  CountInv'
<1>1. InFlight' = InFlight /\ UNCHANGED <<pending, posts>>
  BY CalmTransfer
<1>2. UNCHANGED <<batch, nbatch, active, moved>>
  BY DEF CalmSteps, AllocSkip, AllocStop, AllocRound, RefillReturn, PollCQ, NextCQ, PollEnd, NotYet,
     Progress, KeepWaiting, Connect, ConnectFail, batchVars, hwVars, vars
<1>3. Handled' = Handled
  BY <1>1, <1>2 DEF Handled
<1> QED BY <1>1, <1>2, <1>3, BatchSame, CountsSame

\* The chunk that is yielded was not in flight before.
LEMMA AllocChunkCounts ==
    ASSUME TypeInv, TypeInv', RoutingInv, FailInv, TransferInv, CountInv, AllocChunk
    PROVE  CountInv'
<1>1. /\ UNCHANGED <<batch, nbatch, active, pending, moved>> /\ active # NoBatch
  BY DEF AllocChunk, HasChunk, hwVars
<1> PICK n : n = NextChunk
  OBVIOUS
<1>2. /\ InFlight' = InFlight \cup {n} /\ n \notin InFlight /\ n \notin DOMAIN moved[active]
      /\ \A q \in QPs : \A i \in 1..Len(posts'[q]) : posts'[q][i].chunk # n
            => i \in 1..Len(posts[q]) /\ posts[q][i] = posts'[q][i]
  BY AllocChunkTransfer
<1>3. Handled' = Handled
  BY <1>1, <1>2 DEF Handled
<1>4. \A i \in DOMAIN pending : pending[i].chunk # n
  <2>1. \A i \in DOMAIN pending : pending[i].chunk \in Chunk
    BY DEF TypeInv, TypeOK, WrTypes
  <2> QED BY <1>2, <2>1 DEF InFlight
<1>5. ChunksOnce'
  BY <1>1, <1>2, <1>4 DEF CountInv, ChunksOnce
<1>6. BytesIn(Handled)' = BytesIn(Handled)
  BY <1>3 DEF BytesIn, Carries
<1>7. CountsHandled'
  BY <1>1, <1>3, <1>6 DEF CountInv, CountsHandled
<1>8. CountedAll'
  BY <1>1, BatchSame, CountedAllKept
<1> QED BY <1>5, <1>7, <1>8 DEF CountInv

\* What was to be posted is booked; no two entries of the lists are alike.
LEMMA PostQPCounts ==
    ASSUME TypeInv, RoutingInv, TransferInv, CountInv, PostQP
    PROVE  CountInv'
<1> PICK c \in QPs : c = cursor
  BY DEF PostQP, TypeInv, TypeOK, FrameTypes, QPs
<1>1. /\ UNCHANGED <<batch, nbatch, active, moved>> /\ pending' = PendingWith(c)
      /\ posts' = [posts EXCEPT ![c] = <<>>] /\ active # NoBatch
  BY DEF PostQP, batchVars, TypeInv, CallHasBatch
<1>2. InFlight' = InFlight
  BY PostQPTransfer
<1>3. Handled' = Handled /\ BytesIn(Handled)' = BytesIn(Handled)
  BY <1>1, <1>2 DEF Handled, BytesIn, Carries
<1>4. FrameTypes /\ HwTypes /\ posts \in [QPs -> Seq(Work)]
  BY DEF TypeInv, TypeOK, FrameTypes
<1>5. /\ DOMAIN pending' = DOMAIN pending \cup PostIds(c)
      /\ \A x : x \in PostIds(c) <=> \E k \in 1..Len(posts[c]) : posts[c][k].id = x
      /\ \A x \in DOMAIN pending : x \notin PostIds(c) /\ pending'[x] = pending[x]
      /\ \A k \in 1..Len(posts[c]) : pending'[posts[c][k].id].chunk = posts[c][k].chunk
  <2>1. /\ DOMAIN PendingWith(c) = DOMAIN pending \cup PostIds(c)
        /\ \A x : x \in PostIds(c) <=> \E k \in 1..Len(posts[c]) : posts[c][k].id = x
        /\ \A x \in DOMAIN pending : x \notin PostIds(c) /\ PendingWith(c)[x] = pending[x]
        /\ \A k \in 1..Len(posts[c]) :
             PendingWith(c)[posts[c][k].id] = [qp |-> c, chunk |-> posts[c][k].chunk]
    BY <1>1, BookedWith
  <2>2. \A k \in 1..Len(posts[c]) : PendingWith(c)[posts[c][k].id].chunk = posts[c][k].chunk
    <3> SUFFICES ASSUME NEW k \in 1..Len(posts[c])
                 PROVE  PendingWith(c)[posts[c][k].id].chunk = posts[c][k].chunk
      OBVIOUS
    <3>1. PendingWith(c)[posts[c][k].id] = [qp |-> c, chunk |-> posts[c][k].chunk]
      BY <2>1
    <3> QED BY <3>1
  <2> QED BY <1>1, <2>1, <2>2
<1>6. ASSUME NEW p \in QPs, NEW q \in QPs, NEW i \in 1..Len(posts[p]), NEW j \in 1..Len(posts[q]),
             posts[p][i].chunk = posts[q][j].chunk
      PROVE  p = q /\ i = j
  <2> DEFINE m == Len(sq[p])
             n == Len(sq[q])
  <2>1. /\ Len(Waiting(p)) = m + Len(posts[p]) /\ m \in Nat /\ Len(posts[p]) \in Nat
        /\ Waiting(p)[m + i] = posts[p][i]
        /\ Len(Waiting(q)) = n + Len(posts[q]) /\ n \in Nat /\ Len(posts[q]) \in Nat
        /\ Waiting(q)[n + j] = posts[q][j]
    BY <1>4, WaitingType
  <2> HIDE DEF m, n
  <2>2. m + i \in 1..Len(Waiting(p)) /\ n + j \in 1..Len(Waiting(q))
    BY <2>1, SMTT(30)
  <2>3. p = q /\ m + i = n + j
    <3>1. Waiting(p)[m + i].chunk = Waiting(q)[n + j].chunk
      BY <1>6, <2>1
    <3>2. WaitingOnce
      BY DEF TransferInv, QueueInv
    <3> QED BY <2>2, <3>1, <3>2 DEF WaitingOnce
  <2>4. p = q => m = n
    BY DEF m, n
  <2> QED BY <2>1, <2>3, <2>4
<1>7. ASSUME NEW x \in DOMAIN pending'
      PROVE  \/ x \in DOMAIN pending /\ pending'[x] = pending[x]
             \/ \E k \in 1..Len(posts[c]) : posts[c][k].id = x /\ pending'[x].chunk = posts[c][k].chunk
  BY <1>5
<1>8. /\ \A i, j \in DOMAIN pending : pending[i].chunk = pending[j].chunk => i = j
      /\ \A i \in DOMAIN pending, q \in QPs : \A k \in 1..Len(posts[q]) :
          pending[i].chunk # posts[q][k].chunk
  BY <1>1 DEF CountInv, ChunksOnce
<1>9. \A i, j \in DOMAIN pending' : pending'[i].chunk = pending'[j].chunk => i = j
  <2> SUFFICES ASSUME NEW i \in DOMAIN pending', NEW j \in DOMAIN pending',
                      pending'[i].chunk = pending'[j].chunk
               PROVE  i = j
    OBVIOUS
  <2>1. CASE i \in DOMAIN pending /\ pending'[i] = pending[i]
    BY <1>7, <1>8, <2>1
  <2>2. CASE \E k \in 1..Len(posts[c]) : posts[c][k].id = i /\ pending'[i].chunk = posts[c][k].chunk
    <3>1. PICK k \in 1..Len(posts[c]) : posts[c][k].id = i /\ pending'[i].chunk = posts[c][k].chunk
      BY <2>2
    <3>2. CASE j \in DOMAIN pending /\ pending'[j] = pending[j]
      BY <1>8, <3>1, <3>2
    <3>3. CASE \E l \in 1..Len(posts[c]) : posts[c][l].id = j /\ pending'[j].chunk = posts[c][l].chunk
      <4>1. PICK l \in 1..Len(posts[c]) : posts[c][l].id = j /\ pending'[j].chunk = posts[c][l].chunk
        BY <3>3
      <4>2. posts[c][k].chunk = posts[c][l].chunk
        BY <3>1, <4>1
      <4>3. k = l
        BY <1>6, <4>2
      <4> QED BY <3>1, <4>1, <4>3
    <3> QED BY <1>7, <3>2, <3>3
  <2> QED BY <1>7, <2>1, <2>2
<1>10. \A i \in DOMAIN pending', q \in QPs : \A k \in 1..Len(posts'[q]) :
          pending'[i].chunk # posts'[q][k].chunk
  <2> SUFFICES ASSUME NEW i \in DOMAIN pending', NEW q \in QPs, NEW k \in 1..Len(posts'[q])
               PROVE  pending'[i].chunk # posts'[q][k].chunk
    OBVIOUS
  <2>1. q # c /\ posts'[q] = posts[q]
    BY <1>1, <1>4
  <2> QED BY <1>6, <1>7, <1>8, <2>1
<1>11. ChunksOnce'
  BY <1>9, <1>10 DEF ChunksOnce
<1>12. CountsHandled'
  BY <1>1, <1>3 DEF CountInv, CountsHandled
<1>13. CountedAll'
  BY <1>1, BatchSame, CountedAllKept
<1> QED BY <1>11, <1>12, <1>13 DEF CountInv

\* What the adapter moves is in flight until its completion is handled.
LEMMA HwCounts ==
    ASSUME TypeInv, RoutingInv, TransferInv, CountInv, NEW q \in QPs, HwComplete(q) \/ HwError(q)
    PROVE  CountInv'
<1>1. /\ UNCHANGED <<batch, nbatch, active, pending, posts>> /\ InFlight' = InFlight
      /\ 1 \in 1..Len(Waiting(q))
  BY HwTakes
<1>2. ASSUME active # NoBatch PROVE Handled' = Handled
  <2>1. CASE HwError(q)
    BY <1>1, <2>1 DEF Handled, HwError
  <2>2. CASE HwComplete(q)
    <3> PICK c : c = Waiting(q)[1].chunk
      OBVIOUS
    <3> PICK a \in 1..MaxBatches : a = active
      BY <1>2, BatchNumbers
    <3>1. c \in InFlight
      BY <1>1, <1>2, WaitingInFlight
    <3>2. /\ DOMAIN moved'[c.batch] = DOMAIN moved[c.batch] \cup {c}
          /\ \A b \in 1..MaxBatches : b # c.batch => moved'[b] = moved[b]
      BY <2>2, HwCompleteMoves
    <3>3. DOMAIN moved'[a] \ InFlight = DOMAIN moved[a] \ InFlight
      BY <3>1, <3>2
    <3> QED BY <1>1, <3>3 DEF Handled
  <2> QED BY <2>1, <2>2
<1> QED BY <1>1, <1>2, BatchSame, CountsSame

\* The bytes of one chunk.
LEMMA ChunkBytes ==
    ASSUME NEW c \in Chunk
    PROVE  IsFiniteSet(BytesIn({c})) /\ Cardinality(BytesIn({c})) = c.len
<1> PICK r \in Nat, o \in Nat, l \in Nat : r = c.req /\ o = c.off /\ l = c.len
  BY DEF Chunk
<1> DEFINE I == o..(o + l - 1)
<1>1. IsFiniteSet(I) /\ Cardinality(I) = l
  <2>1. PICK e \in Int : e = o + l - 1
    OBVIOUS
  <2>2. IsFiniteSet(o..e) /\ Cardinality(o..e) = IF o > e THEN 0 ELSE e - o + 1
    <3>1. o \in Int
      OBVIOUS
    <3> HIDE <2>1
    <3> QED BY <3>1, FS_Interval
  <2>3. (IF o > e THEN 0 ELSE e - o + 1) = l
    BY <2>1
  <2> QED BY <2>1, <2>2, <2>3
<1>2. I \subseteq Nat
  OBVIOUS
<1>3. BytesIn({c}) = {r} \X I
  <2>1. \A x : x \in BytesIn({c}) <=> x \in Nat \X Nat /\ x[1] = r /\ x[2] \in I
    BY DEF BytesIn, Carries
  <2> HIDE DEF I
  <2>2. \A x : x \in {r} \X I <=> x \in Nat \X Nat /\ x[1] = r /\ x[2] \in I
    BY <1>2
  <2> QED BY <2>1, <2>2
<1> HIDE DEF I
<1>4. IsFiniteSet({r}) /\ Cardinality({r}) = 1
  BY FS_Singleton
<1>5. IsFiniteSet({r} \X I) /\ Cardinality({r} \X I) = Cardinality({r}) * Cardinality(I)
  BY <1>1, <1>4, FS_Product
<1>6. 1 * l = l
  OBVIOUS
<1>7. Cardinality({r} \X I) = l
  BY <1>1, <1>4, <1>5, <1>6
<1> QED BY <1>3, <1>5, <1>7

\* A completion takes its chunk, and no other, out of those in flight.
LEMMA HandleWcCounts ==
    ASSUME TypeInv, RoutingInv, FailInv, TransferInv, CountInv, HandleWc
    PROVE  CountInv'
<1>1. /\ UNCHANGED <<nbatch, active, posts, moved>> /\ active # NoBatch /\ pc = "handle"
      /\ pending' = [i \in DOMAIN pending \ {Head(wcs).id} |-> pending[i]]
      /\ ~batch[active].done
  BY DEF HandleWc, TypeInv, CallHasBatch, FailInv, hwVars
<1> PICK c : c = Head(wcs).chunk
  OBVIOUS
<1> PICK id : id = Head(wcs).id
  OBVIOUS
<1> PICK a \in 1..MaxBatches : a = active
  BY <1>1, BatchNumbers
<1>2. /\ id \in DOMAIN pending /\ pending[id].chunk = c /\ c \in InFlight /\ c \in Cut(a)
      /\ c \in DOMAIN moved[a] /\ pending \in [DOMAIN pending -> [qp : QPs, chunk : Chunk]]
  BY HeadIsBooked
<1>3. \A q \in QPs : posts[q] = <<>>
  BY <1>1 DEF RoutingInv, ListsInRefill
<1>4. /\ \A i, j \in DOMAIN pending : pending[i].chunk = pending[j].chunk => i = j
      /\ \A i \in DOMAIN pending, q \in QPs : \A k \in 1..Len(posts[q]) :
          pending[i].chunk # posts[q][k].chunk
  BY <1>1 DEF CountInv, ChunksOnce
<1>5. ChunksOnce'
  <2>1. DOMAIN pending' \subseteq DOMAIN pending /\ \A i \in DOMAIN pending' : pending'[i] = pending[i]
    BY <1>1
  <2> QED BY <1>1, <1>4, <2>1 DEF ChunksOnce
<1>6. InFlight' = InFlight \ {c}
  <2>1. \A q \in QPs : ~ \E i \in 1..Len(posts[q]) : TRUE
    BY <1>3
  <2>2. InFlight = {d \in Chunk : \E i \in DOMAIN pending : pending[i].chunk = d}
    BY <2>1 DEF InFlight
  <2>3. InFlight' = {d \in Chunk : \E i \in DOMAIN pending' : pending'[i].chunk = d}
    BY <1>1, <2>1 DEF InFlight
  <2>4. /\ DOMAIN pending' = DOMAIN pending \ {id}
        /\ \A i \in DOMAIN pending \ {id} : pending'[i] = pending[i]
    BY <1>1
  <2> QED BY <1>2, <1>4, <2>2, <2>3, <2>4
<1> DEFINE H == Handled
<1>7. c \notin H /\ Handled' = H \cup {c} /\ H \subseteq Cut(a)
  <2>1. DOMAIN moved[a] \subseteq Cut(a)
    BY DEF TransferInv, QueueInv, MovedOnce
  <2> QED BY <1>1, <1>2, <1>6, <2>1 DEF Handled
<1>8. /\ IsFiniteSet(H) /\ batch[a].chunks = Cardinality(H)
      /\ IsFiniteSet(BytesIn(H)) /\ batch[a].bytes = Cardinality(BytesIn(H))
  BY <1>1 DEF CountInv, CountsHandled
<1>9. BatchTypes /\ batch[a] \in BatchState /\ batch \in [1..MaxBatches -> BatchState]
  BY DEF TypeInv, TypeOK, BatchTypes
<1>10. c \in Chunk /\ c.len \in Nat
  BY <1>2, <1>9, CutIs
<1>11. batch'[a].chunks = batch[a].chunks + 1 /\ batch'[a].bytes = batch[a].bytes + c.len
       /\ \A b \in 1..MaxBatches : b # a => batch'[b] = batch[b]
  <2>1. batch' = [batch EXCEPT ![a].chunks = @ + 1, ![a].bytes = @ + pending[id].chunk.len]
    BY DEF HandleWc
  <2>2. batch' = [batch EXCEPT ![a].chunks = @ + 1, ![a].bytes = @ + c.len]
    BY <1>2, <2>1
  <2> DEFINE k == c.len
  <2> HIDE DEF k
  <2>3. batch' = [batch EXCEPT ![a].chunks = @ + 1, ![a].bytes = @ + k]
    BY <2>2 DEF k
  <2>4. batch'[a].chunks = batch[a].chunks + 1 /\ batch'[a].bytes = batch[a].bytes + k
        /\ \A b \in 1..MaxBatches : b # a => batch'[b] = batch[b]
    BY <1>9, <2>3 DEF BatchState
  <2> QED BY <2>4 DEF k
<1> HIDE DEF H
<1>12. IsFiniteSet(H \cup {c}) /\ Cardinality(H \cup {c}) = Cardinality(H) + 1
  BY <1>7, <1>8, FS_AddElement
<1>13. /\ BytesIn(H \cup {c}) = BytesIn(H) \cup BytesIn({c})
       /\ BytesIn(H) \cap BytesIn({c}) = {}
  <2>1. BytesIn(H \cup {c}) = BytesIn(H) \cup BytesIn({c})
    BY DEF BytesIn
  <2>2. ASSUME NEW x \in BytesIn(H), x \in BytesIn({c}) PROVE FALSE
    <3>1. PICK d \in H : d.req = x[1] /\ x[2] \in d.off..(d.off + d.len - 1)
      BY DEF BytesIn, Carries
    <3>2. c.req = x[1] /\ x[2] \in c.off..(c.off + c.len - 1)
      BY <2>2 DEF BytesIn, Carries
    <3>3. x[2] \in Int /\ d \in Cut(a) /\ d # c
      BY <1>7 DEF BytesIn
    <3>4. c = d
      BY <1>2, <1>9, <3>1, <3>2, <3>3, CutDisjoint
    <3> QED BY <3>3, <3>4
  <2> QED BY <2>1, <2>2
<1>14. /\ IsFiniteSet(BytesIn(H \cup {c}))
       /\ Cardinality(BytesIn(H \cup {c})) = Cardinality(BytesIn(H)) + c.len
  <2>1. IsFiniteSet(BytesIn({c})) /\ Cardinality(BytesIn({c})) = c.len
    BY <1>10, ChunkBytes
  <2> PICK S, T : S = BytesIn(H) /\ T = BytesIn({c})
    OBVIOUS
  <2>2. IsFiniteSet(S) /\ IsFiniteSet(T)
    BY <1>8, <2>1
  <2>3. IsFiniteSet(S \cup T) /\ Cardinality(S \cup T) = Cardinality(S) + Cardinality(T) - Cardinality(S \cap T)
    BY <2>2, FS_Union
  <2>4. Cardinality(S \cap T) = 0 /\ Cardinality(S) \in Nat /\ Cardinality(T) = c.len
    BY <1>13, <2>1, <2>2, FS_EmptySet, FS_CardinalityType
  <2>5. Cardinality(S \cup T) = Cardinality(S) + c.len
    BY <1>10, <2>3, <2>4
  <2> QED BY <1>13, <2>3, <2>5
<1>15. CountsHandled'
  <2>1. BytesIn(Handled)' = BytesIn(H \cup {c})
    BY <1>7 DEF BytesIn, Carries
  <2>2. batch'[active'].chunks = Cardinality(Handled') /\ batch'[active'].bytes = Cardinality(BytesIn(Handled)')
    BY <1>1, <1>7, <1>8, <1>11, <1>12, <1>14, <2>1
  <2> QED BY <1>7, <1>12, <1>14, <2>1, <2>2 DEF CountsHandled
<1>16. CountedAll'
  <2>1. \A b \in 1..nbatch : Succeeded(b)' => Succeeded(b) /\ SameCounts(batch'[b], batch[b])
    <3>1. BatchesSame
      BY QuietEffects DEF QuietSteps
    <3>2. ~batch'[a].done
      BY <1>1, <3>1 DEF BatchesSame
    <3> QED BY <1>11, <3>2, BatchNumbers DEF Succeeded, SameCounts
  <2> QED BY <1>1, <2>1, CountedAllKept
<1> QED BY <1>5, <1>15, <1>16 DEF CountInv

\* A batch is done when its chunks are handled: all were moved, none is in flight.
LEMMA SucceedCounts ==
    ASSUME TypeInv, RoutingInv, PipeInv, TransferInv, CountInv, Succeed
    PROVE  CountInv'
<1>1. active' = NoBatch /\ nbatch' = nbatch
  BY DEF Succeed, FinishSuccess
<1>2. InFlight = {} /\ Finished(active, batch) /\ active \in 1..nbatch
  BY SucceedTransfer
<1> PICK a \in 1..MaxBatches : a = active
  BY <1>2, BatchNumbers
<1>3. active # NoBatch /\ BatchTypes
  BY <1>2, BatchNumbers DEF TypeInv, TypeOK
<1>4. DOMAIN moved[a] = Cut(a)
  BY AllMoved
<1>5. Handled = Cut(a)
  BY <1>2, <1>4 DEF Handled
<1>6. /\ batch[a].chunks = TotalChunks(batch[a].reqs)
      /\ batch[a].bytes = TotalBytes(batch[a].reqs)
  BY <1>3, <1>5, BytesCount, ChunkCount DEF CountInv, CountsHandled
<1>7. /\ \A b \in 1..MaxBatches : b # a => batch'[b] = batch[b]
      /\ SameCounts(batch'[a], batch[a])
  BY <1>2 DEF Finished
<1>8. CountedAll'
  <2> SUFFICES ASSUME NEW b \in 1..nbatch, Succeeded(b)'
               PROVE  /\ batch'[b].chunks = TotalChunks(batch'[b].reqs)
                      /\ batch'[b].bytes = TotalBytes(batch'[b].reqs)
    BY <1>1 DEF CountedAll
  <2>1. CASE b = a
    BY <1>6, <1>7, <2>1 DEF SameCounts
  <2>2. CASE b # a
    BY <1>7, <2>2, BatchNumbers DEF CountInv, CountedAll, Succeeded
  <2> QED BY <2>1, <2>2
<1> QED BY <1>1, <1>8 DEF CountInv, ChunksOnce, CountsHandled

\* A batch starts with nothing counted; one without chunks has nothing to count.
LEMMA SubmitCounts ==
    ASSUME TypeInv, RoutingInv, TransferInv, CountInv,
           NEW reqs \in RequestLists, NEW cb \in BOOLEAN, Submit(reqs, cb)
    PROVE  CountInv'
<1> PICK n : n = nbatch + 1
  OBVIOUS
<1>1. /\ n \in 1..MaxBatches /\ nbatch' = n /\ batch'[n].reqs = reqs
      /\ batch'[n].chunks = 0 /\ batch'[n].bytes = 0
      /\ \A b \in 1..MaxBatches : b # n => batch'[b] = batch[b]
      /\ (active' = NoBatch /\ batch'[n].done) \/ (active' = n /\ ~batch'[n].done)
  <2>1. \/ active' = NoBatch /\ batch'[nbatch + 1].done
        \/ active' = nbatch + 1 /\ ~batch'[nbatch + 1].done
    BY SubmitEffects
  <2> QED BY <2>1, SubmitEffects
<1>2. DOMAIN moved[n] = {} /\ moved' = moved
  BY SubmitTransfer
<1>3. pending' = pending /\ posts' = [q \in QPs |-> <<>>] /\ active = NoBatch
  BY DEF Submit, FinishSuccess, EnterRefill, EmptyFrame, wrVars
<1>4. DOMAIN pending' = {}
  BY <1>3 DEF RoutingInv, QuietBetween
<1>5. ChunksOnce'
  BY <1>4 DEF ChunksOnce
<1>6. CountsHandled'
  <2> SUFFICES ASSUME active' = n PROVE CountsHandled'
    BY <1>1 DEF CountsHandled
  <2>1. Handled' = {}
    BY <1>2 DEF Handled
  <2>2. BytesIn(Handled)' = {}
    BY <2>1 DEF BytesIn
  <2> QED BY <1>1, <2>1, <2>2, FS_EmptySet DEF CountsHandled
<1>7. batch'[n].done => TotalChunks(reqs) = 0
  <2>1. TotalChunks(reqs) # 0 => active' = nbatch + 1
    BY DEF Submit
  <2>2. n # NoBatch
    BY <1>1 DEF NoBatch
  <2> QED BY <1>1, <2>1, <2>2
<1>8. TotalChunks(reqs) = 0 => TotalBytes(reqs) = 0
  <2>1. reqs \in Seq(Nat \ {0}) /\ (TotalChunks(reqs) = 0 => reqs = <<>>)
    BY ConstantsAssumption, NoChunksNoRequests
  <2>2. PICK p : BytesUpTo(reqs, p)
    BY <2>1, BytesAddUp
  <2>3. p[0] = 0 /\ p[Len(reqs)] = TotalBytes(reqs)
    BY <2>2 DEF BytesUpTo
  <2>4. reqs = <<>> => Len(reqs) = 0
    OBVIOUS
  <2> QED BY <2>1, <2>3, <2>4
<1>9. CountedAll'
  <2> SUFFICES ASSUME NEW b \in 1..n, Succeeded(b)'
               PROVE  /\ batch'[b].chunks = TotalChunks(batch'[b].reqs)
                      /\ batch'[b].bytes = TotalBytes(batch'[b].reqs)
    BY <1>1 DEF CountedAll
  <2>1. CASE b = n
    BY <1>1, <1>7, <1>8, <2>1 DEF Succeeded
  <2>2. CASE b # n
    <3>1. b \in 1..nbatch /\ b \in 1..MaxBatches
      BY <1>1, <2>2, BatchNumbers
    <3> QED BY <1>1, <2>2, <3>1 DEF CountInv, CountedAll, Succeeded
  <2> QED BY <2>1, <2>2
<1> QED BY <1>5, <1>6, <1>9 DEF CountInv

\* A batch that ends with an error keeps its counts, and did not succeed.
LEMMA EndedKeeps ==
    ASSUME TypeInv, NEW c \in 1..MaxBatches, NEW e \in Errors \ {"none", "callback"}, Ended(c, e)
    PROVE  \A b \in 1..nbatch : (Succeeded(b)' => Succeeded(b)) /\ SameCounts(batch'[b], batch[b])
<1> SUFFICES ASSUME NEW b \in 1..nbatch
             PROVE  (Succeeded(b)' => Succeeded(b)) /\ SameCounts(batch'[b], batch[b])
  OBVIOUS
<1>1. CASE b = c
  BY <1>1 DEF Ended, Succeeded
<1>2. CASE b # c
  BY <1>2, BatchNumbers DEF Ended, SameCounts, Succeeded
<1> QED BY <1>1, <1>2

\* The batch whose callback ends had succeeded before.
LEMMA ReturnedKeeps ==
    ASSUME TypeInv, CallbackInv, NEW ok \in BOOLEAN, CallbackReturns(ok)
    PROVE  \A b \in 1..nbatch : Succeeded(b)' => Succeeded(b)
<1> SUFFICES ASSUME NEW b \in 1..nbatch PROVE Succeeded(b)' => Succeeded(b)
  OBVIOUS
<1>1. /\ batch'[b].done = batch[b].done /\ callbacks # <<>>
      /\ \/ batch'[b].error = batch[b].error
         \/ batch'[b].error = "callback" /\ b = callbacks[Len(callbacks)]
  BY CallbackEffects, BatchNumbers
<1>2. Succeeded(callbacks[Len(callbacks)])
  <2>1. callbacks \in Seq(1..MaxBatches)
    BY DEF TypeInv, TypeOK, BatchTypes
  <2>2. Len(callbacks) \in 1..Len(callbacks)
    BY <1>1, <2>1, EmptySeq, LenProperties
  <2> QED BY <2>2 DEF CallbackInv
<1> QED BY <1>1, <1>2 DEF Succeeded

\* A step that ends the active batch with an error.
LEMMA LosingCounts ==
    ASSUME TypeInv, FailInv, CountInv, LosingSteps
    PROVE  CountInv'
<1>1. active' = NoBatch /\ nbatch' = nbatch
  BY LosingEffects
<1>2. CASE batch' = batch
  BY <1>1, <1>2, BatchSame, CountedAllKept DEF CountInv, ChunksOnce, CountsHandled
<1>3. ASSUME NEW c \in 1..MaxBatches, NEW e \in Errors \ {"none", "callback"}, Ended(c, e) PROVE CountInv'
  <2>1. \A b \in 1..nbatch : Succeeded(b)' => Succeeded(b) /\ SameCounts(batch'[b], batch[b])
    BY <1>3, EndedKeeps
  <2> QED BY <1>1, <2>1, CountedAllKept DEF CountInv, ChunksOnce, CountsHandled
<1> QED BY <1>2, <1>3, LosingEffects

\* A batch is marked by another scheduler's wait, or its callback ends.
LEMMA MarkCounts ==
    ASSUME TypeInv, FailInv, CallbackInv, CountInv,
           (\E b \in 1..MaxBatches : ForeignWait(b)) \/ (\E ok \in BOOLEAN : CallbackReturns(ok))
    PROVE  CountInv'
<1>1. UNCHANGED <<nbatch, active, pending, posts, moved>>
  BY DEF ForeignWait, CallbackReturns, frameVars, wrVars, hwVars
<1>2. Handled' = Handled
  BY <1>1 DEF Handled, InFlight
<1>3. ASSUME NEW c \in 1..MaxBatches, ForeignWait(c) PROVE CountInv'
  <2>1. Ended(c, "transport")
    BY <1>3, EndBatchEnds DEF ForeignWait, TypeInv, TypeOK
  <2>2. \A b \in 1..nbatch : (Succeeded(b)' => Succeeded(b)) /\ SameCounts(batch'[b], batch[b])
    BY <2>1, EndedKeeps DEF Errors
  <2> QED BY <1>1, <1>2, <2>2, CountsSame
<1>4. ASSUME NEW ok \in BOOLEAN, CallbackReturns(ok) PROVE CountInv'
  <2>1. \A b \in 1..nbatch : SameCounts(batch'[b], batch[b])
    BY <1>4, CallbackEffects, BatchNumbers
  <2>2. \A b \in 1..nbatch : Succeeded(b)' => Succeeded(b)
    BY <1>4, ReturnedKeeps
  <2> QED BY <1>1, <1>2, <2>1, <2>2, CountsSame
<1> QED BY <1>3, <1>4

\* While a batch runs, chunks_completed and bytes_completed are the number of
\* chunks that were moved and handled, and of the bytes in them.
THEOREM CountInvHolds == Spec => []CountInv
<1>1. Init => CountInv
  BY FS_EmptySet DEF Init, CountInv, ChunksOnce, CountsHandled, CountedAll, NoBatch
<1>2. ASSUME TypeInv, TypeInv', RoutingInv, PipeInv, FailInv, TransferInv, CountInv, QuietSteps
      PROVE  CountInv'
  BY <1>2, CalmCounts, AllocChunkCounts, PostQPCounts, HandleWcCounts, HwCounts
     DEF QuietSteps, CalmSteps, Hardware
<1>3. TypeInv /\ TypeInv' /\ RoutingInv /\ PipeInv /\ FailInv /\ CallbackInv /\ TransferInv /\ CountInv
        /\ [Next]_vars => CountInv'
  BY <1>2, StepKinds, LosingCounts, SucceedCounts, SubmitCounts, MarkCounts
<1> QED BY <1>1, <1>3, TypeInvHolds, RoutingInvHolds, PipeInvHolds, FailInvHolds, CallbackInvHolds,
        TransferInvHolds, PTL DEF Spec

\* on_complete runs exactly once for a batch that succeeded, when it has counted
\* every chunk and byte that submit announced, and for no other batch.
THEOREM SuccessIsComplete == Spec => []OnCompleteExactlyOnce
BY CountInvHolds, CalledExactlyOnce, PTL DEF CountInv, OnCompleteExactlyOnce
=============================================================================
