---------------------------- MODULE EfaBindings ----------------------------
(***************************************************************************)
(* The objects of efa/src/efa/_efa.pyx.  The classes own their native      *)
(* objects as those of ibverbs do, so each method is a step of             *)
(* VerbsLifecycle; there are no endpoints, SRQs and exports, and a CQ is   *)
(* made either plain or extended (CQEx).  What EfaNext leaves out of Next  *)
(* is what the library does not have.                                      *)
(***************************************************************************)
EXTENDS VerbsLifecycle

VARIABLE extended     \* the CQs that are CQEx objects

efaVars == <<vars, extended>>

EfaOpen == Open
EfaAllocPD(pd) == AllocPD(pd)
EfaCreateCompChannel(ch) == CreateCompChannel(ch)
EfaRegMR(mr, pd) == RegMR(mr, pd)
EfaRegDmabufMR(mr, pd) == RegDmabufMR(mr, pd)
EfaCreateAH(ah, pd) == CreateAH(ah, pd)

EfaCreateCQ(cq, channel) == CreateCQ(cq, channel) /\ UNCHANGED extended
EfaCreateCQEx(cq, channel) == CreateCQ(cq, channel) /\ extended' = extended \cup {cq}

\* PD.create_qp.  QP._wrap destroys the native QP again if it has no extended
\* interface, so a call that fails there leaves nothing behind.
EfaCreateQP(q, pd, scq, rcq) == CreateQP(q, pd, scq, rcq, {})

EfaCloseContext == CloseContext
EfaClosePD(pd) == ClosePD(pd)
EfaCloseMR(mr) == CloseMR(mr)
EfaCloseAH(ah) == CloseAH(ah)
EfaCloseCompChannel(ch) == CloseCompChannel(ch)
EfaCloseQP(q) == CloseQP(q)
EfaCloseCQ(cq) == cq \notin extended /\ CloseCQ(cq)

EfaCloseCQEx(cq) == cq \in extended /\ CloseCQ(cq)

EfaCollectContext == CollectContext
EfaCollectPD(pd, ok) == CollectPD(pd, ok)
EfaCollectMR(mr, ok) == CollectMR(mr, ok)
EfaCollectAH(ah, ok) == CollectAH(ah, ok)
EfaCollectCompChannel(ch, ok) == CollectCompChannel(ch, ok)
EfaCollectQP(q, ok) == CollectQP(q, ok)
EfaCollectCQ(cq, ok) == cq \notin extended /\ CollectCQ(cq, ok)
EfaCollectCQEx(cq, ok) == cq \in extended /\ CollectCQ(cq, ok)

EfaReqNotify(cq) == ReqNotify(cq)
EfaAckEvents(cq, n) == AckEvents(cq, n)

\* CompChannel.get_cq_event: without the lock, an event, with the lock.
EfaGetEvent(ch) == GetEvent(ch)
EfaTakeEvent(cq) == TakeEvent(cq)
EfaCountEvent == CountEvent

EfaTakeAsync(o) == TakeAsync(o)
EfaReturnAsync == ReturnAsync
EfaAckAsync(o) == AckAsync(o)

-----------------------------------------------------------------------------
EfaInit == Init /\ extended = {}

EfaMakeCQ ==
    \E cq \in CQs, ch \in Optional(Channels) : EfaCreateCQ(cq, ch) \/ EfaCreateCQEx(cq, ch)

EfaMake ==
    \/ EfaOpen
    \/ \E pd \in PDs : EfaAllocPD(pd)
    \/ \E ch \in Channels : EfaCreateCompChannel(ch)
    \/ \E mr \in MRs, pd \in PDs : EfaRegMR(mr, pd) \/ EfaRegDmabufMR(mr, pd)
    \/ \E ah \in AHs, pd \in PDs : EfaCreateAH(ah, pd)
    \/ \E q \in QPs, pd \in PDs, scq, rcq \in CQs : EfaCreateQP(q, pd, scq, rcq)

EfaEnd ==
    \/ EfaCloseContext
    \/ \E pd \in PDs : EfaClosePD(pd)
    \/ \E mr \in MRs : EfaCloseMR(mr)
    \/ \E ah \in AHs : EfaCloseAH(ah)
    \/ \E ch \in Channels : EfaCloseCompChannel(ch)
    \/ \E q \in QPs : EfaCloseQP(q)
    \/ \E cq \in CQs : EfaCloseCQ(cq) \/ EfaCloseCQEx(cq)
    \/ \E o \in Objects : Drop(o)

EfaCollect ==
    \/ \E o \in Objects : CollectClosed(o)
    \/ EfaCollectContext
    \/ \E ok \in BOOLEAN :
           \/ \E pd \in PDs : EfaCollectPD(pd, ok)
           \/ \E mr \in MRs : EfaCollectMR(mr, ok)
           \/ \E ah \in AHs : EfaCollectAH(ah, ok)
           \/ \E ch \in Channels : EfaCollectCompChannel(ch, ok)
           \/ \E q \in QPs : EfaCollectQP(q, ok)
           \/ \E cq \in CQs : EfaCollectCQ(cq, ok) \/ EfaCollectCQEx(cq, ok)

EfaEvents ==
    \/ \E cq \in CQs : EfaReqNotify(cq) \/ HwEvent(cq) \/ EfaTakeEvent(cq)
    \/ \E ch \in Channels : EfaGetEvent(ch)
    \/ EfaCountEvent
    \/ \E cq \in CQs, n \in 1..(Span - 1) : EfaAckEvents(cq, n)
    \/ \E o \in QPs \cup CQs : EfaTakeAsync(o) \/ EfaAckAsync(o)
    \/ EfaReturnAsync

EfaNext ==
    \/ EfaMakeCQ
    \/ (EfaMake \/ EfaEnd \/ EfaCollect \/ EfaEvents) /\ UNCHANGED extended

EfaSpec == EfaInit /\ [][EfaNext]_efaVars
=============================================================================
