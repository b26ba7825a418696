--------------------------- MODULE NvmeQueueProofs ---------------------------
(***************************************************************************)
(* Proofs about NvmeQueue: command IDs are neither leaked nor shared, every*)
(* command is answered with its own response, and nothing overflows, for   *)
(* every queue depth.                                                      *)
(*                                                                         *)
(* The invariant follows a command through the queue pair.  Its SEND is in *)
(* one place at a time: the send queue, the unacknowledged ones, a         *)
(* completion in the CQ or in poll's list; its response too: not yet sent, *)
(* at the target, in a slot.  _finish_if_ready waits for both, so when it  *)
(* gives the cid back, nothing names that cid any more.  A poll that fails *)
(* leaves a slot unposted only together with the cid of the response in    *)
(* it, which is what keeps a receive for every command.                    *)
(***************************************************************************)
EXTENDS NvmeQueue, SequenceTheorems, FiniteSetTheorems, TLAPS

-----------------------------------------------------------------------------
RequestType ==
    [cid : Int, wait : BOOLEAN, sent : BOOLEAN, response : Int, done : BOOLEAN]
WCType == [kind : {"send", "recv"}, index : Int, ok : BOOLEAN]
CapsuleType == [cid : Cids, req : Requests]

QueueTypes ==
    /\ request \in [Requests -> RequestType] /\ nreq \in 0..MaxRequests
    /\ free \in Seq(Cids)
    /\ DOMAIN pending \subseteq Cids /\ \A c \in DOMAIN pending : pending[c] \in 1..nreq
    /\ executing \in Requests \cup {None}
    /\ wcs \in Seq(WCType) /\ cq \in Seq(WCType) /\ (pc # "poll" => wcs = <<>>)
    /\ sq \in Seq(Cids) /\ unacked \in Seq(Cids) /\ recvs \in Seq(Slots)
    /\ commands \in [Cids -> Int] /\ responses \in [Slots -> [cid : Int, req : Int]]
    /\ qpErr \in BOOLEAN /\ target \subseteq CapsuleType /\ received \in [Requests -> Nat]

\* CidsPartitioned, with the request of a cid that is pending.
CidInv ==
    /\ IsInjective(free)
    /\ ToSet(free) \cap DOMAIN pending = {} /\ ToSet(free) \cup DOMAIN pending = Cids
    /\ \A c \in DOMAIN pending : request[pending[c]].cid = c

\* The completions that nobody has handled yet.
Waiting == ToSet(wcs) \cup ToSet(cq)

\* Nothing is posted, or completes, twice at a time.
OnceEach ==
    /\ IsInjective(sq) /\ IsInjective(unacked) /\ IsInjective(recvs)
    /\ IsInjective(wcs) /\ IsInjective(cq)
    /\ ToSet(sq) \cap ToSet(unacked) = {} /\ ToSet(wcs) \cap ToSet(cq) = {}
    /\ \A v, w \in Waiting : v.kind = w.kind /\ v.index = w.index => v = w

\* A command whose SEND is on its way, up to poll, is pending and not sent.
SendsPending ==
    /\ \A c \in ToSet(sq) \cup ToSet(unacked) :
          c \in DOMAIN pending /\ ~ request[pending[c]].sent
    /\ \A w \in Waiting : w.kind = "send" =>
          /\ w.index \in DOMAIN pending /\ ~ request[pending[w.index]].sent
          /\ w.index \notin ToSet(sq) \cup ToSet(unacked)
    /\ \A w \in Waiting : w.kind = "recv" => w.index \in Slots /\ w.index \notin ToSet(recvs)

\* Slots with a response that poll has not read: while the connection lasts, all
\* that are not posted, since a poll that fails leaves its slots behind.
Answered ==
    {s \in Slots \ ToSet(recvs) :
        qpErr => \E w \in Waiting : w.kind = "recv" /\ w.ok /\ w.index = s}

\* A command that the target has, will get or has answered is pending and has no
\* response; it is in one of these places.
AnswersPending ==
    /\ \A c \in ToSet(sq) : c \in DOMAIN pending /\ request[pending[c]].response = None
    /\ \A t \in target : /\ t.cid \in DOMAIN pending /\ request[pending[t.cid]].response = None
                         /\ t.cid \notin ToSet(sq)
    /\ \A s \in Answered :
          /\ responses[s].cid \in DOMAIN pending
          /\ request[pending[responses[s].cid]].response = None
          /\ responses[s].cid \notin ToSet(sq)
          /\ \A t \in target : t.cid # responses[s].cid
          /\ \A u \in Answered : responses[u].cid = responses[s].cid => u = s

\* What the target has or has answered is the request that is pending under its cid.
OwnContent ==
    /\ \A c \in DOMAIN pending : commands[c] = pending[c]
    /\ \A t \in target : t.req = pending[t.cid] /\ received[t.req] = 1
    /\ \A s \in Answered : /\ responses[s].req = pending[responses[s].cid]
                           /\ received[responses[s].req] = 1
    /\ \A c \in ToSet(sq) : received[pending[c]] = 0
    /\ \A r \in Requests :
          /\ received[r] \in {0, 1}
          /\ request[r].response # None => request[r].response = r /\ received[r] = 1
          /\ request[r].done => request[r].response # None
          /\ r > nreq => received[r] = 0

\* CidsPartitioned, QueuesFit and AnsweredByItsOwn, made inductive.
QueueInv ==
    QueueTypes /\ CidInv /\ OnceEach /\ SendsPending /\ AnswersPending /\ OwnContent
-----------------------------------------------------------------------------
(* Sequences without repetitions, as sets. *)

\* The elements of a sequence.
LEMMA ToSetIs ==
    ASSUME NEW T, NEW s \in Seq(T)
    PROVE  /\ \A i \in 1..Len(s) : s[i] \in ToSet(s) /\ s[i] \in T
           /\ \A x \in ToSet(s) : x \in T /\ \E i \in 1..Len(s) : x = s[i]
           /\ DOMAIN s = 1..Len(s) /\ Len(s) \in Nat
BY DEF ToSet

\* The empty sequence.
LEMMA EmptyBook == ToSet(<<>>) = {} /\ IsInjective(<<>>) /\ \A T : <<>> \in Seq(T)
BY DEF ToSet, IsInjective

\* The head leaves.
LEMMA TailBook ==
    ASSUME NEW T, NEW s \in Seq(T), s # <<>>, NEW t, t = Tail(s), IsInjective(s)
    PROVE  /\ t \in Seq(T) /\ Head(s) \in T /\ Head(s) \in ToSet(s)
           /\ IsInjective(t) /\ ToSet(t) = ToSet(s) \ {Head(s)}
           /\ Len(t) = Len(s) - 1
<1>1. /\ t \in Seq(T) /\ Len(t) = Len(s) - 1 /\ Len(s) > 0 /\ Len(s) \in Nat
      /\ Head(s) = s[1] /\ \A i \in 1..Len(t) : t[i] = s[i + 1]
  BY HeadTailProperties
<1>2. DOMAIN t = 1..Len(t) /\ DOMAIN s = 1..Len(s)
  BY <1>1
<1>3. IsInjective(t)
  <2> SUFFICES ASSUME NEW i \in 1..Len(t), NEW j \in 1..Len(t), t[i] = t[j] PROVE i = j
    BY <1>2 DEF IsInjective
  <2>1. i + 1 \in 1..Len(s) /\ j + 1 \in 1..Len(s) /\ s[i + 1] = s[j + 1]
    BY <1>1
  <2>2. i + 1 = j + 1
    BY <1>2, <2>1 DEF IsInjective
  <2> QED BY <2>2
<1>4. \A x \in ToSet(t) : x \in ToSet(s) /\ x # Head(s)
  <2> SUFFICES ASSUME NEW i \in 1..Len(t) PROVE t[i] \in ToSet(s) /\ t[i] # s[1]
    BY <1>1, <1>2 DEF ToSet
  <2>1. i + 1 \in 1..Len(s) /\ 1 \in 1..Len(s) /\ i + 1 # 1
    BY <1>1
  <2>2. s[i + 1] # s[1]
    BY <1>2, <2>1 DEF IsInjective
  <2> QED BY <1>1, <1>2, <2>1, <2>2 DEF ToSet
<1>5. \A x \in ToSet(s) : x # Head(s) => x \in ToSet(t)
  <2> SUFFICES ASSUME NEW i \in 1..Len(s), s[i] # s[1] PROVE s[i] \in ToSet(t)
    BY <1>1, <1>2 DEF ToSet
  <2>1. i # 1
    OBVIOUS
  <2>2. i - 1 \in 1..Len(t)
    BY <1>1, <2>1
  <2>3. (i - 1) + 1 = i
    OBVIOUS
  <2>4. t[i - 1] = s[i]
    BY <1>1, <2>2, <2>3
  <2> QED BY <1>2, <2>2, <2>4 DEF ToSet
<1>6. Head(s) \in T /\ Head(s) \in ToSet(s)
  <2>1. 1 \in 1..Len(s)
    BY <1>1
  <2> QED BY <1>1, <2>1, ToSetIs
<1>7. ToSet(t) = ToSet(s) \ {Head(s)}
  BY <1>4, <1>5
<1> QED BY <1>1, <1>3, <1>6, <1>7

\* A new element at the end.
LEMMA AppendBook ==
    ASSUME NEW T, NEW s \in Seq(T), NEW x \in T, IsInjective(s), x \notin ToSet(s)
    PROVE  /\ Append(s, x) \in Seq(T) /\ ToSet(Append(s, x)) = ToSet(s) \cup {x}
           /\ IsInjective(Append(s, x))
<1> DEFINE t == Append(s, x)
<1>1. /\ t \in Seq(T) /\ Len(t) = Len(s) + 1 /\ Len(s) \in Nat
      /\ \A i \in 1..Len(s) : t[i] = s[i]
      /\ t[Len(s) + 1] = x
  BY AppendProperties
<1> HIDE DEF t
<1>2. DOMAIN t = 1..(Len(s) + 1) /\ DOMAIN s = 1..Len(s)
  BY <1>1
<1>3. \A i \in 1..(Len(s) + 1) : i \in 1..Len(s) \/ i = Len(s) + 1
  BY <1>1
<1>4. 1..Len(s) \subseteq 1..(Len(s) + 1) /\ Len(s) + 1 \in 1..(Len(s) + 1)
  BY <1>1
<1>5. ToSet(t) = ToSet(s) \cup {x}
  BY <1>1, <1>2, <1>3, <1>4 DEF ToSet
<1>6. IsInjective(t)
  <2>1. \A i \in 1..Len(s) : t[i] # x
    BY <1>1, <1>2 DEF ToSet
  <2> SUFFICES ASSUME NEW i \in DOMAIN t, NEW j \in DOMAIN t, t[i] = t[j] PROVE i = j
    BY DEF IsInjective
  <2>2. CASE i \in 1..Len(s) /\ j \in 1..Len(s)
    BY <1>1, <1>2, <2>2 DEF IsInjective
  <2>3. CASE i = Len(s) + 1 \/ j = Len(s) + 1
    BY <1>1, <1>2, <1>3, <2>1, <2>3
  <2> QED BY <1>2, <1>3, <2>2, <2>3
<1> QED BY <1>1, <1>5, <1>6 DEF t

\* A sequence is cut in two.
LEMMA CutBook ==
    ASSUME NEW T, NEW s \in Seq(T), IsInjective(s), NEW n \in 0..Len(s)
    PROVE  LET a == SubSeq(s, 1, n)
               b == SubSeq(s, n + 1, Len(s))
           IN  /\ a \in Seq(T) /\ b \in Seq(T) /\ IsInjective(a) /\ IsInjective(b)
               /\ ToSet(a) \cup ToSet(b) = ToSet(s) /\ ToSet(a) \cap ToSet(b) = {}
<1> DEFINE a == SubSeq(s, 1, n)
           b == SubSeq(s, n + 1, Len(s))
<1>0. Len(s) \in Nat /\ n \in Nat /\ n <= Len(s) /\ DOMAIN s = 1..Len(s)
  OBVIOUS
<1>1. a \in Seq(T) /\ Len(a) = n /\ \A i \in 1..n : a[i] = s[i]
  <2>1. CASE n = 0
    BY <1>0, <2>1
  <2>2. CASE n > 0
    <3>1. 1 \in 1..(Len(s) + 1) /\ n \in 0..Len(s)
      BY <1>0
    <3> QED BY <1>0, <2>2, <3>1, SubSeqProperties
  <2> QED BY <1>0, <2>1, <2>2
<1>2. b \in Seq(T) /\ Len(b) = Len(s) - n /\ \A i \in 1..(Len(s) - n) : b[i] = s[n + i]
  <2>1. n + 1 \in Int /\ Len(s) \in Int /\ \A i \in (n + 1)..Len(s) : s[i] \in T
    BY <1>0
  <2>2. b \in Seq(T) /\ Len(b) = Len(s) - (n + 1) + 1
        /\ \A i \in 1..(Len(s) - (n + 1) + 1) : b[i] = s[(n + 1) + i - 1]
    <3>1. /\ SubSeq(s, n + 1, Len(s)) \in Seq(T)
          /\ Len(SubSeq(s, n + 1, Len(s))) = IF n + 1 <= Len(s) THEN Len(s) - (n + 1) + 1 ELSE 0
          /\ \A i \in 1..(Len(s) - (n + 1) + 1) : SubSeq(s, n + 1, Len(s))[i] = s[(n + 1) + i - 1]
      BY <2>1, SubSeqProperties
    <3>2. (IF n + 1 <= Len(s) THEN Len(s) - (n + 1) + 1 ELSE 0) = Len(s) - (n + 1) + 1
      <4> DEFINE m == Len(s)
      <4>1. m \in Nat /\ n \in Nat /\ n <= m
        BY <1>0
      <4> HIDE DEF m
      <4>2. (IF n + 1 <= m THEN m - (n + 1) + 1 ELSE 0) = m - (n + 1) + 1
        <5>1. CASE n + 1 <= m
          BY <5>1
        <5>2. CASE ~ (n + 1 <= m)
          <6>1. n = m
            BY <4>1, <5>2
          <6> QED BY <4>1, <5>2, <6>1
        <5> QED BY <5>1, <5>2
      <4> QED BY <4>2 DEF m
    <3> QED BY <3>1, <3>2
  <2>3. Len(s) - (n + 1) + 1 = Len(s) - n /\ \A i \in 1..(Len(s) - n) : (n + 1) + i - 1 = n + i
    BY <1>0
  <2> QED BY <2>2, <2>3
<1> HIDE DEF a, b
<1>3. DOMAIN a = 1..n /\ DOMAIN b = 1..(Len(s) - n)
  BY <1>1, <1>2
<1>4. \A i \in 1..n : i \in DOMAIN s
  BY <1>0
<1>5. \A i \in 1..(Len(s) - n) : n + i \in DOMAIN s /\ n + i > n
  BY <1>0
<1>6. IsInjective(a)
  BY <1>1, <1>3, <1>4 DEF IsInjective
<1>7. IsInjective(b)
  <2> SUFFICES ASSUME NEW i \in 1..(Len(s) - n), NEW j \in 1..(Len(s) - n), b[i] = b[j] PROVE i = j
    BY <1>3 DEF IsInjective
  <2>1. n + i = n + j
    BY <1>2, <1>5 DEF IsInjective
  <2> QED BY <1>0, <2>1
<1>8. ToSet(a) \subseteq ToSet(s) /\ ToSet(b) \subseteq ToSet(s)
  <2>1. ToSet(a) \subseteq ToSet(s)
    BY <1>1, <1>3, <1>4 DEF ToSet
  <2>2. ASSUME NEW i \in 1..(Len(s) - n) PROVE b[i] \in ToSet(s)
    <3>1. n + i \in DOMAIN s /\ b[i] = s[n + i]
      BY <1>2, <1>5
    <3> QED BY <3>1 DEF ToSet
  <2> QED BY <1>3, <2>1, <2>2 DEF ToSet
<1>9. ASSUME NEW i \in DOMAIN s PROVE s[i] \in ToSet(a) \cup ToSet(b)
  <2>1. CASE i <= n
    <3>1. i \in 1..n
      BY <1>0, <2>1
    <3> QED BY <1>1, <1>3, <3>1 DEF ToSet
  <2>2. CASE i > n
    <3>1. i - n \in 1..(Len(s) - n) /\ n + (i - n) = i
      BY <1>0, <2>2
    <3>2. b[i - n] = s[i]
      BY <1>2, <3>1
    <3> QED BY <1>3, <3>1, <3>2 DEF ToSet
  <2> QED BY <1>0, <2>1, <2>2
<1>10. ToSet(a) \cap ToSet(b) = {}
  <2> SUFFICES ASSUME NEW x \in ToSet(a), x \in ToSet(b) PROVE FALSE
    OBVIOUS
  <2>2. PICK i \in 1..n : x = a[i]
    BY <1>3 DEF ToSet
  <2>3. PICK j \in 1..(Len(s) - n) : x = b[j]
    BY <1>3 DEF ToSet
  <2>4. s[i] = s[n + j] /\ i \in DOMAIN s /\ n + j \in DOMAIN s
    BY <1>1, <1>2, <1>4, <1>5, <2>2, <2>3
  <2>1. i = n + j
    BY <2>4 DEF IsInjective
  <2> QED BY <1>0, <2>1
<1>11. ToSet(s) \subseteq ToSet(a) \cup ToSet(b)
  BY <1>9 DEF ToSet
<1> QED BY <1>1, <1>2, <1>6, <1>7, <1>8, <1>10, <1>11 DEF a, b

\* Two queues one after the other.
LEMMA JoinBook ==
    ASSUME NEW T, NEW a \in Seq(T), NEW b \in Seq(T),
           IsInjective(a), IsInjective(b), ToSet(a) \cap ToSet(b) = {}
    PROVE  a \o b \in Seq(T) /\ IsInjective(a \o b) /\ ToSet(a \o b) = ToSet(a) \cup ToSet(b)
<1> DEFINE s == a \o b
           m == Len(a)
           n == Len(b)
<1>1. m \in Nat /\ n \in Nat /\ DOMAIN a = 1..m /\ DOMAIN b = 1..n
  OBVIOUS
<1>2. /\ s \in Seq(T) /\ Len(s) = m + n /\ \A i \in 1..m : s[i] = a[i]
      /\ \A i \in (m + 1)..(m + n) : s[i] = b[i - m]
  BY ConcatProperties
<1>3. DOMAIN s = 1..(m + n)
  BY <1>1, <1>2
<1> HIDE DEF s, m, n
<1>4. \A i \in 1..(m + n) : \/ i \in 1..m /\ s[i] = a[i]
                            \/ i - m \in 1..n /\ i > m /\ s[i] = b[i - m]
  <2> TAKE i \in 1..(m + n)
  <2>1. CASE i <= m
    BY <1>1, <1>2, <2>1
  <2>2. CASE i > m
    <3>1. i \in (m + 1)..(m + n) /\ i - m \in 1..n
      BY <1>1, <2>2
    <3> QED BY <1>2, <2>2, <3>1
  <2> QED BY <1>1, <2>1, <2>2
<1>5. \A i \in 1..n : m + i \in 1..(m + n) /\ s[m + i] = b[i]
  <2> TAKE i \in 1..n
  <2>1. m + i \in (m + 1)..(m + n) /\ (m + i) - m = i /\ m + i \in 1..(m + n)
    BY <1>1
  <2> QED BY <1>2, <2>1
<1>6. \A i \in 1..m : i \in 1..(m + n) /\ s[i] = a[i]
  BY <1>1, <1>2
<1>7. ToSet(s) = ToSet(a) \cup ToSet(b)
  <2>1. ToSet(s) \subseteq ToSet(a) \cup ToSet(b)
    BY <1>1, <1>3, <1>4 DEF ToSet
  <2>2. ToSet(a) \subseteq ToSet(s)
    BY <1>1, <1>3, <1>6 DEF ToSet
  <2>3. ToSet(b) \subseteq ToSet(s)
    <3> SUFFICES ASSUME NEW i \in 1..n PROVE b[i] \in ToSet(s)
      BY <1>1 DEF ToSet
    <3>1. m + i \in DOMAIN s /\ s[m + i] = b[i]
      BY <1>3, <1>5
    <3>2. s[m + i] \in ToSet(s)
      BY <3>1 DEF ToSet
    <3> QED BY <3>1, <3>2
  <2> QED BY <2>1, <2>2, <2>3
<1>8. IsInjective(s)
  <2> SUFFICES ASSUME NEW i \in 1..(m + n), NEW j \in 1..(m + n), s[i] = s[j] PROVE i = j
    BY <1>3 DEF IsInjective
  <2>0. i \in Int /\ j \in Int
    BY <1>1
  <2>1. CASE i \in 1..m /\ s[i] = a[i] /\ j \in 1..m /\ s[j] = a[j]
    BY <1>1, <2>1 DEF IsInjective
  <2>2. CASE i - m \in 1..n /\ s[i] = b[i - m] /\ j - m \in 1..n /\ s[j] = b[j - m]
    <3>1. i - m = j - m
      BY <1>1, <2>2 DEF IsInjective
    <3> QED BY <1>1, <2>0, <3>1
  <2>3. CASE i \in 1..m /\ s[i] = a[i] /\ j - m \in 1..n /\ s[j] = b[j - m]
    BY <1>1, <2>3 DEF ToSet
  <2>4. CASE j \in 1..m /\ s[j] = a[j] /\ i - m \in 1..n /\ s[i] = b[i - m]
    BY <1>1, <2>4 DEF ToSet
  <2> QED BY <1>4, <2>1, <2>2, <2>3, <2>4
<1> QED BY <1>2, <1>7, <1>8 DEF s
-----------------------------------------------------------------------------
(* The steps. *)

\* What is pending is a request that was submitted.
LEMMA PendingRequest ==
    ASSUME QueueTypes, NEW c \in DOMAIN pending
    PROVE  pending[c] \in Requests /\ c \in Cids /\ pending[c] \in 1..nreq
<1>1. nreq \in 0..MaxRequests /\ pending[c] \in 1..nreq /\ c \in Cids
  BY DEF QueueTypes
<1>2. MaxRequests \in Nat
  BY DepthAssumption
<1>3. pending[c] \in 1..MaxRequests
  BY <1>1, <1>2
<1> QED BY <1>1, <1>3 DEF Requests

\* What the invariant says of requests is as before.
SameRequests ==
    \A r \in Requests : /\ request'[r].cid = request[r].cid /\ request'[r].sent = request[r].sent
                        /\ request'[r].response = request[r].response
                        /\ request'[r].done = request[r].done

\* A step after which no more is on its way than before.
LEMMA ShrinkStep ==
    ASSUME QueueInv, QueueTypes', OnceEach', SameRequests,
           UNCHANGED <<nreq, free, pending, commands, received, responses, target>>,
           ToSet(sq') \subseteq ToSet(sq), ToSet(unacked') \subseteq ToSet(unacked),
           Waiting' \subseteq Waiting, ToSet(recvs') \subseteq ToSet(recvs),
           Answered' \subseteq Answered
    PROVE  QueueInv'
<1>1. QueueTypes /\ CidInv /\ SendsPending /\ AnswersPending /\ OwnContent
  BY DEF QueueInv
<1>2. \A c \in DOMAIN pending :
         /\ request'[pending[c]].cid = request[pending[c]].cid
         /\ request'[pending[c]].sent = request[pending[c]].sent
         /\ request'[pending[c]].response = request[pending[c]].response
  BY <1>1, PendingRequest DEF SameRequests
<1>3. CidInv'
  BY <1>1, <1>2 DEF CidInv
<1>4. SendsPending'
  <2>1. \A c \in ToSet(sq') \cup ToSet(unacked') :
           c \in DOMAIN pending' /\ ~ request'[pending'[c]].sent
    BY <1>1, <1>2 DEF SendsPending
  <2>2. \A w \in Waiting' : w.kind = "send" =>
           /\ w.index \in DOMAIN pending' /\ ~ request'[pending'[w.index]].sent
           /\ w.index \notin ToSet(sq') \cup ToSet(unacked')
    BY <1>1, <1>2 DEF SendsPending
  <2>3. \A w \in Waiting' : w.kind = "recv" => w.index \in Slots /\ w.index \notin ToSet(recvs')
    BY <1>1 DEF SendsPending
  <2> QED BY <2>1, <2>2, <2>3 DEF SendsPending
<1>5. AnswersPending'
  <2>1. \A c \in ToSet(sq') : c \in DOMAIN pending' /\ request'[pending'[c]].response = None
    BY <1>1, <1>2 DEF AnswersPending
  <2>2. \A t \in target' : /\ t.cid \in DOMAIN pending' /\ request'[pending'[t.cid]].response = None
                           /\ t.cid \notin ToSet(sq')
    BY <1>1, <1>2 DEF AnswersPending
  <2>3. \A s \in Answered' :
          /\ responses'[s].cid \in DOMAIN pending'
          /\ request'[pending'[responses'[s].cid]].response = None
          /\ responses'[s].cid \notin ToSet(sq')
          /\ \A t \in target' : t.cid # responses'[s].cid
          /\ \A u \in Answered' : responses'[u].cid = responses'[s].cid => u = s
    BY <1>1, <1>2 DEF AnswersPending
  <2> QED BY <2>1, <2>2, <2>3 DEF AnswersPending
<1>6. OwnContent'
  <2>1. \A c \in ToSet(sq') : received'[pending'[c]] = 0
    BY <1>1 DEF OwnContent
  <2>2. \A s \in Answered' : /\ responses'[s].req = pending'[responses'[s].cid]
                             /\ received'[responses'[s].req] = 1
    BY <1>1 DEF OwnContent
  <2>3. \A r \in Requests :
          /\ received'[r] \in {0, 1}
          /\ request'[r].response # None => request'[r].response = r /\ received'[r] = 1
          /\ request'[r].done => request'[r].response # None
          /\ r > nreq' => received'[r] = 0
    BY <1>1 DEF OwnContent, SameRequests
  <2>4. /\ \A c \in DOMAIN pending' : commands'[c] = pending'[c]
        /\ \A t \in target' : t.req = pending'[t.cid] /\ received'[t.req] = 1
    BY <1>1 DEF OwnContent
  <2> QED BY <2>1, <2>2, <2>3, <2>4 DEF OwnContent
<1> QED BY <1>3, <1>4, <1>5, <1>6 DEF QueueInv

\* execute ends.
LEMMA LeaveType ==
    ASSUME QueueTypes, LeaveExecute
    PROVE  /\ request' \in [Requests -> RequestType] /\ executing' \in Requests \cup {None}
           /\ SameRequests
BY DEF QueueTypes, LeaveExecute, SameRequests

\* poll takes completions off the CQ; it raises, or returns; execute waits,
\* returns or times out; the connection breaks; the queue is closed.
LEMMA PollStartStep ==
    ASSUME QueueInv, NEW max \in {1, CqSize}, PollStart(max)
    PROVE  QueueInv'
<1>1. QueueTypes /\ OnceEach
  BY DEF QueueInv
<1>2. wcs = <<>>
  BY <1>1 DEF PollStart, QueueTypes
<1>3. max \in Nat
  BY DepthAssumption DEF CqSize
<1> DEFINE n == Min({max, Len(cq)})
<1>4. n \in 0..Len(cq)
  <2> DEFINE m == Len(cq)
  <2>1. m \in Nat
    BY <1>1 DEF QueueTypes
  <2> HIDE DEF m
  <2>2. Min({max, m}) \in 0..m
    <3>1. \E x \in {max, m} : \A y \in {max, m} : x <= y
      <4>1. CASE max <= m
        BY <1>3, <2>1, <4>1
      <4>2. CASE m <= max
        BY <1>3, <2>1, <4>2
      <4> QED BY <1>3, <2>1, <4>1, <4>2
    <3>2. Min({max, m}) \in {max, m} /\ Min({max, m}) <= m
      BY <3>1 DEF Min
    <3> QED BY <1>3, <2>1, <3>2
  <2> QED BY <2>2 DEF m
<1>5. wcs' = SubSeq(cq, 1, n) /\ cq' = SubSeq(cq, n + 1, Len(cq))
  BY DEF PollStart
<1> HIDE DEF n
<1>6. /\ wcs' \in Seq(WCType) /\ cq' \in Seq(WCType) /\ IsInjective(wcs') /\ IsInjective(cq')
      /\ ToSet(wcs') \cup ToSet(cq') = ToSet(cq) /\ ToSet(wcs') \cap ToSet(cq') = {}
  <2>1. cq \in Seq(WCType) /\ IsInjective(cq)
    BY <1>1 DEF QueueTypes, OnceEach
  <2> QED BY <1>4, <1>5, <2>1, CutBook
<1>7. Waiting' = Waiting
  BY <1>2, <1>6, EmptyBook DEF Waiting
<1>8. /\ UNCHANGED <<request, nreq, free, pending, executing, commands, responses, sq, unacked, recvs,
                     qpErr, target, received>>
      /\ pc' = "poll"
  BY DEF PollStart, queueVars, targetVars
<1>9. QueueTypes'
  BY <1>1, <1>6, <1>8 DEF QueueTypes
<1>10. OnceEach'
  BY <1>1, <1>6, <1>7, <1>8 DEF OnceEach
<1>11. Answered' \subseteq Answered
  BY <1>7, <1>8 DEF Answered
<1> QED BY <1>7, <1>8, <1>9, <1>10, <1>11, ShrinkStep DEF SameRequests

\* Steps that give up what poll has taken, if anything.
LEMMA DropStep ==
    ASSUME QueueInv, LeaveExecute \/ UNCHANGED <<request, executing>>,
           wcs' = wcs \/ wcs' = <<>>, pc' # "poll" => wcs' = <<>>,
           UNCHANGED <<nreq, free, pending, commands, responses, sq, unacked, recvs, cq,
                       qpErr, target, received>>
    PROVE  QueueInv'
<1>1. QueueTypes /\ OnceEach
  BY DEF QueueInv
<1>2. /\ request' \in [Requests -> RequestType] /\ executing' \in Requests \cup {None}
      /\ SameRequests
  BY <1>1, LeaveType DEF QueueTypes, SameRequests
<1>3. ToSet(wcs') \subseteq ToSet(wcs) /\ IsInjective(wcs') /\ wcs' \in Seq(WCType)
  BY <1>1, EmptyBook DEF QueueTypes, OnceEach
<1>4. Waiting' \subseteq Waiting
  BY <1>3 DEF Waiting
<1>5. QueueTypes'
  BY <1>1, <1>2, <1>3 DEF QueueTypes
<1>6. OnceEach'
  BY <1>1, <1>3, <1>4 DEF OnceEach
<1>7. Answered' \subseteq Answered
  BY <1>4 DEF Answered
<1> QED BY <1>2, <1>4, <1>5, <1>6, <1>7, ShrinkStep

\* The connection breaks, or the queue is closed.
LEMMA DownStep ==
    ASSUME QueueInv, HwBreak \/ Close
    PROVE  QueueInv'
<1>1. QueueTypes /\ OnceEach
  BY DEF QueueInv
<1>2. /\ UNCHANGED <<request, nreq, free, pending, executing, pc, wcs, commands, responses, target, received>>
      /\ qpErr' = TRUE
  BY DEF HwBreak, Close, queueVars, frameVars, targetVars
<1>3. CASE HwBreak
  <2>1. UNCHANGED <<sq, unacked, recvs, cq>> /\ ~ qpErr
    BY <1>3 DEF HwBreak
  <2>2. Waiting' = Waiting
    BY <1>2, <2>1 DEF Waiting
  <2>3. QueueTypes' /\ OnceEach'
    BY <1>1, <1>2, <2>1, <2>2 DEF QueueTypes, OnceEach
  <2>4. Answered' \subseteq Answered
    BY <1>2, <2>1, <2>2 DEF Answered
  <2> QED BY <1>2, <2>1, <2>2, <2>3, <2>4, ShrinkStep DEF SameRequests
<1>4. CASE Close
  <2>1. sq' = <<>> /\ unacked' = <<>> /\ recvs' = <<>> /\ cq' = <<>> /\ wcs = <<>>
    BY <1>1, <1>4 DEF Close, QueueTypes
  <2>2. Waiting' = {} /\ ToSet(sq') = {} /\ ToSet(unacked') = {} /\ ToSet(recvs') = {}
    BY <1>2, <2>1, EmptyBook DEF Waiting
  <2>3. QueueTypes'
    BY <1>1, <1>2, <2>1, EmptyBook DEF QueueTypes
  <2>4. OnceEach'
    BY <1>2, <2>1, <2>2, EmptyBook DEF OnceEach
  <2>5. Answered' \subseteq Answered
    BY <1>2, <2>2 DEF Answered
  <2> QED BY <1>2, <2>2, <2>3, <2>4, <2>5, ShrinkStep DEF SameRequests
<1> QED BY <1>3, <1>4

\* Two cids never name the same request.
LEMMA PendingInjective ==
    ASSUME CidInv, NEW c \in DOMAIN pending, NEW d \in DOMAIN pending, pending[c] = pending[d]
    PROVE  c = d
BY DEF CidInv

\* A capsule is received by the target.
LEMMA HwSendStep ==
    ASSUME QueueInv, HwSend
    PROVE  QueueInv'
<1>1. QueueTypes /\ CidInv /\ OnceEach /\ SendsPending /\ AnswersPending /\ OwnContent
  BY DEF QueueInv
<1> DEFINE c == Head(sq)
           r == pending[c]
<1>2. /\ UNCHANGED <<request, nreq, free, pending, pc, wcs, executing, commands, responses, recvs, cq, qpErr>>
      /\ sq # <<>> /\ sq' = Tail(sq) /\ unacked' = Append(unacked, c)
      /\ target' = target \cup {[cid |-> c, req |-> commands[c]]}
      /\ received' = [received EXCEPT ![commands[c]] = @ + 1]
  BY DEF HwSend, queueVars, frameVars
<1>3. sq \in Seq(Cids) /\ IsInjective(sq) /\ unacked \in Seq(Cids) /\ IsInjective(unacked)
  BY <1>1 DEF QueueTypes, OnceEach
<1>4. /\ sq' \in Seq(Cids) /\ c \in Cids /\ c \in ToSet(sq)
      /\ IsInjective(sq') /\ ToSet(sq') = ToSet(sq) \ {c}
  BY <1>2, <1>3, TailBook
<1>5. c \notin ToSet(unacked)
  BY <1>1, <1>4 DEF OnceEach
<1>6. unacked' \in Seq(Cids) /\ ToSet(unacked') = ToSet(unacked) \cup {c} /\ IsInjective(unacked')
  <2>1. unacked' = Append(unacked, c)
    BY <1>2
  <2> HIDE DEF c
  <2> QED BY <1>3, <1>4, <1>5, <2>1, AppendBook
<1>7. c \in DOMAIN pending /\ commands[c] = r /\ received[r] = 0 /\ request[r].response = None
  BY <1>1, <1>4 DEF AnswersPending, OwnContent
<1>8. r \in Requests
  BY <1>1, <1>7, PendingRequest
<1>9. received' = [received EXCEPT ![r] = 1] /\ received \in [Requests -> Nat]
  BY <1>1, <1>2, <1>7, <1>8 DEF QueueTypes
<1>10. received'[r] = 1 /\ (\A x \in Requests : x # r => received'[x] = received[x])
       /\ received' \in [Requests -> Nat]
  BY <1>8, <1>9
<1> DEFINE n == [cid |-> c, req |-> r]
<1>11. target' = target \cup {n} /\ n.cid = c /\ n.req = r /\ n \in CapsuleType
  BY <1>2, <1>4, <1>7, <1>8 DEF CapsuleType
<1> HIDE DEF n, c, r
<1>12. QueueTypes'
  BY <1>1, <1>2, <1>4, <1>6, <1>10, <1>11 DEF QueueTypes
<1>13. Waiting' = Waiting /\ Answered' = Answered
  BY <1>2 DEF Waiting, Answered
<1>14. CidInv'
  BY <1>1, <1>2 DEF CidInv
<1>15. OnceEach'
  BY <1>1, <1>2, <1>4, <1>6, <1>13 DEF OnceEach
<1>16. SendsPending'
  <2>1. ToSet(sq') \cup ToSet(unacked') = ToSet(sq) \cup ToSet(unacked)
    BY <1>4, <1>6
  <2> QED BY <1>1, <1>2, <1>13, <2>1 DEF SendsPending
<1>17. AnswersPending'
  <2>1. \A d \in ToSet(sq') : d \in DOMAIN pending' /\ request'[pending'[d]].response = None
    BY <1>1, <1>2, <1>4 DEF AnswersPending
  <2>2. \A t \in target' : /\ t.cid \in DOMAIN pending' /\ request'[pending'[t.cid]].response = None
                           /\ t.cid \notin ToSet(sq')
    BY <1>1, <1>2, <1>4, <1>7, <1>11 DEF AnswersPending, r
  <2>3. \A s \in Answered' :
          /\ responses'[s].cid \in DOMAIN pending'
          /\ request'[pending'[responses'[s].cid]].response = None
          /\ responses'[s].cid \notin ToSet(sq')
          /\ \A t \in target' : t.cid # responses'[s].cid
          /\ \A u \in Answered' : responses'[u].cid = responses'[s].cid => u = s
    BY <1>1, <1>2, <1>4, <1>11, <1>13 DEF AnswersPending
  <2> QED BY <2>1, <2>2, <2>3 DEF AnswersPending
<1>18. OwnContent'
  <2>1. \A t \in target' : t.req = pending'[t.cid] /\ received'[t.req] = 1
    <3>1. ASSUME NEW t \in target PROVE t.req = pending'[t.cid] /\ received'[t.req] = 1
      <4>1. t.req = pending[t.cid] /\ received[t.req] = 1 /\ t.req \in Requests
        BY <1>1, <3>1 DEF OwnContent, QueueTypes, CapsuleType
      <4> QED BY <1>2, <1>7, <1>10, <4>1
    <3> QED BY <1>2, <1>7, <1>10, <1>11, <3>1 DEF r
  <2>2. \A s \in Answered' : /\ responses'[s].req = pending'[responses'[s].cid]
                             /\ received'[responses'[s].req] = 1
    <3> TAKE s \in Answered'
    <3>1. /\ responses[s].req = pending[responses[s].cid] /\ received[responses[s].req] = 1
          /\ responses[s].cid \in DOMAIN pending
      BY <1>1, <1>13 DEF OwnContent, AnswersPending
    <3>2. responses[s].req \in Requests
      BY <1>1, <3>1, PendingRequest
    <3> QED BY <1>2, <1>7, <1>10, <3>1, <3>2
  <2>3. \A d \in ToSet(sq') : received'[pending'[d]] = 0
    <3> TAKE d \in ToSet(sq')
    <3>1. d \in ToSet(sq) /\ d # c /\ d \in DOMAIN pending /\ received[pending[d]] = 0
      BY <1>1, <1>4 DEF OwnContent, SendsPending
    <3>2. pending[d] # r
      BY <1>1, <1>7, <3>1, PendingInjective DEF r
    <3>3. pending[d] \in Requests
      BY <1>1, <3>1, PendingRequest
    <3> QED BY <1>2, <1>10, <3>1, <3>2, <3>3
  <2>4. \A x \in Requests :
          /\ received'[x] \in {0, 1}
          /\ request'[x].response # None => request'[x].response = x /\ received'[x] = 1
          /\ request'[x].done => request'[x].response # None
          /\ x > nreq' => received'[x] = 0
    <3> TAKE x \in Requests
    <3>1. /\ received[x] \in {0, 1}
          /\ request[x].response # None => request[x].response = x /\ received[x] = 1
          /\ request[x].done => request[x].response # None
          /\ x > nreq => received[x] = 0
      BY <1>1 DEF OwnContent
    <3>2. CASE x # r
      BY <1>2, <1>10, <3>1, <3>2
    <3>3. CASE x = r
      <4>1. x \in 1..nreq /\ nreq \in Nat
        BY <1>1, <1>7, <3>3, PendingRequest DEF QueueTypes, r
      <4>2. ~ (x > nreq)
        BY <4>1
      <4> QED BY <1>2, <1>7, <1>10, <3>1, <3>3, <4>2
    <3> QED BY <3>2, <3>3
  <2>5. \A d \in DOMAIN pending' : commands'[d] = pending'[d]
    BY <1>1, <1>2 DEF OwnContent
  <2> QED BY <2>1, <2>2, <2>3, <2>4, <2>5 DEF OwnContent
<1> QED BY <1>12, <1>14, <1>15, <1>16, <1>17, <1>18 DEF QueueInv

\* A SEND completes, well or not.
LEMMA SendCompletes ==
    ASSUME QueueInv, NEW h \in ToSet(sq) \cup ToSet(unacked), NEW ok \in BOOLEAN,
           cq' = Append(cq, SendWC(h, ok)),
           sq' \in Seq(Cids), unacked' \in Seq(Cids), IsInjective(sq'), IsInjective(unacked'),
           ToSet(sq') \cap ToSet(unacked') = {}, ToSet(sq') \subseteq ToSet(sq),
           ToSet(sq') \cup ToSet(unacked') = (ToSet(sq) \cup ToSet(unacked)) \ {h},
           UNCHANGED <<request, nreq, free, pending, pc, wcs, executing, commands, responses,
                       recvs, qpErr, target, received>>
    PROVE  QueueInv'
<1>1. QueueTypes /\ CidInv /\ OnceEach /\ SendsPending /\ AnswersPending /\ OwnContent
  BY DEF QueueInv
<1>2. h \in DOMAIN pending /\ ~ request[pending[h]].sent
  BY <1>1 DEF SendsPending
<1> DEFINE n == SendWC(h, ok)
<1>3. n \in WCType /\ n.kind = "send" /\ n.index = h
  <2>1. h \in Int
    BY <1>1, <1>2, DepthAssumption DEF QueueTypes, Cids
  <2> QED BY <2>1 DEF SendWC, WCType
<1>4. cq' = Append(cq, n)
  OBVIOUS
<1> HIDE DEF n
<1>5. n \notin Waiting /\ \A w \in Waiting : ~ (w.kind = "send" /\ w.index = h)
  BY <1>1, <1>3 DEF SendsPending
<1>6. cq' \in Seq(WCType) /\ ToSet(cq') = ToSet(cq) \cup {n} /\ IsInjective(cq')
  <2>1. cq \in Seq(WCType) /\ IsInjective(cq) /\ n \notin ToSet(cq)
    BY <1>1, <1>5 DEF QueueTypes, OnceEach, Waiting
  <2> QED BY <1>3, <1>4, <2>1, AppendBook
<1>7. Waiting' = Waiting \cup {n} /\ ToSet(wcs') \cap ToSet(cq') = {}
  BY <1>1, <1>5, <1>6 DEF Waiting, OnceEach
<1>8. Answered' = Answered
  BY <1>3, <1>7 DEF Answered
<1>9. QueueTypes'
  BY <1>1, <1>6 DEF QueueTypes
<1>10. CidInv'
  BY <1>1 DEF CidInv
<1>11. OnceEach'
  BY <1>1, <1>3, <1>5, <1>6, <1>7 DEF OnceEach
<1>12. SendsPending'
  <2>1. \A c \in ToSet(sq') \cup ToSet(unacked') :
           c \in DOMAIN pending' /\ ~ request'[pending'[c]].sent
    BY <1>1 DEF SendsPending
  <2>2. \A w \in Waiting' : w.kind = "send" =>
           /\ w.index \in DOMAIN pending' /\ ~ request'[pending'[w.index]].sent
           /\ w.index \notin ToSet(sq') \cup ToSet(unacked')
    BY <1>1, <1>2, <1>3, <1>7 DEF SendsPending
  <2>3. \A w \in Waiting' : w.kind = "recv" => w.index \in Slots /\ w.index \notin ToSet(recvs')
    BY <1>1, <1>3, <1>7 DEF SendsPending
  <2> QED BY <2>1, <2>2, <2>3 DEF SendsPending
<1>13. AnswersPending'
  BY <1>1, <1>8 DEF AnswersPending
<1>14. OwnContent'
  BY <1>1, <1>8 DEF OwnContent
<1> QED BY <1>9, <1>10, <1>11, <1>12, <1>13, <1>14 DEF QueueInv

\* What the completion of a receive leaves: its slot is posted no more.
LEMMA RecvCompletes ==
    ASSUME QueueInv, NEW h, h = Head(recvs), NEW ok \in BOOLEAN, recvs # <<>>,
           cq' = Append(cq, RecvWC(h, ok)), recvs' = Tail(recvs),
           UNCHANGED <<request, pending, wcs, sq, unacked>>
    PROVE  /\ cq' \in Seq(WCType) /\ recvs' \in Seq(Slots) /\ h \in Slots /\ h \in ToSet(recvs)
           /\ Waiting' = Waiting \cup {RecvWC(h, ok)} /\ ToSet(recvs') = ToSet(recvs) \ {h}
           /\ \A w \in Waiting : ~ (w.kind = "recv" /\ w.index = h)
           /\ OnceEach' /\ SendsPending'
<1>1. QueueTypes /\ CidInv /\ OnceEach /\ SendsPending
  BY DEF QueueInv
<1>2. recvs \in Seq(Slots) /\ IsInjective(recvs)
  BY <1>1 DEF QueueTypes, OnceEach
<1>3. /\ recvs' \in Seq(Slots) /\ h \in Slots /\ h \in ToSet(recvs)
      /\ IsInjective(recvs') /\ ToSet(recvs') = ToSet(recvs) \ {h}
  BY <1>2, TailBook
<1> DEFINE n == RecvWC(h, ok)
<1>4. n \in WCType /\ n.kind = "recv" /\ n.index = h
  <2>1. h \in Int
    BY <1>3, DepthAssumption DEF Slots
  <2> QED BY <2>1 DEF RecvWC, WCType
<1>5. cq' = Append(cq, n)
  OBVIOUS
<1> HIDE DEF n
<1>6. n \notin Waiting /\ \A w \in Waiting : ~ (w.kind = "recv" /\ w.index = h)
  BY <1>1, <1>3, <1>4 DEF SendsPending
<1>7. cq' \in Seq(WCType) /\ ToSet(cq') = ToSet(cq) \cup {n} /\ IsInjective(cq')
  <2>1. cq \in Seq(WCType) /\ IsInjective(cq) /\ n \notin ToSet(cq)
    BY <1>1, <1>6 DEF QueueTypes, OnceEach, Waiting
  <2> QED BY <1>4, <1>5, <2>1, AppendBook
<1>8. Waiting' = Waiting \cup {n} /\ ToSet(wcs') \cap ToSet(cq') = {}
  BY <1>1, <1>6, <1>7 DEF Waiting, OnceEach
<1>9. OnceEach'
  BY <1>1, <1>3, <1>4, <1>6, <1>7, <1>8 DEF OnceEach
<1>10. SendsPending'
  <2>1. \A c \in ToSet(sq') \cup ToSet(unacked') :
           c \in DOMAIN pending' /\ ~ request'[pending'[c]].sent
    BY <1>1 DEF SendsPending
  <2>2. \A w \in Waiting' : w.kind = "send" =>
           /\ w.index \in DOMAIN pending' /\ ~ request'[pending'[w.index]].sent
           /\ w.index \notin ToSet(sq') \cup ToSet(unacked')
    BY <1>1, <1>4, <1>8 DEF SendsPending
  <2>3. \A w \in Waiting' : w.kind = "recv" => w.index \in Slots /\ w.index \notin ToSet(recvs')
    BY <1>1, <1>3, <1>4, <1>8 DEF SendsPending
  <2> QED BY <2>1, <2>2, <2>3 DEF SendsPending
<1> QED BY <1>3, <1>6, <1>7, <1>8, <1>9, <1>10 DEF n

\* A receive is flushed: no response is in its slot.
LEMMA FlushRecvStep ==
    ASSUME QueueInv, qpErr, recvs # <<>>,
           cq' = Append(cq, RecvWC(Head(recvs), FALSE)), recvs' = Tail(recvs),
           UNCHANGED <<request, nreq, free, pending, pc, wcs, executing, commands, responses,
                       sq, unacked, qpErr, target, received>>
    PROVE  QueueInv'
<1>1. QueueTypes /\ CidInv /\ AnswersPending /\ OwnContent
  BY DEF QueueInv
<1> DEFINE h == Head(recvs)
           n == RecvWC(h, FALSE)
<1>2. /\ cq' \in Seq(WCType) /\ recvs' \in Seq(Slots) /\ h \in Slots
      /\ Waiting' = Waiting \cup {n} /\ ToSet(recvs') = ToSet(recvs) \ {h}
      /\ \A w \in Waiting : ~ (w.kind = "recv" /\ w.index = h)
      /\ OnceEach' /\ SendsPending'
  BY RecvCompletes
<1>3. n.index = h /\ ~ n.ok
  BY DEF RecvWC
<1> HIDE DEF h, n
<1>4. Answered' = Answered
  BY <1>2, <1>3 DEF Answered
<1>5. QueueTypes'
  BY <1>1, <1>2 DEF QueueTypes
<1>6. CidInv' /\ AnswersPending' /\ OwnContent'
  BY <1>1, <1>4 DEF CidInv, AnswersPending, OwnContent
<1> QED BY <1>2, <1>5, <1>6 DEF QueueInv

\* The target answers a command: its capsule is traded for a response.
LEMMA TargetRespondStep ==
    ASSUME QueueInv, NEW c \in target, TargetRespond(c)
    PROVE  QueueInv'
<1>1. QueueTypes /\ CidInv /\ AnswersPending /\ OwnContent
  BY DEF QueueInv
<1> DEFINE h == Head(recvs)
           n == RecvWC(h, TRUE)
<1>2. /\ UNCHANGED <<request, nreq, free, pending, pc, wcs, executing, commands, sq, unacked,
                     qpErr, received>>
      /\ ~ qpErr /\ recvs # <<>> /\ recvs' = Tail(recvs) /\ cq' = Append(cq, n)
      /\ target' = target \ {c} /\ responses' = [responses EXCEPT ![h] = c]
  BY DEF TargetRespond, queueVars, frameVars
<1>3. /\ cq' \in Seq(WCType) /\ recvs' \in Seq(Slots) /\ h \in Slots /\ h \in ToSet(recvs)
      /\ ToSet(recvs') = ToSet(recvs) \ {h}
      /\ OnceEach' /\ SendsPending'
  BY <1>2, RecvCompletes
<1> HIDE DEF h, n
<1>4. Answered' = Answered \cup {h} /\ h \notin Answered
  BY <1>2, <1>3 DEF Answered
<1>5. c \in CapsuleType /\ responses \in [Slots -> [cid : Int, req : Int]]
  BY <1>1 DEF QueueTypes
<1>6. c \in [cid : Int, req : Int]
  BY <1>5, DepthAssumption DEF CapsuleType, Cids, Requests
<1>7. /\ responses' \in [Slots -> [cid : Int, req : Int]]
      /\ responses'[h] = c /\ \A s \in Answered : responses'[s] = responses[s]
  BY <1>2, <1>3, <1>4, <1>5, <1>6 DEF Answered
<1>8. QueueTypes'
  BY <1>1, <1>2, <1>3, <1>7 DEF QueueTypes
<1>9. CidInv'
  BY <1>1, <1>2 DEF CidInv
<1>10. \A t \in target' : t.cid # c.cid
  <2> SUFFICES ASSUME NEW t \in target, t # c PROVE t.cid # c.cid
    BY <1>2
  <2>1. t.req = pending[t.cid] /\ c.req = pending[c.cid] /\ t \in CapsuleType
    BY <1>1 DEF OwnContent, QueueTypes
  <2> QED BY <1>5, <2>1 DEF CapsuleType
<1>11. AnswersPending'
  <2>1. \A d \in ToSet(sq') : d \in DOMAIN pending' /\ request'[pending'[d]].response = None
    BY <1>1, <1>2 DEF AnswersPending
  <2>2. \A t \in target' : /\ t.cid \in DOMAIN pending' /\ request'[pending'[t.cid]].response = None
                           /\ t.cid \notin ToSet(sq')
    BY <1>1, <1>2 DEF AnswersPending
  <2>3. \A s \in Answered' :
          /\ responses'[s].cid \in DOMAIN pending'
          /\ request'[pending'[responses'[s].cid]].response = None
          /\ responses'[s].cid \notin ToSet(sq')
    BY <1>1, <1>2, <1>4, <1>7 DEF AnswersPending
  <2>4. \A s \in Answered' : \A t \in target' : t.cid # responses'[s].cid
    BY <1>1, <1>2, <1>4, <1>7, <1>10 DEF AnswersPending
  <2>5. \A s \in Answered' : \A u \in Answered' : responses'[u].cid = responses'[s].cid => u = s
    BY <1>1, <1>2, <1>4, <1>7 DEF AnswersPending
  <2> QED BY <2>1, <2>2, <2>3, <2>4, <2>5 DEF AnswersPending
<1>12. OwnContent'
  BY <1>1, <1>2, <1>4, <1>7 DEF OwnContent
<1> QED BY <1>3, <1>8, <1>9, <1>11, <1>12 DEF QueueInv

\* The adapter and the target.
LEMMA HardwareStep ==
    ASSUME QueueInv, Hardware
    PROVE  QueueInv'
<1>1. QueueTypes /\ OnceEach
  BY DEF QueueInv
<1>2. sq \in Seq(Cids) /\ unacked \in Seq(Cids) /\ IsInjective(sq) /\ IsInjective(unacked)
      /\ ToSet(sq) \cap ToSet(unacked) = {}
  BY <1>1 DEF QueueTypes, OnceEach
<1>3. CASE HwAck
  <2>1. /\ UNCHANGED <<request, nreq, free, pending, pc, wcs, executing, commands, responses, sq,
                       recvs, qpErr, target, received>>
        /\ unacked # <<>> /\ unacked' = Tail(unacked) /\ cq' = Append(cq, SendWC(Head(unacked), TRUE))
    BY <1>3 DEF HwAck, queueVars, frameVars, targetVars
  <2>2. /\ unacked' \in Seq(Cids) /\ Head(unacked) \in ToSet(unacked) /\ IsInjective(unacked')
        /\ ToSet(unacked') = ToSet(unacked) \ {Head(unacked)}
    BY <1>2, <2>1, TailBook
  <2>3. ToSet(sq') \cup ToSet(unacked') = (ToSet(sq) \cup ToSet(unacked)) \ {Head(unacked)}
    BY <1>2, <2>1, <2>2
  <2>4. ToSet(sq') \cap ToSet(unacked') = {}
    BY <1>2, <2>1, <2>2
  <2> QED BY <1>2, <2>1, <2>2, <2>3, <2>4, SendCompletes
<1>4. CASE HwFlush
  <2>1. /\ UNCHANGED <<request, nreq, free, pending, pc, wcs, executing, commands, responses,
                       qpErr, target, received>>
        /\ qpErr
    BY <1>4 DEF HwFlush, queueVars, frameVars, targetVars
  <2>2. CASE recvs # <<>> /\ cq' = Append(cq, RecvWC(Head(recvs), FALSE)) /\ recvs' = Tail(recvs)
             /\ UNCHANGED <<sq, unacked>>
    BY <2>1, <2>2, FlushRecvStep
  <2> DEFINE all == unacked \o sq
  <2>3. CASE all # <<>> /\ cq' = Append(cq, SendWC(Head(all), FALSE)) /\ unacked' = Tail(all)
             /\ sq' = <<>> /\ UNCHANGED recvs
    <3>1. all \in Seq(Cids) /\ IsInjective(all) /\ ToSet(all) = ToSet(unacked) \cup ToSet(sq)
      BY <1>2, JoinBook
    <3> HIDE DEF all
    <3>2. /\ unacked' \in Seq(Cids) /\ Head(all) \in ToSet(all) /\ IsInjective(unacked')
          /\ ToSet(unacked') = ToSet(all) \ {Head(all)}
      BY <2>3, <3>1, TailBook
    <3>3. sq' \in Seq(Cids) /\ IsInjective(sq') /\ ToSet(sq') = {}
      BY <2>3, EmptyBook
    <3>4. ToSet(sq') \cup ToSet(unacked') = (ToSet(sq) \cup ToSet(unacked)) \ {Head(all)}
      BY <3>1, <3>2, <3>3
    <3>5. Head(all) \in ToSet(sq) \cup ToSet(unacked)
      BY <3>1, <3>2
    <3> QED BY <2>1, <2>3, <3>2, <3>3, <3>4, <3>5, SendCompletes
  <2> QED BY <1>4, <2>2, <2>3 DEF HwFlush
<1> QED BY <1>3, <1>4, HwSendStep, DownStep, TargetRespondStep DEF Hardware

\* A command is submitted under a cid that nothing else names.
LEMMA SubmitStep ==
    ASSUME QueueInv, NEW wait \in BOOLEAN, Submit(wait)
    PROVE  QueueInv'
<1>1. QueueTypes /\ CidInv /\ OnceEach /\ SendsPending /\ AnswersPending /\ OwnContent
  BY DEF QueueInv
<1> DEFINE c == Head(free)
           r == nreq + 1
<1>2. /\ UNCHANGED <<pc, wcs, responses, unacked, recvs, cq, qpErr, target, received>>
      /\ free # <<>> /\ nreq < MaxRequests /\ free' = Tail(free) /\ nreq' = r
      /\ commands' = [commands EXCEPT ![c] = r]
      /\ request' = [request EXCEPT ![r] = NewRequest(c, wait)]
      /\ pending' = [d \in DOMAIN pending \cup {c} |-> IF d = c THEN r ELSE pending[d]]
      /\ sq' = Append(sq, c)
      /\ executing' = IF wait THEN r ELSE None
  BY DEF Submit, CanSubmit, targetVars
<1>3. free \in Seq(Cids) /\ IsInjective(free)
  BY <1>1 DEF QueueTypes, CidInv
<1>4. /\ free' \in Seq(Cids) /\ c \in Cids /\ c \in ToSet(free)
      /\ IsInjective(free') /\ ToSet(free') = ToSet(free) \ {c}
  BY <1>2, <1>3, TailBook
<1>5. c \notin DOMAIN pending
  BY <1>1, <1>4 DEF CidInv
<1>6. c \notin ToSet(sq) /\ c \notin ToSet(unacked)
  BY <1>1, <1>5 DEF SendsPending
<1>7. sq' \in Seq(Cids) /\ ToSet(sq') = ToSet(sq) \cup {c} /\ IsInjective(sq')
  <2>1. sq \in Seq(Cids) /\ IsInjective(sq)
    BY <1>1 DEF QueueTypes, OnceEach
  <2> QED BY <1>2, <1>4, <1>6, <2>1, AppendBook
<1>8. r \in Requests /\ r \in Nat /\ nreq \in Nat /\ r > nreq /\ r \in 0..MaxRequests
  <2>1. nreq \in Nat /\ MaxRequests \in Nat
    BY <1>1, DepthAssumption DEF QueueTypes
  <2> QED BY <1>2, <2>1 DEF Requests
<1>9. /\ DOMAIN pending' = DOMAIN pending \cup {c} /\ pending'[c] = r
      /\ \A d \in DOMAIN pending : d # c /\ pending'[d] = pending[d]
  BY <1>2, <1>5
<1>10. c \in Int
  BY <1>4, DepthAssumption DEF Cids
<1>11. /\ NewRequest(c, wait) \in RequestType /\ NewRequest(c, wait).cid = c
       /\ ~ NewRequest(c, wait).sent /\ ~ NewRequest(c, wait).done
       /\ NewRequest(c, wait).response = None
  BY <1>10 DEF NewRequest, RequestType, None
<1> DEFINE n == NewRequest(c, wait)
<1> HIDE DEF n, c, r
<1>12. /\ request' \in [Requests -> RequestType] /\ request'[r] = n
       /\ \A x \in Requests : x # r => request'[x] = request[x]
  <2>1. request \in [Requests -> RequestType] /\ request' = [request EXCEPT ![r] = n] /\ n \in RequestType
    BY <1>1, <1>2, <1>11 DEF QueueTypes, n
  <2> QED BY <1>8, <2>1
<1>13. \A d \in DOMAIN pending : pending[d] \in Requests /\ pending[d] # r
                                 /\ request'[pending'[d]] = request[pending[d]]
  <2> TAKE d \in DOMAIN pending
  <2>1. pending[d] \in Requests /\ pending[d] \in 1..nreq
    BY <1>1, PendingRequest
  <2>2. pending[d] # r
    BY <1>8, <2>1
  <2> QED BY <1>9, <1>12, <2>1, <2>2
<1>14. /\ commands' \in [Cids -> Int] /\ commands'[c] = r
       /\ \A d \in DOMAIN pending : commands'[d] = commands[d]
  <2>1. commands \in [Cids -> Int] /\ DOMAIN pending \subseteq Cids
    BY <1>1 DEF QueueTypes
  <2> QED BY <1>2, <1>4, <1>8, <1>9, <2>1
<1>15. Waiting' = Waiting /\ Answered' = Answered
  BY <1>2 DEF Waiting, Answered
<1>16. QueueTypes'
  <2>1. \A d \in DOMAIN pending' : pending'[d] \in 1..nreq'
    <3> TAKE d \in DOMAIN pending'
    <3>1. CASE d = c
      BY <1>2, <1>8, <1>9, <3>1
    <3>2. CASE d # c
      <4>1. pending'[d] = pending[d] /\ pending[d] \in 1..nreq
        BY <1>1, <1>9, <3>2, PendingRequest
      <4> QED BY <1>2, <1>8, <4>1 DEF r
    <3> QED BY <3>1, <3>2
  <2>2. DOMAIN pending' \subseteq Cids /\ executing' \in Requests \cup {None} /\ nreq' \in 0..MaxRequests
    BY <1>1, <1>2, <1>4, <1>8, <1>9 DEF QueueTypes
  <2> QED BY <1>1, <1>2, <1>4, <1>7, <1>12, <1>14, <2>1, <2>2 DEF QueueTypes
<1>17. CidInv'
  <2>1. \A d \in DOMAIN pending' : request'[pending'[d]].cid = d
    BY <1>1, <1>9, <1>11, <1>12, <1>13 DEF CidInv, n
  <2>2. ToSet(free') \cap DOMAIN pending' = {} /\ ToSet(free') \cup DOMAIN pending' = Cids
    BY <1>1, <1>4, <1>9 DEF CidInv
  <2> QED BY <1>4, <2>1, <2>2 DEF CidInv
<1>18. OnceEach'
  BY <1>1, <1>2, <1>6, <1>7, <1>15 DEF OnceEach
<1>19. SendsPending'
  <2>1. \A d \in ToSet(sq') \cup ToSet(unacked') :
           d \in DOMAIN pending' /\ ~ request'[pending'[d]].sent
    BY <1>1, <1>2, <1>7, <1>9, <1>11, <1>12, <1>13 DEF SendsPending, n
  <2>2. \A w \in Waiting' : w.kind = "send" =>
           /\ w.index \in DOMAIN pending' /\ ~ request'[pending'[w.index]].sent
           /\ w.index \notin ToSet(sq') \cup ToSet(unacked')
    BY <1>1, <1>2, <1>5, <1>7, <1>9, <1>13, <1>15 DEF SendsPending
  <2>3. \A w \in Waiting' : w.kind = "recv" => w.index \in Slots /\ w.index \notin ToSet(recvs')
    BY <1>1, <1>2, <1>15 DEF SendsPending
  <2> QED BY <2>1, <2>2, <2>3 DEF SendsPending
<1>20. AnswersPending'
  <2>1. \A d \in ToSet(sq') : d \in DOMAIN pending' /\ request'[pending'[d]].response = None
    BY <1>1, <1>7, <1>9, <1>11, <1>12, <1>13 DEF AnswersPending, n
  <2>2. \A t \in target' : /\ t.cid \in DOMAIN pending' /\ request'[pending'[t.cid]].response = None
                           /\ t.cid \notin ToSet(sq')
    BY <1>1, <1>2, <1>5, <1>7, <1>9, <1>13 DEF AnswersPending
  <2>3. \A s \in Answered' :
          /\ responses'[s].cid \in DOMAIN pending'
          /\ request'[pending'[responses'[s].cid]].response = None
          /\ responses'[s].cid \notin ToSet(sq')
          /\ \A t \in target' : t.cid # responses'[s].cid
          /\ \A u \in Answered' : responses'[u].cid = responses'[s].cid => u = s
    BY <1>1, <1>2, <1>5, <1>7, <1>9, <1>13, <1>15 DEF AnswersPending
  <2> QED BY <2>1, <2>2, <2>3 DEF AnswersPending
<1>21. OwnContent'
  <2>1. \A d \in DOMAIN pending' : commands'[d] = pending'[d]
    BY <1>1, <1>9, <1>14 DEF OwnContent
  <2>2. \A t \in target' : t.req = pending'[t.cid] /\ received'[t.req] = 1
    BY <1>1, <1>2, <1>9 DEF OwnContent, AnswersPending
  <2>3. \A s \in Answered' : /\ responses'[s].req = pending'[responses'[s].cid]
                             /\ received'[responses'[s].req] = 1
    BY <1>1, <1>2, <1>9, <1>15 DEF OwnContent, AnswersPending
  <2>4. \A d \in ToSet(sq') : received'[pending'[d]] = 0
    BY <1>1, <1>2, <1>7, <1>8, <1>9 DEF OwnContent, AnswersPending
  <2>5. \A x \in Requests :
          /\ received'[x] \in {0, 1}
          /\ request'[x].response # None => request'[x].response = x /\ received'[x] = 1
          /\ request'[x].done => request'[x].response # None
          /\ x > nreq' => received'[x] = 0
    <3> TAKE x \in Requests
    <3>1. /\ received[x] \in {0, 1}
          /\ request[x].response # None => request[x].response = x /\ received[x] = 1
          /\ request[x].done => request[x].response # None
          /\ x > nreq => received[x] = 0
      BY <1>1 DEF OwnContent
    <3>2. x > nreq' => x > nreq
      <4>1. x \in Int
        BY DepthAssumption DEF Requests
      <4> QED BY <1>2, <1>8, <4>1 DEF r
    <3>3. CASE x = r
      BY <1>2, <1>11, <1>12, <3>1, <3>2, <3>3 DEF n
    <3>4. CASE x # r
      BY <1>2, <1>12, <3>1, <3>2, <3>4
    <3> QED BY <3>3, <3>4
  <2> QED BY <2>1, <2>2, <2>3, <2>4, <2>5 DEF OwnContent
<1> QED BY <1>16, <1>17, <1>18, <1>19, <1>20, <1>21 DEF QueueInv

\* post_send raises: the capsule of no pending command is overwritten.
LEMMA SubmitFailsStep ==
    ASSUME QueueInv, SubmitFails
    PROVE  QueueInv'
<1>1. QueueTypes /\ CidInv /\ OnceEach /\ SendsPending /\ AnswersPending /\ OwnContent
  BY DEF QueueInv
<1> DEFINE c == Head(free)
<1>2. /\ UNCHANGED <<request, nreq, free, pending, pc, wcs, executing, responses, sq, unacked, recvs, cq,
                     qpErr, target, received>>
      /\ free # <<>> /\ commands' = [commands EXCEPT ![c] = nreq + 1]
  BY DEF SubmitFails, CanSubmit, queueVars, frameVars, hwVars, targetVars
<1>3. free \in Seq(Cids) /\ IsInjective(free)
  BY <1>1 DEF QueueTypes, CidInv
<1>4. c \in Cids /\ c \in ToSet(free)
  BY <1>2, <1>3, TailBook
<1>5. c \notin DOMAIN pending
  BY <1>1, <1>4 DEF CidInv
<1> HIDE DEF c
<1>6. commands' \in [Cids -> Int] /\ \A d \in DOMAIN pending : commands'[d] = commands[d]
  <2>1. commands \in [Cids -> Int] /\ DOMAIN pending \subseteq Cids /\ nreq \in Int
    BY <1>1, DepthAssumption DEF QueueTypes
  <2> QED BY <1>2, <1>4, <1>5, <2>1
<1>7. Waiting' = Waiting /\ Answered' = Answered
  BY <1>2 DEF Waiting, Answered
<1>8. QueueTypes' /\ CidInv' /\ OnceEach'
  BY <1>1, <1>2, <1>6, <1>7 DEF QueueTypes, CidInv, OnceEach
<1>9. SendsPending' /\ AnswersPending'
  BY <1>1, <1>2, <1>7 DEF SendsPending, AnswersPending
<1>10. OwnContent'
  BY <1>1, <1>2, <1>6, <1>7 DEF OwnContent
<1> QED BY <1>8, <1>9, <1>10 DEF QueueInv

\* _finish_if_ready: the command's cid becomes free, or it stays pending.
LEMMA FinishEffects ==
    ASSUME QueueTypes, CidInv, NEW c \in DOMAIN pending, NEW r, r = pending[c],
           NEW q \in [Requests -> RequestType], q[r].cid = c,
           \A x \in Requests : x # r => q[x] = request[x],
           FinishIfReady(q, r)
    PROVE  /\ request' \in [Requests -> RequestType] /\ free' \in Seq(Cids)
           /\ CidInv'
           /\ DOMAIN pending' \subseteq DOMAIN pending
           /\ \A d \in DOMAIN pending' : pending'[d] = pending[d]
           /\ \A d \in DOMAIN pending : d # c => d \in DOMAIN pending' /\ pending[d] # r
           /\ \A x \in Requests : x # r => request'[x] = request[x]
           /\ request'[r].sent = q[r].sent /\ request'[r].response = q[r].response
           /\ ~ ReadyToFinish(q, r) => c \in DOMAIN pending' /\ request'[r].done = q[r].done
<1>1. r \in Requests /\ c \in Cids
  BY PendingRequest
<1>2. free \in Seq(Cids) /\ IsInjective(free) /\ c \notin ToSet(free)
  BY DEF QueueTypes, CidInv
<1>3. \A d \in DOMAIN pending : d # c => pending[d] # r
  BY PendingInjective
<1>4. \A d \in DOMAIN pending : pending[d] \in Requests
  BY PendingRequest
<1>5. CASE ~ ReadyToFinish(q, r)
  <2>1. request' = q /\ UNCHANGED <<pending, free, completed>>
    BY <1>5 DEF FinishIfReady
  <2>2. \A d \in DOMAIN pending' : request'[pending'[d]].cid = d
    BY <1>3, <1>4, <2>1 DEF CidInv
  <2>3. CidInv'
    BY <2>1, <2>2 DEF CidInv
  <2> QED BY <1>2, <1>3, <1>5, <2>1, <2>3
<1>6. CASE ReadyToFinish(q, r)
  <2>1. /\ request' = [q EXCEPT ![r].done = TRUE]
        /\ pending' = [d \in DOMAIN pending \ {c} |-> pending[d]]
        /\ free' = Append(free, c)
    BY <1>6 DEF FinishIfReady
  <2>2. q[r] \in RequestType
    BY <1>1
  <2>3. request' \in [Requests -> RequestType] /\ \A x \in Requests : x # r => request'[x] = q[x]
    BY <1>1, <2>1, <2>2 DEF RequestType
  <2>4. request'[r].sent = q[r].sent /\ request'[r].response = q[r].response
    BY <1>1, <2>1, <2>2 DEF RequestType
  <2>5. free' \in Seq(Cids) /\ IsInjective(free') /\ ToSet(free') = ToSet(free) \cup {c}
    BY <1>1, <1>2, <2>1, AppendBook
  <2>6. DOMAIN pending' = DOMAIN pending \ {c} /\ \A d \in DOMAIN pending' : pending'[d] = pending[d]
    BY <2>1
  <2>7. \A d \in DOMAIN pending' : request'[pending'[d]].cid = d
    BY <1>3, <1>4, <2>3, <2>6 DEF CidInv
  <2>8. ToSet(free') \cap DOMAIN pending' = {} /\ ToSet(free') \cup DOMAIN pending' = Cids
    BY <1>1, <1>2, <2>5, <2>6 DEF CidInv
  <2>9. CidInv'
    BY <2>5, <2>7, <2>8 DEF CidInv
  <2> QED BY <1>3, <1>6, <2>3, <2>4, <2>5, <2>6, <2>9
<1> QED BY <1>5, <1>6

\* poll has handled the first of its completions.
LEMMA HandledOne ==
    ASSUME QueueInv, NEW w, w = Head(wcs), wcs # <<>>, wcs' = Tail(wcs), cq' = cq,
           UNCHANGED <<sq, unacked>>, recvs' \in Seq(Slots), IsInjective(recvs')
    PROVE  /\ wcs' \in Seq(WCType) /\ w \in Waiting /\ w \in WCType
           /\ Waiting' = Waiting \ {w}
           /\ OnceEach'
<1>1. QueueTypes /\ OnceEach
  BY DEF QueueInv
<1>2. wcs \in Seq(WCType) /\ IsInjective(wcs)
  BY <1>1 DEF QueueTypes, OnceEach
<1>3. /\ wcs' \in Seq(WCType) /\ w \in WCType /\ w \in ToSet(wcs)
      /\ IsInjective(wcs') /\ ToSet(wcs') = ToSet(wcs) \ {w}
  BY <1>2, TailBook
<1>4. w \notin ToSet(cq)
  BY <1>1, <1>3 DEF OnceEach
<1>5. Waiting' = Waiting \ {w} /\ w \in Waiting
  BY <1>3, <1>4 DEF Waiting
<1>6. OnceEach'
  BY <1>1, <1>3, <1>5 DEF OnceEach
<1> QED BY <1>3, <1>5, <1>6

\* A SEND completion is handled: if its command is done, nothing else names its cid.
LEMMA HandleSendStep ==
    ASSUME QueueInv, HandleSend
    PROVE  QueueInv'
<1>1. QueueTypes /\ CidInv /\ OnceEach /\ SendsPending /\ AnswersPending /\ OwnContent
  BY DEF QueueInv
<1> DEFINE w == Head(wcs)
           c == w.index
           r == pending[c]
           q == [request EXCEPT ![r].sent = TRUE]
<1>2. /\ UNCHANGED <<nreq, pc, executing, commands, responses, sq, unacked, recvs, cq, qpErr, target, received>>
      /\ pc = "poll" /\ wcs # <<>> /\ wcs' = Tail(wcs)
      /\ w.kind = "send" /\ w.ok /\ c \in DOMAIN pending /\ FinishIfReady(q, r)
  BY DEF HandleSend, hwVars, targetVars
<1>3. r \in Requests /\ r \in 1..nreq
  BY <1>1, <1>2, PendingRequest
<1>4. request \in [Requests -> RequestType] /\ request[r] \in RequestType
  BY <1>1, <1>3 DEF QueueTypes
<1>5. /\ q \in [Requests -> RequestType] /\ \A x \in Requests : x # r => q[x] = request[x]
      /\ q[r].cid = request[r].cid /\ q[r].sent /\ q[r].response = request[r].response
      /\ q[r].done = request[r].done
  BY <1>3, <1>4 DEF RequestType
<1>6. /\ wcs' \in Seq(WCType) /\ w \in Waiting /\ Waiting' = Waiting \ {w} /\ OnceEach'
  <2>1. recvs' \in Seq(Slots) /\ IsInjective(recvs')
    BY <1>1, <1>2 DEF QueueTypes, OnceEach
  <2> QED BY <1>2, <2>1, HandledOne
<1> HIDE DEF q, w
<1>7. q[r].cid = c
  BY <1>1, <1>2, <1>5 DEF CidInv
<1> HIDE DEF c, r
<1>8. /\ request' \in [Requests -> RequestType] /\ free' \in Seq(Cids)
      /\ CidInv'
      /\ DOMAIN pending' \subseteq DOMAIN pending
      /\ \A d \in DOMAIN pending' : pending'[d] = pending[d]
      /\ \A d \in DOMAIN pending : d # c => d \in DOMAIN pending' /\ pending[d] # r
      /\ \A x \in Requests : x # r => request'[x] = request[x]
      /\ request'[r].sent = q[r].sent /\ request'[r].response = q[r].response
      /\ ~ ReadyToFinish(q, r) => c \in DOMAIN pending' /\ request'[r].done = q[r].done
  <2>1. r = pending[c]
    BY DEF r
  <2>2. QueueTypes /\ CidInv /\ c \in DOMAIN pending /\ FinishIfReady(q, r)
    BY <1>1, <1>2
  <2>3. q \in [Requests -> RequestType] /\ \A x \in Requests : x # r => q[x] = request[x]
    BY <1>5
  <2> QED BY <1>7, <2>1, <2>2, <2>3, FinishEffects
<1>9. request[r].response = None => c \in DOMAIN pending' /\ request'[r].response = None
  BY <1>5, <1>8 DEF ReadyToFinish
<1>10. Answered' \subseteq Answered
  BY <1>2, <1>6 DEF Answered
<1>11. QueueTypes'
  BY <1>1, <1>2, <1>6, <1>8 DEF QueueTypes
<1>12. SendsPending'
  <2>1. c \notin ToSet(sq) /\ c \notin ToSet(unacked)
    BY <1>1, <1>2, <1>6 DEF SendsPending, c
  <2>2. \A v \in Waiting' : v.kind = "send" => v.index # c
    BY <1>1, <1>2, <1>6 DEF OnceEach, c
  <2>3. \A d \in DOMAIN pending : pending[d] \in Requests
    BY <1>1, PendingRequest
  <2>4. \A d \in ToSet(sq') \cup ToSet(unacked') :
           d \in DOMAIN pending' /\ ~ request'[pending'[d]].sent
    BY <1>1, <1>2, <1>8, <2>1, <2>3 DEF SendsPending
  <2>5. \A v \in Waiting' : v.kind = "send" =>
           /\ v.index \in DOMAIN pending' /\ ~ request'[pending'[v.index]].sent
           /\ v.index \notin ToSet(sq') \cup ToSet(unacked')
    BY <1>1, <1>2, <1>6, <1>8, <2>2, <2>3 DEF SendsPending
  <2>6. \A v \in Waiting' : v.kind = "recv" => v.index \in Slots /\ v.index \notin ToSet(recvs')
    BY <1>1, <1>2, <1>6 DEF SendsPending
  <2> QED BY <2>4, <2>5, <2>6 DEF SendsPending
<1>13. \A d \in DOMAIN pending : request[pending[d]].response = None =>
           d \in DOMAIN pending' /\ request'[pending'[d]].response = None
  <2> SUFFICES ASSUME NEW d \in DOMAIN pending, request[pending[d]].response = None
               PROVE  d \in DOMAIN pending' /\ request'[pending'[d]].response = None
    OBVIOUS
  <2>1. pending[d] \in Requests
    BY <1>1, PendingRequest
  <2>2. CASE d = c
    BY <1>8, <1>9, <2>2 DEF r
  <2>3. CASE d # c
    BY <1>8, <2>1, <2>3
  <2> QED BY <2>2, <2>3
<1>14. AnswersPending'
  <2>1. \A d \in ToSet(sq') : d \in DOMAIN pending' /\ request'[pending'[d]].response = None
    BY <1>1, <1>2, <1>13 DEF AnswersPending
  <2>2. \A t \in target' : /\ t.cid \in DOMAIN pending' /\ request'[pending'[t.cid]].response = None
                           /\ t.cid \notin ToSet(sq')
    BY <1>1, <1>2, <1>13 DEF AnswersPending
  <2>3. \A s \in Answered' :
          /\ responses'[s].cid \in DOMAIN pending'
          /\ request'[pending'[responses'[s].cid]].response = None
          /\ responses'[s].cid \notin ToSet(sq')
          /\ \A t \in target' : t.cid # responses'[s].cid
          /\ \A u \in Answered' : responses'[u].cid = responses'[s].cid => u = s
    BY <1>1, <1>2, <1>10, <1>13 DEF AnswersPending
  <2> QED BY <2>1, <2>2, <2>3 DEF AnswersPending
<1>15. OwnContent'
  <2>1. \A d \in DOMAIN pending' : commands'[d] = pending'[d]
    BY <1>1, <1>2, <1>8 DEF OwnContent
  <2>2. \A t \in target' : t.req = pending'[t.cid] /\ received'[t.req] = 1
    BY <1>1, <1>2, <1>8, <1>14 DEF OwnContent, AnswersPending
  <2>3. \A s \in Answered' : /\ responses'[s].req = pending'[responses'[s].cid]
                             /\ received'[responses'[s].req] = 1
    BY <1>1, <1>2, <1>8, <1>10, <1>14 DEF OwnContent, AnswersPending
  <2>4. \A d \in ToSet(sq') : received'[pending'[d]] = 0
    BY <1>1, <1>2, <1>8, <1>14 DEF OwnContent, AnswersPending
  <2>5. \A x \in Requests :
          /\ received'[x] \in {0, 1}
          /\ request'[x].response # None => request'[x].response = x /\ received'[x] = 1
          /\ request'[x].done => request'[x].response # None
          /\ x > nreq' => received'[x] = 0
    <3> TAKE x \in Requests
    <3>1. /\ received[x] \in {0, 1}
          /\ request[x].response # None => request[x].response = x /\ received[x] = 1
          /\ request[x].done => request[x].response # None
          /\ x > nreq => received[x] = 0
      BY <1>1 DEF OwnContent
    <3>2. CASE x # r
      BY <1>2, <1>8, <3>1, <3>2
    <3>3. CASE x = r
      BY <1>2, <1>5, <1>8, <3>1, <3>3 DEF ReadyToFinish
    <3> QED BY <3>2, <3>3
  <2> QED BY <2>1, <2>2, <2>3, <2>4, <2>5 DEF OwnContent
<1> QED BY <1>6, <1>8, <1>11, <1>12, <1>14, <1>15 DEF QueueInv

\* A response is handled, its slot posted again.
LEMMA HandleRecvStep ==
    ASSUME QueueInv, HandleRecv
    PROVE  QueueInv'
<1>1. QueueTypes /\ CidInv /\ OnceEach /\ SendsPending /\ AnswersPending /\ OwnContent
  BY DEF QueueInv
<1> DEFINE w == Head(wcs)
           a == w.index
           c == responses[a].cid
           r == pending[c]
           q == [request EXCEPT ![r].response = responses[a].req]
<1>2. /\ UNCHANGED <<nreq, pc, executing, commands, responses, sq, unacked, cq, qpErr, target, received>>
      /\ pc = "poll" /\ wcs # <<>> /\ wcs' = Tail(wcs)
      /\ w.kind = "recv" /\ w.ok /\ recvs' = Append(recvs, a)
      /\ c \in DOMAIN pending /\ FinishIfReady(q, r)
  BY DEF HandleRecv, Repost, targetVars
<1>3. w \in Waiting
  <2>1. wcs \in Seq(WCType) /\ IsInjective(wcs)
    BY <1>1 DEF QueueTypes, OnceEach
  <2> QED BY <1>2, <2>1, TailBook DEF Waiting
<1>4. a \in Slots /\ a \notin ToSet(recvs)
  BY <1>1, <1>2, <1>3 DEF SendsPending
<1>5. a \in Answered
  BY <1>2, <1>3, <1>4 DEF Answered
<1>6. recvs' \in Seq(Slots) /\ IsInjective(recvs') /\ ToSet(recvs') = ToSet(recvs) \cup {a}
  <2>1. recvs \in Seq(Slots) /\ IsInjective(recvs)
    BY <1>1 DEF QueueTypes, OnceEach
  <2> QED BY <1>2, <1>4, <2>1, AppendBook
<1>7. wcs' \in Seq(WCType) /\ Waiting' = Waiting \ {w} /\ OnceEach'
  BY <1>2, <1>6, HandledOne
<1>8. responses[a].req = r /\ received[r] = 1 /\ request[r].response = None
      /\ c \notin ToSet(sq) /\ (\A t \in target : t.cid # c)
      /\ (\A u \in Answered : responses[u].cid = c => u = a)
  BY <1>1, <1>5 DEF OwnContent, AnswersPending
<1>9. r \in Requests /\ r \in 1..nreq
  BY <1>1, <1>2, PendingRequest
<1>10. request \in [Requests -> RequestType] /\ request[r] \in RequestType
  BY <1>1, <1>9 DEF QueueTypes
<1>11. r \in Int /\ r # None
  BY <1>9, DepthAssumption DEF Requests, None
<1>12. q = [request EXCEPT ![r].response = r]
  BY <1>8
<1>13. /\ q \in [Requests -> RequestType] /\ \A x \in Requests : x # r => q[x] = request[x]
       /\ q[r].cid = request[r].cid /\ q[r].sent = request[r].sent /\ q[r].response = r
       /\ q[r].done = request[r].done
  <2> HIDE DEF q, r
  <2> QED BY <1>9, <1>10, <1>11, <1>12 DEF RequestType
<1> HIDE DEF q, w
<1>14. q[r].cid = c
  BY <1>1, <1>2, <1>13 DEF CidInv
<1> HIDE DEF c, r
<1>15. /\ request' \in [Requests -> RequestType] /\ free' \in Seq(Cids)
       /\ CidInv'
       /\ DOMAIN pending' \subseteq DOMAIN pending
       /\ \A d \in DOMAIN pending' : pending'[d] = pending[d]
       /\ \A d \in DOMAIN pending : d # c => d \in DOMAIN pending' /\ pending[d] # r
       /\ \A x \in Requests : x # r => request'[x] = request[x]
       /\ request'[r].sent = q[r].sent /\ request'[r].response = q[r].response
       /\ ~ ReadyToFinish(q, r) => c \in DOMAIN pending' /\ request'[r].done = q[r].done
  <2>1. r = pending[c]
    BY DEF r
  <2> QED BY <1>1, <1>2, <1>13, <1>14, <2>1, FinishEffects
<1>16. Answered' \subseteq Answered /\ a \notin Answered'
  <2>1. \A s \in Answered' : s \notin ToSet(recvs) /\ s # a
    BY <1>6 DEF Answered
  <2> QED BY <1>2, <1>7, <2>1 DEF Answered
<1>17. QueueTypes'
  BY <1>1, <1>2, <1>6, <1>7, <1>15 DEF QueueTypes
<1>18. \A d \in DOMAIN pending : ~ request[pending[d]].sent =>
           d \in DOMAIN pending' /\ ~ request'[pending'[d]].sent
  <2> SUFFICES ASSUME NEW d \in DOMAIN pending, ~ request[pending[d]].sent
               PROVE  d \in DOMAIN pending' /\ ~ request'[pending'[d]].sent
    OBVIOUS
  <2>1. pending[d] \in Requests
    BY <1>1, PendingRequest
  <2>2. CASE d = c
    BY <1>13, <1>15, <2>2 DEF r, ReadyToFinish
  <2>3. CASE d # c
    BY <1>15, <2>1, <2>3
  <2> QED BY <2>2, <2>3
<1>19. SendsPending'
  <2>1. \A d \in ToSet(sq') \cup ToSet(unacked') :
           d \in DOMAIN pending' /\ ~ request'[pending'[d]].sent
    BY <1>1, <1>2, <1>18 DEF SendsPending
  <2>2. \A v \in Waiting' : v.kind = "send" =>
           /\ v.index \in DOMAIN pending' /\ ~ request'[pending'[v.index]].sent
           /\ v.index \notin ToSet(sq') \cup ToSet(unacked')
    BY <1>1, <1>2, <1>7, <1>18 DEF SendsPending
  <2>3. \A v \in Waiting' : v.kind = "recv" => v.index \in Slots /\ v.index \notin ToSet(recvs')
    BY <1>1, <1>2, <1>3, <1>6, <1>7 DEF SendsPending, OnceEach
  <2> QED BY <2>1, <2>2, <2>3 DEF SendsPending
<1>20. \A d \in DOMAIN pending : d # c =>
           d \in DOMAIN pending' /\ pending'[d] = pending[d] /\ request'[pending'[d]] = request[pending[d]]
  BY <1>1, <1>15, PendingRequest
<1>21. \A s \in Answered' : responses[s].cid # c
  BY <1>8, <1>16
<1>22. AnswersPending'
  <2>1. \A d \in ToSet(sq') : d \in DOMAIN pending' /\ request'[pending'[d]].response = None
    BY <1>1, <1>2, <1>8, <1>20 DEF AnswersPending
  <2>2. \A t \in target' : /\ t.cid \in DOMAIN pending' /\ request'[pending'[t.cid]].response = None
                           /\ t.cid \notin ToSet(sq')
    BY <1>1, <1>2, <1>8, <1>20 DEF AnswersPending
  <2>3. \A s \in Answered' :
          /\ responses'[s].cid \in DOMAIN pending'
          /\ request'[pending'[responses'[s].cid]].response = None
          /\ responses'[s].cid \notin ToSet(sq')
          /\ \A t \in target' : t.cid # responses'[s].cid
          /\ \A u \in Answered' : responses'[u].cid = responses'[s].cid => u = s
    BY <1>1, <1>2, <1>16, <1>20, <1>21 DEF AnswersPending
  <2> QED BY <2>1, <2>2, <2>3 DEF AnswersPending
<1>23. OwnContent'
  <2>1. \A d \in DOMAIN pending' : commands'[d] = pending'[d]
    BY <1>1, <1>2, <1>15 DEF OwnContent
  <2>2. \A t \in target' : t.req = pending'[t.cid] /\ received'[t.req] = 1
    BY <1>1, <1>2, <1>15, <1>22 DEF OwnContent, AnswersPending
  <2>3. \A s \in Answered' : /\ responses'[s].req = pending'[responses'[s].cid]
                             /\ received'[responses'[s].req] = 1
    BY <1>1, <1>2, <1>15, <1>16, <1>22 DEF OwnContent, AnswersPending
  <2>4. \A d \in ToSet(sq') : received'[pending'[d]] = 0
    BY <1>1, <1>2, <1>15, <1>22 DEF OwnContent, AnswersPending
  <2>5. \A x \in Requests :
          /\ received'[x] \in {0, 1}
          /\ request'[x].response # None => request'[x].response = x /\ received'[x] = 1
          /\ request'[x].done => request'[x].response # None
          /\ x > nreq' => received'[x] = 0
    <3> TAKE x \in Requests
    <3>1. /\ received[x] \in {0, 1}
          /\ request[x].response # None => request[x].response = x /\ received[x] = 1
          /\ request[x].done => request[x].response # None
          /\ x > nreq => received[x] = 0
      BY <1>1 DEF OwnContent
    <3>2. CASE x # r
      BY <1>2, <1>15, <3>1, <3>2
    <3>3. CASE x = r
      BY <1>2, <1>8, <1>11, <1>13, <1>15, <3>1, <3>3
    <3> QED BY <3>2, <3>3
  <2> QED BY <2>1, <2>2, <2>3, <2>4, <2>5 DEF OwnContent
<1> QED BY <1>7, <1>15, <1>17, <1>19, <1>22, <1>23 DEF QueueInv

\* Every step.
LEMMA QueueInvStep ==
    ASSUME QueueInv, [Next]_vars
    PROVE  QueueInv'
<1>1. CASE \E wait \in BOOLEAN : Submit(wait)
  BY <1>1, SubmitStep
<1>2. CASE SubmitFails
  BY <1>2, SubmitFailsStep
<1>3. CASE \E max \in {1, CqSize} : PollStart(max)
  BY <1>3, PollStartStep
<1>4. CASE HandleSend \/ HandleRecv
  BY <1>4, HandleSendStep, HandleRecvStep
<1>5. pc # "poll" => wcs = <<>>
  BY DEF QueueInv, QueueTypes
<1>6. CASE HandleRecvFails \/ HandleBad
  <2>1. /\ LeaveExecute /\ wcs' = <<>>
        /\ UNCHANGED <<nreq, free, pending, commands, responses, sq, unacked, recvs, cq,
                       qpErr, target, received>>
    BY <1>6 DEF HandleRecvFails, HandleBad, PollRaises, hwVars, targetVars
  <2> QED BY <2>1, DropStep
<1>7. CASE PollReturn
  <2>1. /\ UNCHANGED <<request, executing>> /\ wcs' = <<>>
        /\ UNCHANGED <<nreq, free, pending, commands, responses, sq, unacked, recvs, cq,
                       qpErr, target, received>>
    BY <1>7 DEF PollReturn, hwVars, targetVars
  <2> QED BY <2>1, DropStep
<1>8. CASE Execute
  <2>1. /\ LeaveExecute \/ UNCHANGED <<request, executing>>
        /\ wcs' = wcs /\ pc # "poll"
        /\ UNCHANGED <<nreq, free, pending, commands, responses, sq, unacked, recvs, cq,
                       qpErr, target, received>>
    BY <1>8 DEF Execute, ExecuteWaits, ExecuteReturns, ExecuteTimesOut, queueVars, hwVars, targetVars
  <2> QED BY <1>5, <2>1, DropStep
<1>9. CASE Close
  BY <1>9, DownStep
<1>10. CASE Hardware
  BY <1>10, HardwareStep
<1>11. CASE UNCHANGED vars
  <2>1. /\ UNCHANGED <<request, executing>> /\ wcs' = wcs /\ pc' = pc
        /\ UNCHANGED <<nreq, free, pending, commands, responses, sq, unacked, recvs, cq,
                       qpErr, target, received>>
    BY <1>11 DEF vars, queueVars, frameVars, hwVars, targetVars
  <2> QED BY <1>5, <2>1, DropStep
<1> QED BY <1>1, <1>2, <1>3, <1>4, <1>6, <1>7, <1>8, <1>9, <1>10, <1>11 DEF Next, Handle

\* Sequences of consecutive numbers.
LEMMA CountUp ==
    ASSUME NEW n \in Nat, NEW s, s = [i \in 1..n |-> i - 1]
    PROVE  s \in Seq(0..(n - 1)) /\ IsInjective(s) /\ ToSet(s) = 0..(n - 1)
<1>1. \A i \in 1..n : i - 1 \in 0..(n - 1)
  OBVIOUS
<1>2. s \in [1..n -> 0..(n - 1)] /\ DOMAIN s = 1..n /\ \A i \in 1..n : s[i] = i - 1
  BY <1>1
<1>3. s \in Seq(0..(n - 1))
  BY <1>2, SeqDef
<1>4. IsInjective(s)
  <2> SUFFICES ASSUME NEW i \in 1..n, NEW j \in 1..n, s[i] = s[j] PROVE i = j
    BY <1>2 DEF IsInjective
  <2> QED BY <1>2
<1>5. ASSUME NEW x \in 0..(n - 1) PROVE x \in ToSet(s)
  <2>1. x + 1 \in 1..n /\ (x + 1) - 1 = x
    OBVIOUS
  <2>2. s[x + 1] = x
    BY <1>2, <2>1
  <2> QED BY <1>2, <2>1, <2>2 DEF ToSet
<1>6. \A x \in ToSet(s) : x \in 0..(n - 1)
  BY <1>2 DEF ToSet
<1> QED BY <1>3, <1>4, <1>5, <1>6

\* At the start every cid is free and every slot posted.
LEMMA QueueInvInit == Init => QueueInv
<1> SUFFICES ASSUME Init PROVE QueueInv
  OBVIOUS
<1>1. Depth \in Nat /\ Depth >= 2 /\ MaxRequests \in Nat \ {0}
  BY DepthAssumption
<1>2. free \in Seq(Cids) /\ IsInjective(free) /\ ToSet(free) = Cids
  <2>1. Depth - 1 \in Nat /\ (Depth - 1) - 1 = Depth - 2
    BY <1>1
  <2>2. free = [i \in 1..(Depth - 1) |-> i - 1]
    BY DEF Init, InitialCids
  <2> DEFINE n == Depth - 1
  <2>3. n \in Nat /\ n - 1 = Depth - 2 /\ free = [i \in 1..n |-> i - 1]
    BY <2>1, <2>2
  <2> HIDE DEF n
  <2>4. free \in Seq(0..(n - 1)) /\ IsInjective(free) /\ ToSet(free) = 0..(n - 1)
    BY <2>3, CountUp
  <2> QED BY <2>3, <2>4 DEF Cids
<1>3. recvs \in Seq(Slots) /\ IsInjective(recvs) /\ ToSet(recvs) = Slots
  BY <1>1, CountUp DEF Init, Slots
<1>4. pending = <<>> /\ DOMAIN pending = {}
  BY DEF Init
<1>5. sq = <<>> /\ unacked = <<>> /\ cq = <<>> /\ wcs = <<>> /\ target = {} /\ nreq = 0
  BY DEF Init
<1>6. Waiting = {} /\ ToSet(sq) = {} /\ ToSet(unacked) = {}
  BY <1>5, EmptyBook DEF Waiting
<1>7. Answered = {}
  BY <1>3 DEF Answered
<1>8. /\ \A r \in Requests : request[r] = NewRequest(None, FALSE) /\ received[r] = 0
      /\ request \in [Requests -> {NewRequest(None, FALSE)}] /\ received \in [Requests -> {0}]
  BY DEF Init
<1>9. NewRequest(None, FALSE) \in RequestType /\ NewRequest(None, FALSE).response = None
      /\ ~ NewRequest(None, FALSE).done
  BY DEF NewRequest, RequestType, None
<1>10. QueueTypes
  <2>1. request \in [Requests -> RequestType]
    <3> DEFINE n == NewRequest(None, FALSE)
    <3>1. request = [r \in Requests |-> n] /\ n \in RequestType
      BY <1>9 DEF Init
    <3> HIDE DEF n
    <3> QED BY <3>1
  <2>5. received \in [Requests -> Nat]
    BY DEF Init
  <2>2. nreq \in 0..MaxRequests /\ executing \in Requests \cup {None} /\ qpErr \in BOOLEAN
    <3>1. executing = None /\ qpErr = FALSE
      BY DEF Init
    <3>2. nreq \in 0..MaxRequests
      BY <1>1, <1>5
    <3> QED BY <3>1, <3>2
  <2>3. wcs \in Seq(WCType) /\ cq \in Seq(WCType) /\ sq \in Seq(Cids) /\ unacked \in Seq(Cids)
    BY <1>5, EmptyBook
  <2>4. commands \in [Cids -> Int] /\ responses \in [Slots -> [cid : Int, req : Int]]
    BY DEF Init, None
  <2> QED BY <1>2, <1>3, <1>4, <1>5, <2>1, <2>2, <2>3, <2>4, <2>5 DEF QueueTypes
<1>11. CidInv
  BY <1>2, <1>4 DEF CidInv
<1>12. OnceEach
  BY <1>3, <1>5, <1>6, EmptyBook DEF OnceEach
<1>13. SendsPending /\ AnswersPending
  BY <1>5, <1>6, <1>7 DEF SendsPending, AnswersPending
<1>14. OwnContent
  BY <1>4, <1>5, <1>6, <1>7, <1>8, <1>9 DEF OwnContent
<1> QED BY <1>10, <1>11, <1>12, <1>13, <1>14 DEF QueueInv

\* The queue's inductive invariant: of each command, its cid is free, or its SEND
\* and its response are each in one place of the adapter, the target, the CQ and
\* poll's list; so that a cid given back by _finish_if_ready is named by nothing.
THEOREM QueueInvHolds == Spec => []QueueInv
<1>1. QueueInv /\ [Next]_vars => QueueInv'
  BY QueueInvStep
<1> QED BY <1>1, QueueInvInit, PTL DEF Spec

\* As many elements as places.
LEMMA CountSeq ==
    ASSUME NEW T, NEW s \in Seq(T), IsInjective(s)
    PROVE  IsFiniteSet(ToSet(s)) /\ Cardinality(ToSet(s)) = Len(s)
<1>1. Len(s) \in Nat /\ DOMAIN s = 1..Len(s) /\ s \in [1..Len(s) -> T]
  BY LenProperties
<1>2. IsFiniteSet(1..Len(s)) /\ Cardinality(1..Len(s)) = Len(s)
  <2> DEFINE n == Len(s)
  <2>1. n \in Nat
    BY <1>1
  <2> HIDE DEF n
  <2>2. IsFiniteSet(1..n) /\ Cardinality(1..n) = n
    <3>1. Cardinality(1..n) = (IF 1 > n THEN 0 ELSE n - 1 + 1) /\ IsFiniteSet(1..n)
      BY <2>1, FS_Interval
    <3> QED BY <2>1, <3>1
  <2> QED BY <2>2 DEF n
<1>3. s \in Bijection(1..Len(s), ToSet(s))
  <2>1. s \in [1..Len(s) -> ToSet(s)]
    BY <1>1 DEF ToSet
  <2>2. \A i, j \in 1..Len(s) : s[i] = s[j] => i = j
    BY <1>1 DEF IsInjective
  <2>3. \A x \in ToSet(s) : \E i \in 1..Len(s) : s[i] = x
    BY <1>1 DEF ToSet
  <2>4. s \in Injection(1..Len(s), ToSet(s)) /\ s \in Surjection(1..Len(s), ToSet(s))
    BY <2>1, <2>2, <2>3 DEF Injection, Surjection, IsInjective
  <2> QED BY <2>4 DEF Bijection
<1>4. ExistsBijection(1..Len(s), ToSet(s))
  BY <1>3 DEF ExistsBijection
<1> QED BY <1>2, <1>4, FS_Bijection

\* A cid is free or pending, never both and never twice, whatever failed or timed
\* out on the way.
THEOREM CidsPartitionedHolds == Spec => []CidsPartitioned
<1>1. QueueInv => CidsPartitioned
  <2> SUFFICES ASSUME QueueInv PROVE CidsPartitioned
    OBVIOUS
  <2>1. free \in Seq(Cids) /\ CidInv
    BY DEF QueueInv, QueueTypes
  <2>2. Len(free) = Cardinality(ToSet(free))
    BY <2>1, CountSeq DEF CidInv
  <2> QED BY <2>1, <2>2 DEF CidInv, CidsPartitioned
<1> QED BY <1>1, QueueInvHolds, PTL

\* A request that is done was received by the target once and answered with its
\* own response; poll knows every completion, and reads every response before its
\* slot is posted again.
THEOREM AnsweredByItsOwnHolds == Spec => []AnsweredByItsOwn
<1>1. QueueInv => AnsweredByItsOwn
  <2> SUFFICES ASSUME QueueInv PROVE AnsweredByItsOwn
    OBVIOUS
  <2>1. QueueTypes /\ SendsPending /\ AnswersPending /\ OwnContent
    BY DEF QueueInv
  <2>2. wcs \in Seq(WCType) /\ cq \in Seq(WCType) /\ nreq \in 0..MaxRequests /\ MaxRequests \in Nat
    BY <2>1, DepthAssumption DEF QueueTypes
  <2>3. CompletionsKnown
    <3> SUFFICES ASSUME NEW i \in DOMAIN wcs, wcs[i].ok
                 PROVE  CASE wcs[i].kind = "send" -> wcs[i].index \in DOMAIN pending
                          [] wcs[i].kind = "recv" -> responses[wcs[i].index].cid \in DOMAIN pending
      BY DEF CompletionsKnown
    <3> DEFINE w == wcs[i]
    <3>1. w \in Waiting /\ w \in WCType
      BY <2>2, ToSetIs DEF Waiting
    <3> HIDE DEF w
    <3>2. w.kind = "send" \/ w.kind = "recv"
      BY <3>1 DEF WCType
    <3>3. ASSUME w.kind = "send" PROVE w.index \in DOMAIN pending
      BY <2>1, <3>1, <3>3 DEF SendsPending
    <3>4. ASSUME w.kind = "recv", w.ok PROVE responses[w.index].cid \in DOMAIN pending
      <4>1. w.index \in Answered
        BY <2>1, <3>1, <3>4 DEF SendsPending, Answered
      <4> QED BY <2>1, <4>1 DEF AnswersPending
    <3> QED BY <3>2, <3>3, <3>4 DEF w
  <2>4. ResponseSlotsStable
    <3>1. \A i \in DOMAIN (wcs \o cq) : (wcs \o cq)[i] \in Waiting
      <4> DEFINE m == Len(wcs)
                 n == Len(cq)
                 s == wcs \o cq
      <4>1. /\ m \in Nat /\ n \in Nat /\ DOMAIN s = 1..(m + n)
            /\ \A i \in 1..m : s[i] = wcs[i]
            /\ \A i \in (m + 1)..(m + n) : s[i] = cq[i - m]
            /\ DOMAIN wcs = 1..m /\ DOMAIN cq = 1..n
        BY <2>2, ConcatProperties, LenProperties
      <4> HIDE DEF m, n, s
      <4>2. ASSUME NEW i \in 1..(m + n) PROVE s[i] \in Waiting
        <5>1. CASE i <= m
          <6>1. i \in 1..m
            BY <4>1, <5>1
          <6> QED BY <4>1, <6>1 DEF Waiting, ToSet
        <5>2. CASE i > m
          <6>1. i \in (m + 1)..(m + n) /\ i - m \in 1..n
            BY <4>1, <5>2
          <6> QED BY <4>1, <6>1 DEF Waiting, ToSet
        <5> QED BY <4>1, <5>1, <5>2
      <4> QED BY <4>1, <4>2 DEF s
    <3> QED BY <2>1, <3>1 DEF ResponseSlotsStable, SendsPending
  <2>5. ASSUME NEW r \in 1..nreq
        PROVE  /\ received[r] <= 1
               /\ request[r].response \in {None, r}
               /\ request[r].done => request[r].response = r /\ received[r] = 1
    <3>1. r \in Requests
      BY <2>2 DEF Requests
    <3>2. /\ received[r] \in {0, 1}
          /\ request[r].response # None => request[r].response = r /\ received[r] = 1
          /\ request[r].done => request[r].response # None
      BY <2>1, <3>1 DEF OwnContent
    <3> QED BY <3>2
  <2> QED BY <2>3, <2>4, <2>5 DEF AnsweredByItsOwn
<1> QED BY <1>1, QueueInvHolds, PTL

\* What fits in the CQ: at most one completion of each kind for every slot.
LEMMA CqFits ==
    ASSUME QueueInv
    PROVE  Len(cq) <= 2 * Depth
<1>1. QueueTypes /\ OnceEach /\ SendsPending
  BY DEF QueueInv
<1>2. cq \in Seq(WCType) /\ IsInjective(cq)
  BY <1>1 DEF QueueTypes, OnceEach
<1>3. Depth \in Nat /\ Depth >= 2
  BY DepthAssumption
<1> DEFINE code(w) == IF w.kind = "send" THEN w.index ELSE Depth + w.index
           f == [w \in ToSet(cq) |-> code(w)]
           S == 0..(2 * Depth - 1)
<1>4. ASSUME NEW w \in ToSet(cq)
      PROVE  /\ w \in WCType /\ w \in Waiting
             /\ w.kind = "send" => w.index \in 0..(Depth - 1)
             /\ w.kind # "send" => w.kind = "recv" /\ w.index \in 0..(Depth - 1)
  <2>1. w \in WCType /\ w \in Waiting
    BY <1>2, ToSetIs DEF Waiting
  <2>2. ASSUME w.kind = "send" PROVE w.index \in 0..(Depth - 1)
    <3>1. w.index \in Cids
      BY <1>1, <2>1, <2>2 DEF SendsPending, QueueTypes
    <3> QED BY <1>3, <3>1 DEF Cids
  <2>3. ASSUME w.kind # "send" PROVE w.kind = "recv" /\ w.index \in 0..(Depth - 1)
    <3>1. w.kind = "recv"
      BY <2>1, <2>3 DEF WCType
    <3> QED BY <1>1, <2>1, <3>1 DEF SendsPending, Slots
  <2> QED BY <2>1, <2>2, <2>3
<1>5. \A w \in ToSet(cq) : code(w) \in S
  <2> TAKE w \in ToSet(cq)
  <2>1. CASE w.kind = "send"
    BY <1>3, <1>4, <2>1
  <2>2. CASE w.kind # "send"
    <3>1. w.index \in 0..(Depth - 1)
      BY <1>4, <2>2
    <3>2. Depth + w.index \in S
      BY <1>3, <3>1
    <3> QED BY <2>2, <3>2
  <2> QED BY <2>1, <2>2
<1>6. ASSUME NEW v \in ToSet(cq), NEW w \in ToSet(cq), code(v) = code(w) PROVE v = w
  <2>1. v.kind = w.kind /\ v.index = w.index
    <3>1. CASE v.kind = "send" /\ w.kind = "send"
      BY <1>6, <3>1
    <3>2. CASE v.kind # "send" /\ w.kind # "send"
      <4>1. v.kind = "recv" /\ w.kind = "recv" /\ v.index \in Int /\ w.index \in Int
        BY <1>3, <1>4, <3>2
      <4>2. Depth + v.index = Depth + w.index
        BY <1>6, <3>2
      <4> QED BY <1>3, <4>1, <4>2
    <3>3. CASE v.kind = "send" /\ w.kind # "send"
      <4>1. v.index \in 0..(Depth - 1) /\ w.index \in 0..(Depth - 1) /\ v.index = Depth + w.index
        BY <1>4, <1>6, <3>3
      <4> QED BY <1>3, <4>1
    <3>4. CASE v.kind # "send" /\ w.kind = "send"
      <4>1. v.index \in 0..(Depth - 1) /\ w.index \in 0..(Depth - 1) /\ Depth + v.index = w.index
        BY <1>4, <1>6, <3>4
      <4> QED BY <1>3, <4>1
    <3> QED BY <3>1, <3>2, <3>3, <3>4
  <2> QED BY <1>1, <1>4, <2>1 DEF OnceEach
<1>7. IsFiniteSet(S) /\ Cardinality(S) = 2 * Depth
  <2> DEFINE b == 2 * Depth - 1
  <2>1. b \in Int /\ b >= 0 /\ b - 0 + 1 = 2 * Depth
    BY <1>3
  <2> HIDE DEF b
  <2>2. IsFiniteSet(0..b) /\ Cardinality(0..b) = IF 0 > b THEN 0 ELSE b - 0 + 1
    BY <2>1, FS_Interval
  <2>3. Cardinality(0..b) = 2 * Depth
    BY <2>1, <2>2
  <2> QED BY <2>2, <2>3 DEF b
<1>8. f \in Injection(ToSet(cq), S)
  <2>1. f \in [ToSet(cq) -> S]
    BY <1>5
  <2>2. \A v, w \in ToSet(cq) : f[v] = f[w] => v = w
    BY <1>6
  <2> QED BY <2>1, <2>2 DEF Injection, IsInjective
<1>9. Cardinality(ToSet(cq)) <= Cardinality(S)
  <2> HIDE DEF f, S
  <2> QED BY <1>7, <1>8, FS_Injection
<1>10. Cardinality(ToSet(cq)) = Len(cq)
  BY <1>2, CountSeq
<1> QED BY <1>7, <1>9, <1>10

\* An injective image has as many elements.
LEMMA ImageCount ==
    ASSUME NEW S, NEW C, IsFiniteSet(C), NEW f \in [S -> C],
           \A x, y \in S : f[x] = f[y] => x = y
    PROVE  LET U == {f[x] : x \in S}
           IN  U \subseteq C /\ IsFiniteSet(S) /\ IsFiniteSet(U) /\ Cardinality(U) = Cardinality(S)
<1> DEFINE U == {f[x] : x \in S}
<1>1. U \subseteq C
  OBVIOUS
<1>2. f \in Injection(S, C)
  BY DEF Injection, IsInjective
<1>3. IsFiniteSet(S)
  BY <1>2, FS_Injection
<1>4. f \in Injection(S, U) /\ f \in Surjection(S, U)
  BY DEF Injection, IsInjective, Surjection
<1>5. ExistsBijection(S, U)
  BY <1>4 DEF ExistsBijection, Bijection
<1>6. IsFiniteSet(U) /\ Cardinality(U) = Cardinality(S)
  BY <1>3, <1>5, FS_Bijection
<1> QED BY <1>1, <1>3, <1>6

\* Two sets that share nothing.
LEMMA Disjoint ==
    ASSUME NEW C, IsFiniteSet(C), NEW A \in SUBSET C, NEW B \in SUBSET C, A \cap B = {}
    PROVE  /\ IsFiniteSet(A \cup B) /\ Cardinality(A \cup B) = Cardinality(A) + Cardinality(B)
           /\ Cardinality(A) + Cardinality(B) <= Cardinality(C)
           /\ Cardinality(A) \in Nat /\ Cardinality(B) \in Nat
<1>1. IsFiniteSet(A) /\ IsFiniteSet(B) /\ IsFiniteSet(A \cup B) /\ Cardinality(A \cup B) <= Cardinality(C)
  <2>1. A \cup B \in SUBSET C
    OBVIOUS
  <2> QED BY <2>1, FS_Subset
<1>2. Cardinality(A) \in Nat /\ Cardinality(B) \in Nat
  BY <1>1, FS_CardinalityType
<1>3. Cardinality(A \cup B) = Cardinality(A) + Cardinality(B) - Cardinality({})
  BY <1>1, FS_Union
<1>4. Cardinality({}) = 0
  BY FS_EmptySet
<1>5. Cardinality(A \cup B) = Cardinality(A) + Cardinality(B)
  <2> DEFINE a == Cardinality(A)
             b == Cardinality(B)
             u == Cardinality(A \cup B)
  <2>1. a \in Nat /\ b \in Nat /\ u = a + b - 0
    BY <1>2, <1>3, <1>4
  <2> HIDE DEF a, b, u
  <2>2. u = a + b
    BY <2>1
  <2> QED BY <2>2 DEF a, b, u
<1> QED BY <1>1, <1>2, <1>5

\* The cids and the slots.
LEMMA CidCount ==
    /\ IsFiniteSet(Cids) /\ Cardinality(Cids) = Depth - 1
    /\ IsFiniteSet(Slots) /\ Cardinality(Slots) = Depth
<1>1. Depth \in Nat /\ Depth >= 2
  BY DepthAssumption
<1>2. /\ IsFiniteSet(0..(Depth - 2))
      /\ Cardinality(0..(Depth - 2)) = IF 0 > Depth - 2 THEN 0 ELSE (Depth - 2) - 0 + 1
  <2>1. Depth - 2 \in Int
    BY <1>1
  <2> QED BY <2>1, FS_Interval
<1>3. /\ IsFiniteSet(0..(Depth - 1))
      /\ Cardinality(0..(Depth - 1)) = IF 0 > Depth - 1 THEN 0 ELSE (Depth - 1) - 0 + 1
  <2>1. Depth - 1 \in Int
    BY <1>1
  <2> QED BY <2>1, FS_Interval
<1>4. (IF 0 > Depth - 2 THEN 0 ELSE (Depth - 2) - 0 + 1) = Depth - 1
  BY <1>1
<1>5. (IF 0 > Depth - 1 THEN 0 ELSE (Depth - 1) - 0 + 1) = Depth
  BY <1>1
<1> QED BY <1>2, <1>3, <1>4, <1>5 DEF Cids, Slots

\* While the connection lasts, what the target has, will get or has answered are
\* different cids; there is one cid less than there are slots.
LEMMA ReceivesLeft ==
    ASSUME QueueInv, ~ qpErr
    PROVE  Cardinality(target) + Len(sq) < Len(recvs)
<1>1. QueueTypes /\ OnceEach /\ AnswersPending /\ OwnContent
  BY DEF QueueInv
<1>2. sq \in Seq(Cids) /\ IsInjective(sq) /\ recvs \in Seq(Slots) /\ IsInjective(recvs)
  BY <1>1 DEF QueueTypes, OnceEach
<1> DEFINE A == ToSet(sq)
           f == [t \in target |-> t.cid]
           B == {f[t] : t \in target}
           g == [s \in Answered |-> responses[s].cid]
           C == {g[s] : s \in Answered}
<1>3. A \in SUBSET Cids /\ Cardinality(A) = Len(sq)
  BY <1>2, CountSeq, ToSetIs
<1>4. B \in SUBSET Cids /\ Cardinality(B) = Cardinality(target)
  <2>1. f \in [target -> Cids]
    BY <1>1 DEF QueueTypes, CapsuleType
  <2>2. \A x, y \in target : f[x] = f[y] => x = y
    <3> SUFFICES ASSUME NEW x \in target, NEW y \in target, x.cid = y.cid PROVE x = y
      OBVIOUS
    <3>1. x.req = pending[x.cid] /\ y.req = pending[y.cid] /\ x \in CapsuleType /\ y \in CapsuleType
      BY <1>1 DEF OwnContent, QueueTypes
    <3> QED BY <3>1 DEF CapsuleType
  <2> HIDE DEF f
  <2> QED BY <2>1, <2>2, CidCount, ImageCount
<1>5. C \in SUBSET Cids /\ Cardinality(C) = Cardinality(Answered)
  <2>1. g \in [Answered -> Cids]
    BY <1>1 DEF QueueTypes, AnswersPending
  <2>2. \A x, y \in Answered : g[x] = g[y] => x = y
    BY <1>1 DEF AnswersPending
  <2> HIDE DEF g
  <2> QED BY <2>1, <2>2, CidCount, ImageCount
<1>6. A \cap B = {}
  BY <1>1 DEF AnswersPending
<1>7. (A \cup B) \cap C = {}
  BY <1>1 DEF AnswersPending
<1>8. Answered = Slots \ ToSet(recvs)
  BY DEF Answered
<1>9. Cardinality(ToSet(recvs)) = Len(recvs) /\ ToSet(recvs) \in SUBSET Slots
  BY <1>2, CountSeq, ToSetIs
<1>10. /\ Cardinality(Answered) + Len(recvs) = Depth
       /\ Cardinality(Answered) \in Nat
  <2>1. Answered \in SUBSET Slots /\ Answered \cap ToSet(recvs) = {} /\ Answered \cup ToSet(recvs) = Slots
    BY <1>8, <1>9
  <2>2. /\ Cardinality(Answered \cup ToSet(recvs)) = Cardinality(Answered) + Cardinality(ToSet(recvs))
        /\ Cardinality(Answered) \in Nat
    <3> DEFINE X == Answered
               Y == ToSet(recvs)
    <3>1. IsFiniteSet(Slots) /\ X \in SUBSET Slots /\ Y \in SUBSET Slots /\ X \cap Y = {}
      BY <1>9, <2>1, CidCount
    <3> HIDE DEF X, Y
    <3>2. Cardinality(X \cup Y) = Cardinality(X) + Cardinality(Y) /\ Cardinality(X) \in Nat
      BY ONLY <3>1, Disjoint
    <3> QED BY <3>2 DEF X, Y
  <2> QED BY <1>9, <2>1, <2>2, CidCount
<1> HIDE DEF A, B, C
<1>11. Cardinality(A \cup B) = Cardinality(A) + Cardinality(B)
       /\ Cardinality(A) \in Nat /\ Cardinality(B) \in Nat
  <2>1. IsFiniteSet(Cids) /\ A \in SUBSET Cids /\ B \in SUBSET Cids
    BY <1>3, <1>4, CidCount
  <2> QED BY ONLY <1>6, <2>1, Disjoint
<1>12. Cardinality(A \cup B) + Cardinality(C) <= Depth - 1 /\ Cardinality(C) \in Nat
  <2> DEFINE D == A \cup B
  <2>1. D \in SUBSET Cids /\ C \in SUBSET Cids /\ D \cap C = {} /\ IsFiniteSet(Cids)
    BY <1>3, <1>4, <1>5, <1>7, CidCount
  <2> HIDE DEF D
  <2>2. Cardinality(D) + Cardinality(C) <= Cardinality(Cids) /\ Cardinality(C) \in Nat
    BY ONLY <2>1, Disjoint
  <2> QED BY <2>2, CidCount DEF D
<1> DEFINE a == Cardinality(A)
           b == Cardinality(B)
           c == Cardinality(C)
           n == Len(recvs)
<1>13. a \in Nat /\ b \in Nat /\ c \in Nat /\ (a + b) + c <= Depth - 1 /\ c + n = Depth /\ n \in Nat
  BY <1>2, <1>5, <1>10, <1>11, <1>12, LenProperties
<1>14. a = Len(sq) /\ b = Cardinality(target)
  BY <1>3, <1>4
<1> HIDE DEF a, b, c, n
<1>15. b + a < n
  BY <1>13, DepthAssumption
<1> QED BY <1>14, <1>15 DEF n

\* The CQ and the send queue never overflow their sizes, and every command the
\* target has or will get finds a receive posted for its response.
THEOREM QueuesFitHolds == Spec => []QueuesFit
<1>1. QueueInv => QueuesFit
  <2> SUFFICES ASSUME QueueInv PROVE QueuesFit
    OBVIOUS
  <2>1. QueueTypes /\ OnceEach
    BY DEF QueueInv
  <2>2. sq \in Seq(Cids) /\ IsInjective(sq) /\ unacked \in Seq(Cids) /\ IsInjective(unacked)
        /\ ToSet(sq) \cap ToSet(unacked) = {} /\ cq \in Seq(WCType)
    BY <2>1 DEF QueueTypes, OnceEach
  <2>3. Depth \in Nat
    BY DepthAssumption
  <2>4. Len(cq) <= CqSize
    <3> DEFINE n == Len(cq)
    <3>1. n \in Nat /\ n <= 2 * Depth
      BY <2>2, CqFits, LenProperties
    <3> HIDE DEF n
    <3>2. n <= CqSize
      BY <2>3, <3>1 DEF CqSize
    <3> QED BY <3>2 DEF n
  <2>5. Len(sq) + Len(unacked) <= Depth
    <3>1. ToSet(sq) \in SUBSET Cids /\ ToSet(unacked) \in SUBSET Cids
      BY <2>2, ToSetIs
    <3>2. Cardinality(ToSet(sq)) + Cardinality(ToSet(unacked)) <= Depth - 1
      BY <2>2, <3>1, CidCount, Disjoint
    <3>3. Cardinality(ToSet(sq)) = Len(sq) /\ Cardinality(ToSet(unacked)) = Len(unacked)
      BY <2>2, CountSeq
    <3> DEFINE a == Len(sq)
               b == Len(unacked)
    <3>4. a \in Nat /\ b \in Nat /\ a + b <= Depth - 1
      BY <2>2, <3>2, <3>3, LenProperties
    <3> HIDE DEF a, b
    <3>5. a + b <= Depth
      BY <2>3, <3>4
    <3> QED BY <3>5 DEF a, b
  <2> QED BY <2>4, <2>5, ReceivesLeft DEF QueuesFit
<1> QED BY <1>1, QueueInvHolds, PTL
=============================================================================
