--------------------------- MODULE ReconfigureProofs ---------------------------
(***************************************************************************)
(* Proofs about Reconfigure: committed neighbours are connected to each    *)
(* other's live QPs, for every set of members, every ring and every number *)
(* of attempts, with failures, retries and uuids used again.               *)
(*                                                                         *)
(* What has to be ruled out is an old attempt of a member that lives on in *)
(* the backlog of its successor.  A listener's queue is in the order of    *)
(* the attempts (BacklogInv), so once an attempt is accepted, everything   *)
(* of that member which is still queued is newer; and a member that has    *)
(* its answer makes no newer attempt while it goes by that answer.  So an  *)
(* answered member finds nothing of itself left in the queue, and a second *)
(* attempt of its successor at the same ring cannot commit against it      *)
(* (AnswerInv).  CommittedPairs by itself is not inductive: it says        *)
(* nothing of the attempts that are still under way.                       *)
(***************************************************************************)
EXTENDS Reconfigure, SequenceTheorems, TLAPS

-----------------------------------------------------------------------------
ConnType == [from : Members, gen : Nat \ {0}, uuid : Uuids, sent : BOOLEAN]

GroupTypes ==
    /\ place \in [Members -> 0..5] /\ tries \in [Members -> Seq(Uuids)]
    /\ uuid \in [Members -> Uuids \cup {NoUuid}]
    /\ failed \in [Members -> BOOLEAN] /\ closed \in [Members -> BOOLEAN]
    /\ live \in [Members -> Nat] /\ outPeer \in [Members -> Nat] /\ inPeer \in [Members -> Nat]
    /\ backlog \in [Members -> Seq(ConnType)] /\ accepted \in [Members -> ConnType \cup {NoConn}]
    /\ response \in [Members -> Nat]

\* A ring of several that m is a member of.
RingOf(u, m) == u \in Uuids /\ m \in Range(Ring[u]) /\ Len(Ring[u]) > 1

\* An attempt that runs has its QPs and no uuid; one that is over has nothing on
\* the network; a committed group has the uuid and the QPs of its last attempt.
AttemptInv ==
    \A m \in Members :
        /\ place[m] # 0 => /\ tries[m] # <<>> /\ RingOf(Uuid(m), m)
                           /\ uuid[m] = NoUuid /\ live[m] = Gen(m)
        /\ place[m] = 0 => accepted[m] = NoConn /\ response[m] = 0
        /\ place[m] \in {4, 5} => accepted[m] # NoConn
        /\ Several(m) => /\ place[m] = 0 /\ tries[m] # <<>> /\ uuid[m] = Uuid(m)
                         /\ RingOf(uuid[m], m) /\ (~ closed[m] => live[m] = Gen(m))
                         /\ outPeer[m] # 0

\* A connection names an attempt of its member, one that has connected.
Names(c) ==
    /\ c.gen \in 1..Len(tries[c.from]) /\ tries[c.from][c.gen] = c.uuid
    /\ place[c.from] = 1 => c.gen # Len(tries[c.from])

\* The connections of a member are accepted in the order of its attempts.
BacklogInv ==
    \A n \in Members :
        /\ \A i \in DOMAIN backlog[n] : Names(backlog[n][i])
        /\ \A i, j \in DOMAIN backlog[n] :
              i < j /\ backlog[n][i].from = backlog[n][j].from => backlog[n][i].gen < backlog[n][j].gen
        /\ accepted[n] # NoConn =>
              /\ Names(accepted[n])
              /\ accepted[n].uuid = Uuid(n) /\ accepted[n].from = PrevMember(Uuid(n), n)
              /\ \A i \in DOMAIN backlog[n] :
                    backlog[n][i].from = accepted[n].from => accepted[n].gen < backlog[n][i].gen

\* A committed group is connected to an attempt of its predecessor at the same ring.
PeerInv ==
    \A m \in Members :
        Several(m) => LET p == PrevMember(uuid[m], m)
                      IN  inPeer[m] \in 1..Len(tries[p]) /\ tries[p][inPeer[m]] = uuid[m]

\* The attempt of its successor that has answered m's, for as long as m goes by it.
Answer(m) == IF place[m] # 0 THEN response[m] ELSE IF Several(m) THEN outPeer[m] ELSE 0

\* The successor's attempt that answered has accepted m's last attempt, and no
\* later attempt of it can accept one of m at this ring.
AnswerInv ==
    \A m \in Members :
        Answer(m) # 0 =>
            LET u == Uuid(m)
                n == NextMember(u, m)
            IN  /\ place[m] # 1
                /\ Answer(m) \in 1..Len(tries[n]) /\ tries[n][Answer(m)] = u
                /\ \A i \in DOMAIN backlog[n] : ~ (backlog[n][i].from = m /\ backlog[n][i].uuid = u)
                /\ accepted[n] # NoConn /\ accepted[n].from = m /\ accepted[n].uuid = u =>
                        Answer(m) = Gen(n) /\ accepted[n].gen = Gen(m)
                /\ uuid[n] = u => Answer(m) = Gen(n) /\ inPeer[n] = Gen(m)

\* CommittedPairs, made inductive.
PairInv == GroupTypes /\ AttemptInv /\ BacklogInv /\ PeerInv /\ AnswerInv
-----------------------------------------------------------------------------
(* The ring and the attempts. *)

\* Where a member stands in its ring.
LEMMA RankOf ==
    ASSUME NEW u, NEW m, RingOf(u, m)
    PROVE  /\ Len(Ring[u]) \in Nat /\ Len(Ring[u]) > 1
           /\ RankIn(u, m) \in 1..Len(Ring[u]) /\ Ring[u][RankIn(u, m)] = m
           /\ \A i \in 1..Len(Ring[u]) : Ring[u][i] \in Members
                   /\ RankIn(u, Ring[u][i]) = i /\ RingOf(u, Ring[u][i])
<1>1. u \in Uuids /\ Ring[u] \in Seq(Members) /\ IsInjective(Ring[u])
  BY ReconfigureAssumption DEF RingOf
<1>2. DOMAIN Ring[u] = 1..Len(Ring[u]) /\ Len(Ring[u]) \in Nat
  BY <1>1, LenProperties
<1>3. \A i, j \in 1..Len(Ring[u]) : Ring[u][i] = Ring[u][j] => i = j
  BY <1>1, <1>2 DEF IsInjective
<1>4. \E i \in 1..Len(Ring[u]) : Ring[u][i] = m
  BY <1>2 DEF RingOf, Range
<1>5. RankIn(u, m) \in 1..Len(Ring[u]) /\ Ring[u][RankIn(u, m)] = m
  BY <1>4 DEF RankIn
<1>6. ASSUME NEW i \in 1..Len(Ring[u]) PROVE RankIn(u, Ring[u][i]) = i
  <2>1. \E j \in 1..Len(Ring[u]) : Ring[u][j] = Ring[u][i]
    OBVIOUS
  <2>2. RankIn(u, Ring[u][i]) \in 1..Len(Ring[u]) /\ Ring[u][RankIn(u, Ring[u][i])] = Ring[u][i]
    BY <2>1 DEF RankIn
  <2> QED BY <1>3, <2>2
<1>7. ASSUME NEW i \in 1..Len(Ring[u]) PROVE Ring[u][i] \in Members /\ RingOf(u, Ring[u][i])
  BY <1>1, <1>2 DEF RingOf, Range
<1> QED BY <1>2, <1>5, <1>6, <1>7 DEF RingOf

\* One round of a ring of n places.
LEMMA Rounds ==
    ASSUME NEW n \in Nat, n > 1, NEW r \in 1..n
    PROVE  /\ (r % n) + 1 = IF r = n THEN 1 ELSE r + 1
           /\ ((r + n - 2) % n) + 1 = IF r = 1 THEN n ELSE r - 1
<1>1. (r % n) + 1 = IF r = n THEN 1 ELSE r + 1
  <2>1. CASE r = n
    <3>1. n % n = 0
      OBVIOUS
    <3> QED BY <2>1, <3>1
  <2>2. CASE r # n
    <3>1. r \in 0..(n - 1)
      BY <2>2
    <3>2. r % n = r
      BY <3>1
    <3> QED BY <2>2, <3>2
  <2> QED BY <2>1, <2>2
<1>2. ((r + n - 2) % n) + 1 = IF r = 1 THEN n ELSE r - 1
  <2>1. CASE r = 1
    <3>1. r + n - 2 = n - 1 /\ n - 1 \in 0..(n - 1)
      BY <2>1
    <3>2. (n - 1) % n = n - 1
      BY <3>1
    <3> QED BY <2>1, <3>1, <3>2
  <2>2. CASE r # 1
    <3> DEFINE k == r - 2
    <3>1. k \in 0..(n - 1) /\ r + n - 2 = k + n /\ k + 1 = r - 1
      BY <2>2
    <3> HIDE DEF k
    <3>2. (k + n) % n = k
      BY <3>1
    <3> QED BY <2>2, <3>1, <3>2
  <2> QED BY <2>1, <2>2
<1> QED BY <1>1, <1>2

\* The successor of the predecessor, and the other way round.
LEMMA Neighbours ==
    ASSUME NEW u, NEW m, RingOf(u, m)
    PROVE  /\ NextMember(u, m) \in Members /\ PrevMember(u, m) \in Members
           /\ PrevMember(u, NextMember(u, m)) = m /\ NextMember(u, PrevMember(u, m)) = m
           /\ RingOf(u, NextMember(u, m)) /\ RingOf(u, PrevMember(u, m))
<1> DEFINE n == Len(Ring[u])
           r == RankIn(u, m)
           a == (r % n) + 1
           b == ((r + n - 2) % n) + 1
<1>1. /\ n \in Nat /\ n > 1 /\ r \in 1..n /\ Ring[u][r] = m
      /\ \A i \in 1..n : Ring[u][i] \in Members /\ RankIn(u, Ring[u][i]) = i /\ RingOf(u, Ring[u][i])
  BY RankOf
<1>2. NextMember(u, m) = Ring[u][a] /\ PrevMember(u, m) = Ring[u][b]
  BY DEF NextMember, PrevMember
<1>3. /\ PrevMember(u, Ring[u][a]) = Ring[u][((RankIn(u, Ring[u][a]) + n - 2) % n) + 1]
      /\ NextMember(u, Ring[u][b]) = Ring[u][(RankIn(u, Ring[u][b]) % n) + 1]
  BY DEF NextMember, PrevMember
<1> HIDE DEF n, r
<1>4. /\ a = IF r = n THEN 1 ELSE r + 1
      /\ b = IF r = 1 THEN n ELSE r - 1
  BY <1>1, Rounds
<1> HIDE DEF a, b
<1>5. a \in 1..n /\ b \in 1..n
  <2>1. a \in 1..n
    <3>1. CASE r = n
      BY <1>1, <1>4, <3>1
    <3>2. CASE r # n
      BY <1>1, <1>4, <3>2
    <3> QED BY <3>1, <3>2
  <2>2. b \in 1..n
    <3>1. CASE r = 1
      BY <1>1, <1>4, <3>1
    <3>2. CASE r # 1
      BY <1>1, <1>4, <3>2
    <3> QED BY <3>1, <3>2
  <2> QED BY <2>1, <2>2
<1>6. ((a + n - 2) % n) + 1 = r
  <2>1. ((a + n - 2) % n) + 1 = IF a = 1 THEN n ELSE a - 1
    BY <1>1, <1>5, Rounds
  <2>2. CASE r = n
    BY <1>1, <1>4, <2>1, <2>2
  <2>3. CASE r # n
    BY <1>1, <1>4, <2>1, <2>3
  <2> QED BY <2>2, <2>3
<1>7. (b % n) + 1 = r
  <2>1. (b % n) + 1 = IF b = n THEN 1 ELSE b + 1
    BY <1>1, <1>5, Rounds
  <2>2. CASE r = 1
    BY <1>1, <1>4, <2>1, <2>2
  <2>3. CASE r # 1
    BY <1>1, <1>4, <2>1, <2>3
  <2> QED BY <2>2, <2>3
<1> QED BY <1>1, <1>2, <1>3, <1>5, <1>6, <1>7

\* The steps of an attempt by their places.
LEMMA Places ==
    ASSUME GroupTypes, NEW m \in Members
    PROVE  /\ At(m) = "connect" => place[m] = 1
           /\ At(m) = "send" => place[m] = 2
           /\ At(m) = "accept" => place[m] = 3
           /\ At(m) = "respond" => place[m] = 4
           /\ At(m) = "await" => place[m] = 5
           /\ At(m) \in TimesOut => place[m] # 0
<1>1. place[m] \in 0..5
  BY DEF GroupTypes
<1>2. place[m] = 0 \/ place[m] = 1 \/ place[m] = 2 \/ place[m] = 3 \/ place[m] = 4 \/ place[m] = 5
  BY <1>1
<1> QED BY <1>2 DEF At, Order, TimesOut

\* The uuid of the last attempt.
LEMMA LastTry ==
    ASSUME GroupTypes, NEW m \in Members, tries[m] # <<>>
    PROVE  /\ Len(tries[m]) \in Nat \ {0} /\ Gen(m) = Len(tries[m])
           /\ Uuid(m) = tries[m][Len(tries[m])] /\ Uuid(m) \in Uuids
<1>1. tries[m] \in Seq(Uuids)
  BY DEF GroupTypes
<1>2. Len(tries[m]) \in Nat \ {0}
  BY <1>1, EmptySeq, LenProperties
<1>3. tries[m][Len(tries[m])] \in Uuids
  BY <1>1, <1>2, ElementOfSeq
<1> QED BY <1>2, <1>3 DEF Gen, Uuid, Last

\* Nothing that belongs to x changes, but perhaps its backlog.
Same(x) ==
    /\ place'[x] = place[x] /\ tries'[x] = tries[x] /\ uuid'[x] = uuid[x] /\ closed'[x] = closed[x]
    /\ live'[x] = live[x] /\ outPeer'[x] = outPeer[x] /\ inPeer'[x] = inPeer[x]
    /\ accepted'[x] = accepted[x] /\ response'[x] = response[x]

\* What is derived from it does not change either.
LEMMA SameGives ==
    ASSUME NEW x, Same(x)
    PROVE  /\ Uuid(x)' = Uuid(x) /\ Gen(x)' = Gen(x) /\ Several(x)' = Several(x)
           /\ Answer(x)' = Answer(x)
BY DEF Same, Uuid, Gen, Several, Answer

\* Attempts are only added; one that has not connected is new or was not connected before.
Grows ==
    \A x \in Members :
        /\ Len(tries[x]) <= Len(tries'[x]) /\ \A i \in 1..Len(tries[x]) : tries'[x][i] = tries[x][i]
        /\ place'[x] = 1 => place[x] = 1 \/ Len(tries'[x]) # Len(tries[x])

\* A connection keeps naming its attempt.
LEMMA NamesKeep ==
    ASSUME GroupTypes, Grows, GroupTypes', NEW c \in ConnType, Names(c)
    PROVE  /\ c.gen \in 1..Len(tries'[c.from]) /\ tries'[c.from][c.gen] = c.uuid
           /\ place'[c.from] = 1 => c.gen # Len(tries'[c.from])
<1> DEFINE x == c.from
           a == Len(tries[x])
           b == Len(tries'[x])
<1>1. x \in Members
  BY DEF ConnType
<1>2. a \in Nat /\ b \in Nat
  BY <1>1 DEF GroupTypes
<1>3. /\ a <= b /\ \A i \in 1..a : tries'[x][i] = tries[x][i]
      /\ place'[x] = 1 => place[x] = 1 \/ b # a
  BY <1>1 DEF Grows
<1>4. c.gen \in 1..a /\ tries[x][c.gen] = c.uuid /\ (place[x] = 1 => c.gen # a)
  BY DEF Names
<1>5. tries'[x][c.gen] = c.uuid
  BY <1>3, <1>4
<1> HIDE DEF a, b, x
<1>6. c.gen \in 1..b /\ (place'[x] = 1 => c.gen # b)
  BY <1>2, <1>3, <1>4
<1> QED BY <1>5, <1>6 DEF a, b, x
-----------------------------------------------------------------------------
(* The steps. *)

\* The types of what a member has.
LEMMA MemberTypes ==
    ASSUME GroupTypes, NEW x \in Members
    PROVE  /\ tries[x] \in Seq(Uuids) /\ Len(tries[x]) \in Nat
           /\ backlog[x] \in Seq(ConnType) /\ DOMAIN backlog[x] = 1..Len(backlog[x])
           /\ Len(backlog[x]) \in Nat /\ \A i \in DOMAIN backlog[x] : backlog[x][i] \in ConnType
<1>1. tries[x] \in Seq(Uuids) /\ backlog[x] \in Seq(ConnType)
  BY DEF GroupTypes
<1> QED BY <1>1, LenProperties, ElementOfSeq

\* The same after a step.
LEMMA MemberTypesNext ==
    (GroupTypes => \A x \in Members :
        /\ tries[x] \in Seq(Uuids) /\ Len(tries[x]) \in Nat
        /\ backlog[x] \in Seq(ConnType) /\ DOMAIN backlog[x] = 1..Len(backlog[x])
        /\ Len(backlog[x]) \in Nat /\ \A i \in DOMAIN backlog[x] : backlog[x][i] \in ConnType)'
<1>1. GroupTypes => \A x \in Members :
        /\ tries[x] \in Seq(Uuids) /\ Len(tries[x]) \in Nat
        /\ backlog[x] \in Seq(ConnType) /\ DOMAIN backlog[x] = 1..Len(backlog[x])
        /\ Len(backlog[x]) \in Nat /\ \A i \in DOMAIN backlog[x] : backlog[x][i] \in ConnType
  BY MemberTypes
<1> QED BY <1>1, PTL

\* Who goes by an answer is in a ring.
LEMMA AnswerRing ==
    ASSUME AttemptInv, NEW x \in Members, Answer(x) # 0
    PROVE  tries[x] # <<>> /\ RingOf(Uuid(x), x)
BY DEF AttemptInv, Answer

\* A member begins or ends an attempt, or gives up its ring.
LEMMA ResetStep ==
    ASSUME PairInv, GroupTypes', NEW m \in Members, Grows, \A x \in Members : x # m => Same(x),
           backlog' = backlog, accepted'[m] = NoConn, response'[m] = 0, ~ Several(m)',
           place'[m] # 0 => /\ place'[m] = 1 /\ tries'[m] # <<>> /\ RingOf(Uuid(m)', m)
                            /\ uuid'[m] = NoUuid /\ live'[m] = Gen(m)'
    PROVE  PairInv'
<1>1. GroupTypes /\ AttemptInv /\ BacklogInv /\ PeerInv /\ AnswerInv
  BY DEF PairInv
<1>2. AttemptInv'
  <2> SUFFICES ASSUME NEW x \in Members
               PROVE  /\ place'[x] # 0 => /\ tries'[x] # <<>> /\ RingOf(Uuid(x)', x)
                                          /\ uuid'[x] = NoUuid /\ live'[x] = Gen(x)'
                      /\ place'[x] = 0 => accepted'[x] = NoConn /\ response'[x] = 0
                      /\ place'[x] \in {4, 5} => accepted'[x] # NoConn
                      /\ Several(x)' => /\ place'[x] = 0 /\ tries'[x] # <<>> /\ uuid'[x] = Uuid(x)'
                                        /\ RingOf(uuid'[x], x) /\ (~ closed'[x] => live'[x] = Gen(x)')
                                        /\ outPeer'[x] # 0
    BY DEF AttemptInv, RingOf
  <2>1. CASE x = m
    BY <2>1
  <2>2. CASE x # m
    <3>1. Same(x)
      BY <2>2
    <3>2. Uuid(x)' = Uuid(x) /\ Gen(x)' = Gen(x) /\ Several(x)' = Several(x)
      BY <3>1, SameGives
    <3> QED BY <1>1, <3>1, <3>2 DEF AttemptInv, Same
  <2> QED BY <2>1, <2>2
<1>3. BacklogInv'
  <2> SUFFICES ASSUME NEW n \in Members
      PROVE  /\ \A i \in DOMAIN backlog[n] : Names(backlog[n][i])'
             /\ \A i, j \in DOMAIN backlog[n] :
                    i < j /\ backlog[n][i].from = backlog[n][j].from => backlog[n][i].gen < backlog[n][j].gen
             /\ accepted'[n] # NoConn =>
                    /\ Names(accepted[n])'
                    /\ accepted'[n].uuid = Uuid(n)' /\ accepted'[n].from = PrevMember(Uuid(n)', n)
                    /\ \A i \in DOMAIN backlog[n] :
                          backlog[n][i].from = accepted'[n].from => accepted'[n].gen < backlog[n][i].gen
    BY DEF BacklogInv, PrevMember, RankIn
  <2>1. \A i \in DOMAIN backlog[n] : Names(backlog[n][i])'
    <3> TAKE i \in DOMAIN backlog[n]
    <3>1. backlog[n][i] \in ConnType /\ Names(backlog[n][i])
      BY <1>1, MemberTypes DEF BacklogInv
    <3> QED BY <1>1, <3>1, NamesKeep DEF Names
  <2>2. \A i, j \in DOMAIN backlog[n] :
            i < j /\ backlog[n][i].from = backlog[n][j].from => backlog[n][i].gen < backlog[n][j].gen
    BY <1>1 DEF BacklogInv
  <2>3. ASSUME accepted'[n] # NoConn
        PROVE  /\ Names(accepted[n])'
               /\ accepted'[n].uuid = Uuid(n)' /\ accepted'[n].from = PrevMember(Uuid(n)', n)
               /\ \A i \in DOMAIN backlog[n] :
                     backlog[n][i].from = accepted'[n].from => accepted'[n].gen < backlog[n][i].gen
    <3>1. Same(n)
      BY <2>3
    <3>2. accepted'[n] = accepted[n] /\ Uuid(n)' = Uuid(n)
      BY <3>1, SameGives DEF Same
    <3>3. accepted[n] \in ConnType /\ Names(accepted[n])
      BY <1>1, <2>3, <3>2 DEF GroupTypes, BacklogInv
    <3>4. Names(accepted[n])'
      BY <1>1, <3>2, <3>3, NamesKeep DEF Names
    <3> QED BY <1>1, <2>3, <3>2, <3>4 DEF BacklogInv
  <2> QED BY <2>1, <2>2, <2>3
<1>4. PeerInv'
  <2> SUFFICES ASSUME NEW x \in Members, Several(x)'
               PROVE  LET p == PrevMember(uuid'[x], x)
                      IN  inPeer'[x] \in 1..Len(tries'[p]) /\ tries'[p][inPeer'[x]] = uuid'[x]
    BY DEF PeerInv, PrevMember, RankIn
  <2>1. Same(x)
    OBVIOUS
  <2>2. Several(x) /\ uuid'[x] = uuid[x] /\ inPeer'[x] = inPeer[x]
    BY <2>1, SameGives DEF Same
  <2> DEFINE p == PrevMember(uuid[x], x)
  <2>3. p \in Members
    BY <1>1, <2>2, Neighbours DEF AttemptInv
  <2>4. inPeer[x] \in 1..Len(tries[p]) /\ tries[p][inPeer[x]] = uuid[x]
    BY <1>1, <2>2 DEF PeerInv
  <2> HIDE DEF p
  <2>5. inPeer[x] \in 1..Len(tries'[p]) /\ tries'[p][inPeer[x]] = uuid[x]
    <3> DEFINE a == Len(tries[p])
               b == Len(tries'[p])
    <3>1. a \in Nat /\ b \in Nat /\ a <= b
      BY <1>1, <2>3, MemberTypes, MemberTypesNext DEF Grows
    <3>2. inPeer[x] \in 1..a /\ tries'[p][inPeer[x]] = uuid[x]
      BY <2>3, <2>4 DEF Grows
    <3> HIDE DEF a, b
    <3>3. inPeer[x] \in 1..b
      BY <3>1, <3>2
    <3> QED BY <3>2, <3>3 DEF b
  <2> QED BY <2>2, <2>5 DEF p
<1>5. AnswerInv'
  <2> SUFFICES ASSUME NEW x \in Members, Answer(x)' # 0, NEW u, u = Uuid(x)', NEW n, n = NextMember(u, x)
      PROVE  /\ place'[x] # 1
             /\ Answer(x)' \in 1..Len(tries'[n]) /\ tries'[n][Answer(x)'] = u
             /\ \A i \in DOMAIN backlog'[n] : ~ (backlog'[n][i].from = x /\ backlog'[n][i].uuid = u)
             /\ accepted'[n] # NoConn /\ accepted'[n].from = x /\ accepted'[n].uuid = u =>
                    Answer(x)' = Len(tries'[n]) /\ accepted'[n].gen = Len(tries'[x])
             /\ uuid'[n] = u => Answer(x)' = Len(tries'[n]) /\ inPeer'[n] = Len(tries'[x])
    BY DEF AnswerInv, Uuid, Gen
  <2>1. x # m
    BY DEF Answer
  <2>2. Same(x)
    BY <2>1
  <2>3. Answer(x)' = Answer(x) /\ u = Uuid(x) /\ tries'[x] = tries[x] /\ place'[x] = place[x]
    BY <2>2, SameGives DEF Same
  <2> DEFINE h == Answer(x)
  <2>4. RingOf(u, x) /\ n \in Members
    BY <1>1, <2>3, AnswerRing, Neighbours
  <2>5. /\ place[x] # 1
        /\ h \in 1..Len(tries[n]) /\ tries[n][h] = u
        /\ \A i \in DOMAIN backlog[n] : ~ (backlog[n][i].from = x /\ backlog[n][i].uuid = u)
        /\ accepted[n] # NoConn /\ accepted[n].from = x /\ accepted[n].uuid = u =>
               h = Len(tries[n]) /\ accepted[n].gen = Len(tries[x])
        /\ uuid[n] = u => h = Len(tries[n]) /\ inPeer[n] = Len(tries[x])
    BY <1>1, <2>3 DEF AnswerInv, Gen
  <2> HIDE DEF h
  <2>6. h \in 1..Len(tries'[n]) /\ tries'[n][h] = u
    <3> DEFINE a == Len(tries[n])
               b == Len(tries'[n])
    <3>1. a \in Nat /\ b \in Nat /\ a <= b
      BY <1>1, <2>4, MemberTypes, MemberTypesNext DEF Grows
    <3>2. h \in 1..a /\ tries'[n][h] = u
      BY <2>4, <2>5 DEF Grows
    <3> HIDE DEF a, b
    <3>3. h \in 1..b
      BY <3>1, <3>2
    <3> QED BY <3>2, <3>3 DEF b
  <2>7. CASE n = m
    <3>1. uuid'[m] # u
      BY <2>4, ReconfigureAssumption DEF RingOf, Several, NoUuid
    <3> QED BY <2>3, <2>5, <2>6, <2>7, <3>1 DEF h
  <2>8. CASE n # m
    <3>1. Same(n)
      BY <2>4, <2>8
    <3> QED BY <2>3, <2>5, <2>6, <3>1 DEF h, Same
  <2> QED BY <2>7, <2>8
<1> QED BY <1>2, <1>3, <1>4, <1>5 DEF PairInv

\* A step on the network keeps what belongs to attempts and commits.
LEMMA NetStep ==
    ASSUME PairInv, NEW m \in Members, place[m] # 0, place'[m] # 0,
           UNCHANGED <<tries, uuid, closed, live, outPeer, inPeer>>,
           \A x \in Members : x # m => place'[x] = place[x] /\ accepted'[x] = accepted[x],
           \A x \in Members : place[x] = 0 => response'[x] = 0,
           place'[m] \in {4, 5} => accepted'[m] # NoConn
    PROVE  AttemptInv' /\ PeerInv'
<1>1. GroupTypes /\ AttemptInv /\ PeerInv
  BY DEF PairInv
<1>2. AttemptInv'
  <2> SUFFICES ASSUME NEW x \in Members
               PROVE  /\ place'[x] # 0 => /\ tries'[x] # <<>> /\ RingOf(Uuid(x)', x)
                                          /\ uuid'[x] = NoUuid /\ live'[x] = Gen(x)'
                      /\ place'[x] = 0 => accepted'[x] = NoConn /\ response'[x] = 0
                      /\ place'[x] \in {4, 5} => accepted'[x] # NoConn
                      /\ Several(x)' => /\ place'[x] = 0 /\ tries'[x] # <<>> /\ uuid'[x] = Uuid(x)'
                                        /\ RingOf(uuid'[x], x) /\ (~ closed'[x] => live'[x] = Gen(x)')
                                        /\ outPeer'[x] # 0
    BY DEF AttemptInv, RingOf
  <2>1. Uuid(x)' = Uuid(x) /\ Gen(x)' = Gen(x) /\ Several(x)' = Several(x)
    BY DEF Uuid, Gen, Several
  <2>2. CASE x = m
    BY <1>1, <2>1, <2>2 DEF AttemptInv
  <2>3. CASE x # m
    BY <1>1, <2>1, <2>3 DEF AttemptInv
  <2> QED BY <2>2, <2>3
<1>3. PeerInv'
  BY <1>1 DEF PeerInv, Several
<1> QED BY <1>2, <1>3

\* Nobody's answer changes, and nobody gets a new one to choose from.
LEMMA AnswersStay ==
    ASSUME PairInv, UNCHANGED <<tries, uuid, inPeer>>,
           \A x \in Members : Answer(x)' = Answer(x) /\ (Answer(x) # 0 => place'[x] # 1),
           NEW m \in Members,
           \A x \in Members : x # m => accepted'[x] = accepted[x],
           \A n \in Members : \A i \in DOMAIN backlog'[n] :
               \/ Answer(backlog'[n][i].from) = 0
               \/ \E j \in DOMAIN backlog[n] : /\ backlog[n][j].from = backlog'[n][i].from
                                               /\ backlog[n][j].uuid = backlog'[n][i].uuid,
           \/ accepted'[m] = NoConn \/ accepted'[m] = accepted[m]
           \/ \E j \in DOMAIN backlog[m] : backlog[m][j] = accepted'[m]
    PROVE  AnswerInv'
<1>1. GroupTypes /\ AttemptInv /\ AnswerInv
  BY DEF PairInv
<1> SUFFICES ASSUME NEW x \in Members, Answer(x)' # 0, NEW u, u = Uuid(x)', NEW n, n = NextMember(u, x)
    PROVE  /\ place'[x] # 1
           /\ Answer(x)' \in 1..Len(tries'[n]) /\ tries'[n][Answer(x)'] = u
           /\ \A i \in DOMAIN backlog'[n] : ~ (backlog'[n][i].from = x /\ backlog'[n][i].uuid = u)
           /\ accepted'[n] # NoConn /\ accepted'[n].from = x /\ accepted'[n].uuid = u =>
                  Answer(x)' = Len(tries'[n]) /\ accepted'[n].gen = Len(tries'[x])
           /\ uuid'[n] = u => Answer(x)' = Len(tries'[n]) /\ inPeer'[n] = Len(tries'[x])
  BY DEF AnswerInv, Uuid, Gen
<1>2. Answer(x)' = Answer(x) /\ u = Uuid(x) /\ Answer(x) # 0
  BY DEF Uuid
<1>3. n \in Members
  BY <1>1, <1>2, AnswerRing, Neighbours
<1>4. /\ Answer(x) \in 1..Len(tries[n]) /\ tries[n][Answer(x)] = u
      /\ \A i \in DOMAIN backlog[n] : ~ (backlog[n][i].from = x /\ backlog[n][i].uuid = u)
      /\ accepted[n] # NoConn /\ accepted[n].from = x /\ accepted[n].uuid = u =>
             Answer(x) = Len(tries[n]) /\ accepted[n].gen = Len(tries[x])
      /\ uuid[n] = u => Answer(x) = Len(tries[n]) /\ inPeer[n] = Len(tries[x])
  BY <1>1, <1>2 DEF AnswerInv, Gen
<1>5. \A i \in DOMAIN backlog'[n] : ~ (backlog'[n][i].from = x /\ backlog'[n][i].uuid = u)
  BY <1>2, <1>3, <1>4
<1>6. accepted'[n] # NoConn /\ accepted'[n].from = x /\ accepted'[n].uuid = u =>
          Answer(x) = Len(tries[n]) /\ accepted'[n].gen = Len(tries[x])
  BY <1>3, <1>4
<1> QED BY <1>2, <1>4, <1>5, <1>6

\* m connects to its successor.
LEMMA ConnectStep ==
    ASSUME PairInv, NEW m \in Members, Connect(m)
    PROVE  PairInv'
<1>1. GroupTypes /\ AttemptInv /\ BacklogInv /\ PeerInv /\ AnswerInv
  BY DEF PairInv
<1> DEFINE s == Successor(m)
           c == Conn(m, FALSE)
           L == Len(tries[m])
<1>2. place[m] = 1 /\ place' = [place EXCEPT ![m] = @ + 1] /\ place \in [Members -> 0..5]
  BY <1>1, Places DEF Connect, Forward, GroupTypes
<1>3. /\ place' \in [Members -> 0..5] /\ place'[m] = 2
      /\ \A x \in Members : x # m => place'[x] = place[x]
  BY <1>2
<1>4. tries[m] # <<>> /\ RingOf(Uuid(m), m)
  BY <1>1, <1>2 DEF AttemptInv
<1>5. L \in Nat \ {0} /\ Uuid(m) = tries[m][L] /\ Uuid(m) \in Uuids
  BY <1>1, <1>4, LastTry
<1>6. c \in ConnType /\ c.from = m /\ c.gen = L /\ c.uuid = tries[m][L]
  BY <1>5 DEF Conn, ConnType, LaneInfos, Uuid
<1>7. s \in Members
  BY <1>4, Neighbours DEF Successor
<1>8. backlog' = [backlog EXCEPT ![s] = Append(backlog[s], c)]
      /\ UNCHANGED <<tries, used, uuid, failed, closed, live, outPeer, inPeer, accepted, response>>
  BY DEF Connect, groupVars
<1> HIDE DEF s, c, L
<1> DEFINE b == backlog[s]
           k == Len(backlog[s])
<1>9. b \in Seq(ConnType) /\ k \in Nat /\ DOMAIN b = 1..k /\ \A i \in DOMAIN b : b[i] \in ConnType
  BY <1>1, <1>7, MemberTypes
<1>10. /\ Append(b, c) \in Seq(ConnType) /\ DOMAIN Append(b, c) = 1..(k + 1)
       /\ \A i \in 1..k : Append(b, c)[i] = b[i]
       /\ Append(b, c)[k + 1] = c
  BY <1>6, <1>9, AppendProperties, LenProperties
<1>11. /\ backlog'[s] = Append(b, c) /\ backlog' \in [Members -> Seq(ConnType)]
       /\ \A n \in Members : n # s => backlog'[n] = backlog[n]
  <2>1. backlog \in [Members -> Seq(ConnType)]
    BY <1>1 DEF GroupTypes
  <2> QED BY <1>7, <1>8, <1>10, <2>1
<1> HIDE DEF b, k
<1>12. /\ DOMAIN backlog'[s] = 1..(k + 1) /\ (\A i \in 1..k : backlog'[s][i] = b[i]) /\ backlog'[s][k + 1] = c
       /\ \A i \in 1..(k + 1) : i \in 1..k \/ i = k + 1
  BY <1>9, <1>10, <1>11
<1>13. GroupTypes'
  BY <1>1, <1>3, <1>8, <1>11 DEF GroupTypes
<1>14. AttemptInv' /\ PeerInv'
  <2>1. \A x \in Members : place[x] = 0 => response'[x] = 0
    BY <1>1, <1>8 DEF AttemptInv
  <2> QED BY <1>2, <1>3, <1>8, <2>1, NetStep
<1>15. Grows
  <2>1. \A x \in Members : Len(tries[x]) \in Nat
    BY <1>1, MemberTypes
  <2> QED BY <1>2, <1>3, <1>8, <2>1 DEF Grows
<1>16. \A d \in ConnType : d.from = m /\ Names(d) => d.gen < L
  <2> SUFFICES ASSUME NEW d \in ConnType, d.from = m, Names(d) PROVE d.gen < L
    OBVIOUS
  <2>1. d.gen \in 1..L /\ d.gen # L
    BY <1>2 DEF Names, L
  <2> QED BY <1>5, <2>1
<1>17. BacklogInv'
  <2> SUFFICES ASSUME NEW n \in Members
      PROVE  /\ \A i \in DOMAIN backlog'[n] : Names(backlog[n][i])'
             /\ \A i, j \in DOMAIN backlog'[n] :
                    i < j /\ backlog'[n][i].from = backlog'[n][j].from => backlog'[n][i].gen < backlog'[n][j].gen
             /\ accepted'[n] # NoConn =>
                    /\ Names(accepted[n])'
                    /\ accepted'[n].uuid = Uuid(n)' /\ accepted'[n].from = PrevMember(Uuid(n)', n)
                    /\ \A i \in DOMAIN backlog'[n] :
                          backlog'[n][i].from = accepted'[n].from => accepted'[n].gen < backlog'[n][i].gen
    BY DEF BacklogInv
  <2>1. Uuid(n)' = Uuid(n) /\ accepted'[n] = accepted[n]
    BY <1>8 DEF Uuid
  <2>2. ASSUME NEW d \in ConnType, Names(d)
        PROVE  /\ d.gen \in 1..Len(tries'[d.from]) /\ tries'[d.from][d.gen] = d.uuid
               /\ place'[d.from] = 1 => d.gen # Len(tries'[d.from])
    BY <1>1, <1>13, <1>15, <2>2, NamesKeep
  <2>3. /\ \A i \in DOMAIN backlog[n] : backlog[n][i] \in ConnType /\ Names(backlog[n][i])
        /\ \A i, j \in DOMAIN backlog[n] :
              i < j /\ backlog[n][i].from = backlog[n][j].from => backlog[n][i].gen < backlog[n][j].gen
        /\ accepted[n] # NoConn =>
              /\ accepted[n] \in ConnType /\ Names(accepted[n])
              /\ accepted[n].uuid = Uuid(n) /\ accepted[n].from = PrevMember(Uuid(n), n)
              /\ \A i \in DOMAIN backlog[n] :
                    backlog[n][i].from = accepted[n].from => accepted[n].gen < backlog[n][i].gen
    BY <1>1, MemberTypes DEF BacklogInv, GroupTypes
  <2>4. accepted'[n] # NoConn => Names(accepted[n])'
    BY <2>1, <2>2, <2>3 DEF Names
  <2>5. CASE n # s
    <3>1. backlog'[n] = backlog[n]
      BY <1>11, <2>5
    <3>2. \A i \in DOMAIN backlog'[n] : Names(backlog[n][i])'
      BY <2>2, <2>3, <3>1 DEF Names
    <3> QED BY <2>1, <2>3, <2>4, <3>1, <3>2
  <2>6. CASE n = s
    <3>1. /\ \A i \in 1..k : b[i] \in ConnType /\ Names(b[i]) /\ i \in DOMAIN b
          /\ \A i, j \in 1..k : i < j /\ b[i].from = b[j].from => b[i].gen < b[j].gen
      BY <1>9, <2>3, <2>6 DEF b
    <3>2. \A i \in DOMAIN backlog'[n] : Names(backlog[n][i])'
      <4> TAKE i \in DOMAIN backlog'[n]
      <4>1. CASE i \in 1..k
        BY <1>12, <2>2, <2>6, <3>1, <4>1 DEF Names
      <4>2. CASE i = k + 1
        <5>1. /\ c.gen \in 1..Len(tries'[c.from]) /\ tries'[c.from][c.gen] = c.uuid
              /\ place'[c.from] # 1
          BY <1>3, <1>5, <1>6, <1>8 DEF L
        <5> QED BY <1>12, <2>6, <4>2, <5>1 DEF Names
      <4> QED BY <1>12, <2>6, <4>1, <4>2
    <3>3. ASSUME NEW i \in DOMAIN backlog'[n], NEW j \in DOMAIN backlog'[n], i < j,
                 backlog'[n][i].from = backlog'[n][j].from
          PROVE  backlog'[n][i].gen < backlog'[n][j].gen
      <4>1. i \in 1..k
        BY <1>9, <1>12, <2>6, <3>3
      <4>2. CASE j \in 1..k
        BY <1>12, <2>6, <3>1, <3>3, <4>1, <4>2
      <4>3. CASE j = k + 1
        <5>1. b[i] \in ConnType /\ Names(b[i]) /\ b[i].from = m
          BY <1>6, <1>12, <2>6, <3>1, <3>3, <4>1, <4>3
        <5> QED BY <1>6, <1>12, <1>16, <2>6, <4>1, <4>3, <5>1
      <4> QED BY <1>12, <2>6, <4>2, <4>3
    <3>4. ASSUME accepted'[n] # NoConn, NEW i \in DOMAIN backlog'[n], backlog'[n][i].from = accepted'[n].from
          PROVE  accepted'[n].gen < backlog'[n][i].gen
      <4>1. CASE i \in 1..k
        BY <1>9, <1>12, <2>1, <2>3, <2>6, <3>4, <4>1 DEF b
      <4>2. CASE i = k + 1
        BY <1>6, <1>12, <1>16, <2>1, <2>3, <2>6, <3>4, <4>2
      <4> QED BY <1>12, <2>6, <4>1, <4>2
    <3> QED BY <2>1, <2>3, <2>4, <3>2, <3>3, <3>4
  <2> QED BY <2>5, <2>6
<1>18. AnswerInv'
  <2>1. \A x \in Members : Answer(x)' = Answer(x)
    BY <1>2, <1>3, <1>8 DEF Answer, Several
  <2>2. Answer(m) = 0
    BY <1>1, <1>2 DEF AnswerInv
  <2>3. \A x \in Members : Answer(x) # 0 => place'[x] # 1
    BY <1>1, <1>3, <2>2 DEF AnswerInv
  <2>4. \A n \in Members : \A i \in DOMAIN backlog'[n] :
               \/ Answer(backlog'[n][i].from) = 0
               \/ \E j \in DOMAIN backlog[n] : /\ backlog[n][j].from = backlog'[n][i].from
                                               /\ backlog[n][j].uuid = backlog'[n][i].uuid
    <3> TAKE n \in Members
    <3> TAKE i \in DOMAIN backlog'[n]
    <3>1. CASE n # s
      BY <1>11, <3>1
    <3>2. CASE n = s /\ i \in 1..k
      BY <1>9, <1>12, <3>2 DEF b
    <3>3. CASE n = s /\ i = k + 1
      BY <1>6, <1>12, <2>2, <3>3
    <3> QED BY <1>12, <3>1, <3>2, <3>3
  <2> QED BY <1>8, <2>1, <2>3, <2>4, AnswersStay
<1> QED BY <1>13, <1>14, <1>17, <1>18 DEF PairInv

\* The backlog of n has lost its first d connections; some may have been sent.
Shifted(n, d) ==
    \A i \in DOMAIN backlog'[n] :
        /\ i + d \in DOMAIN backlog[n]
        /\ backlog'[n][i].from = backlog[n][i + d].from /\ backlog'[n][i].gen = backlog[n][i + d].gen
        /\ backlog'[n][i].uuid = backlog[n][i + d].uuid

\* n has accepted the first connection of its backlog.
Accepts(n) ==
    /\ 1 \in DOMAIN backlog[n] /\ accepted'[n] = backlog[n][1] /\ Shifted(n, 1)
    /\ accepted'[n].uuid = Uuid(n)' /\ accepted'[n].from = PrevMember(Uuid(n)', n)

\* Steps that take connections at the front.
LEMMA BacklogKept ==
    ASSUME PairInv, GroupTypes', Grows,
           \A n \in Members : Shifted(n, 0) \/ Shifted(n, 1),
           \A n \in Members : accepted'[n] # NoConn =>
               Accepts(n) \/ (accepted'[n] = accepted[n] /\ Uuid(n)' = Uuid(n))
    PROVE  BacklogInv'
<1>1. GroupTypes /\ BacklogInv
  BY DEF PairInv
<1> SUFFICES ASSUME NEW n \in Members
    PROVE  /\ \A i \in DOMAIN backlog'[n] : Names(backlog[n][i])'
           /\ \A i, j \in DOMAIN backlog'[n] :
                  i < j /\ backlog'[n][i].from = backlog'[n][j].from => backlog'[n][i].gen < backlog'[n][j].gen
           /\ accepted'[n] # NoConn =>
                  /\ Names(accepted[n])'
                  /\ accepted'[n].uuid = Uuid(n)' /\ accepted'[n].from = PrevMember(Uuid(n)', n)
                  /\ \A i \in DOMAIN backlog'[n] :
                        backlog'[n][i].from = accepted'[n].from => accepted'[n].gen < backlog'[n][i].gen
  BY DEF BacklogInv
<1>2. ASSUME NEW c \in ConnType, Names(c)
      PROVE  /\ c.gen \in 1..Len(tries'[c.from]) /\ tries'[c.from][c.gen] = c.uuid
             /\ place'[c.from] = 1 => c.gen # Len(tries'[c.from])
  BY <1>1, <1>2, NamesKeep
<1>3. /\ \A i \in DOMAIN backlog[n] : backlog[n][i] \in ConnType /\ Names(backlog[n][i])
      /\ \A i, j \in DOMAIN backlog[n] :
            i < j /\ backlog[n][i].from = backlog[n][j].from => backlog[n][i].gen < backlog[n][j].gen
      /\ accepted[n] # NoConn =>
            /\ accepted[n] \in ConnType /\ Names(accepted[n])
            /\ accepted[n].uuid = Uuid(n) /\ accepted[n].from = PrevMember(Uuid(n), n)
            /\ \A i \in DOMAIN backlog[n] :
                  backlog[n][i].from = accepted[n].from => accepted[n].gen < backlog[n][i].gen
  BY <1>1, MemberTypes DEF BacklogInv, GroupTypes
<1>4. DOMAIN backlog'[n] \subseteq Nat \ {0}
  <2>1. DOMAIN backlog'[n] = 1..Len(backlog'[n]) /\ Len(backlog'[n]) \in Nat
    BY MemberTypesNext
  <2> QED BY <2>1
<1>5. ASSUME NEW d \in {0, 1}, Shifted(n, d)
      PROVE  /\ \A i \in DOMAIN backlog'[n] : Names(backlog[n][i])'
             /\ \A i, j \in DOMAIN backlog'[n] :
                    i < j /\ backlog'[n][i].from = backlog'[n][j].from => backlog'[n][i].gen < backlog'[n][j].gen
  <2>1. ASSUME NEW i \in DOMAIN backlog'[n] PROVE Names(backlog[n][i])'
    <3> DEFINE c == backlog[n][i + d]
    <3>1. c \in ConnType /\ Names(c) /\ backlog'[n][i].from = c.from /\ backlog'[n][i].gen = c.gen
          /\ backlog'[n][i].uuid = c.uuid
      BY <1>3, <1>5 DEF Shifted
    <3> HIDE DEF c
    <3>2. /\ c.gen \in 1..Len(tries'[c.from]) /\ tries'[c.from][c.gen] = c.uuid
          /\ place'[c.from] = 1 => c.gen # Len(tries'[c.from])
      BY <1>2, <3>1
    <3> QED BY <3>1, <3>2 DEF Names
  <2>2. ASSUME NEW i \in DOMAIN backlog'[n], NEW j \in DOMAIN backlog'[n], i < j,
               backlog'[n][i].from = backlog'[n][j].from
        PROVE  backlog'[n][i].gen < backlog'[n][j].gen
    <3>1. i + d < j + d
      BY <1>4, <2>2
    <3> QED BY <1>3, <1>5, <2>2, <3>1 DEF Shifted
  <2> QED BY <2>1, <2>2
<1>6. ASSUME accepted'[n] # NoConn
      PROVE  /\ Names(accepted[n])'
             /\ accepted'[n].uuid = Uuid(n)' /\ accepted'[n].from = PrevMember(Uuid(n)', n)
             /\ \A i \in DOMAIN backlog'[n] :
                   backlog'[n][i].from = accepted'[n].from => accepted'[n].gen < backlog'[n][i].gen
  <2>1. CASE Accepts(n)
    <3> DEFINE c == backlog[n][1]
    <3>1. c \in ConnType /\ Names(c) /\ accepted'[n] = c /\ 1 \in DOMAIN backlog[n]
      BY <1>3, <2>1 DEF Accepts
    <3>2. ASSUME NEW i \in DOMAIN backlog'[n], backlog'[n][i].from = c.from
          PROVE  c.gen < backlog'[n][i].gen
      <4>1. /\ i + 1 \in DOMAIN backlog[n] /\ 1 < i + 1
            /\ backlog'[n][i].from = backlog[n][i + 1].from /\ backlog'[n][i].gen = backlog[n][i + 1].gen
        BY <1>4, <2>1 DEF Accepts, Shifted
      <4> QED BY <1>3, <3>1, <3>2, <4>1
    <3> HIDE DEF c
    <3>3. /\ c.gen \in 1..Len(tries'[c.from]) /\ tries'[c.from][c.gen] = c.uuid
          /\ place'[c.from] = 1 => c.gen # Len(tries'[c.from])
      BY <1>2, <3>1
    <3>4. Names(accepted[n])'
      BY <3>1, <3>3 DEF Names
    <3> QED BY <2>1, <3>1, <3>2, <3>4 DEF Accepts
  <2>2. CASE accepted'[n] = accepted[n] /\ Uuid(n)' = Uuid(n)
    <3>1. Names(accepted[n])'
      BY <1>2, <1>3, <1>6, <2>2 DEF Names
    <3>2. \A i \in DOMAIN backlog'[n] :
             backlog'[n][i].from = accepted'[n].from => accepted'[n].gen < backlog'[n][i].gen
      BY <1>3, <1>6, <2>2 DEF Shifted
    <3> QED BY <1>3, <1>6, <2>2, <3>1, <3>2
  <2> QED BY <1>6, <2>1, <2>2
<1> QED BY <1>5, <1>6

\* Its request is sent.
LEMMA SendStep ==
    ASSUME PairInv, NEW m \in Members, Send(m)
    PROVE  PairInv'
<1>1. GroupTypes /\ AttemptInv
  BY DEF PairInv
<1> DEFINE s == Successor(m)
           c == Conn(m, FALSE)
           e == Conn(m, TRUE)
<1>2. place[m] = 2 /\ place' = [place EXCEPT ![m] = @ + 1] /\ place \in [Members -> 0..5]
  BY <1>1, Places DEF Send, Forward, GroupTypes
<1>3. /\ place' \in [Members -> 0..5] /\ place'[m] = 3
      /\ \A x \in Members : x # m => place'[x] = place[x]
  BY <1>2
<1>4. tries[m] # <<>> /\ RingOf(Uuid(m), m)
  BY <1>1, <1>2 DEF AttemptInv
<1>5. Len(tries[m]) \in Nat \ {0} /\ Uuid(m) \in Uuids
  BY <1>1, <1>4, LastTry
<1>6. e \in ConnType /\ e.from = c.from /\ e.gen = c.gen /\ e.uuid = c.uuid
  BY <1>5 DEF Conn, ConnType, LaneInfos, Uuid
<1>7. s \in Members
  BY <1>4, Neighbours DEF Successor
<1> DEFINE b == backlog[s]
           t == [i \in DOMAIN b |-> IF b[i] = c THEN e ELSE b[i]]
<1>8. backlog' = [backlog EXCEPT ![s] = t]
      /\ UNCHANGED <<tries, uuid, failed, closed, live, outPeer, inPeer, accepted, response>>
  BY DEF Send, groupVars
<1> HIDE DEF s, c, e
<1>9. b \in Seq(ConnType) /\ DOMAIN b = 1..Len(b) /\ Len(b) \in Nat /\ \A i \in DOMAIN b : b[i] \in ConnType
  BY <1>1, <1>7, MemberTypes
<1>10. t \in Seq(ConnType)
  <2>1. t \in [1..Len(b) -> ConnType]
    BY <1>6, <1>9
  <2> QED BY <1>9, <2>1, SeqDef
<1>11. /\ backlog'[s] = t /\ backlog' \in [Members -> Seq(ConnType)]
       /\ \A n \in Members : n # s => backlog'[n] = backlog[n]
  <2>1. backlog \in [Members -> Seq(ConnType)]
    BY <1>1 DEF GroupTypes
  <2> HIDE DEF t
  <2> QED BY <1>7, <1>8, <1>10, <2>1
<1>12. DOMAIN t = DOMAIN b /\ \A i \in DOMAIN b : t[i].from = b[i].from /\ t[i].gen = b[i].gen
                                                  /\ t[i].uuid = b[i].uuid
  BY <1>6
<1> HIDE DEF t
<1>13. \A n \in Members : /\ DOMAIN backlog'[n] = DOMAIN backlog[n] /\ DOMAIN backlog[n] \subseteq Int
                          /\ \A i \in DOMAIN backlog[n] : /\ backlog'[n][i].from = backlog[n][i].from
                                                          /\ backlog'[n][i].gen = backlog[n][i].gen
                                                          /\ backlog'[n][i].uuid = backlog[n][i].uuid
  <2> TAKE n \in Members
  <2>1. DOMAIN backlog[n] \subseteq Int
    BY <1>1, MemberTypes
  <2>2. CASE n = s
    BY <1>11, <1>12, <2>1, <2>2
  <2>3. CASE n # s
    BY <1>11, <2>1, <2>3
  <2> QED BY <2>2, <2>3
<1>14. GroupTypes'
  BY <1>1, <1>3, <1>8, <1>11 DEF GroupTypes
<1>15. AttemptInv' /\ PeerInv'
  <2>1. \A x \in Members : place[x] = 0 => response'[x] = 0
    BY <1>1, <1>8 DEF AttemptInv
  <2> QED BY <1>2, <1>3, <1>8, <2>1, NetStep
<1>16. Grows
  <2>1. \A x \in Members : Len(tries[x]) \in Nat
    BY <1>1, MemberTypes
  <2> QED BY <1>2, <1>3, <1>8, <2>1 DEF Grows
<1>17. BacklogInv'
  <2>1. \A n \in Members : Shifted(n, 0)
    <3> TAKE n \in Members
    <3>1. \A i \in DOMAIN backlog'[n] : i \in DOMAIN backlog[n] /\ i + 0 = i
      BY <1>13
    <3> QED BY <1>13, <3>1 DEF Shifted
  <2>2. \A n \in Members : accepted'[n] = accepted[n] /\ Uuid(n)' = Uuid(n)
    BY <1>8 DEF Uuid
  <2> QED BY <1>14, <1>16, <2>1, <2>2, BacklogKept
<1>18. AnswerInv'
  <2>1. \A x \in Members : Answer(x)' = Answer(x)
    BY <1>2, <1>3, <1>8 DEF Answer, Several
  <2>2. AnswerInv
    BY DEF PairInv
  <2>3. \A x \in Members : Answer(x) # 0 => place'[x] # 1
    BY <1>3, <2>2 DEF AnswerInv
  <2>4. \A n \in Members : \A i \in DOMAIN backlog'[n] :
            \E j \in DOMAIN backlog[n] : /\ backlog[n][j].from = backlog'[n][i].from
                                         /\ backlog[n][j].uuid = backlog'[n][i].uuid
    BY <1>13
  <2> QED BY <1>8, <2>1, <2>3, <2>4, AnswersStay
<1> QED BY <1>14, <1>15, <1>17, <1>18 DEF PairInv

\* m takes a connection from its backlog: its predecessor's, or one to drop.
LEMMA AcceptStep ==
    ASSUME PairInv, NEW m \in Members, Accept(m)
    PROVE  PairInv'
<1>1. GroupTypes /\ AttemptInv /\ BacklogInv /\ AnswerInv
  BY DEF PairInv
<1> DEFINE b == backlog[m]
           c == Head(b)
<1>2. place[m] = 3 /\ place \in [Members -> 0..5] /\ accepted \in [Members -> ConnType \cup {NoConn}]
      /\ backlog \in [Members -> Seq(ConnType)]
  BY <1>1, Places DEF Accept, GroupTypes
<1>3. /\ b # <<>> /\ backlog' = [backlog EXCEPT ![m] = Tail(b)]
      /\ UNCHANGED <<tries, uuid, failed, closed, live, outPeer, inPeer, response>>
  BY DEF Accept, groupVars
<1>4. b \in Seq(ConnType) /\ DOMAIN b = 1..Len(b) /\ Len(b) \in Nat /\ \A i \in DOMAIN b : b[i] \in ConnType
  BY <1>1, MemberTypes
<1>5. /\ Tail(b) \in Seq(ConnType) /\ Len(Tail(b)) = Len(b) - 1 /\ c = b[1] /\ 1 \in DOMAIN b
      /\ \A i \in 1..Len(Tail(b)) : Tail(b)[i] = b[i + 1]
  <2>1. Len(b) > 0
    BY <1>3, <1>4, EmptySeq
  <2> QED BY <1>3, <1>4, <2>1, HeadTailProperties
<1>6. backlog'[m] = Tail(b) /\ backlog' \in [Members -> Seq(ConnType)]
      /\ \A n \in Members : n # m => backlog'[n] = backlog[n]
  BY <1>2, <1>3, <1>5
<1>7. c \in ConnType /\ c # NoConn
  BY <1>4, <1>5 DEF ConnType, NoConn
<1>8. Shifted(m, 1)
  <2>1. DOMAIN backlog'[m] = 1..Len(Tail(b))
    BY <1>5, <1>6, LenProperties
  <2> DEFINE k == Len(b)
             l == Len(Tail(b))
  <2>2. k \in Nat /\ l = k - 1
    BY <1>4, <1>5
  <2> HIDE DEF k, l
  <2>3. \A i \in 1..l : i + 1 \in 1..k
    BY <2>2
  <2> QED BY <1>4, <1>5, <1>6, <2>1, <2>3 DEF Shifted, k, l
<1>9. \A n \in Members : n # m => Shifted(n, 0)
  <2> TAKE n \in Members
  <2>1. \A i \in DOMAIN backlog[n] : i + 0 = i
    BY <1>1, MemberTypes
  <2> QED BY <1>6, <2>1 DEF Shifted
<1> HIDE DEF c, b
<1>10. \/ /\ Matches(m, c) /\ accepted' = [accepted EXCEPT ![m] = c] /\ place' = [place EXCEPT ![m] = @ + 1]
       \/ UNCHANGED <<accepted, place>>
  BY DEF Accept, Forward, c, b
<1>11. /\ place' \in [Members -> 0..5] /\ accepted' \in [Members -> ConnType \cup {NoConn}]
       /\ \A x \in Members : x # m => place'[x] = place[x] /\ accepted'[x] = accepted[x]
       /\ \/ Matches(m, c) /\ accepted'[m] = c /\ place'[m] = 4
          \/ place'[m] = 3 /\ accepted'[m] = accepted[m]
  <2>1. CASE Matches(m, c) /\ accepted' = [accepted EXCEPT ![m] = c] /\ place' = [place EXCEPT ![m] = @ + 1]
    <3>1. place' = [place EXCEPT ![m] = 4] /\ accepted' = [accepted EXCEPT ![m] = c]
      BY <1>2, <2>1
    <3>2. /\ place' \in [Members -> 0..5] /\ place'[m] = 4
          /\ \A x \in Members : x # m => place'[x] = place[x]
      BY <1>2, <3>1
    <3>3. /\ accepted' \in [Members -> ConnType \cup {NoConn}] /\ accepted'[m] = c
          /\ \A x \in Members : x # m => accepted'[x] = accepted[x]
      BY <1>2, <1>7, <3>1
    <3> QED BY <2>1, <3>2, <3>3
  <2>2. CASE UNCHANGED <<accepted, place>>
    BY <1>2, <2>2
  <2> QED BY <1>10, <2>1, <2>2
<1>12. GroupTypes'
  BY <1>1, <1>3, <1>6, <1>11 DEF GroupTypes
<1>13. AttemptInv' /\ PeerInv'
  <2>1. \A x \in Members : place[x] = 0 => response'[x] = 0
    BY <1>1, <1>3 DEF AttemptInv
  <2>2. place'[m] \in {4, 5} => accepted'[m] # NoConn
    BY <1>7, <1>11
  <2>3. place[m] # 0 /\ place'[m] # 0
    BY <1>2, <1>11
  <2>4. \A x \in Members : x # m => place'[x] = place[x] /\ accepted'[x] = accepted[x]
    BY <1>11
  <2>5. UNCHANGED <<tries, uuid, closed, live, outPeer, inPeer>>
    BY <1>3
  <2> QED BY <2>1, <2>2, <2>3, <2>4, <2>5, NetStep
<1>14. Grows
  <2>1. \A x \in Members : Len(tries[x]) \in Nat
    BY <1>1, MemberTypes
  <2>2. \A x \in Members : place'[x] = 1 => place[x] = 1
    BY <1>11
  <2> QED BY <1>3, <2>1, <2>2 DEF Grows
<1>15. BacklogInv'
  <2>1. \A n \in Members : Uuid(n)' = Uuid(n)
    BY <1>3 DEF Uuid
  <2>2. ASSUME NEW n \in Members, accepted'[n] # NoConn
        PROVE  Accepts(n) \/ (accepted'[n] = accepted[n] /\ Uuid(n)' = Uuid(n))
    <3>1. CASE n # m
      BY <1>11, <2>1, <3>1
    <3>2. CASE n = m /\ accepted'[m] = accepted[m]
      BY <2>1, <3>2
    <3>3. CASE n = m /\ Matches(m, c) /\ accepted'[m] = c
      <4>1. c.uuid = Uuid(m) /\ c.from = PrevMember(Uuid(m), m)
        BY <3>3 DEF Matches
      <4> QED BY <1>5, <1>8, <2>1, <3>3, <4>1 DEF Accepts, c, b
    <3> QED BY <1>11, <3>1, <3>2, <3>3
  <2> QED BY <1>8, <1>9, <1>12, <1>14, <2>2, BacklogKept
<1>16. AnswerInv'
  <2>1. \A x \in Members : Answer(x)' = Answer(x)
    BY <1>2, <1>3, <1>11 DEF Answer, Several
  <2>2. \A x \in Members : Answer(x) # 0 => place'[x] # 1
    BY <1>1, <1>11 DEF AnswerInv
  <2>3. \A n \in Members : \A i \in DOMAIN backlog'[n] :
            \E j \in DOMAIN backlog[n] : /\ backlog[n][j].from = backlog'[n][i].from
                                         /\ backlog[n][j].uuid = backlog'[n][i].uuid
    BY <1>8, <1>9 DEF Shifted
  <2>4. accepted'[m] = accepted[m] \/ \E j \in DOMAIN backlog[m] : backlog[m][j] = accepted'[m]
    BY <1>5, <1>11 DEF b
  <2> QED BY <1>3, <1>11, <2>1, <2>2, <2>3, <2>4, AnswersStay
<1> QED BY <1>12, <1>13, <1>15, <1>16 DEF PairInv

\* m answers the attempt that it has accepted.
LEMMA RespondStep ==
    ASSUME PairInv, NEW m \in Members, Respond(m)
    PROVE  PairInv'
<1>1. GroupTypes /\ AttemptInv /\ BacklogInv /\ AnswerInv
  BY DEF PairInv
<1> DEFINE a == accepted[m]
           z == a.from
           g == Len(tries[m])
<1>2. place[m] = 4 /\ place' = [place EXCEPT ![m] = @ + 1] /\ place \in [Members -> 0..5]
  BY <1>1, Places DEF Respond, Forward, GroupTypes
<1>3. /\ place' \in [Members -> 0..5] /\ place'[m] = 5
      /\ \A x \in Members : x # m => place'[x] = place[x]
  BY <1>2
<1>4. UNCHANGED <<tries, uuid, failed, closed, live, outPeer, inPeer, backlog, accepted>>
  BY DEF Respond, groupVars
<1>5. \/ response' = response
      \/ Open(a) /\ response' = [response EXCEPT ![z] = g]
  BY DEF Respond, LaneInfos
<1>6. a # NoConn /\ tries[m] # <<>> /\ RingOf(Uuid(m), m) /\ uuid[m] = NoUuid
  BY <1>1, <1>2 DEF AttemptInv
<1>7. g \in Nat \ {0} /\ Gen(m) = g /\ Uuid(m) = tries[m][g] /\ Uuid(m) \in Uuids
  BY <1>1, <1>6, LastTry
<1>8. a \in ConnType /\ z \in Members
  BY <1>1, <1>6 DEF GroupTypes, ConnType
<1>9. response \in [Members -> Nat] /\ response' \in [Members -> Nat]
  <2>1. response \in [Members -> Nat]
    BY <1>1 DEF GroupTypes
  <2> HIDE DEF g, z
  <2> QED BY <1>5, <1>7, <2>1
<1>10. GroupTypes'
  BY <1>1, <1>3, <1>4, <1>9 DEF GroupTypes
<1>11. AttemptInv' /\ PeerInv'
  <2>1. \A x \in Members : place[x] = 0 => response[x] = 0
    BY <1>1 DEF AttemptInv
  <2>2. \A x \in Members : place[x] = 0 => response'[x] = 0
    BY <1>5, <1>9, <2>1 DEF Open
  <2>3. place[m] # 0 /\ place'[m] # 0 /\ accepted'[m] # NoConn
    BY <1>2, <1>3, <1>4, <1>6
  <2>4. \A x \in Members : x # m => place'[x] = place[x] /\ accepted'[x] = accepted[x]
    BY <1>3, <1>4
  <2>5. UNCHANGED <<tries, uuid, closed, live, outPeer, inPeer>>
    BY <1>4
  <2> QED BY <2>2, <2>3, <2>4, <2>5, NetStep
<1>12. Grows
  <2>1. \A x \in Members : Len(tries[x]) \in Nat
    BY <1>1, MemberTypes
  <2> QED BY <1>2, <1>3, <1>4, <2>1 DEF Grows
<1>13. BacklogInv'
  <2>1. \A n \in Members : Shifted(n, 0)
    <3> TAKE n \in Members
    <3>1. \A i \in DOMAIN backlog[n] : i + 0 = i
      BY <1>1, MemberTypes
    <3> QED BY <1>4, <3>1 DEF Shifted
  <2>2. \A n \in Members : accepted'[n] = accepted[n] /\ Uuid(n)' = Uuid(n)
    BY <1>4 DEF Uuid
  <2> QED BY <1>10, <1>12, <2>1, <2>2, BacklogKept
<1>14. AnswerInv'
  <2> SUFFICES ASSUME NEW x \in Members, Answer(x)' # 0, NEW u, u = Uuid(x)', NEW n, n = NextMember(u, x)
      PROVE  /\ place'[x] # 1
             /\ Answer(x)' \in 1..Len(tries'[n]) /\ tries'[n][Answer(x)'] = u
             /\ \A i \in DOMAIN backlog'[n] : ~ (backlog'[n][i].from = x /\ backlog'[n][i].uuid = u)
             /\ accepted'[n] # NoConn /\ accepted'[n].from = x /\ accepted'[n].uuid = u =>
                    Answer(x)' = Len(tries'[n]) /\ accepted'[n].gen = Len(tries'[x])
             /\ uuid'[n] = u => Answer(x)' = Len(tries'[n]) /\ inPeer'[n] = Len(tries'[x])
    BY DEF AnswerInv, Uuid, Gen
  <2>1. u = Uuid(x) /\ tries'[x] = tries[x]
    BY <1>4 DEF Uuid
  <2>2. CASE response'[x] = response[x]
    <3>1. Answer(x)' = Answer(x)
      BY <1>2, <1>3, <1>4, <2>2 DEF Answer, Several
    <3>2. place[x] # 1 /\ place'[x] # 1
      BY <1>1, <1>3, <3>1 DEF AnswerInv
    <3> QED BY <1>1, <1>4, <2>1, <3>1, <3>2 DEF AnswerInv, Gen
  <2>3. CASE Open(a) /\ x = z /\ response'[x] = g
    <3>1. Names(a) /\ a.uuid = Uuid(m) /\ z = PrevMember(Uuid(m), m)
      BY <1>1, <1>6 DEF BacklogInv
    <3>2. place[x] # 0 /\ Len(tries[x]) = a.gen
      BY <2>3 DEF Open, Gen
    <3>3. tries[x][a.gen] = a.uuid /\ place[x] # 1
      BY <2>3, <3>1, <3>2 DEF Names
    <3>4. u = Uuid(m)
      BY <2>1, <3>1, <3>2, <3>3 DEF Uuid, Last
    <3>5. n = m
      BY <1>6, <2>3, <3>1, <3>4, Neighbours
    <3>6. Answer(x)' = g /\ place'[x] # 1
      BY <1>3, <2>3, <3>2, <3>3 DEF Answer
    <3>7. ASSUME NEW i \in DOMAIN backlog[m], backlog[m][i].from = x
          PROVE  FALSE
      <4> DEFINE c == backlog[m][i]
                 l == Len(tries[x])
      <4>1. Names(c) /\ a.gen < c.gen /\ c.from = x
        BY <1>1, <1>6, <2>3, <3>7 DEF BacklogInv
      <4>2. c.gen \in 1..l /\ l \in Nat /\ l = a.gen
        BY <1>1, <3>2, <4>1, MemberTypes DEF Names
      <4> HIDE DEF c, l
      <4> QED BY <4>1, <4>2
    <3>8. uuid'[n] # u
      BY <1>4, <1>6, <1>7, <3>4, <3>5, ReconfigureAssumption DEF NoUuid
    <3>9. g \in 1..g
      BY <1>7
    <3> QED BY <1>4, <1>7, <2>1, <3>2, <3>4, <3>5, <3>6, <3>7, <3>8, <3>9
  <2> QED
    <3> HIDE DEF g, z
    <3> QED BY <1>5, <1>8, <1>9, <2>2, <2>3
<1> QED BY <1>10, <1>11, <1>13, <1>14 DEF PairInv

\* m takes over the QPs of its attempt.
LEMMA CommitStep ==
    ASSUME PairInv, NEW m \in Members, Commit(m)
    PROVE  PairInv'
<1>1. GroupTypes /\ AttemptInv /\ BacklogInv /\ PeerInv /\ AnswerInv
  BY DEF PairInv
<1> DEFINE v == Uuid(m)
           r == response[m]
           a == accepted[m]
<1>2. place[m] = 5 /\ r # 0
  BY <1>1, Places DEF Commit
<1>3. /\ outPeer' = [outPeer EXCEPT ![m] = r] /\ inPeer' = [inPeer EXCEPT ![m] = a.gen]
      /\ uuid' = [uuid EXCEPT ![m] = v] /\ failed' = [failed EXCEPT ![m] = FALSE]
      /\ place' = [place EXCEPT ![m] = 0] /\ accepted' = [accepted EXCEPT ![m] = NoConn]
      /\ response' = [response EXCEPT ![m] = 0]
      /\ UNCHANGED <<tries, closed, live, backlog>>
  BY DEF Commit, ConnectLanes, LeavesNetwork
<1>4. a # NoConn /\ tries[m] # <<>> /\ RingOf(v, m) /\ live[m] = Gen(m)
  BY <1>1, <1>2 DEF AttemptInv
<1>5. v \in Uuids
  BY <1>1, <1>4, LastTry
<1>6. a \in ConnType /\ a.gen \in Nat
  BY <1>1, <1>4 DEF GroupTypes, ConnType
<1>7. Names(a) /\ a.uuid = v /\ a.from = PrevMember(v, m)
  BY <1>1, <1>4 DEF BacklogInv
<1> HIDE DEF v
<1>8. GroupTypes' /\ \A x \in Members : x # m => Same(x)
  <2>1. r \in Nat
    BY <1>1 DEF GroupTypes
  <2> HIDE DEF r, a
  <2>2. GroupTypes'
    BY <1>1, <1>3, <1>5, <1>6, <2>1 DEF GroupTypes
  <2>3. \A x \in Members : x # m => Same(x)
    BY <1>1, <1>3 DEF GroupTypes, Same
  <2> QED BY <2>2, <2>3
<1>9. /\ place'[m] = 0 /\ accepted'[m] = NoConn /\ response'[m] = 0 /\ uuid'[m] = v
      /\ outPeer'[m] = r /\ inPeer'[m] = a.gen
  <2> HIDE DEF r, a
  <2> QED BY <1>1, <1>3 DEF GroupTypes
<1>10. Several(m)' /\ Uuid(m)' = v /\ Gen(m)' = Gen(m)
  BY <1>3, <1>4, <1>5, <1>9, ReconfigureAssumption DEF Several, RingOf, NoUuid, Uuid, Gen, v
<1>11. AttemptInv'
  <2> SUFFICES ASSUME NEW x \in Members
               PROVE  /\ place'[x] # 0 => /\ tries'[x] # <<>> /\ RingOf(Uuid(x)', x)
                                          /\ uuid'[x] = NoUuid /\ live'[x] = Gen(x)'
                      /\ place'[x] = 0 => accepted'[x] = NoConn /\ response'[x] = 0
                      /\ place'[x] \in {4, 5} => accepted'[x] # NoConn
                      /\ Several(x)' => /\ place'[x] = 0 /\ tries'[x] # <<>> /\ uuid'[x] = Uuid(x)'
                                        /\ RingOf(uuid'[x], x) /\ (~ closed'[x] => live'[x] = Gen(x)')
                                        /\ outPeer'[x] # 0
    BY DEF AttemptInv, RingOf
  <2>1. CASE x = m
    BY <1>2, <1>3, <1>4, <1>9, <1>10, <2>1
  <2>2. CASE x # m
    <3>1. Same(x)
      BY <1>8, <2>2
    <3>2. Uuid(x)' = Uuid(x) /\ Gen(x)' = Gen(x) /\ Several(x)' = Several(x)
      BY <3>1, SameGives
    <3> QED BY <1>1, <3>1, <3>2 DEF AttemptInv, Same
  <2> QED BY <2>1, <2>2
<1>12. Grows
  <2>1. \A x \in Members : Len(tries[x]) \in Nat
    BY <1>1, MemberTypes
  <2>2. \A x \in Members : place'[x] = 1 => place[x] = 1
    BY <1>8, <1>9 DEF Same
  <2> QED BY <1>3, <2>1, <2>2 DEF Grows
<1>13. BacklogInv'
  <2>1. \A n \in Members : Shifted(n, 0)
    <3> TAKE n \in Members
    <3>1. \A i \in DOMAIN backlog[n] : i + 0 = i
      BY <1>1, MemberTypes
    <3> QED BY <1>3, <3>1 DEF Shifted
  <2>2. \A n \in Members : accepted'[n] # NoConn => accepted'[n] = accepted[n] /\ Uuid(n)' = Uuid(n)
    BY <1>3, <1>8, <1>9 DEF Uuid, Same
  <2> QED BY <1>8, <1>12, <2>1, <2>2, BacklogKept
<1>14. PeerInv'
  <2> SUFFICES ASSUME NEW x \in Members, Several(x)'
               PROVE  LET p == PrevMember(uuid'[x], x)
                      IN  inPeer'[x] \in 1..Len(tries[p]) /\ tries[p][inPeer'[x]] = uuid'[x]
    BY <1>3 DEF PeerInv, PrevMember, RankIn
  <2>1. CASE x = m
    BY <1>7, <1>9, <2>1 DEF Names
  <2>2. CASE x # m
    <3>1. Same(x) /\ Several(x)
      BY <1>8, <2>2, SameGives
    <3> QED BY <1>1, <3>1 DEF PeerInv, Same
  <2> QED BY <2>1, <2>2
<1>15. AnswerInv'
  <2> SUFFICES ASSUME NEW x \in Members, Answer(x)' # 0, NEW u, u = Uuid(x)', NEW n, n = NextMember(u, x)
      PROVE  /\ place'[x] # 1
             /\ Answer(x)' \in 1..Len(tries'[n]) /\ tries'[n][Answer(x)'] = u
             /\ \A i \in DOMAIN backlog'[n] : ~ (backlog'[n][i].from = x /\ backlog'[n][i].uuid = u)
             /\ accepted'[n] # NoConn /\ accepted'[n].from = x /\ accepted'[n].uuid = u =>
                    Answer(x)' = Len(tries'[n]) /\ accepted'[n].gen = Len(tries'[x])
             /\ uuid'[n] = u => Answer(x)' = Len(tries'[n]) /\ inPeer'[n] = Len(tries'[x])
    BY DEF AnswerInv, Uuid, Gen
  <2>1. u = Uuid(x)
    BY <1>3 DEF Uuid
  <2>2. Answer(x)' = Answer(x)
    <3>1. CASE x = m
      BY <1>2, <1>9, <1>10, <3>1 DEF Answer
    <3>2. CASE x # m
      BY <1>8, <3>2, SameGives
    <3> QED BY <3>1, <3>2
  <2> DEFINE h == Answer(x)
  <2>3. place'[x] # 1
    BY <1>1, <1>8, <1>9, <2>2 DEF AnswerInv, Same
  <2>4. RingOf(u, x) /\ n \in Members /\ PrevMember(u, n) = x
    BY <1>1, <2>1, <2>2, AnswerRing, Neighbours
  <2>5. /\ h \in 1..Len(tries[n]) /\ tries[n][h] = u
        /\ \A i \in DOMAIN backlog[n] : ~ (backlog[n][i].from = x /\ backlog[n][i].uuid = u)
        /\ accepted[n] # NoConn /\ accepted[n].from = x /\ accepted[n].uuid = u =>
               h = Len(tries[n]) /\ accepted[n].gen = Len(tries[x])
        /\ uuid[n] = u => h = Len(tries[n]) /\ inPeer[n] = Len(tries[x])
    BY <1>1, <2>1, <2>2 DEF AnswerInv, Gen
  <2> HIDE DEF h
  <2>6. CASE n = m
    BY <1>3, <1>4, <1>7, <1>9, <2>2, <2>3, <2>4, <2>5, <2>6 DEF h
  <2>7. CASE n # m
    <3>1. Same(n)
      BY <1>8, <2>4, <2>7
    <3> QED BY <1>3, <2>2, <2>3, <2>5, <3>1 DEF h, Same
  <2> QED BY <2>6, <2>7
<1> QED BY <1>8, <1>11, <1>13, <1>14, <1>15 DEF PairInv

\* m goes away, and its listener with it.
LEMMA CloseStep ==
    ASSUME PairInv, NEW m \in Members, Close(m)
    PROVE  PairInv'
<1>1. GroupTypes /\ AttemptInv /\ BacklogInv /\ PeerInv /\ AnswerInv
  BY DEF PairInv
<1>2. /\ place[m] = 0 /\ closed' = [closed EXCEPT ![m] = TRUE] /\ live' = [live EXCEPT ![m] = 0]
      /\ backlog' = [backlog EXCEPT ![m] = <<>>]
      /\ UNCHANGED <<place, tries, uuid, failed, outPeer, inPeer, accepted, response>>
  BY DEF Close
<1>3. /\ closed \in [Members -> BOOLEAN] /\ live \in [Members -> Nat]
      /\ backlog \in [Members -> Seq(ConnType)] /\ <<>> \in Seq(ConnType)
  BY <1>1 DEF GroupTypes
<1>4. /\ backlog' \in [Members -> Seq(ConnType)] /\ backlog'[m] = <<>>
      /\ \A n \in Members : n # m => backlog'[n] = backlog[n]
  BY <1>2, <1>3
<1>5. /\ closed' \in [Members -> BOOLEAN] /\ live' \in [Members -> Nat] /\ closed'[m] /\ live'[m] = 0
      /\ \A n \in Members : n # m => closed'[n] = closed[n] /\ live'[n] = live[n]
  BY <1>2, <1>3
<1>6. GroupTypes'
  BY <1>1, <1>2, <1>4, <1>5 DEF GroupTypes
<1>7. AttemptInv'
  <2> SUFFICES ASSUME NEW x \in Members
               PROVE  /\ place'[x] # 0 => /\ tries'[x] # <<>> /\ RingOf(Uuid(x)', x)
                                          /\ uuid'[x] = NoUuid /\ live'[x] = Gen(x)'
                      /\ place'[x] = 0 => accepted'[x] = NoConn /\ response'[x] = 0
                      /\ place'[x] \in {4, 5} => accepted'[x] # NoConn
                      /\ Several(x)' => /\ place'[x] = 0 /\ tries'[x] # <<>> /\ uuid'[x] = Uuid(x)'
                                        /\ RingOf(uuid'[x], x) /\ (~ closed'[x] => live'[x] = Gen(x)')
                                        /\ outPeer'[x] # 0
    BY DEF AttemptInv, RingOf
  <2>1. Uuid(x)' = Uuid(x) /\ Gen(x)' = Gen(x) /\ Several(x)' = Several(x)
    BY <1>2 DEF Uuid, Gen, Several
  <2>2. CASE x = m
    BY <1>1, <1>2, <1>5, <2>1, <2>2 DEF AttemptInv
  <2>3. CASE x # m
    BY <1>1, <1>2, <1>5, <2>1, <2>3 DEF AttemptInv
  <2> QED BY <2>2, <2>3
<1>8. Grows
  <2>1. \A x \in Members : Len(tries[x]) \in Nat
    BY <1>1, MemberTypes
  <2> QED BY <1>2, <2>1 DEF Grows
<1>9. \A n \in Members : Shifted(n, 0)
  <2> TAKE n \in Members
  <2>1. \A i \in DOMAIN backlog[n] : i + 0 = i
    BY <1>1, MemberTypes
  <2>2. CASE n = m
    <3>1. DOMAIN backlog'[n] = {}
      BY <1>4, <2>2, EmptySeq
    <3> QED BY <3>1 DEF Shifted
  <2>3. CASE n # m
    BY <1>4, <2>1, <2>3 DEF Shifted
  <2> QED BY <2>2, <2>3
<1>10. BacklogInv'
  <2>1. \A n \in Members : accepted'[n] = accepted[n] /\ Uuid(n)' = Uuid(n)
    BY <1>2 DEF Uuid
  <2> QED BY <1>6, <1>8, <1>9, <2>1, BacklogKept
<1>11. PeerInv'
  BY <1>1, <1>2 DEF PeerInv, Several
<1>12. AnswerInv'
  <2>1. \A x \in Members : Answer(x)' = Answer(x)
    BY <1>2 DEF Answer, Several
  <2>2. \A x \in Members : Answer(x) # 0 => place'[x] # 1
    BY <1>1, <1>2 DEF AnswerInv
  <2>3. \A n \in Members : \A i \in DOMAIN backlog'[n] :
            \E j \in DOMAIN backlog[n] : /\ backlog[n][j].from = backlog'[n][i].from
                                         /\ backlog[n][j].uuid = backlog'[n][i].uuid
    BY <1>9 DEF Shifted
  <2> QED BY <1>2, <2>1, <2>2, <2>3, AnswersStay
<1> QED BY <1>6, <1>7, <1>10, <1>11, <1>12 DEF PairInv

\* The new attempt at u is the last one of m.
LEMMA NewAttempt ==
    ASSUME GroupTypes, NEW m \in Members, NEW u \in Uuids, tries' = [tries EXCEPT ![m] = Append(@, u)]
    PROVE  /\ tries' \in [Members -> Seq(Uuids)] /\ tries'[m] # <<>>
           /\ Uuid(m)' = u /\ Gen(m)' = Len(tries[m]) + 1
           /\ \A x \in Members : x # m => tries'[x] = tries[x]
           /\ \A x \in Members : /\ Len(tries[x]) <= Len(tries'[x])
                                 /\ \A i \in 1..Len(tries[x]) : tries'[x][i] = tries[x][i]
           /\ Len(tries'[m]) # Len(tries[m])
<1> DEFINE t == tries[m]
           k == Len(t)
<1>1. tries \in [Members -> Seq(Uuids)] /\ t \in Seq(Uuids) /\ k \in Nat
  BY MemberTypes DEF GroupTypes
<1>2. /\ Append(t, u) \in Seq(Uuids) /\ Len(Append(t, u)) = k + 1 /\ Append(t, u) # <<>>
      /\ \A i \in 1..k : Append(t, u)[i] = t[i]
      /\ Append(t, u)[k + 1] = u
  BY <1>1, AppendProperties
<1>3. /\ tries' \in [Members -> Seq(Uuids)] /\ tries'[m] = Append(t, u)
      /\ \A x \in Members : x # m => tries'[x] = tries[x]
  BY <1>1, <1>2
<1> HIDE DEF t
<1>4. Uuid(m)' = u /\ Gen(m)' = k + 1
  BY <1>2, <1>3 DEF Uuid, Gen, Last
<1>5. \A x \in Members : Len(tries[x]) \in Nat
  BY MemberTypes
<1>6. k + 1 # k /\ k <= k + 1
  BY <1>1
<1>7. ASSUME NEW x \in Members
      PROVE  Len(tries[x]) <= Len(tries'[x]) /\ \A i \in 1..Len(tries[x]) : tries'[x][i] = tries[x][i]
  <2>1. CASE x = m
    BY <1>2, <1>3, <1>6, <2>1 DEF t
  <2>2. CASE x # m
    BY <1>3, <1>5, <2>2
  <2> QED BY <2>1, <2>2
<1> QED BY <1>2, <1>3, <1>4, <1>6, <1>7 DEF t

\* What m had is revoked.
LEMMA RevokedTypes ==
    ASSUME GroupTypes, NEW m \in Members, NEW k \in Nat, Revoked(m, k)
    PROVE  /\ live' \in [Members -> Nat] /\ live'[m] = k
           /\ outPeer' \in [Members -> Nat] /\ inPeer' \in [Members -> Nat]
           /\ failed' \in [Members -> BOOLEAN]
           /\ uuid' \in [Members -> Uuids \cup {NoUuid}] /\ uuid'[m] = NoUuid
           /\ \A x \in Members : x # m => /\ live'[x] = live[x] /\ outPeer'[x] = outPeer[x]
                                          /\ inPeer'[x] = inPeer[x] /\ uuid'[x] = uuid[x]
BY DEF GroupTypes, Revoked

\* m begins an attempt, with its QPs or without.
LEMMA BeginStep ==
    ASSUME PairInv, NEW m \in Members, NEW u \in Uuids, Begin(m, u) \/ BeginFails(m, u) \/ BeginAlone(m, u)
    PROVE  PairInv'
<1>1. GroupTypes /\ AttemptInv
  BY DEF PairInv
<1>2. /\ place[m] = 0 /\ m \in Range(Ring[u]) /\ tries' = [tries EXCEPT ![m] = Append(@, u)]
      /\ UNCHANGED <<closed, backlog, accepted, response>>
  BY DEF Begin, BeginFails, BeginAlone, CanBegin, netVars
<1>3. /\ tries' \in [Members -> Seq(Uuids)] /\ tries'[m] # <<>>
      /\ Uuid(m)' = u /\ Gen(m)' = Len(tries[m]) + 1
      /\ \A x \in Members : x # m => tries'[x] = tries[x]
      /\ \A x \in Members : /\ Len(tries[x]) <= Len(tries'[x])
                            /\ \A i \in 1..Len(tries[x]) : tries'[x][i] = tries[x][i]
      /\ Len(tries'[m]) # Len(tries[m])
  BY <1>1, <1>2, NewAttempt
<1>4. Len(tries[m]) \in Nat /\ Len(tries[m]) + 1 \in Nat
  BY <1>1, MemberTypes
<1>5. place \in [Members -> 0..5] /\ accepted'[m] = NoConn /\ response'[m] = 0
  BY <1>1, <1>2 DEF GroupTypes, AttemptInv
<1>6. /\ live' \in [Members -> Nat] /\ outPeer' \in [Members -> Nat] /\ inPeer' \in [Members -> Nat]
      /\ failed' \in [Members -> BOOLEAN] /\ uuid' \in [Members -> Uuids \cup {NoUuid}]
      /\ place' \in [Members -> 0..5] /\ ~ Several(m)'
      /\ place'[m] # 0 => /\ place'[m] = 1 /\ RingOf(u, m)
                          /\ uuid'[m] = NoUuid /\ live'[m] = Len(tries[m]) + 1
      /\ \A x \in Members : x # m => /\ live'[x] = live[x] /\ outPeer'[x] = outPeer[x]
                                     /\ inPeer'[x] = inPeer[x] /\ uuid'[x] = uuid[x]
                                     /\ place'[x] = place[x]
  <2>1. CASE Begin(m, u)
    <3>1. place' = [place EXCEPT ![m] = 1] /\ Revoked(m, Len(tries[m]) + 1) /\ Len(Ring[u]) > 1
      BY <2>1 DEF Begin
    <3>2. place' \in [Members -> 0..5] /\ place'[m] = 1 /\ \A x \in Members : x # m => place'[x] = place[x]
      BY <1>5, <3>1
    <3>3. RingOf(u, m)
      BY <1>2, <3>1 DEF RingOf
    <3>4. /\ live' \in [Members -> Nat] /\ live'[m] = Len(tries[m]) + 1
          /\ outPeer' \in [Members -> Nat] /\ inPeer' \in [Members -> Nat]
          /\ failed' \in [Members -> BOOLEAN]
          /\ uuid' \in [Members -> Uuids \cup {NoUuid}] /\ uuid'[m] = NoUuid
          /\ \A x \in Members : x # m => /\ live'[x] = live[x] /\ outPeer'[x] = outPeer[x]
                                         /\ inPeer'[x] = inPeer[x] /\ uuid'[x] = uuid[x]
      BY <1>1, <1>4, <3>1, RevokedTypes
    <3> QED BY <3>2, <3>3, <3>4 DEF Several
  <2>2. CASE BeginFails(m, u)
    <3>1. place' = place /\ Revoked(m, 0)
      BY <2>2 DEF BeginFails
    <3>2. /\ live' \in [Members -> Nat]
          /\ outPeer' \in [Members -> Nat] /\ inPeer' \in [Members -> Nat]
          /\ failed' \in [Members -> BOOLEAN]
          /\ uuid' \in [Members -> Uuids \cup {NoUuid}] /\ uuid'[m] = NoUuid
          /\ \A x \in Members : x # m => /\ live'[x] = live[x] /\ outPeer'[x] = outPeer[x]
                                         /\ inPeer'[x] = inPeer[x] /\ uuid'[x] = uuid[x]
      BY <1>1, <3>1, RevokedTypes
    <3> QED BY <1>2, <1>5, <3>1, <3>2 DEF Several
  <2>3. CASE BeginAlone(m, u)
    <3>1. /\ place' = place /\ uuid' = [uuid EXCEPT ![m] = u] /\ failed' = [failed EXCEPT ![m] = FALSE]
          /\ live' = [live EXCEPT ![m] = 0] /\ outPeer' = [outPeer EXCEPT ![m] = 0]
          /\ inPeer' = [inPeer EXCEPT ![m] = 0] /\ Len(Ring[u]) = 1
      BY <2>3 DEF BeginAlone
    <3>2. /\ live' \in [Members -> Nat]
          /\ outPeer' \in [Members -> Nat] /\ inPeer' \in [Members -> Nat]
          /\ failed' \in [Members -> BOOLEAN]
          /\ uuid' \in [Members -> Uuids \cup {NoUuid}] /\ uuid'[m] = u
          /\ \A x \in Members : x # m => /\ live'[x] = live[x] /\ outPeer'[x] = outPeer[x]
                                         /\ inPeer'[x] = inPeer[x] /\ uuid'[x] = uuid[x]
      BY <1>1, <3>1 DEF GroupTypes
    <3>3. ~ Several(m)'
      <4> DEFINE l == Len(Ring[u])
      <4>1. l = 1
        BY <3>1
      <4> HIDE DEF l
      <4>2. ~ (l > 1)
        BY <4>1
      <4> QED BY <3>2, <4>2 DEF Several, l
    <3> QED BY <1>2, <1>5, <3>1, <3>2, <3>3
  <2> QED BY <2>1, <2>2, <2>3
<1>7. GroupTypes'
  BY <1>1, <1>2, <1>3, <1>6 DEF GroupTypes
<1>8. \A x \in Members : x # m => Same(x)
  BY <1>2, <1>3, <1>6 DEF Same
<1>9. Grows
  <2>1. \A x \in Members : place'[x] = 1 => place[x] = 1 \/ Len(tries'[x]) # Len(tries[x])
    BY <1>3, <1>6
  <2> QED BY <1>3, <2>1 DEF Grows
<1>10. place'[m] # 0 => /\ place'[m] = 1 /\ tries'[m] # <<>> /\ RingOf(Uuid(m)', m)
                        /\ uuid'[m] = NoUuid /\ live'[m] = Gen(m)'
  BY <1>3, <1>6
<1> QED BY <1>2, <1>5, <1>6, <1>7, <1>8, <1>9, <1>10, ResetStep

\* The attempt of m ends without a ring, or m gives its ring up.
LEMMA EndStep ==
    ASSUME PairInv, NEW m \in Members, (place[m] # 0 /\ Fails(m)) \/ Abort(m)
    PROVE  PairInv'
<1>1. GroupTypes /\ AttemptInv
  BY DEF PairInv
<1>2. /\ place \in [Members -> 0..5] /\ live \in [Members -> Nat] /\ response \in [Members -> Nat]
      /\ accepted \in [Members -> ConnType \cup {NoConn}]
  BY <1>1 DEF GroupTypes
<1>3. UNCHANGED <<tries, closed, backlog>>
  BY DEF Fails, Abort, netVars
<1>4. /\ live' \in [Members -> Nat] /\ outPeer' \in [Members -> Nat] /\ inPeer' \in [Members -> Nat]
      /\ failed' \in [Members -> BOOLEAN] /\ uuid' \in [Members -> Uuids \cup {NoUuid}]
      /\ uuid'[m] = NoUuid
      /\ place' \in [Members -> 0..5] /\ place'[m] = 0
      /\ response' \in [Members -> Nat] /\ response'[m] = 0
      /\ accepted' \in [Members -> ConnType \cup {NoConn}] /\ accepted'[m] = NoConn
      /\ \A x \in Members : x # m => /\ live'[x] = live[x] /\ outPeer'[x] = outPeer[x]
                                     /\ inPeer'[x] = inPeer[x] /\ uuid'[x] = uuid[x]
                                     /\ place'[x] = place[x] /\ response'[x] = response[x]
                                     /\ accepted'[x] = accepted[x]
  <2>1. CASE place[m] # 0 /\ Fails(m)
    <3>1. /\ live' = [live EXCEPT ![m] = 0] /\ place' = [place EXCEPT ![m] = 0]
          /\ accepted' = [accepted EXCEPT ![m] = NoConn] /\ response' = [response EXCEPT ![m] = 0]
          /\ UNCHANGED <<uuid, failed, outPeer, inPeer>>
      BY <2>1 DEF Fails, LeavesNetwork
    <3>2. uuid[m] = NoUuid
      BY <1>1, <2>1 DEF AttemptInv
    <3>3. /\ live' \in [Members -> Nat] /\ \A x \in Members : x # m => live'[x] = live[x]
      BY <1>2, <3>1
    <3>4. /\ place' \in [Members -> 0..5] /\ place'[m] = 0 /\ \A x \in Members : x # m => place'[x] = place[x]
      BY <1>2, <3>1
    <3>5. /\ response' \in [Members -> Nat] /\ response'[m] = 0
          /\ \A x \in Members : x # m => response'[x] = response[x]
      BY <1>2, <3>1
    <3>6. /\ accepted' \in [Members -> ConnType \cup {NoConn}] /\ accepted'[m] = NoConn
          /\ \A x \in Members : x # m => accepted'[x] = accepted[x]
      BY <1>2, <3>1
    <3>7. /\ outPeer' \in [Members -> Nat] /\ inPeer' \in [Members -> Nat]
          /\ failed' \in [Members -> BOOLEAN] /\ uuid' \in [Members -> Uuids \cup {NoUuid}]
      BY <1>1, <3>1 DEF GroupTypes
    <3> QED BY <3>1, <3>2, <3>3, <3>4, <3>5, <3>6, <3>7
  <2>2. CASE Abort(m)
    <3>1. place[m] = 0 /\ Revoked(m, 0) /\ UNCHANGED <<place, accepted, response>>
      BY <2>2 DEF Abort, netVars
    <3>2. accepted[m] = NoConn /\ response[m] = 0
      BY <1>1, <3>1 DEF AttemptInv
    <3>3. /\ live' \in [Members -> Nat]
          /\ outPeer' \in [Members -> Nat] /\ inPeer' \in [Members -> Nat]
          /\ failed' \in [Members -> BOOLEAN]
          /\ uuid' \in [Members -> Uuids \cup {NoUuid}] /\ uuid'[m] = NoUuid
          /\ \A x \in Members : x # m => /\ live'[x] = live[x] /\ outPeer'[x] = outPeer[x]
                                         /\ inPeer'[x] = inPeer[x] /\ uuid'[x] = uuid[x]
      BY <1>1, <3>1, RevokedTypes
    <3> QED BY <1>2, <3>1, <3>2, <3>3
  <2> QED BY <2>1, <2>2
<1>5. GroupTypes'
  BY <1>1, <1>3, <1>4 DEF GroupTypes
<1>6. \A x \in Members : x # m => Same(x)
  BY <1>3, <1>4 DEF Same
<1>7. Grows
  <2>1. \A x \in Members : Len(tries[x]) \in Nat
    BY <1>1, MemberTypes
  <2>2. \A x \in Members : place'[x] = 1 => place[x] = 1
    BY <1>4
  <2> QED BY <1>3, <2>1, <2>2 DEF Grows
<1>8. ~ Several(m)'
  BY <1>4 DEF Several
<1> QED BY <1>3, <1>4, <1>5, <1>6, <1>7, <1>8, ResetStep

-----------------------------------------------------------------------------
(* The invariant and the property. *)

\* Nobody has called _reconfigure yet.
LEMMA PairInvInit == Init => PairInv
<1> SUFFICES ASSUME Init PROVE PairInv
  OBVIOUS
<1>1. GroupTypes
  <2>1. <<>> \in Seq(Uuids) /\ <<>> \in Seq(ConnType)
    OBVIOUS
  <2> QED BY <2>1 DEF Init, GroupTypes
<1>2. AttemptInv
  BY DEF Init, AttemptInv, Several
<1>3. BacklogInv
  <2>1. \A n \in Members : DOMAIN backlog[n] = {} /\ accepted[n] = NoConn
    BY DEF Init
  <2> QED BY <2>1 DEF BacklogInv
<1>4. PeerInv
  BY DEF Init, PeerInv, Several
<1>5. AnswerInv
  <2>1. \A m \in Members : Answer(m) = 0
    BY DEF Init, Answer, Several
  <2> QED BY <2>1 DEF AnswerInv
<1> QED BY <1>1, <1>2, <1>3, <1>4, <1>5 DEF PairInv

\* One step per action of the specification.
LEMMA PairInvStep == PairInv /\ [Next]_vars => PairInv'
<1> SUFFICES ASSUME PairInv, [Next]_vars PROVE PairInv'
  OBVIOUS
<1>1. CASE UNCHANGED vars
  BY <1>1 DEF vars, groupVars, netVars, PairInv, GroupTypes, AttemptInv, BacklogInv, PeerInv, AnswerInv,
     Names, Answer, Several, Uuid, Gen
<1>2. ASSUME NEW m \in Members, Call(m) PROVE PairInv'
  BY <1>2, BeginStep DEF Call
<1>3. ASSUME NEW m \in Members, Step(m) PROVE PairInv'
  <2>1. CASE PeerClosed(m)
    <3>1. GroupTypes
      BY DEF PairInv
    <3>2. place[m] # 0
      BY <2>1, <3>1, Places DEF PeerClosed
    <3> QED BY <2>1, <3>2, EndStep DEF PeerClosed
  <2> QED BY <1>3, <2>1, ConnectStep, SendStep, AcceptStep, RespondStep, CommitStep DEF Step
<1>4. ASSUME NEW m \in Members, TimeOut(m) \/ Raises(m) PROVE PairInv'
  <2>1. GroupTypes
    BY DEF PairInv
  <2>2. place[m] # 0
    BY <1>4, <2>1, Places DEF TimeOut, Raises
  <2> QED BY <1>4, <2>2, EndStep DEF TimeOut, Raises
<1>5. ASSUME NEW m \in Members, Fault(m) PROVE PairInv'
  BY <1>4, <1>5, BeginStep, EndStep, CloseStep DEF Fault
<1> QED BY <1>1, <1>2, <1>3, <1>4, <1>5 DEF Next

\* The connections of every member, the attempts that they name and the answers
\* that have been given to them agree, for every ring and every sequence of calls,
\* failures and retries of _reconfigure.
THEOREM PairInvHolds == Spec => []PairInv
BY PairInvInit, PairInvStep, PTL DEF Spec

\* Committed neighbours are connected to each other's live QPs: the exchange of
\* _reconfigure never pairs a QP of one attempt with a stale one of the other.
THEOREM CommittedPairsHold == Spec => []CommittedPairs
<1>1. PairInv => CommittedPairs
  <2> SUFFICES ASSUME PairInv, NEW m \in Members, Usable(m), Several(m),
                      NEW n, n = NextMember(uuid[m], m), NEW p, p = PrevMember(uuid[m], m)
               PROVE  /\ live[m] = Gen(m)
                      /\ tries[n][outPeer[m]] = uuid[m] /\ tries[p][inPeer[m]] = uuid[m]
                      /\ Usable(n) /\ uuid[n] = uuid[m] => outPeer[m] = live[n] /\ inPeer[n] = live[m]
    BY DEF CommittedPairs
  <2>1. AttemptInv /\ PeerInv /\ AnswerInv
    BY DEF PairInv
  <2>2. /\ live[m] = Gen(m) /\ place[m] = 0 /\ uuid[m] = Uuid(m) /\ RingOf(uuid[m], m) /\ outPeer[m] # 0
    BY <2>1 DEF AttemptInv, Usable
  <2>3. tries[p][inPeer[m]] = uuid[m]
    BY <2>1 DEF PeerInv
  <2>4. Answer(m) = outPeer[m]
    BY <2>2 DEF Answer
  <2>5. n \in Members
    BY <2>2, Neighbours
  <2>6. /\ tries[n][outPeer[m]] = uuid[m]
        /\ uuid[n] = uuid[m] => outPeer[m] = Gen(n) /\ inPeer[n] = Gen(m)
    BY <2>1, <2>2, <2>4 DEF AnswerInv
  <2>7. ASSUME Usable(n), uuid[n] = uuid[m] PROVE live[n] = Gen(n)
    <3>1. Several(n)
      BY <2>7 DEF Several
    <3> QED BY <2>1, <2>5, <2>7, <3>1 DEF AttemptInv, Usable
  <2> QED BY <2>2, <2>3, <2>6, <2>7
<1> QED BY <1>1, PairInvHolds, PTL
=============================================================================
