------------------------- MODULE RingAllReduceProofs -------------------------
(***************************************************************************)
(* Proofs about RingAllReduce, for every number of ranks, channels,        *)
(* strides and collectives, with faults.                                   *)
(*                                                                         *)
(* The argument is about one lane between a rank and the next.  A rank     *)
(* has finished so many steps (Fin) and stands in the step after them      *)
(* (Cur).  What has arrived on a lane bounds both of its ends (CountInv):  *)
(* who has finished a step was heard, and has heard, in it.  So neighbours *)
(* are at most a step apart, and Cur of the one is that of the other or    *)
(* the step before or after it (CurInv), also across the strides and the   *)
(* collectives.  From where a rank stands follows what its work buffer     *)
(* holds (WorkInv): of the piece of an owner o, before the reduce-scatter  *)
(* its own input, then those of the ranks behind o up to itself (Arc), and *)
(* after the all-gather all of them.  A write of the all-gather may be     *)
(* there early; it never hits a piece that is still to be sent or reduced. *)
(*                                                                         *)
(* The last part is about the layout alone: an element tells its channel,  *)
(* its stride and its owner, as long as no Int32 of the kernel wraps.      *)
(***************************************************************************)
EXTENDS MCRingAllReduce, SequenceTheorems, FiniteSetTheorems, TLAPS

-----------------------------------------------------------------------------
(* Ranks on the ring *)

Before(r) == IF r = 0 THEN World - 1 ELSE r - 1

\* How far the rank q is behind r.
Lag(r, q) == IF q <= r THEN r - q ELSE r - q + World

\* How far r is ahead of the owner o of a piece, 1..World.
Hop(r, o) == IF o < r THEN r - o ELSE r - o + World

\* r and the d - 1 ranks behind it.
Arc(r, d) == {q \in Ranks : Lag(r, q) < d}

\* The sum of the inputs of the ranks in S.
Parts(c, S) == SetToBag(S \X {c})

-----------------------------------------------------------------------------
(* Where a channel is *)

\* A channel with elements.
Busy(ch) == Offsets(L, ch, World) # {}

\* The channel is in a step, or was when it stopped.
Inside(r, ch) == kernel[r][ch].at # 0 \/ kernel[r][ch].status # 0

\* The call has ended with an error, outside of any step of this channel.
Dead(r, ch) == ~ Inside(r, ch) /\ host[r] = "idle" /\ outcome[r] = "raised"

StepOf(m, k) == [coll |-> m, off |-> k.off, phase |-> k.phase, step |-> k.step]

\* The step that a channel is in, or will be in next.
Cur(r, ch) ==
    IF Inside(r, ch)
    THEN StepOf(coll[r], kernel[r][ch])
    ELSE StepOf(IF host[r] = "copied" THEN coll[r] ELSE coll[r] + 1, FirstStep(0))

\* The step after c.
Succ(ch, c) ==
    LET off == c.off + World * L.base IN
    CASE c.phase = "rs" /\ c.step < World - 1 -> [c EXCEPT !.step = @ + 1]
      [] c.phase = "rs" /\ c.step = World - 1 -> [c EXCEPT !.phase = "ag", !.step = 0]
      [] c.phase = "ag" /\ c.step < World - 2 -> [c EXCEPT !.step = @ + 1]
      [] OTHER -> IF off \in Offsets(L, ch, World)
                  THEN StepOf(c.coll, FirstStep(off))
                  ELSE StepOf(c.coll + 1, FirstStep(0))

\* What it has posted in this step.
Begun(r, ch) == kernel[r][ch].at >= 2 \/ kernel[r][ch].status # 0
Sent(r, ch) == kernel[r][ch].at >= 3 \/ kernel[r][ch].status # 0

\* The steps it has finished, in all collectives.
Fin(r, ch) == IF Sent(r, ch) THEN sends[r][ch] - 1 ELSE sends[r][ch]

-----------------------------------------------------------------------------
(* The invariant *)

ChannelType ==
    [at : 0..5, phase : {"rs", "ag"}, step : Nat, off : Nat, status : {0, -110},
     sendTicket : Nat, recvTicket : Nat]

Wqes == [into : {"signal", "scratch", "work"}, slot : Channels \X Nat \X Ranks]

IsBuffer(b) == b = [r \in Ranks |-> [s \in Slots |-> b[r][s]]]

RingTypes ==
    /\ coll \in [Ranks -> Nat] /\ host \in [Ranks -> {"idle", "copied", "kernel"}]
    /\ outcome \in [Ranks -> {"none", "ok", "raised"}]
    /\ failed \in [Ranks -> BOOLEAN] /\ lanes \in [Ranks -> BOOLEAN]
    /\ kernel \in [Ranks -> [Channels -> ChannelType]]
    /\ sq \in [Ranks -> [Lanes -> Seq(Wqes)]]
    /\ sends \in [Ranks -> [Lanes -> Nat]] /\ acked \in [Ranks -> [Lanes -> Nat]]
    /\ recvs \in [Ranks -> [Lanes -> Nat]] /\ arrived \in [Ranks -> [Lanes -> Nat]]
    /\ IsBuffer(work) /\ IsBuffer(scratch) /\ IsBuffer(tensor)

\* A call in progress has its QPs and no result; a rank that failed, or whose QPs
\* are gone, makes no more calls.
HostOk(r) ==
    /\ host[r] # "idle" => lanes[r] /\ ~ failed[r] /\ outcome[r] = "none" /\ coll[r] # 0
    /\ host[r] = "idle" /\ outcome[r] = "none" => coll[r] = 0
    /\ outcome[r] # "none" => coll[r] # 0
    /\ outcome[r] = "raised" => failed[r]
    /\ ~ lanes[r] => failed[r]

\* The steps of the schedule.
IsStep(ch, k) ==
    /\ k.off \in Offsets(L, ch, World)
    /\ k.phase = "rs" => k.step \in 1..(World - 1)
    /\ k.phase = "ag" => k.step \in 0..(World - 2) /\ k.at # 5

\* A channel runs in a call, and posts a receive and a put in every step.
ChannelOk(r, ch) ==
    /\ kernel[r][ch].at # 0 => host[r] = "kernel" /\ kernel[r][ch].status = 0
    /\ kernel[r][ch].status # 0 => host[r] = "kernel" \/ outcome[r] = "raised"
    /\ Inside(r, ch) => IsStep(ch, kernel[r][ch])
    /\ recvs[r][ch] = Fin(r, ch) + (IF Begun(r, ch) THEN 1 ELSE 0)
    /\ Fin(r, ch) \in Nat
    /\ kernel[r][ch].at >= 2 => kernel[r][ch].recvTicket = recvs[r][ch]
    /\ kernel[r][ch].at >= 3 => kernel[r][ch].sendTicket = sends[r][ch]

LocalInv == RingTypes /\ \A r \in Ranks : HostOk(r) /\ \A ch \in Channels : ChannelOk(r, ch)

\* What has arrived at n, the next rank, bounds both ends of the lane.
LaneOk(r, n, ch) ==
    /\ Fin(r, ch) <= arrived[n][ch] /\ arrived[n][ch] <= sends[r][ch]
    /\ Fin(n, ch) <= arrived[n][ch] /\ arrived[n][ch] <= recvs[n][ch]
    /\ acked[r][ch] <= arrived[n][ch]
    /\ Len(sq[r][ch]) = IF lanes[r] THEN sends[r][ch] - arrived[n][ch] ELSE 0
    /\ kernel[r][ch].at >= 4 => arrived[n][ch] = sends[r][ch]
    /\ kernel[n][ch].at = 5 => arrived[n][ch] = recvs[n][ch]

CountInv ==
    \A r \in Ranks :
        /\ \A ch \in Channels : LaneOk(r, After(r), ch)
        /\ \A l \in Lanes \ Channels : sq[r][l] = <<>>

\* Neighbours are in the same step, or one of them is in the next one.
CurOk(r, n, ch) ==
    /\ Fin(n, ch) = Fin(r, ch) => Cur(n, ch) = Cur(r, ch)
    /\ Fin(n, ch) = Fin(r, ch) + 1 => Cur(n, ch) = Succ(ch, Cur(r, ch))
    /\ Fin(r, ch) = Fin(n, ch) + 1 => Cur(r, ch) = Succ(ch, Cur(n, ch))

CurInv ==
    \A r \in Ranks : \A ch \in Channels :
        Busy(ch) /\ ~ Dead(r, ch) /\ ~ Dead(After(r), ch) => CurOk(r, After(r), ch)

\* The put of a step.
Wqe(r, ch, c) ==
    LET slot == <<ch, c.off, SendOwner(r, c.phase, c.step)>> IN
    [into |-> IF slot \notin Slots THEN "signal" ELSE IF c.phase = "rs" THEN "scratch" ELSE "work",
     slot |-> slot]

WqeInv ==
    \A r \in Ranks : \A ch \in Channels :
        sq[r][ch] # <<>> => sq[r][ch][1] = Wqe(r, ch, Cur(r, ch))

-----------------------------------------------------------------------------
(* What the buffers hold *)

\* The ranks whose inputs r has in a piece, in collective m, before the step c.
Held(r, off, o, c, m) ==
    IF c.coll # m \/ off < c.off THEN Ranks
    ELSE IF off > c.off THEN {r}
    ELSE IF c.phase = "rs"
    THEN IF Hop(r, o) <= c.step THEN Arc(r, Hop(r, o)) ELSE {r}
    ELSE IF Hop(r, o) <= c.step THEN Ranks ELSE Arc(r, Hop(r, o))

\* r receives the slot s in the step c.
Receives(r, c, s) == s[2] = c.off /\ Hop(r, s[3]) = c.step + 1
Gathers(r, c, s) == c.phase = "ag" /\ Receives(r, c, s)

\* The predecessor may have written s already.
Early(r, s) ==
    /\ Inside(r, s[1])
    /\ \/ Gathers(r, Cur(r, s[1]), s)
       \/ /\ Gathers(r, Succ(s[1], Cur(r, s[1])), s)
          /\ Fin(Before(r), s[1]) = Fin(r, s[1]) + 1

\* The notification of the current step has arrived.
Heard(r, ch) == Inside(r, ch) /\ arrived[r][ch] = Fin(r, ch) + 1

WorkOk(r, s) ==
    LET full == Parts(coll[r], Ranks)
        cur == Cur(r, s[1])
    IN  /\ \/ work[r][s] = Parts(coll[r], Held(r, s[2], s[3], cur, coll[r]))
           \/ work[r][s] = full /\ Early(r, s)
        /\ Heard(r, s[1]) /\ Gathers(r, cur, s) => work[r][s] = full

WorkInv ==
    \A r \in Ranks : \A s \in Slots : coll[r] # 0 /\ ~ Dead(r, s[1]) => WorkOk(r, s)

ScratchInv ==
    \A r \in Ranks : \A s \in Slots :
        LET cur == Cur(r, s[1]) IN
        Heard(r, s[1]) /\ cur.phase = "rs" /\ Receives(r, cur, s) =>
            scratch[r][s] = Parts(coll[r], Arc(Before(r), cur.step))

\* An input is there only after its rank has entered the collective.
EnteredInv ==
    \A r \in Ranks : \A s \in Slots : \A x \in DOMAIN work[r][s] \cup DOMAIN scratch[r][s] :
        \E q \in Ranks : \E c \in 1..coll[q] : x = <<q, c>>

TensorInv ==
    \A r \in Ranks : outcome[r] = "ok" => tensor[r] = Everywhere(Parts(coll[r], Ranks))

\* Where everybody is and what is on the lanes.
ControlInv == LocalInv /\ CountInv /\ CurInv /\ WqeInv

RingInv == ControlInv /\ WorkInv /\ ScratchInv /\ EnteredInv /\ TensorInv

-----------------------------------------------------------------------------
(* Ranks and owners *)

\* x mod m for x below 3m.
LEMMA ModIs ==
    ASSUME NEW m \in Nat \ {0}, NEW x \in 0..(3 * m - 1)
    PROVE  x % m = IF x < m THEN x ELSE IF x < 2 * m THEN x - m ELSE x - 2 * m
<1> DEFINE k == x \div m
<1>1. x = m * k + (x % m) /\ x % m \in 0..(m - 1) /\ k \in Int
  OBVIOUS
<1> HIDE DEF k
<1>2. k = 0 \/ k = 1 \/ k = 2
  <2>1. k >= 0
    BY <1>1
  <2>2. k <= 2
    BY <1>1
  <2> QED BY <1>1, <2>1, <2>2
<1>3. CASE k = 0
  BY <1>1, <1>3
<1>4. CASE k = 1
  BY <1>1, <1>4
<1>5. CASE k = 2
  BY <1>1, <1>5
<1> QED BY <1>2, <1>3, <1>4, <1>5

\* The neighbours of a rank.
LEMMA Neighbours ==
    ASSUME NEW r \in Ranks
    PROVE  /\ After(r) = IF r = World - 1 THEN 0 ELSE r + 1
           /\ After(r) \in Ranks /\ After(r) # r /\ Before(After(r)) = r
           /\ Before(r) \in Ranks /\ Before(r) # r /\ After(Before(r)) = r
<1>1. World \in Nat \ {0} /\ World >= 2 /\ r \in 0..(World - 1)
  BY RingAssumption DEF Ranks
<1>2. ASSUME NEW q \in Ranks PROVE After(q) = IF q = World - 1 THEN 0 ELSE q + 1
  <2>1. q \in 0..(World - 1) /\ q + 1 \in 0..(3 * World - 1)
    BY <1>1 DEF Ranks
  <2> DEFINE x == q + 1
  <2>2. x % World = IF x < World THEN x ELSE IF x < 2 * World THEN x - World ELSE x - 2 * World
    <3> HIDE DEF x
    <3>1. x \in 0..(3 * World - 1)
      BY <2>1 DEF x
    <3> QED BY <1>1, <3>1, ModIs
  <2> QED BY <1>1, <2>1, <2>2 DEF After
<1>3. Before(r) \in Ranks
  BY <1>1 DEF Before, Ranks
<1>4. After(r) = IF r = World - 1 THEN 0 ELSE r + 1
  BY <1>2
<1>5. After(Before(r)) = IF Before(r) = World - 1 THEN 0 ELSE Before(r) + 1
  BY <1>2, <1>3
<1> QED BY <1>1, <1>3, <1>4, <1>5 DEF Before, Ranks

\* How the hops of a piece count along the ring.
LEMMA Hops ==
    ASSUME NEW r \in Ranks, NEW o \in Ranks
    PROVE  /\ Hop(r, o) \in 1..World
           /\ Hop(After(r), o) = IF Hop(r, o) = World THEN 1 ELSE Hop(r, o) + 1
           /\ \A p \in Ranks : Hop(r, o) = Hop(r, p) => o = p
BY Neighbours, RingAssumption DEF Hop, Ranks

\* The pieces that a step sends and receives.
LEMMA Owners ==
    ASSUME NEW r \in Ranks, NEW ph, NEW st \in 0..(World - 1)
    PROVE  /\ SendOwner(r, ph, st) \in Ranks /\ RecvOwner(r, st) \in Ranks
           /\ Hop(r, SendOwner(r, ph, st)) = IF st = 0 THEN World ELSE st
           /\ Hop(After(r), SendOwner(r, ph, st)) = st + 1
           /\ Hop(r, RecvOwner(r, st)) = st + 1
<1>1. World \in Nat \ {0} /\ World >= 2 /\ r \in 0..(World - 1)
  BY RingAssumption DEF Ranks
<1>2. r - st + World \in 0..(3 * World - 1) /\ r - st - 1 + 2 * World \in 0..(3 * World - 1)
  BY <1>1
<1>3. SendOwner(r, ph, st) = IF r >= st THEN r - st ELSE r - st + World
  <2> DEFINE x == r - st + World
  <2>1. x % World = IF x < World THEN x ELSE IF x < 2 * World THEN x - World ELSE x - 2 * World
    <3> HIDE DEF x
    <3>1. x \in 0..(3 * World - 1)
      BY <1>2 DEF x
    <3> QED BY <1>1, <3>1, ModIs
  <2> QED BY <1>1, <2>1 DEF SendOwner
<1>4. RecvOwner(r, st) = IF r >= st + 1 THEN r - st - 1 ELSE r - st - 1 + World
  <2> DEFINE x == r - st - 1 + 2 * World
  <2>1. x % World = IF x < World THEN x ELSE IF x < 2 * World THEN x - World ELSE x - 2 * World
    BY <1>1, <1>2, ModIs
  <2> QED BY <1>1, <2>1 DEF RecvOwner
<1>5. SendOwner(r, ph, st) \in Ranks /\ RecvOwner(r, st) \in Ranks
  BY <1>1, <1>3, <1>4 DEF Ranks
<1>6. Hop(r, SendOwner(r, ph, st)) = (IF st = 0 THEN World ELSE st) /\ Hop(r, RecvOwner(r, st)) = st + 1
  BY <1>1, <1>3, <1>4 DEF Hop
<1>7. Hop(After(r), SendOwner(r, ph, st)) = st + 1
  <2>1. Hop(After(r), SendOwner(r, ph, st)) =
          IF Hop(r, SendOwner(r, ph, st)) = World THEN 1 ELSE Hop(r, SendOwner(r, ph, st)) + 1
    BY <1>5, Hops
  <2> QED BY <1>1, <1>6, <2>1
<1> QED BY <1>5, <1>6, <1>7

\* The ranks behind a rank.
LEMMA Arcs ==
    ASSUME NEW r \in Ranks
    PROVE  /\ Arc(r, 1) = {r} /\ Arc(r, World) = Ranks
           /\ \A d \in 1..(World - 1) :
                 /\ Arc(After(r), d + 1) = {After(r)} \cup Arc(r, d)
                 /\ After(r) \notin Arc(r, d)
<1>1. World \in Nat \ {0} /\ World >= 2 /\ r \in 0..(World - 1) /\ Ranks = 0..(World - 1)
  BY RingAssumption DEF Ranks
<1>2. \A q \in Ranks : Lag(r, q) \in 0..(World - 1) /\ (Lag(r, q) = 0 <=> q = r)
  BY <1>1 DEF Lag
<1>a. After(r) = (IF r = World - 1 THEN 0 ELSE r + 1) /\ After(r) \in 0..(World - 1)
  BY <1>1, Neighbours
<1>3. \A q \in Ranks : Lag(After(r), q) = IF q = After(r) THEN 0 ELSE Lag(r, q) + 1
  BY <1>1, <1>a DEF Lag
<1>4. Lag(r, After(r)) = World - 1
  BY <1>1, <1>a DEF Lag
<1>5. Arc(r, 1) = {r} /\ Arc(r, World) = Ranks
  BY <1>1, <1>2 DEF Arc
<1>6. ASSUME NEW d \in 1..(World - 1)
      PROVE  Arc(After(r), d + 1) = {After(r)} \cup Arc(r, d) /\ After(r) \notin Arc(r, d)
  <2>1. After(r) \notin Arc(r, d)
    BY <1>1, <1>4 DEF Arc
  <2>2. ASSUME NEW q \in Ranks PROVE Lag(After(r), q) < d + 1 <=> q = After(r) \/ Lag(r, q) < d
    BY <1>1, <1>2, <1>3
  <2>3. After(r) \in Ranks
    BY Neighbours
  <2> QED BY <2>1, <2>2, <2>3 DEF Arc
<1> QED BY <1>5, <1>6

-----------------------------------------------------------------------------
(* Sums *)

\* A rank's own input.
LEMMA OwnInput ==
    ASSUME NEW r, NEW c
    PROVE  Input(r, c) = Parts(c, {r})
<1>1. {<<r, c>>} = {r} \X {c}
  OBVIOUS
<1> QED BY <1>1 DEF Input, Parts

\* Sums of different ranks add up.
LEMMA AddParts ==
    ASSUME NEW c, NEW S, NEW T, S \cap T = {}
    PROVE  Parts(c, S) (+) Parts(c, T) = Parts(c, S \cup T)
<1> DEFINE A == S \X {c}
           B == T \X {c}
           C == (S \cup T) \X {c}
<1>1. A \cup B = C /\ A \cap B = {}
  OBVIOUS
<1>2. Parts(c, S) = [e \in A |-> 1] /\ Parts(c, T) = [e \in B |-> 1] /\ Parts(c, S \cup T) = [e \in C |-> 1]
  BY DEF Parts, SetToBag
<1> HIDE DEF A, B, C
<1>3. DOMAIN Parts(c, S) = A /\ DOMAIN Parts(c, T) = B
  BY <1>2
<1>4. Parts(c, S) (+) Parts(c, T)
      = [e \in A \cup B |-> (IF e \in A THEN [x \in A |-> 1][e] ELSE 0) + (IF e \in B THEN [x \in B |-> 1][e] ELSE 0)]
  BY <1>2, <1>3 DEF (+)
<1>5. \A e \in A \cup B :
        (IF e \in A THEN [x \in A |-> 1][e] ELSE 0) + (IF e \in B THEN [x \in B |-> 1][e] ELSE 0) = 1
  BY <1>1
<1> QED BY <1>1, <1>2, <1>4, <1>5

\* Sums are told apart by what they contain.
LEMMA PartsDomain ==
    ASSUME NEW c, NEW S
    PROVE  DOMAIN Parts(c, S) = S \X {c} /\ SetToBag(DOMAIN Parts(c, S)) = Parts(c, S)
BY DEF Parts, SetToBag
-----------------------------------------------------------------------------
(* The layout.  It is stated for any tensor that Fits, and holds of L too. *)

\* A quotient rounded up is the least that reaches the dividend.
LEMMA CeilDivReaches ==
    ASSUME NEW a \in Nat \ {0}, NEW b \in Nat \ {0}
    PROVE  /\ CeilDiv(a, b) \in Nat \ {0} /\ a <= CeilDiv(a, b) * b
           /\ (CeilDiv(a, b) - 1) * b < a /\ CeilDiv(a, b) * b <= a + b - 1
<1> DEFINE k == (a + b - 1) \div b
           m == (a + b - 1) % b
           y == b * k
<1>1. a + b - 1 = y + m /\ m \in 0..(b - 1) /\ k \in Int /\ y \in Int
  OBVIOUS
<1>2. k * b = y /\ (k - 1) * b = y - b
  BY <1>1
<1>3. k >= 1
  <2> HIDE DEF k, m
  <2> QED BY <1>1
<1> HIDE DEF k, m, y
<1>4. a <= y /\ y - b < a /\ y <= a + b - 1
  BY <1>1
<1> QED BY <1>1, <1>2, <1>3, <1>4 DEF CeilDiv, k

\* A quotient is no larger than its dividend.
LEMMA DivBelow ==
    ASSUME NEW n \in Nat, NEW b \in Nat \ {0}
    PROVE  n \div b \in Nat /\ n \div b <= n
<1> DEFINE k == n \div b
           m == n % b
<1>1. k \in Nat /\ m \in Nat /\ n = b * k + m
  OBVIOUS
<1> HIDE DEF k, m
<1>2. b * k >= k /\ b * k \in Nat
  BY <1>1
<1>3. k <= n
  BY <1>1, <1>2
<1> QED BY <1>1, <1>3 DEF k

\* Multiples of m that differ, differ by m at least.
LEMMA Multiples ==
    ASSUME NEW m \in Nat \ {0}, NEW a \in Nat, NEW b \in Nat, a % m = 0, b % m = 0
    PROVE  (a + m) % m = 0 /\ (a < b => a + m <= b)
<1> DEFINE i == a \div m
           j == b \div m
<1>1. a = m * i /\ b = m * j /\ i \in Nat /\ j \in Nat
  OBVIOUS
<1> HIDE DEF i, j
<1>2. a + m = m * (i + 1)
  BY <1>1
<1>3. (a + m) % m = 0
  BY <1>1, <1>2
<1>4. ASSUME a < b PROVE a + m <= b
  <2>1. i < j
    BY <1>1, <1>4
  <2>2. i + 1 <= j
    BY <1>1, <2>1
  <2>3. m * (i + 1) <= m * j
    BY <1>1, <2>2
  <2> QED BY <1>1, <1>2, <2>3
<1> QED BY <1>3, <1>4

\* A number lies between one multiple of m and the next.
LEMMA Quotient ==
    ASSUME NEW m \in Nat \ {0}, NEW e \in Nat
    PROVE  \E i \in Nat : i * m \in Nat /\ i * m <= e /\ e < i * m + m
<1> DEFINE i == e \div m
           r == e % m
           y == i * m
<1>1. i \in Nat /\ r \in 0..(m - 1) /\ e = m * i + r /\ m * i = y /\ y \in Nat
  OBVIOUS
<1> HIDE DEF i, r
<1>2. y <= e /\ e < y + m
  <2> HIDE DEF y
  <2> QED BY <1>1
<1> QED BY <1>1, <1>2

\* ... and between no others.
LEMMA SameQuotient ==
    ASSUME NEW m \in Nat \ {0}, NEW e \in Int, NEW i \in Nat, NEW j \in Nat,
           i * m <= e, e < i * m + m, j * m <= e, e < j * m + m
    PROVE  i = j
<1>1. ASSUME NEW u \in Nat, NEW v \in Nat, u < v, e < u * m + m, v * m <= e PROVE FALSE
  <2>1. PICK d \in Nat : v = u + 1 + d
    <3>1. v - u - 1 \in Nat /\ v = u + 1 + (v - u - 1)
      BY <1>1
    <3> QED BY <3>1
  <2>2. v * m = u * m + m + d * m /\ d * m \in Nat /\ u * m \in Nat
    BY <2>1
  <2> QED BY <1>1, <2>2
<1>2. ~(i < j) /\ ~(j < i)
  BY <1>1
<1> QED BY <1>2

\* A product grows with its factor.
LEMMA ProductGrows ==
    ASSUME NEW i \in Nat, NEW j \in Nat, i <= j, NEW m \in Nat
    PROVE  i * m \in Nat /\ j * m \in Nat /\ i * m <= j * m
<1>1. PICK d \in Nat : j = i + d
  <2>1. j - i \in Nat /\ j = i + (j - i)
    OBVIOUS
  <2> QED BY <2>1
<1>2. j * m = i * m + d * m /\ d * m \in Nat /\ i * m \in Nat
  BY <1>1
<1> QED BY <1>2

\* There are Int32 numbers.
LEMMA SpanIs == IntSpan \in Nat \ {0} /\ IntSpan \div 2 \in Nat
<1>1. /\ IntSpan \in Nat /\ Count \in Nat \ {0} /\ NumSms \in Nat /\ CellBytes \in Nat
      /\ Count + NumSms * CellBytes <= IntSpan \div 2
  BY LayoutAssumption, RingAssumption DEF Fits
<1>2. NumSms * CellBytes \in Nat
  BY <1>1
<1>3. IntSpan \div 2 \in Nat /\ IntSpan \div 2 # 0
  BY <1>1, <1>2
<1> QED BY <1>1, <1>3

\* An Int32 holds every number from -2^31 to 2^31 - 1.
LEMMA Int32Holds ==
    ASSUME NEW n \in Int, -(IntSpan \div 2) <= n, n < IntSpan \div 2
    PROVE  Int32(n) = n
<1> DEFINE h == IntSpan \div 2
           x == n + h
<1>1. IntSpan \in Nat \ {0} /\ h \in Nat /\ h + h <= IntSpan
  BY SpanIs
<1>2. x \in Nat /\ x < IntSpan
  BY <1>1
<1> HIDE DEF x
<1>3. x % IntSpan = x
  BY <1>1, <1>2
<1> QED BY <1>1, <1>3 DEF Int32, x

\* What of a layout the pieces depend on: the channels reach the end of the
\* tensor, none starts where an Int32 does not, and a stride and an alignment
\* behind the end of the tensor there is still an Int32.
Sound(l, world) ==
    /\ l.count \in Nat \ {0} /\ l.active \in Nat \ {0} /\ l.perChannel \in Nat \ {0}
    /\ l.base \in Nat \ {0} /\ l.align \in Nat \ {0} /\ world \in Nat \ {0}
    /\ l.count <= l.active * l.perChannel
    /\ \A ch \in 0..(l.active - 1) : ch * l.perChannel \in Nat /\ ch * l.perChannel < IntSpan \div 2
    /\ l.count + world * (l.base + l.align) < IntSpan \div 2

\* The channels end within an Int32: together they have fewer elements than the
\* tensor and a cell of every channel.
LEMMA ChannelsFit ==
    ASSUME NEW count \in Nat \ {0}, NEW cell \in Nat \ {0}, NEW a \in Nat \ {0}, NEW h \in Nat,
           count + a * cell <= h
    PROVE  LET per == CeilDiv(CeilDiv(count, cell), a) * cell IN
           per \in Nat \ {0} /\ count <= a * per /\ a * per < h /\ per < h
<1> DEFINE C == CeilDiv(count, cell)
           q == CeilDiv(C, a)
           per == q * cell
<1>1. C \in Nat \ {0} /\ count <= C * cell /\ (C - 1) * cell < count
  BY CeilDivReaches
<1> HIDE DEF C
<1>2. q \in Nat \ {0} /\ C <= q * a /\ q * a <= C + a - 1
  BY <1>1, CeilDivReaches
<1> HIDE DEF q
<1>3. per \in Nat \ {0} /\ q * a \in Nat /\ a * per = (q * a) * cell
  BY <1>2
<1>4. count <= a * per
  <2>1. C * cell \in Nat /\ (q * a) * cell \in Nat /\ C * cell <= (q * a) * cell
    BY <1>1, <1>2, <1>3, ProductGrows
  <2> QED BY <1>1, <1>3, <2>1
<1>5. a * per < h
  <2>1. (q * a) * cell <= (C + a - 1) * cell /\ (q * a) * cell \in Nat /\ (C + a - 1) * cell \in Nat
    BY <1>1, <1>2, <1>3, ProductGrows
  <2>2. (C + a - 1) * cell = (C - 1) * cell + a * cell /\ (C - 1) * cell \in Nat /\ a * cell \in Nat
    BY <1>1
  <2> QED BY <1>1, <1>3, <2>1, <2>2
<1>6. 1 * per <= a * per /\ a * per \in Nat /\ 1 * per = per
  BY <1>3, ProductGrows
<1>7. per < h
  BY <1>3, <1>5, <1>6
<1> QED BY <1>3, <1>4, <1>5, <1>7 DEF C, q

\* The layout of a tensor that Fits is sound.
LEMMA LayoutSound ==
    ASSUME NEW count \in Nat \ {0}, NEW size \in Nat \ {0}, NEW sms \in Nat \ {0},
           NEW world \in Nat \ {0}, Fits(count, sms, world)
    PROVE  LET l == Layout(count, size, sms) IN
           /\ Sound(l, world) /\ l.count = count /\ l.active = ActiveChannels(count, size, sms)
           /\ l.active \in 1..sms
<1> DEFINE l == Layout(count, size, sms)
           cell == Larger(1, CellBytes \div size)
           a == ActiveChannels(count, size, sms)
           per == CeilDiv(CeilDiv(count, cell), a) * cell
           base == Larger(1, ChunkBytes \div size)
           align == Larger(1, AlignBytes \div size)
           h == IntSpan \div 2
<1>1. /\ h \in Nat /\ CellBytes \in Nat \ {0} /\ ChannelBytes \in Nat \ {0}
      /\ ChunkBytes \in Nat \ {0} /\ AlignBytes \in Nat \ {0}
  BY SpanIs, LayoutAssumption
<1>2. count + sms * CellBytes <= h /\ count + world * (ChunkBytes + AlignBytes) < h
  BY DEF Fits
<1>3. ASSUME NEW n \in Nat \ {0} PROVE n \div size \in Nat /\ n \div size <= n
  BY DivBelow
<1>4. /\ cell \in Nat \ {0} /\ cell <= CellBytes /\ base \in Nat \ {0} /\ base <= ChunkBytes
      /\ align \in Nat \ {0} /\ align <= AlignBytes
  BY <1>1, <1>3 DEF Larger
<1>5. a \in Nat \ {0} /\ a <= sms
  <2> DEFINE q == (count * size) \div ChannelBytes
  <2>1. count * size \in Nat
    OBVIOUS
  <2>2. q \in Int
    BY <1>1, <2>1
  <2> HIDE DEF q
  <2>3. Larger(1, q) \in Int /\ Larger(1, q) >= 1
    BY <2>2 DEF Larger
  <2> HIDE DEF a
  <2> QED BY <2>3 DEF Smaller, a, ActiveChannels, q
<1>6. l = [count |-> count, itemsize |-> size, active |-> a, perChannel |-> Int32(per), base |-> base,
           align |-> align]
  BY DEF Layout
<1> HIDE DEF cell, a, base, align, h
<1>7. count + a * cell <= h
  <2>1. a * cell <= sms * cell /\ a * cell \in Nat /\ sms * cell \in Nat
    BY <1>4, <1>5, ProductGrows
  <2>2. cell * sms <= CellBytes * sms /\ cell * sms = sms * cell /\ CellBytes * sms = sms * CellBytes
        /\ CellBytes * sms \in Nat
    BY <1>1, <1>4, ProductGrows
  <2> QED BY <1>1, <1>2, <2>1, <2>2
<1>8. per \in Nat \ {0} /\ count <= a * per /\ a * per < h /\ per < h
  BY <1>1, <1>4, <1>5, <1>7, ChannelsFit
<1> HIDE DEF per
<1>9. Int32(per) = per
  BY <1>1, <1>8, Int32Holds DEF h
<1>10. ASSUME NEW ch \in 0..(a - 1) PROVE ch * per \in Nat /\ ch * per < h
  <2>1. ch * per <= a * per /\ ch * per \in Nat /\ a * per \in Nat
    BY <1>5, <1>8, ProductGrows
  <2> QED BY <1>1, <1>8, <2>1
<1>11. count + world * (base + align) < h
  <2>1. /\ (base + align) * world <= (ChunkBytes + AlignBytes) * world
        /\ (base + align) * world \in Nat /\ (ChunkBytes + AlignBytes) * world \in Nat
    BY <1>1, <1>4, ProductGrows
  <2>2. /\ (base + align) * world = world * (base + align)
        /\ (ChunkBytes + AlignBytes) * world = world * (ChunkBytes + AlignBytes)
    BY <1>1, <1>4
  <2> QED BY <1>1, <1>2, <2>1, <2>2
<1>12. /\ l.count = count /\ l.active = a /\ l.perChannel = per /\ l.base = base /\ l.align = align
  BY <1>6, <1>9
<1> HIDE DEF l
<1>13. Sound(l, world)
  BY <1>4, <1>5, <1>8, <1>10, <1>11, <1>12 DEF Sound, h
<1> QED BY <1>5, <1>12, <1>13 DEF l, a

\* Where a channel lies: no Int32 of the kernel wraps.
LEMMA ChannelIs ==
    ASSUME NEW l, NEW world, Sound(l, world), NEW ch \in 0..(l.active - 1)
    PROVE  /\ ChannelStart(l, ch) = ch * l.perChannel
           /\ ChannelCount(l, ch) = Smaller(l.count - ch * l.perChannel, l.perChannel)
           /\ ch * l.perChannel \in Nat /\ ChannelCount(l, ch) \in Int
           /\ ch * l.perChannel + ChannelCount(l, ch) <= l.count
           /\ LoopCount(l, world) = world * l.base /\ world * l.base \in Nat \ {0}
           /\ l.count + world * l.base < IntSpan \div 2
<1> DEFINE s == ch * l.perChannel
           h == IntSpan \div 2
           w == world * l.base
           v == world * l.align
<1>1. w \in Nat \ {0} /\ v \in Nat /\ world * (l.base + l.align) = w + v
  BY DEF Sound
<1>2. /\ s \in Nat /\ s < h /\ l.count \in Nat /\ l.count + (w + v) < h /\ h \in Nat /\ l.perChannel \in Nat
  BY <1>1, SpanIs DEF Sound
<1> HIDE DEF s, h, w, v
<1>3. Int32(s) = s /\ Int32(w) = w
  BY <1>1, <1>2, Int32Holds DEF h
<1>4. l.count - s \in Int /\ Int32(l.count - s) = l.count - s
  BY <1>1, <1>2, Int32Holds DEF h
<1>5. ChannelStart(l, ch) = s /\ LoopCount(l, world) = w
  BY <1>3 DEF ChannelStart, LoopCount, s, w
<1>6. ChannelCount(l, ch) = Smaller(l.count - s, l.perChannel)
  BY <1>4, <1>5 DEF ChannelCount
<1> QED BY <1>1, <1>2, <1>5, <1>6 DEF Smaller, s, w, h

\* The loop goes through the multiples of the stride below channel_count.
LEMMA StridesAre ==
    ASSUME NEW l, NEW world, Sound(l, world), NEW ch \in 0..(l.active - 1)
    PROVE  Offsets(l, ch, world) = {x \in 0..(ChannelCount(l, ch) - 1) : x % (world * l.base) = 0}
<1> DEFINE C == ChannelCount(l, ch)
           w == world * l.base
           h == IntSpan \div 2
           At(k) == Int32(k * LoopCount(l, world))
           S == {x \in 0..(C - 1) : x % w = 0}
<1>1. /\ C \in Int /\ C <= l.count /\ w \in Nat \ {0} /\ LoopCount(l, world) = w /\ l.count \in Nat
      /\ l.count + w < h /\ h \in Nat /\ IntSpan \in Nat /\ h <= IntSpan
  <2>1. /\ C \in Int /\ ch * l.perChannel + C <= l.count /\ ch * l.perChannel \in Nat /\ w \in Nat \ {0}
        /\ LoopCount(l, world) = w /\ l.count + w < h
    BY ChannelIs
  <2>2. l.count \in Nat /\ h \in Nat /\ IntSpan \in Nat /\ h <= IntSpan
    BY SpanIs DEF Sound
  <2> HIDE DEF C, w, h
  <2> QED BY <2>1, <2>2
<1>2. Offsets(l, ch, world) = {At(k) : k \in {k \in 0..IntSpan : \A j \in 0..k : At(j) < C}}
  BY DEF Offsets
<1> HIDE DEF C, w, h
<1>3. ASSUME NEW k \in Nat, k * w < h PROVE At(k) = k * w /\ k * w \in Nat
  <2>1. k * w \in Nat
    BY <1>1
  <2> QED BY <1>1, <1>3, <2>1, Int32Holds DEF h
<1>4. ASSUME NEW x \in S PROVE x \in Offsets(l, ch, world)
  <2>1. x \in Nat /\ x < C /\ x % w = 0
    BY <1>1
  <2> DEFINE k == x \div w
  <2>2. k \in Nat /\ k <= x /\ x = k * w
    BY <1>1, <2>1, DivBelow
  <2> HIDE DEF k
  <2>3. k \in 0..IntSpan
    BY <1>1, <2>1, <2>2
  <2>4. ASSUME NEW j \in 0..k PROVE At(j) < C
    <3>1. j * w <= k * w /\ j * w \in Nat
      BY <1>1, <2>2, ProductGrows
    <3>2. j * w < C
      BY <1>1, <2>1, <2>2, <3>1
    <3>3. j \in Nat /\ j * w < h
      BY <1>1, <2>2, <3>1, <3>2
    <3>4. At(j) = j * w
      BY <1>3, <3>3
    <3> QED BY <3>2, <3>4
  <2>5. At(k) = x
    <3>1. k * w < h
      BY <1>1, <2>1, <2>2
    <3> QED BY <1>3, <2>2, <3>1
  <2> HIDE DEF At
  <2> QED BY <1>2, <2>3, <2>4, <2>5
<1>5. ASSUME NEW x \in Offsets(l, ch, world) PROVE x \in S
  <2>1. PICK k \in 0..IntSpan : x = At(k) /\ \A j \in 0..k : At(j) < C
    <3> HIDE DEF At
    <3> QED BY <1>2
  <2>2. k \in Nat /\ 0 \in 0..k
    BY <1>1
  <2>3. C \in Nat \ {0}
    <3>1. 0 * w = 0
      BY <1>1
    <3>2. 0 * w < h
      BY <1>1, <3>1
    <3>3. At(0) = 0 * w
      BY <1>3, <3>2
    <3>4. At(0) < C
      BY <2>1, <2>2
    <3> QED BY <1>1, <3>1, <3>3, <3>4
  <2> DEFINE J == CeilDiv(C, w)
  <2>4. J \in Nat \ {0} /\ C <= J * w /\ (J - 1) * w < C /\ J * w <= C + w - 1
    BY <1>1, <2>3, CeilDivReaches
  <2> HIDE DEF J
  <2>5. J * w \in Nat /\ J * w < h
    BY <1>1, <2>3, <2>4
  <2>6. k <= J - 1
    <3>1. SUFFICES ASSUME J <= k PROVE FALSE
      BY <2>2, <2>4
    <3>2. J \in 0..k
      BY <2>2, <2>4, <3>1
    <3>3. At(J) = J * w
      BY <1>3, <2>4, <2>5
    <3>4. At(J) < C
      BY <2>1, <3>2
    <3> QED BY <1>1, <2>4, <2>5, <3>3, <3>4
  <2>7. k * w <= (J - 1) * w /\ k * w \in Nat /\ (J - 1) * w \in Nat
    BY <1>1, <2>2, <2>4, <2>6, ProductGrows
  <2>8. k * w < C /\ k * w < h
    BY <1>1, <2>4, <2>7
  <2>9. x = k * w
    BY <1>3, <2>1, <2>2, <2>8
  <2>10. (k * w) % w = 0
    BY <1>1, <2>2
  <2> QED BY <1>1, <2>7, <2>8, <2>9, <2>10
<1>6. Offsets(l, ch, world) = S
  BY <1>4, <1>5
<1> QED BY <1>6 DEF C, w

\* The chunks of a stride reach to its end, or to the end of the channel, and
\* are not longer than they would be in a full stride, but for the alignment.
LEMMA ChunkIs ==
    ASSUME NEW l, NEW world, Sound(l, world), NEW rem \in Nat \ {0}, rem <= l.count
    PROVE  /\ Chunk(l, rem, world) \in Nat \ {0} /\ world * l.base \in Nat \ {0}
           /\ Chunk(l, rem, world) <= l.base + l.align
           /\ rem < world * l.base => rem <= world * Chunk(l, rem, world)
           /\ ~(rem < world * l.base) => Chunk(l, rem, world) = l.base
<1> DEFINE w == world * l.base
           h == IntSpan \div 2
<1>1. l.base \in Nat \ {0} /\ l.align \in Nat \ {0} /\ world \in Nat \ {0} /\ w \in Nat \ {0}
      /\ l.count \in Nat \ {0}
  BY DEF Sound
<1>2. LoopCount(l, world) = w /\ l.count + w + world < h /\ l.base + l.align < h /\ h \in Nat
  <2>1. 0 \in 0..(l.active - 1)
    BY DEF Sound
  <2>2. LoopCount(l, world) = w
    BY <2>1, ChannelIs
  <2> DEFINE v == world * l.align
  <2>3. v \in Nat /\ world * (l.base + l.align) = w + v /\ 1 * world <= l.align * world
        /\ 1 * world = world /\ l.align * world = v
    BY <1>1, ProductGrows
  <2>4. 1 * (l.base + l.align) <= world * (l.base + l.align)
        /\ 1 * (l.base + l.align) = l.base + l.align
    BY <1>1, ProductGrows
  <2>5. h \in Nat /\ l.count + world * (l.base + l.align) < h
    BY SpanIs DEF Sound
  <2> HIDE DEF v, h, w
  <2> QED BY <1>1, <2>2, <2>3, <2>4, <2>5
<1> HIDE DEF h
<1>3. CASE ~(rem < w)
  BY <1>1, <1>2, <1>3 DEF Chunk
<1>4. CASE rem < w
  <2> DEFINE d == CeilDiv(rem, world)
             e == CeilDiv(d, l.align)
             k == e * l.align
  <2>1. d \in Nat \ {0} /\ rem <= d * world /\ (d - 1) * world < rem
    BY <1>1, CeilDivReaches
  <2>2. CeilDiv32(rem, world) = d
    <3>1. rem + world - 1 \in Nat /\ rem + world - 1 < h
      <4> HIDE DEF w
      <4> QED BY <1>1, <1>2
    <3>2. Int32(rem + world - 1) = rem + world - 1
      BY <1>2, <3>1, Int32Holds DEF h
    <3> QED BY <3>2 DEF CeilDiv32, CeilDiv
  <2> HIDE DEF d
  <2>3. d <= l.base
    <3>1. SUFFICES ASSUME l.base <= d - 1 PROVE FALSE
      BY <1>1, <2>1
    <3>2. l.base * world <= (d - 1) * world /\ l.base * world \in Nat /\ (d - 1) * world \in Nat
          /\ l.base * world = w
      BY <1>1, <2>1, <3>1, ProductGrows
    <3> HIDE DEF w
    <3> QED BY <1>4, <2>1, <3>2
  <2>4. e \in Nat \ {0} /\ d <= e * l.align /\ e * l.align <= d + l.align - 1
    BY <1>1, <2>1, CeilDivReaches
  <2>5. CeilDiv32(d, l.align) = e
    <3>1. d + l.align - 1 \in Nat /\ d + l.align - 1 < h
      <4> HIDE DEF w
      <4> QED BY <1>1, <1>2, <2>1, <2>3
    <3>2. Int32(d + l.align - 1) = d + l.align - 1
      BY <1>2, <3>1, Int32Holds DEF h
    <3> QED BY <3>2 DEF CeilDiv32, CeilDiv
  <2> HIDE DEF e
  <2>6. k \in Nat \ {0} /\ d <= k /\ k <= l.base + l.align
    <3>1. k \in Nat \ {0}
      BY <1>1, <2>4
    <3> QED BY <1>1, <2>1, <2>3, <2>4, <3>1
  <2> HIDE DEF k
  <2>7. Int32(k) = k
    <3>1. k < h
      BY <1>1, <1>2, <2>6
    <3> QED BY <1>2, <2>6, <3>1, Int32Holds DEF h
  <2>8. Chunk(l, rem, world) = k
    <3>1. rem < LoopCount(l, world)
      BY <1>2, <1>4
    <3> QED BY <2>2, <2>5, <2>7, <3>1 DEF Chunk, k
  <2>9. d * world <= k * world /\ d * world \in Nat /\ k * world \in Nat /\ k * world = world * k
    BY <1>1, <2>1, <2>6, ProductGrows
  <2>10. rem <= world * k
    BY <2>1, <2>9
  <2> QED BY <1>1, <1>4, <2>6, <2>8, <2>10
<1> QED BY <1>3, <1>4

\* Where a piece lies: no Int32 of the kernel wraps.
LEMMA PieceIs ==
    ASSUME NEW l, NEW world, Sound(l, world), NEW ch \in 0..(l.active - 1),
           NEW off \in Offsets(l, ch, world), NEW o \in 0..(world - 1)
    PROVE  LET n == ChannelCount(l, ch)
               c == Chunk(l, n - off, world)
           IN  /\ off \in Nat /\ n \in Int /\ n - off \in Nat \ {0} /\ n - off <= l.count
               /\ off % (world * l.base) = 0 /\ c \in Nat \ {0} /\ o * c \in Nat
               /\ Piece(l, ch, off, world, o).start = ch * l.perChannel + off + o * c
               /\ Piece(l, ch, off, world, o).len = Smaller(c, Larger(0, n - off - o * c))
<1> DEFINE n == ChannelCount(l, ch)
           rem == n - off
           c == Chunk(l, rem, world)
           s == ch * l.perChannel
           y == o * c
           h == IntSpan \div 2
           z == world * (l.base + l.align)
<1>1. /\ s \in Nat /\ n \in Int /\ ChannelStart(l, ch) = s /\ s + n <= l.count
      /\ l.count \in Nat /\ z \in Nat /\ l.count + z < h /\ h \in Nat /\ world \in Nat \ {0}
      /\ l.base \in Nat /\ l.align \in Nat
  <2>1. world \in Nat \ {0} /\ l.base \in Nat /\ l.align \in Nat /\ l.count \in Nat /\ l.count + z < h
    BY DEF Sound
  <2>2. z \in Nat
    BY <2>1
  <2>3. s \in Nat /\ n \in Int /\ ChannelStart(l, ch) = s /\ s + n <= l.count
    BY ChannelIs
  <2> QED BY <2>1, <2>2, <2>3, SpanIs
<1>2. off \in 0..(n - 1) /\ off % (world * l.base) = 0
  BY StridesAre
<1> HIDE DEF n, s, h, z
<1>3. off \in Nat /\ rem \in Nat \ {0} /\ rem <= l.count
  BY <1>1, <1>2
<1>4. c \in Nat \ {0} /\ c <= l.base + l.align
  <2> HIDE DEF rem
  <2> QED BY <1>3, ChunkIs
<1> HIDE DEF c
<1>5. y \in Nat /\ y <= z
  <2>1. o * c <= world * c /\ o * c \in Nat /\ world * c \in Nat
    BY <1>1, <1>4, ProductGrows
  <2>2. c * world <= (l.base + l.align) * world /\ c * world = world * c
        /\ (l.base + l.align) * world = z
    BY <1>1, <1>4, ProductGrows DEF z
  <2> QED BY <1>1, <2>1, <2>2
<1> HIDE DEF y
<1>6. Int32(rem) = rem /\ Int32(y) = y /\ Int32(rem - y) = rem - y
  <2> HIDE DEF rem
  <2>1. -h <= rem /\ rem < h /\ -h <= y /\ y < h /\ rem - y \in Int /\ -h <= rem - y /\ rem - y < h
    BY <1>1, <1>3, <1>5
  <2> QED BY <1>3, <1>5, <2>1, Int32Holds DEF h
<1>7. Int32(s + off + y) = s + off + y
  <2>1. s + off + y \in Nat /\ s + off + y < h
    BY <1>1, <1>2, <1>3, <1>5
  <2> QED BY <1>1, <2>1, Int32Holds DEF h
<1>8. /\ Piece(l, ch, off, world, o).start = s + off + y
      /\ Piece(l, ch, off, world, o).len = Smaller(c, Larger(0, rem - y))
  BY <1>1, <1>6, <1>7 DEF Piece, n, c, y, rem
<1> QED BY <1>1, <1>2, <1>3, <1>4, <1>5, <1>8 DEF n, c, s, y

Stride == World * L.base

LEMMA LayoutIs ==
    /\ Sound(L, World) /\ L.count = Count /\ L.active \in 1..NumSms
    /\ L.base \in Nat \ {0} /\ Stride \in Nat \ {0}
<1>1. /\ Count \in Nat \ {0} /\ ItemSize \in Nat \ {0} /\ NumSms \in Nat \ {0} /\ World \in Nat \ {0}
      /\ Fits(Count, NumSms, World)
  BY RingAssumption
<1>2. Sound(L, World) /\ L.count = Count /\ L.active \in 1..NumSms
  BY <1>1, LayoutSound DEF L
<1>3. L.base \in Nat \ {0}
  BY <1>2 DEF Sound
<1>4. Stride \in Nat \ {0}
  BY <1>1, <1>3 DEF Stride
<1> QED BY <1>2, <1>3, <1>4

\* Every channel has its lane.
LEMMA ChannelsAreLanes == Channels \subseteq Lanes /\ 0 \in Channels /\ Channels \subseteq Nat
BY LayoutIs, RingAssumption DEF Channels, Lanes

\* A channel goes from 0 through its offsets, stride by stride, to the last.
LEMMA OffsetsAre ==
    ASSUME NEW ch \in Channels, NEW f \in Offsets(L, ch, World)
    PROVE  /\ f \in Nat /\ 0 \in Offsets(L, ch, World)
           /\ \A g \in Offsets(L, ch, World) :
                 /\ g \in Nat /\ (f < g => f + Stride <= g)
                 /\ f + Stride \notin Offsets(L, ch, World) => g <= f
<1> DEFINE C == ChannelCount(L, ch)
<1>1. C \in Int /\ Stride \in Nat \ {0}
  BY ChannelIs, LayoutIs DEF Channels
<1>2. Offsets(L, ch, World) = {x \in 0..(C - 1) : x % Stride = 0}
  BY StridesAre, LayoutIs DEF Channels, Stride
<1> HIDE DEF C
<1>3. C \in Int
  BY <1>1
<1>4. f \in Nat /\ f <= C - 1 /\ f % Stride = 0 /\ 0 \in Offsets(L, ch, World)
  BY <1>1, <1>2, <1>3
<1>5. ASSUME NEW g \in Offsets(L, ch, World)
      PROVE  g \in Nat /\ (f < g => f + Stride <= g)
             /\ (f + Stride \notin Offsets(L, ch, World) => g <= f)
  <2>1. g \in Nat /\ g <= C - 1 /\ g % Stride = 0
    BY <1>2, <1>3
  <2>2. (f + Stride) % Stride = 0 /\ (f < g => f + Stride <= g)
    BY <1>1, <1>4, <2>1, Multiples
  <2>3. f < g => f + Stride \in Offsets(L, ch, World)
    <3>1. SUFFICES ASSUME f < g PROVE f + Stride \in 0..(C - 1)
      BY <1>2, <2>2
    <3> QED BY <1>1, <1>3, <1>4, <2>1, <2>2, <3>1
  <2> QED BY <1>4, <2>1, <2>2, <2>3
<1> QED BY <1>4, <1>5

\* The conditions of the loop, in an Int32, are those of the offsets.
LEMMA LoopIs ==
    ASSUME NEW ch \in Channels
    PROVE  /\ Busy(ch) <=> 0 < ChannelCount(L, ch)
           /\ \A f \in Offsets(L, ch, World) :
                /\ Int32(f + LoopCount(L, World)) = f + Stride
                /\ f + Stride < ChannelCount(L, ch) <=> f + Stride \in Offsets(L, ch, World)
<1> DEFINE C == ChannelCount(L, ch)
           h == IntSpan \div 2
<1>1. /\ C \in Int /\ Stride \in Nat \ {0} /\ LoopCount(L, World) = Stride /\ L.count + Stride < h
      /\ ch * L.perChannel \in Nat /\ ch * L.perChannel + C <= L.count
  BY ChannelIs, LayoutIs DEF Channels, Stride
<1>2. Offsets(L, ch, World) = {x \in 0..(C - 1) : x % Stride = 0}
  BY StridesAre, LayoutIs DEF Channels, Stride
<1>3. L.count \in Nat /\ h \in Nat
  BY SpanIs, LayoutIs DEF Sound
<1> HIDE DEF C, h
<1>4. Busy(ch) <=> 0 < C
  <2>1. 0 % Stride = 0
    BY <1>1
  <2>2. ASSUME 0 < C PROVE 0 \in Offsets(L, ch, World)
    BY <1>1, <1>2, <2>1, <2>2
  <2>3. ASSUME NEW x \in Offsets(L, ch, World) PROVE 0 < C
    BY <1>1, <1>2
  <2> QED BY <2>2, <2>3 DEF Busy
<1>5. ASSUME NEW f \in Offsets(L, ch, World)
      PROVE  /\ Int32(f + LoopCount(L, World)) = f + Stride
             /\ f + Stride < C <=> f + Stride \in Offsets(L, ch, World)
  <2>1. f \in Nat /\ f <= C - 1 /\ f % Stride = 0
    BY <1>1, <1>2
  <2>2. f + Stride \in Nat /\ f + Stride < h
    BY <1>1, <1>3, <2>1
  <2>3. Int32(f + Stride) = f + Stride
    BY <1>3, <2>2, Int32Holds DEF h
  <2>4. (f + Stride) % Stride = 0
    BY <1>1, <2>1, Multiples
  <2>5. f + Stride < C <=> f + Stride \in 0..(C - 1)
    BY <1>1, <2>2
  <2> QED BY <1>1, <1>2, <2>3, <2>4, <2>5
<1> QED BY <1>4, <1>5 DEF C

\* A slot is a piece of a channel, of a stride of it and of an owner.
LEMMA SlotIs ==
    ASSUME NEW s \in Slots
    PROVE  /\ s = <<s[1], s[2], s[3]>> /\ s[1] \in Channels /\ s[3] \in Ranks
           /\ s[2] \in Offsets(L, s[1], World) /\ s[2] \in Nat /\ Busy(s[1])
<1>1. PICK ch \in Channels : s \in {ch} \X Offsets(L, ch, World) \X Ranks
  BY DEF Slots
<1>2. s = <<s[1], s[2], s[3]>> /\ s[1] = ch /\ s[3] \in Ranks /\ s[2] \in Offsets(L, ch, World)
  BY <1>1
<1> QED BY <1>2, OffsetsAre DEF Busy

\* A slot is made of its parts.
LEMMA SlotParts ==
    ASSUME NEW s \in Slots, NEW ch, NEW off, NEW o, s[1] = ch, s[2] = off, s[3] = o
    PROVE  s = <<ch, off, o>>
BY SlotIs

\* A tensor with elements has a piece.
LEMMA SomeSlot == Slots # {}
<1> DEFINE C == ChannelCount(L, 0)
           K == Chunk(L, C - 0, World)
<1>1. 0 \in Channels /\ 0 \in Ranks
  BY ChannelsAreLanes, RingAssumption DEF Ranks
<1>2. C \in Nat \ {0}
  <2>1. L.perChannel \in Nat \ {0} /\ L.count \in Nat \ {0}
    BY LayoutIs DEF Sound
  <2>2. 0 * L.perChannel = 0
    BY <2>1
  <2>3. C = Smaller(L.count - 0 * L.perChannel, L.perChannel)
    BY <1>1, LayoutIs, ChannelIs DEF Channels
  <2> QED BY <2>1, <2>2, <2>3 DEF Smaller
<1>3. 0 \in Offsets(L, 0, World)
  <2>1. Busy(0)
    BY <1>1, <1>2, LoopIs
  <2> QED BY <1>1, <2>1, OffsetsAre DEF Busy
<1>4. K \in Nat \ {0} /\ Piece(L, 0, 0, World, 0).len = Smaller(K, Larger(0, C - 0 - 0 * K))
  BY <1>1, <1>3, LayoutIs, PieceIs DEF Channels, Ranks
<1>5. PieceLen(0, 0, 0) > 0
  <2> HIDE DEF C, K
  <2>1. 0 * K = 0
    BY <1>4
  <2> QED BY <1>2, <1>4, <2>1 DEF PieceLen, Smaller, Larger
<1>6. <<0, 0, 0>> \in Slots
  <2>1. <<0, 0, 0>> \in {s \in {0} \X Offsets(L, 0, World) \X Ranks : PieceLen(s[1], s[2], s[3]) > 0}
    BY <1>1, <1>3, <1>5
  <2> QED BY <1>1, <2>1 DEF Slots
<1> QED BY <1>6
-----------------------------------------------------------------------------
(* The steps of a channel *)

LastOp(k) == IF k.phase = "rs" THEN 5 ELSE 4

\* An operation that is not the last one of its step.
LEMMA Advance ==
    ASSUME NEW ch, NEW k \in ChannelType, k.at # LastOp(k), NEW a, NEW b
    PROVE  Channel(Forward(ch, Position(k)), 0, a, b)
           = [at |-> k.at + 1, phase |-> k.phase, step |-> k.step, off |-> k.off, status |-> 0,
              sendTicket |-> a, recvTicket |-> b]
<1>1. Len(Order) = 5
  BY DEF Order
<1>2. Forward(ch, Position(k)) = [Position(k) EXCEPT !.at = @ + 1]
  BY <1>1 DEF Forward, Position, LastOp, ChannelType
<1> QED BY <1>2 DEF Position, Channel

\* The last one: the channel is at the beginning of the next step, or has
\* ended and will begin with the next collective.
LEMMA Finish ==
    ASSUME NEW ch \in Channels, NEW k \in ChannelType, k.at = LastOp(k), IsStep(ch, k),
           NEW a \in Nat, NEW b \in Nat, NEW m,
           NEW n, n = Channel(Forward(ch, Position(k)), 0, a, b)
    PROVE  /\ n \in ChannelType /\ n.status = 0
           /\ \/ n.at = 1 /\ IsStep(ch, n) /\ Succ(ch, StepOf(m, k)) = StepOf(m, n)
              \/ n.at = 0 /\ Succ(ch, StepOf(m, k)) = StepOf(m + 1, FirstStep(0))
<1> DEFINE p == Position(k)
           q == Forward(ch, p)
           c == StepOf(m, k)
           off == k.off + World * L.base
<1>1. Len(Order) = 5 /\ World \in Nat /\ World >= 2
  BY RingAssumption DEF Order
<1>2. /\ p = [at |-> k.at, phase |-> k.phase, step |-> k.step, off |-> k.off]
      /\ c = [coll |-> m, off |-> k.off, phase |-> k.phase, step |-> k.step]
      /\ k.phase \in {"rs", "ag"} /\ k.step \in Nat /\ k.off \in Nat
  BY DEF Position, StepOf, ChannelType
<1>3. q = NextStep(ch, p)
  BY <1>1, <1>2 DEF Forward, LastOp
<1>4. n = [at |-> q.at, phase |-> q.phase, step |-> q.step, off |-> q.off, status |-> 0,
           sendTicket |-> a, recvTicket |-> b]
  BY DEF Channel
<1>5. \A x \in Offsets(L, ch, World) : x \in Nat
  BY OffsetsAre
<1> SUFFICES /\ n \in ChannelType /\ n.status = 0
             /\ \/ n.at = 1 /\ IsStep(ch, n) /\ Succ(ch, c) = StepOf(m, n)
                \/ n.at = 0 /\ Succ(ch, c) = StepOf(m + 1, FirstStep(0))
  OBVIOUS
<1> HIDE DEF p, q, c
<1>6. CASE k.phase = "rs" /\ k.step < World - 1
  <2>1. q = [at |-> 1, phase |-> k.phase, step |-> k.step + 1, off |-> k.off]
    <3>1. p.phase = "rs" /\ p.step < World - 1 /\ p.step # World - 1
      BY <1>1, <1>2, <1>6
    <3>2. q = [p EXCEPT !.at = 1, !.step = @ + 1]
      BY <1>3, <3>1 DEF NextStep
    <3> QED BY <1>2, <3>2
  <2>2. Succ(ch, c) = [coll |-> m, off |-> k.off, phase |-> k.phase, step |-> k.step + 1]
    BY <1>1, <1>2, <1>6 DEF Succ
  <2> QED BY <1>1, <1>2, <1>4, <1>6, <2>1, <2>2 DEF IsStep, StepOf, ChannelType
<1>7. CASE k.phase = "rs" /\ k.step = World - 1
  <2>1. q = [at |-> 1, phase |-> "ag", step |-> 0, off |-> k.off]
    <3>1. p.phase = "rs" /\ p.step = World - 1 /\ ~ p.step < World - 1
      BY <1>1, <1>2, <1>7
    <3>2. q = [p EXCEPT !.at = 1, !.phase = "ag", !.step = 0]
      BY <1>3, <3>1 DEF NextStep
    <3> QED BY <1>2, <3>2
  <2>2. Succ(ch, c) = [coll |-> m, off |-> k.off, phase |-> "ag", step |-> 0]
    <3>1. c.phase = "rs" /\ c.step = World - 1 /\ ~ c.step < World - 1
      BY <1>1, <1>2, <1>7
    <3>2. Succ(ch, c) = [c EXCEPT !.phase = "ag", !.step = 0]
      BY <3>1 DEF Succ
    <3> QED BY <1>2, <3>2
  <2> QED BY <1>1, <1>2, <1>4, <1>7, <2>1, <2>2 DEF IsStep, StepOf, ChannelType
<1>8. CASE k.phase = "ag" /\ k.step < World - 2
  <2>1. q = [at |-> 1, phase |-> k.phase, step |-> k.step + 1, off |-> k.off]
    BY <1>1, <1>2, <1>3, <1>8 DEF NextStep
  <2>2. Succ(ch, c) = [coll |-> m, off |-> k.off, phase |-> k.phase, step |-> k.step + 1]
    BY <1>1, <1>2, <1>8 DEF Succ
  <2> QED BY <1>1, <1>2, <1>4, <1>8, <2>1, <2>2 DEF IsStep, StepOf, ChannelType
<1>9. CASE k.phase = "ag" /\ ~ k.step < World - 2
  <2>1. q = IF off \in Offsets(L, ch, World) THEN FirstStep(off) ELSE Ended
    <3> DEFINE new == Int32(k.off + LoopCount(L, World))
    <3>1. new = off /\ (new < ChannelCount(L, ch) <=> off \in Offsets(L, ch, World))
      BY LoopIs DEF IsStep, Stride
    <3>2. q = IF new < ChannelCount(L, ch) THEN FirstStep(new) ELSE Ended
      BY <1>1, <1>2, <1>3, <1>9 DEF NextStep
    <3> QED BY <3>1, <3>2
  <2>2. Succ(ch, c) = IF off \in Offsets(L, ch, World) THEN StepOf(m, FirstStep(off))
                                                       ELSE StepOf(m + 1, FirstStep(0))
    BY <1>1, <1>2, <1>9 DEF Succ
  <2>3. CASE off \in Offsets(L, ch, World)
    <3>1. q = [at |-> 1, phase |-> "rs", step |-> 1, off |-> off]
      BY <2>1, <2>3 DEF FirstStep
    <3>2. off \in Nat
      BY <1>5, <2>3
    <3> HIDE DEF off
    <3>3. n \in ChannelType /\ n.status = 0 /\ n.at = 1 /\ n.off = off /\ n.phase = "rs" /\ n.step = 1
      BY <1>4, <3>1, <3>2 DEF ChannelType
    <3> QED BY <1>1, <2>2, <2>3, <3>3 DEF IsStep, StepOf, FirstStep
  <2>4. CASE off \notin Offsets(L, ch, World)
    <3>1. q = [at |-> 0, phase |-> "ag", step |-> 0, off |-> 0]
      BY <2>1, <2>4 DEF Ended
    <3> QED BY <1>4, <2>2, <2>4, <3>1 DEF ChannelType
  <2> QED BY <2>3, <2>4
<1> QED BY <1>1, <1>2, <1>6, <1>7, <1>8, <1>9 DEF IsStep

\* What a channel does, from its place.
LEMMA DoingIs ==
    ASSUME RingTypes, NEW r \in Ranks, NEW ch \in Channels
    PROVE  /\ Doing(r, ch) = "recv" <=> kernel[r][ch].at = 1
           /\ Doing(r, ch) = "put" <=> kernel[r][ch].at = 2
           /\ Doing(r, ch) = "waitSend" <=> kernel[r][ch].at = 3
           /\ Doing(r, ch) = "waitRecv" <=> kernel[r][ch].at = 4
           /\ Doing(r, ch) = "reduce" <=> kernel[r][ch].at = 5
<1>1. kernel[r][ch].at \in 0..5
  BY DEF RingTypes, ChannelType
<1> QED BY <1>1 DEF Doing, Order

\* One channel of the kernels changes.
LEMMA OneChannel ==
    ASSUME RingTypes, NEW r \in Ranks, NEW ch \in Channels, NEW k \in ChannelType,
           kernel' = [kernel EXCEPT ![r][ch] = k]
    PROVE  /\ kernel' \in [Ranks -> [Channels -> ChannelType]] /\ kernel'[r][ch] = k
           /\ \A q \in Ranks : \A c \in Channels :
                 q # r \/ c # ch => kernel'[q][c] = kernel[q][c]
BY DEF RingTypes
-----------------------------------------------------------------------------
(* The lanes *)

\* The values of a channel and its lane.
LEMMA Values ==
    ASSUME RingTypes, NEW r \in Ranks, NEW ch \in Channels
    PROVE  /\ kernel[r][ch] \in ChannelType /\ ch \in Lanes /\ coll[r] \in Nat
           /\ kernel[r][ch].at \in 0..5 /\ kernel[r][ch].status \in {0, -110}
           /\ sends[r][ch] \in Nat /\ acked[r][ch] \in Nat
           /\ recvs[r][ch] \in Nat /\ arrived[r][ch] \in Nat
           /\ sq[r][ch] \in Seq(Wqes) /\ Len(sq[r][ch]) \in Nat
<1>1. ch \in Lanes
  BY ChannelsAreLanes
<1>2. kernel[r][ch] \in ChannelType /\ sq[r][ch] \in Seq(Wqes)
  BY <1>1 DEF RingTypes
<1> QED BY <1>1, <1>2 DEF RingTypes, ChannelType

\* Who has a put on the way is in the step of it, which has not arrived.
LEMMA Posted ==
    ASSUME LocalInv, CountInv, NEW r \in Ranks, NEW ch \in Channels, sq[r][ch] # <<>>
    PROVE  /\ Inside(r, ch) /\ Sent(r, ch) /\ lanes[r] /\ Len(sq[r][ch]) = 1
           /\ sends[r][ch] = Fin(r, ch) + 1 /\ arrived[After(r)][ch] = Fin(r, ch)
           /\ Fin(r, ch) \in {Fin(After(r), ch), Fin(After(r), ch) + 1}
           /\ kernel[r][ch].at < 4
<1> DEFINE n == After(r)
<1>1. n \in Ranks
  BY Neighbours
<1>2. /\ sends[r][ch] \in Nat /\ arrived[n][ch] \in Nat /\ recvs[n][ch] \in Nat
      /\ kernel[r][ch].at \in 0..5 /\ sq[r][ch] \in Seq(Wqes)
  BY <1>1, Values DEF LocalInv
<1>3. LaneOk(r, n, ch) /\ ChannelOk(r, ch) /\ ChannelOk(n, ch)
  BY <1>1 DEF CountInv, LocalInv
<1>4. Len(sq[r][ch]) \in Nat /\ Len(sq[r][ch]) # 0
  BY <1>2
<1>5. lanes[r] /\ arrived[n][ch] < sends[r][ch] /\ Len(sq[r][ch]) = sends[r][ch] - arrived[n][ch]
  BY <1>2, <1>3, <1>4 DEF LaneOk
<1>6. Fin(r, ch) \in Nat /\ Fin(n, ch) \in Nat /\ recvs[n][ch] <= Fin(n, ch) + 1
  BY <1>3 DEF ChannelOk
<1>7. Sent(r, ch) /\ sends[r][ch] = Fin(r, ch) + 1
  BY <1>2, <1>3, <1>5 DEF LaneOk, Fin
<1>8. Inside(r, ch)
  BY <1>2, <1>7 DEF Sent, Inside
<1> QED BY <1>2, <1>3, <1>5, <1>6, <1>7, <1>8, SMTT(30) DEF LaneOk

\* A channel in a step has elements, and its call has not ended outside.
LEMMA InsideIs ==
    ASSUME LocalInv, NEW r \in Ranks, NEW ch \in Channels, Inside(r, ch)
    PROVE  /\ Busy(ch) /\ ~ Dead(r, ch) /\ IsStep(ch, kernel[r][ch])
           /\ Cur(r, ch) = StepOf(coll[r], kernel[r][ch])
BY DEF LocalInv, ChannelOk, IsStep, Busy, Dead, Cur

\* What a step leaves of the place of a channel, when it does not finish a
\* step of the schedule.
Keeps(r, ch) ==
    /\ Fin(r, ch)' = Fin(r, ch)
    /\ Inside(r, ch) => Inside(r, ch)' /\ Cur(r, ch)' = Cur(r, ch)
    /\ Busy(ch) /\ ~ Dead(r, ch)' => ~ Dead(r, ch) /\ Cur(r, ch)' = Cur(r, ch)

Kept == \A r \in Ranks : \A ch \in Channels : Keeps(r, ch)

\* No notification more.
Unheard == \A r \in Ranks : \A ch \in Channels : Heard(r, ch)' => Heard(r, ch)

\* Nothing at all changes for a channel.
Same(r, ch) ==
    /\ kernel'[r][ch] = kernel[r][ch] /\ coll'[r] = coll[r] /\ host'[r] = host[r]
    /\ outcome'[r] = outcome[r] /\ sends'[r][ch] = sends[r][ch]

LEMMA SameIs ==
    ASSUME NEW r, NEW ch, Same(r, ch)
    PROVE  /\ Keeps(r, ch) /\ Cur(r, ch)' = Cur(r, ch)
           /\ Inside(r, ch)' <=> Inside(r, ch)
           /\ Begun(r, ch)' <=> Begun(r, ch)
           /\ Sent(r, ch)' <=> Sent(r, ch)
           /\ Dead(r, ch)' <=> Dead(r, ch)
<1>1. /\ Inside(r, ch)' <=> Inside(r, ch)
      /\ Begun(r, ch)' <=> Begun(r, ch)
      /\ Sent(r, ch)' <=> Sent(r, ch)
      /\ Dead(r, ch)' <=> Dead(r, ch)
  BY DEF Same, Inside, Begun, Sent, Dead
<1>2. Cur(r, ch)' = Cur(r, ch) /\ Fin(r, ch)' = Fin(r, ch)
  BY <1>1 DEF Same, Cur, Fin
<1> QED BY <1>1, <1>2 DEF Keeps

\* Neighbours stay together as long as nobody finishes a step.
LEMMA CurInvKept ==
    ASSUME CurInv, Kept
    PROVE  CurInv'
<1> SUFFICES ASSUME NEW r \in Ranks, NEW ch \in Channels,
                    Busy(ch), ~ Dead(r, ch)', ~ Dead(After(r), ch)'
             PROVE  CurOk(r, After(r), ch)'
  BY DEF CurInv, Busy, After
<1>1. Keeps(r, ch) /\ Keeps(After(r), ch)
  BY Neighbours DEF Kept
<1>2. CurOk(r, After(r), ch)
  BY <1>1 DEF Keeps, CurInv
<1> QED BY <1>1, <1>2 DEF Keeps, CurOk, Succ, After

LEMMA WqeInvKept ==
    ASSUME LocalInv, CountInv, WqeInv, NEW r \in Ranks, NEW ch \in Channels, Keeps(r, ch),
           sq'[r][ch] = sq[r][ch], sq'[r][ch] # <<>>
    PROVE  sq'[r][ch][1] = Wqe(r, ch, Cur(r, ch)')
<1>1. Inside(r, ch)
  BY Posted
<1> QED BY <1>1 DEF Keeps, WqeInv

\* A step of one channel.
LEMMA ChannelFrame ==
    ASSUME LocalInv, CountInv, NEW r \in Ranks, NEW ch \in Channels, RingTypes',
           UNCHANGED <<hostVars, acked, arrived>>,
           \A q \in Ranks : \A c \in Channels : q # r \/ c # ch =>
               /\ kernel'[q][c] = kernel[q][c] /\ sends'[q][c] = sends[q][c]
               /\ recvs'[q][c] = recvs[q][c] /\ sq'[q][c] = sq[q][c],
           \A q \in Ranks : \A l \in Lanes \ Channels : sq'[q][l] = sq[q][l],
           ChannelOk(r, ch)', LaneOk(r, After(r), ch)', LaneOk(Before(r), r, ch)'
    PROVE  /\ LocalInv' /\ CountInv'
           /\ \A q \in Ranks : \A c \in Channels : q # r \/ c # ch => Same(q, c)
<1>1. ASSUME NEW q \in Ranks, NEW c \in Channels, q # r \/ c # ch PROVE Same(q, c)
  BY <1>1 DEF Same, hostVars
<1>2. ASSUME NEW q \in Ranks, NEW c \in Channels PROVE ChannelOk(q, c)'
  <2>1. CASE q = r /\ c = ch
    BY <2>1
  <2>2. CASE q # r \/ c # ch
    <3>1. /\ Same(q, c) /\ recvs'[q][c] = recvs[q][c] /\ Keeps(q, c)
          /\ Inside(q, c)' <=> Inside(q, c)
          /\ Begun(q, c)' <=> Begun(q, c)
      BY <1>1, <2>2, SameIs
    <3>2. ChannelOk(q, c)
      BY DEF LocalInv
    <3>3. IsStep(c, kernel[q][c])' <=> IsStep(c, kernel[q][c])
      BY <3>1 DEF Same, IsStep
    <3> QED BY <3>1, <3>2, <3>3 DEF ChannelOk, Same, Keeps
  <2> QED BY <2>1, <2>2
<1>3. ASSUME NEW q \in Ranks PROVE HostOk(q)'
  BY DEF LocalInv, HostOk, hostVars
<1>4. ASSUME NEW q \in Ranks, NEW c \in Channels PROVE LaneOk(q, After(q), c)'
  <2> DEFINE n == After(q)
  <2>1. n \in Ranks /\ Before(n) = q
    BY Neighbours
  <2>2. CASE q = r /\ c = ch
    BY <2>2
  <2>3. CASE n = r /\ c = ch
    BY <2>1, <2>3
  <2>4. CASE ~ (q = r /\ c = ch) /\ ~ (n = r /\ c = ch)
    <3>1. Same(q, c) /\ Same(n, c) /\ recvs'[n][c] = recvs[n][c] /\ sq'[q][c] = sq[q][c]
      BY <1>1, <2>1, <2>4
    <3>2. LaneOk(q, n, c) /\ Fin(q, c)' = Fin(q, c) /\ Fin(n, c)' = Fin(n, c)
      BY <3>1, SameIs DEF CountInv, Keeps
    <3> QED BY <3>1, <3>2 DEF LaneOk, Same, hostVars
  <2> QED BY <2>2, <2>3, <2>4
<1>5. ASSUME NEW q \in Ranks, NEW l \in Lanes \ Channels PROVE sq'[q][l] = <<>>
  BY DEF CountInv
<1>6. LocalInv'
  BY <1>2, <1>3 DEF LocalInv
<1>7. CountInv'
  BY <1>4, <1>5 DEF CountInv
<1> QED BY <1>1, <1>6, <1>7
-----------------------------------------------------------------------------
(* The operations of a channel *)

\* What the invariant says of a channel with a neighbour on each side.
LEMMA Around ==
    ASSUME LocalInv, CountInv, NEW r \in Ranks, NEW ch \in Channels
    PROVE  /\ After(r) \in Ranks /\ Before(r) \in Ranks /\ After(Before(r)) = r
           /\ ChannelOk(r, ch) /\ HostOk(r)
           /\ LaneOk(r, After(r), ch) /\ LaneOk(Before(r), r, ch)
           /\ Fin(r, ch) \in Nat /\ Fin(After(r), ch) \in Nat /\ Fin(Before(r), ch) \in Nat
<1>1. After(r) \in Ranks /\ Before(r) \in Ranks /\ After(Before(r)) = r
  BY Neighbours
<1>2. LaneOk(Before(r), After(Before(r)), ch)
  BY <1>1 DEF CountInv
<1> QED BY <1>1, <1>2 DEF LocalInv, CountInv, ChannelOk

\* An operation within a step, of a channel whose put and neighbours agree.
LEMMA WithinStep ==
    ASSUME ControlInv, NEW r \in Ranks, NEW ch \in Channels, RingTypes',
           UNCHANGED <<hostVars, acked, arrived>>,
           \A q \in Ranks : \A c \in Channels : q # r \/ c # ch =>
               /\ kernel'[q][c] = kernel[q][c] /\ sends'[q][c] = sends[q][c]
               /\ recvs'[q][c] = recvs[q][c] /\ sq'[q][c] = sq[q][c],
           \A q \in Ranks : \A l \in Lanes \ Channels : sq'[q][l] = sq[q][l],
           ChannelOk(r, ch)', LaneOk(r, After(r), ch)', LaneOk(Before(r), r, ch)',
           Inside(r, ch), Inside(r, ch)', Fin(r, ch)' = Fin(r, ch), Cur(r, ch)' = Cur(r, ch),
           sq'[r][ch] = sq[r][ch] \/ sq'[r][ch][1] = Wqe(r, ch, Cur(r, ch))
    PROVE  ControlInv' /\ Kept /\ Unheard
<1>1. /\ LocalInv' /\ CountInv'
      /\ \A q \in Ranks : \A c \in Channels : q # r \/ c # ch => Same(q, c)
  BY ChannelFrame DEF ControlInv
<1>2. ~ Dead(r, ch)' /\ ~ Dead(r, ch)
  BY DEF Dead
<1>3. Kept
  <2> SUFFICES ASSUME NEW q \in Ranks, NEW c \in Channels PROVE Keeps(q, c)
    BY DEF Kept
  <2>1. CASE q = r /\ c = ch
    BY <1>2, <2>1 DEF Keeps
  <2>2. CASE q # r \/ c # ch
    BY <1>1, <2>2, SameIs
  <2> QED BY <2>1, <2>2
<1>4. Unheard
  <2> SUFFICES ASSUME NEW q \in Ranks, NEW c \in Channels, Heard(q, c)' PROVE Heard(q, c)
    BY DEF Unheard
  <2>1. Fin(q, c)' = Fin(q, c) /\ (Inside(q, c)' <=> Inside(q, c))
    <3>1. CASE q = r /\ c = ch
      BY <3>1
    <3>2. CASE q # r \/ c # ch
      BY <1>1, <3>2, SameIs DEF Keeps
    <3> QED BY <3>1, <3>2
  <2> QED BY <2>1 DEF Heard
<1>5. CurInv'
  BY <1>3, CurInvKept DEF ControlInv
<1>6. WqeInv'
  <2> SUFFICES ASSUME NEW q \in Ranks, NEW c \in Channels, sq'[q][c] # <<>>
               PROVE  sq'[q][c][1] = Wqe(q, c, Cur(q, c)')
    BY DEF WqeInv, Wqe
  <2>1. CASE sq'[q][c] = sq[q][c]
    BY <1>3, <2>1, WqeInvKept DEF Kept, ControlInv
  <2>2. CASE sq'[q][c] # sq[q][c]
    BY <2>2
  <2> QED BY <2>1, <2>2
<1> QED BY <1>1, <1>3, <1>4, <1>5, <1>6 DEF ControlInv

\* A channel within a step changes its place and its tickets only.
LEMMA SamePlace ==
    ASSUME LocalInv, NEW r \in Ranks, NEW ch \in Channels, Inside(r, ch), Inside(r, ch)',
           coll' = coll, kernel'[r][ch].off = kernel[r][ch].off,
           kernel'[r][ch].phase = kernel[r][ch].phase, kernel'[r][ch].step = kernel[r][ch].step
    PROVE  Cur(r, ch)' = Cur(r, ch)
BY DEF Cur, StepOf

\* The effect of an operation within a step on the kernels.
LEMMA StepWithin ==
    ASSUME LocalInv, NEW r \in Ranks, NEW ch \in Channels, NEW a \in Nat, NEW b \in Nat,
           Step(r, ch, a, b), kernel[r][ch].at # 0, kernel[r][ch].at # LastOp(kernel[r][ch])
    PROVE  /\ kernel' \in [Ranks -> [Channels -> ChannelType]]
           /\ \A q \in Ranks : \A c \in Channels :
                 q # r \/ c # ch => kernel'[q][c] = kernel[q][c]
           /\ kernel'[r][ch].at = kernel[r][ch].at + 1 /\ kernel'[r][ch].off = kernel[r][ch].off
           /\ kernel'[r][ch].phase = kernel[r][ch].phase /\ kernel'[r][ch].step = kernel[r][ch].step
           /\ kernel'[r][ch].status = 0
           /\ kernel'[r][ch].sendTicket = a /\ kernel'[r][ch].recvTicket = b
           /\ kernel[r][ch].status = 0 /\ host[r] = "kernel" /\ IsStep(ch, kernel[r][ch])
           /\ Inside(r, ch) /\ Inside(r, ch)'
           /\ coll' = coll => Cur(r, ch)' = Cur(r, ch)
<1> DEFINE k == kernel[r][ch]
           k2 == [at |-> k.at + 1, phase |-> k.phase, step |-> k.step, off |-> k.off, status |-> 0,
                  sendTicket |-> a, recvTicket |-> b]
<1>1. RingTypes /\ k \in ChannelType
  BY Values DEF LocalInv
<1>2. /\ k.phase \in {"rs", "ag"} /\ k.step \in Nat /\ k.off \in Nat /\ k.at \in 0..5
  BY <1>1 DEF ChannelType
<1>3. k.status = 0 /\ host[r] = "kernel" /\ IsStep(ch, k) /\ Inside(r, ch)
  BY DEF LocalInv, ChannelOk, Inside
<1>4. k.at \in 1..4
  BY <1>2, <1>3 DEF LastOp, IsStep
<1>5. k2 \in ChannelType
  BY <1>2, <1>4 DEF ChannelType
<1>6. kernel' = [kernel EXCEPT ![r][ch] = k2]
  <2>1. Channel(Forward(ch, Position(k)), 0, a, b) = k2
    BY <1>1, Advance
  <2>2. kernel' = [kernel EXCEPT ![r][ch] = Channel(Forward(ch, Position(k)), 0, a, b)]
    BY DEF Step
  <2> HIDE DEF k2
  <2> QED BY <2>1, <2>2
<1>7. /\ k2.at = k.at + 1 /\ k2.off = k.off /\ k2.phase = k.phase /\ k2.step = k.step
      /\ k2.status = 0 /\ k2.sendTicket = a /\ k2.recvTicket = b
  OBVIOUS
<1> HIDE DEF k2
<1>8. /\ kernel' \in [Ranks -> [Channels -> ChannelType]] /\ kernel'[r][ch] = k2
      /\ \A q \in Ranks : \A c \in Channels : q # r \/ c # ch => kernel'[q][c] = kernel[q][c]
  BY <1>1, <1>5, <1>6, OneChannel, ZenonT(30)
<1>9. Inside(r, ch)'
  BY <1>4, <1>7, <1>8 DEF Inside
<1>10. coll' = coll => Cur(r, ch)' = Cur(r, ch)
  BY <1>3, <1>7, <1>8, <1>9, SamePlace
<1> QED BY <1>3, <1>7, <1>8, <1>9, <1>10

\* One entry of a table of the lanes changes.
LEMMA OneLane ==
    ASSUME NEW S, NEW f \in [Ranks -> [Lanes -> S]], NEW g, NEW r \in Ranks, NEW ch \in Lanes,
           NEW x \in S, g = [f EXCEPT ![r][ch] = x]
    PROVE  /\ g \in [Ranks -> [Lanes -> S]] /\ g[r][ch] = x
           /\ \A q \in Ranks : \A l \in Lanes : q # r \/ l # ch => g[q][l] = f[q][l]
OBVIOUS

LEMMA PostRecvControl ==
    ASSUME ControlInv, NEW r \in Ranks, NEW ch \in Channels, PostRecv(r, ch)
    PROVE  ControlInv' /\ Kept /\ Unheard
<1> DEFINE k == kernel[r][ch]
           k2 == kernel'[r][ch]
<1>1. LocalInv /\ RingTypes /\ CountInv /\ ch \in Lanes /\ k \in ChannelType
  BY Values DEF ControlInv, LocalInv
<1>2. /\ recvs[r][ch] \in Nat /\ sends[r][ch] \in Nat /\ arrived[r][ch] \in Nat
      /\ k.sendTicket \in Nat /\ recvs[r][ch] + 1 \in Nat
  BY <1>1, Values DEF ChannelType
<1>3. k.at = 1 /\ k.at # LastOp(k)
  BY <1>1, DoingIs DEF PostRecv, LastOp
<1>4. Step(r, ch, k.sendTicket, recvs[r][ch] + 1)
      /\ UNCHANGED <<faults, hostVars, dataVars, sq, sends, acked, arrived>>
  BY DEF PostRecv, Lane
<1>5. /\ kernel' \in [Ranks -> [Channels -> ChannelType]]
      /\ \A q \in Ranks : \A c \in Channels : q # r \/ c # ch => kernel'[q][c] = kernel[q][c]
      /\ k2.at = 2 /\ k2.off = k.off /\ k2.phase = k.phase /\ k2.step = k.step /\ k2.status = 0
      /\ k2.recvTicket = recvs[r][ch] + 1
      /\ k.status = 0 /\ host[r] = "kernel" /\ IsStep(ch, k) /\ Inside(r, ch) /\ Inside(r, ch)'
      /\ Cur(r, ch)' = Cur(r, ch)
  BY <1>1, <1>2, <1>3, <1>4, StepWithin DEF hostVars
<1>6. /\ recvs' \in [Ranks -> [Lanes -> Nat]] /\ recvs'[r][ch] = recvs[r][ch] + 1
      /\ \A q \in Ranks : \A c \in Channels : q # r \/ c # ch => recvs'[q][c] = recvs[q][c]
  <2>1. recvs \in [Ranks -> [Lanes -> Nat]] /\ Channels \subseteq Lanes
    BY <1>1, ChannelsAreLanes DEF RingTypes
  <2>2. recvs' = [recvs EXCEPT ![r][ch] = recvs[r][ch] + 1]
    BY DEF PostRecv, Lane
  <2> QED BY <1>1, <1>2, <2>1, <2>2, OneLane
<1>7. RingTypes'
  BY <1>1, <1>4, <1>5, <1>6 DEF RingTypes, hostVars, dataVars, IsBuffer
<1>8. Fin(r, ch)' = Fin(r, ch) /\ Begun(r, ch)' /\ ~ Begun(r, ch) /\ Fin(r, ch) = sends[r][ch]
  BY <1>3, <1>4, <1>5 DEF Fin, Sent, Begun
<1>9. /\ ChannelOk(r, ch) /\ LaneOk(r, After(r), ch) /\ LaneOk(Before(r), r, ch)
      /\ After(r) \in Ranks /\ Before(r) \in Ranks /\ After(r) # r /\ Before(r) # r
  BY <1>1, Around, Neighbours
<1>10. ChannelOk(r, ch)'
  <2>1. recvs'[r][ch] = Fin(r, ch)' + 1 /\ Fin(r, ch)' \in Nat
    BY <1>2, <1>6, <1>8, <1>9 DEF ChannelOk
  <2>2. IsStep(ch, kernel[r][ch])'
    BY <1>5 DEF IsStep
  <2> QED BY <1>4, <1>5, <1>6, <1>8, <2>1, <2>2 DEF ChannelOk, hostVars
<1>11. ASSUME NEW q \in Ranks, q # r
       PROVE  Fin(q, ch)' = Fin(q, ch) /\ kernel'[q][ch] = kernel[q][ch] /\ recvs'[q][ch] = recvs[q][ch]
  BY <1>4, <1>5, <1>6, <1>11 DEF Fin, Sent
<1>12. LaneOk(r, After(r), ch)'
  BY <1>4, <1>5, <1>8, <1>9, <1>11 DEF LaneOk, hostVars
<1>13. LaneOk(Before(r), r, ch)'
  BY <1>2, <1>4, <1>5, <1>6, <1>8, <1>9, <1>11 DEF LaneOk, hostVars
<1> QED BY <1>4, <1>5, <1>6, <1>7, <1>8, <1>10, <1>12, <1>13, WithinStep

LEMMA PutControl ==
    ASSUME ControlInv, NEW r \in Ranks, NEW ch \in Channels, Put(r, ch)
    PROVE  ControlInv' /\ Kept /\ Unheard
<1> DEFINE k == kernel[r][ch]
           k2 == kernel'[r][ch]
           w == Wqe(r, ch, Cur(r, ch))
<1>1. LocalInv /\ RingTypes /\ CountInv /\ ch \in Lanes /\ k \in ChannelType
  BY Values DEF ControlInv, LocalInv
<1>2. /\ recvs[r][ch] \in Nat /\ sends[r][ch] \in Nat /\ arrived[r][ch] \in Nat
      /\ arrived[After(r)][ch] \in Nat /\ sq[r][ch] \in Seq(Wqes) /\ After(r) \in Ranks
      /\ k.recvTicket \in Nat /\ sends[r][ch] + 1 \in Nat
  BY <1>1, Values, Neighbours DEF ChannelType
<1>3. k.at = 2 /\ k.at # LastOp(k)
  BY <1>1, DoingIs DEF Put, LastOp
<1>4. Step(r, ch, sends[r][ch] + 1, k.recvTicket)
      /\ UNCHANGED <<faults, hostVars, dataVars, acked, recvs, arrived>>
  BY DEF Put, Lane
<1>5. /\ kernel' \in [Ranks -> [Channels -> ChannelType]]
      /\ \A q \in Ranks : \A c \in Channels : q # r \/ c # ch => kernel'[q][c] = kernel[q][c]
      /\ k2.at = 3 /\ k2.off = k.off /\ k2.phase = k.phase /\ k2.step = k.step /\ k2.status = 0
      /\ k2.sendTicket = sends[r][ch] + 1 /\ k2.recvTicket = k.recvTicket
      /\ k.status = 0 /\ host[r] = "kernel" /\ IsStep(ch, k) /\ Inside(r, ch) /\ Inside(r, ch)'
      /\ Cur(r, ch)' = Cur(r, ch)
  BY <1>1, <1>2, <1>3, <1>4, StepWithin, SMTT(30) DEF hostVars
<1>6. /\ sends' \in [Ranks -> [Lanes -> Nat]] /\ sends'[r][ch] = sends[r][ch] + 1
      /\ \A q \in Ranks : \A c \in Channels : q # r \/ c # ch => sends'[q][c] = sends[q][c]
  <2>1. sends \in [Ranks -> [Lanes -> Nat]] /\ Channels \subseteq Lanes
    BY <1>1, ChannelsAreLanes DEF RingTypes
  <2>2. sends' = [sends EXCEPT ![r][ch] = sends[r][ch] + 1]
    BY DEF Put, Lane
  <2> QED BY <1>1, <1>2, <2>1, <2>2, OneLane
<1>7. /\ Fin(r, ch)' = Fin(r, ch) /\ Begun(r, ch)' /\ Begun(r, ch) /\ Fin(r, ch) = sends[r][ch]
      /\ Sent(r, ch)'
  BY <1>2, <1>3, <1>4, <1>5, <1>6 DEF Fin, Sent, Begun
<1>8. /\ ChannelOk(r, ch) /\ LaneOk(r, After(r), ch) /\ LaneOk(Before(r), r, ch) /\ HostOk(r)
      /\ After(r) \in Ranks /\ Before(r) \in Ranks /\ After(r) # r /\ Before(r) # r
  BY <1>1, Around, Neighbours
<1>9. arrived[After(r)][ch] = sends[r][ch] /\ lanes[r] /\ sq[r][ch] = <<>>
  <2>1. arrived[After(r)][ch] = sends[r][ch] /\ Len(sq[r][ch]) = 0
    BY <1>2, <1>7, <1>8, SMTT(30) DEF LaneOk
  <2> QED BY <1>2, <1>5, <1>8, <2>1 DEF HostOk
<1>10. w \in Wqes /\ sq' = [sq EXCEPT ![r][ch] = Append(@, w)]
  <2>1. Cur(r, ch) = StepOf(coll[r], k)
    BY <1>1, <1>5, InsideIs
  <2>2. w = [into |-> IF <<ch, k.off, SendOwner(r, k.phase, k.step)>> \notin Slots THEN "signal"
                      ELSE IF k.phase = "rs" THEN "scratch" ELSE "work",
             slot |-> <<ch, k.off, SendOwner(r, k.phase, k.step)>>]
    BY <2>1 DEF Wqe, StepOf
  <2>3. sq' = [sq EXCEPT ![r][ch] = Append(@, w)]
    BY <2>2 DEF Put, Lane
  <2>4. k.off \in Nat /\ k.step \in 0..(World - 1) /\ k.phase \in {"rs", "ag"}
    BY <1>1, <1>5, RingAssumption DEF ChannelType, IsStep
  <2>5. SendOwner(r, k.phase, k.step) \in Ranks
    BY <2>4, Owners
  <2> HIDE DEF w, k
  <2> QED BY <2>2, <2>3, <2>4, <2>5 DEF Wqes
<1>11. /\ sq' \in [Ranks -> [Lanes -> Seq(Wqes)]] /\ sq'[r][ch] = <<w>>
       /\ \A q \in Ranks : \A l \in Lanes : q # r \/ l # ch => sq'[q][l] = sq[q][l]
  <2> HIDE DEF w
  <2>1. sq \in [Ranks -> [Lanes -> Seq(Wqes)]]
    BY <1>1 DEF RingTypes
  <2>2. Append(sq[r][ch], w) = <<w>> /\ <<w>> \in Seq(Wqes)
    BY <1>9, <1>10
  <2>3. sq' = [sq EXCEPT ![r][ch] = <<w>>]
    BY <1>10, <2>1, <2>2
  <2> QED BY <1>1, <2>1, <2>2, <2>3, OneLane
<1> HIDE DEF w
<1>12. RingTypes'
  BY <1>1, <1>4, <1>5, <1>6, <1>11 DEF RingTypes, hostVars, dataVars, IsBuffer
<1>13. ChannelOk(r, ch)'
  <2>1. recvs'[r][ch] = Fin(r, ch)' + 1 /\ Fin(r, ch)' \in Nat /\ k.recvTicket = recvs[r][ch]
    BY <1>2, <1>3, <1>4, <1>7, <1>8 DEF ChannelOk
  <2>2. IsStep(ch, kernel[r][ch])'
    BY <1>5 DEF IsStep
  <2> QED BY <1>4, <1>5, <1>6, <1>7, <2>1, <2>2 DEF ChannelOk, hostVars
<1>14. ASSUME NEW q \in Ranks, q # r
       PROVE  /\ Fin(q, ch)' = Fin(q, ch) /\ kernel'[q][ch] = kernel[q][ch]
              /\ sends'[q][ch] = sends[q][ch] /\ sq'[q][ch] = sq[q][ch]
  BY <1>1, <1>5, <1>6, <1>11, <1>14 DEF Fin, Sent
<1>15. LaneOk(r, After(r), ch)'
  <2>1. Len(sq'[r][ch]) = 1
    BY <1>11
  <2> QED BY <1>2, <1>4, <1>5, <1>6, <1>7, <1>8, <1>9, <1>14, <2>1 DEF LaneOk, hostVars
<1>16. LaneOk(Before(r), r, ch)'
  BY <1>2, <1>3, <1>4, <1>5, <1>6, <1>7, <1>8, <1>14, SMTT(30) DEF LaneOk, hostVars
<1>17. /\ \A q \in Ranks : \A c \in Channels : q # r \/ c # ch =>
            /\ kernel'[q][c] = kernel[q][c] /\ sends'[q][c] = sends[q][c]
            /\ recvs'[q][c] = recvs[q][c] /\ sq'[q][c] = sq[q][c]
       /\ \A q \in Ranks : \A l \in Lanes \ Channels : sq'[q][l] = sq[q][l]
  BY <1>4, <1>5, <1>6, <1>11, ChannelsAreLanes
<1>18. sq'[r][ch][1] = Wqe(r, ch, Cur(r, ch))
  BY <1>11 DEF w
<1> QED BY <1>4, <1>5, <1>7, <1>12, <1>13, <1>15, <1>16, <1>17, <1>18, WithinStep

\* A wait, within a step.
LEMMA WaitedControl ==
    ASSUME ControlInv, NEW r \in Ranks, NEW ch \in Channels, Waited(r, ch),
           kernel[r][ch].at # LastOp(kernel[r][ch])
    PROVE  ControlInv' /\ Kept /\ Unheard
<1> DEFINE k == kernel[r][ch]
           k2 == kernel'[r][ch]
<1>1. LocalInv /\ RingTypes /\ CountInv /\ ch \in Lanes /\ k \in ChannelType
  BY Values DEF ControlInv, LocalInv
<1>2. /\ recvs[r][ch] \in Nat /\ sends[r][ch] \in Nat /\ arrived[r][ch] \in Nat /\ acked[r][ch] \in Nat
      /\ arrived[After(r)][ch] \in Nat /\ After(r) \in Ranks
      /\ k.sendTicket \in Nat /\ k.recvTicket \in Nat
  BY <1>1, Values, Neighbours DEF ChannelType
<1>3. \/ k.at = 3 /\ acked[r][ch] >= k.sendTicket
      \/ k.at = 4 /\ arrived[r][ch] >= k.recvTicket
  <2>1. /\ Doing(r, ch) = "waitSend" => k.at = 3
        /\ Doing(r, ch) = "waitRecv" => k.at = 4
    BY <1>1, DoingIs
  <2>2. \/ Doing(r, ch) = "waitSend" /\ SendDone(r, ch)
        \/ Doing(r, ch) = "waitRecv" /\ RecvDone(r, ch)
    BY DEF Waited
  <2>3. SendDone(r, ch) => acked[r][ch] >= k.sendTicket
    BY DEF SendDone, Lane
  <2>4. RecvDone(r, ch) => arrived[r][ch] >= k.recvTicket
    BY DEF RecvDone, Lane
  <2> QED BY <2>1, <2>2, <2>3, <2>4
<1>4. Step(r, ch, k.sendTicket, k.recvTicket)
      /\ UNCHANGED <<faults, hostVars, dataVars, laneVars>>
  BY DEF Waited
<1>5. /\ kernel' \in [Ranks -> [Channels -> ChannelType]]
      /\ \A q \in Ranks : \A c \in Channels : q # r \/ c # ch => kernel'[q][c] = kernel[q][c]
      /\ k2.at = k.at + 1 /\ k2.off = k.off /\ k2.phase = k.phase /\ k2.step = k.step /\ k2.status = 0
      /\ k2.sendTicket = k.sendTicket /\ k2.recvTicket = k.recvTicket
      /\ k.status = 0 /\ host[r] = "kernel" /\ IsStep(ch, k) /\ Inside(r, ch) /\ Inside(r, ch)'
      /\ Cur(r, ch)' = Cur(r, ch)
  BY <1>1, <1>2, <1>3, <1>4, StepWithin DEF hostVars
<1>6. RingTypes'
  BY <1>1, <1>4, <1>5 DEF RingTypes, hostVars, dataVars, laneVars, IsBuffer
<1>7. Fin(r, ch)' = Fin(r, ch) /\ Begun(r, ch)' /\ Begun(r, ch) /\ Sent(r, ch)' /\ Sent(r, ch)
  BY <1>3, <1>4, <1>5 DEF Fin, Sent, Begun, laneVars
<1>8. /\ ChannelOk(r, ch) /\ LaneOk(r, After(r), ch) /\ LaneOk(Before(r), r, ch)
      /\ After(r) \in Ranks /\ Before(r) \in Ranks /\ After(r) # r /\ Before(r) # r
  BY <1>1, Around, Neighbours
<1>9. ChannelOk(r, ch)'
  <2>1. IsStep(ch, kernel[r][ch])'
    BY <1>3, <1>5 DEF IsStep, LastOp, ChannelType
  <2> QED BY <1>3, <1>4, <1>5, <1>7, <1>8, <2>1 DEF ChannelOk, hostVars, laneVars
<1>10. ASSUME NEW q \in Ranks, q # r
       PROVE  Fin(q, ch)' = Fin(q, ch) /\ kernel'[q][ch] = kernel[q][ch]
  BY <1>4, <1>5, <1>10 DEF Fin, Sent, laneVars
<1>11. k.sendTicket = sends[r][ch] /\ k.recvTicket = recvs[r][ch]
  BY <1>3, <1>8 DEF ChannelOk
<1>12. LaneOk(r, After(r), ch)'
  <2>1. arrived[After(r)][ch] = sends[r][ch]
    BY <1>2, <1>3, <1>8, <1>11 DEF LaneOk
  <2> QED BY <1>4, <1>7, <1>8, <1>10, <2>1 DEF LaneOk, hostVars, laneVars
<1>13. LaneOk(Before(r), r, ch)'
  <2>1. k2.at = 5 => arrived[r][ch] = recvs[r][ch]
    BY <1>2, <1>3, <1>5, <1>8, <1>11 DEF LaneOk
  <2> QED BY <1>4, <1>7, <1>8, <1>10, <2>1 DEF LaneOk, hostVars, laneVars
<1> QED BY <1>4, <1>5, <1>6, <1>7, <1>9, <1>12, <1>13, WithinStep DEF laneVars

\* A channel that stops keeps its place in the schedule.
LEMMA WaitFailsControl ==
    ASSUME ControlInv, NEW r \in Ranks, NEW ch \in Channels, WaitFails(r, ch)
    PROVE  ControlInv' /\ Kept /\ Unheard
<1> DEFINE k == kernel[r][ch]
           k2 == Stopped(k)
<1>1. LocalInv /\ RingTypes /\ CountInv /\ ch \in Lanes /\ k \in ChannelType
  BY Values DEF ControlInv, LocalInv
<1>2. k.at \in {3, 4}
  BY <1>1, DoingIs DEF WaitFails, ChecksDeadline
<1>3. k.status = 0 /\ host[r] = "kernel" /\ IsStep(ch, k) /\ Inside(r, ch)
  BY <1>1, <1>2 DEF LocalInv, ChannelOk, Inside
<1>4. /\ k2 \in ChannelType /\ k2.at = 0 /\ k2.status = -110 /\ k2.off = k.off
      /\ k2.phase = k.phase /\ k2.step = k.step
  <2>1. k2.at = 0 /\ k2.status = -110 /\ k2.off = k.off /\ k2.phase = k.phase /\ k2.step = k.step
    BY <1>1 DEF Stopped, ChannelType
  <2>2. k2 \in ChannelType
    <3>1. k2 = [at |-> 0, phase |-> k.phase, step |-> k.step, off |-> k.off, status |-> -110,
                sendTicket |-> k.sendTicket, recvTicket |-> k.recvTicket]
      <4> DEFINE s == [at |-> k.at, phase |-> k.phase, step |-> k.step, off |-> k.off,
                       status |-> k.status, sendTicket |-> k.sendTicket, recvTicket |-> k.recvTicket]
      <4>1. k = s
        BY <1>1 DEF ChannelType
      <4>2. k2 = [s EXCEPT !.at = 0, !.status = -110]
        BY <4>1 DEF Stopped
      <4> QED BY <4>2
    <3> QED BY <1>1, <3>1 DEF ChannelType
  <2> QED BY <2>1, <2>2
<1>5. UNCHANGED <<faults, hostVars, dataVars, laneVars>>
  BY DEF WaitFails
<1>a. kernel' = [kernel EXCEPT ![r][ch] = k2]
  BY DEF WaitFails
<1> HIDE DEF k2
<1>6. /\ kernel' \in [Ranks -> [Channels -> ChannelType]] /\ kernel'[r][ch] = k2
      /\ \A q \in Ranks : \A c \in Channels : q # r \/ c # ch => kernel'[q][c] = kernel[q][c]
  <2>1. k2 \in ChannelType
    BY <1>4
  <2> QED BY <1>1, <1>a, <2>1, OneChannel, ZenonT(30)
<1>7. RingTypes'
  BY <1>1, <1>5, <1>6 DEF RingTypes, hostVars, dataVars, laneVars, IsBuffer
<1>8. /\ Fin(r, ch)' = Fin(r, ch) /\ Begun(r, ch)' /\ Begun(r, ch) /\ Sent(r, ch)' /\ Sent(r, ch)
      /\ Inside(r, ch)'
  BY <1>2, <1>4, <1>5, <1>6 DEF Fin, Sent, Begun, Inside, laneVars
<1>9. Cur(r, ch)' = Cur(r, ch)
  BY <1>1, <1>3, <1>4, <1>5, <1>6, <1>8, SamePlace DEF hostVars
<1>10. /\ ChannelOk(r, ch) /\ LaneOk(r, After(r), ch) /\ LaneOk(Before(r), r, ch)
       /\ After(r) \in Ranks /\ Before(r) \in Ranks /\ After(r) # r /\ Before(r) # r
  BY <1>1, Around, Neighbours
<1>11. ChannelOk(r, ch)'
  <2>1. IsStep(ch, kernel[r][ch])'
    BY <1>3, <1>4, <1>6 DEF IsStep
  <2> QED BY <1>3, <1>4, <1>5, <1>6, <1>8, <1>10, <2>1 DEF ChannelOk, hostVars, laneVars
<1>12. ASSUME NEW q \in Ranks, q # r
       PROVE  Fin(q, ch)' = Fin(q, ch) /\ kernel'[q][ch] = kernel[q][ch]
  BY <1>5, <1>6, <1>12 DEF Fin, Sent, laneVars
<1>13. LaneOk(r, After(r), ch)' /\ LaneOk(Before(r), r, ch)'
  BY <1>4, <1>5, <1>6, <1>8, <1>10, <1>12 DEF LaneOk, hostVars, laneVars
<1> QED BY <1>3, <1>5, <1>6, <1>7, <1>8, <1>9, <1>11, <1>13, WithinStep DEF laneVars

\* What holds around a channel that finishes a step.
Finishes(r, ch) ==
    /\ Inside(r, ch) /\ ~ Dead(r, ch) /\ ~ Dead(r, ch)' /\ host[r] = "kernel"
    /\ Fin(r, ch)' = Fin(r, ch) + 1 /\ Cur(r, ch)' = Succ(ch, Cur(r, ch))
    /\ Heard(r, ch) /\ ~ Heard(r, ch)'
    /\ Fin(After(r), ch) \in {Fin(r, ch), Fin(r, ch) + 1}
    /\ Fin(Before(r), ch) \in {Fin(r, ch), Fin(r, ch) + 1}
    /\ \A q \in Ranks : \A c \in Channels : q # r \/ c # ch => Same(q, c)

LEMMA FinishControl ==
    ASSUME ControlInv, NEW r \in Ranks, NEW ch \in Channels,
           kernel[r][ch].at = LastOp(kernel[r][ch]),
           Step(r, ch, kernel[r][ch].sendTicket, kernel[r][ch].recvTicket),
           arrived[r][ch] >= kernel[r][ch].recvTicket,
           IsBuffer(work'), UNCHANGED <<hostVars, scratch, laneVars>>
    PROVE  ControlInv' /\ Finishes(r, ch)
<1> DEFINE k == kernel[r][ch]
           k2 == Channel(Forward(ch, Position(k)), 0, k.sendTicket, k.recvTicket)
           c == StepOf(coll[r], k)
<1>1. LocalInv /\ RingTypes /\ CountInv /\ ch \in Lanes /\ k \in ChannelType
  BY Values DEF ControlInv, LocalInv
<1>2. /\ recvs[r][ch] \in Nat /\ sends[r][ch] \in Nat /\ arrived[r][ch] \in Nat
      /\ arrived[After(r)][ch] \in Nat /\ After(r) \in Ranks /\ Before(r) \in Ranks
      /\ sends[Before(r)][ch] \in Nat /\ recvs[After(r)][ch] \in Nat
      /\ k.sendTicket \in Nat /\ k.recvTicket \in Nat /\ sq[r][ch] \in Seq(Wqes) /\ coll[r] \in Nat
  BY <1>1, Values, Neighbours DEF ChannelType
<1>3. k.at \in {4, 5}
  BY DEF LastOp
<1>4. k.status = 0 /\ host[r] = "kernel" /\ IsStep(ch, k) /\ Inside(r, ch)
  BY <1>1, <1>3 DEF LocalInv, ChannelOk, Inside
<1>5. /\ k2 \in ChannelType /\ k2.status = 0
      /\ \/ k2.at = 1 /\ IsStep(ch, k2) /\ Succ(ch, c) = StepOf(coll[r], k2)
         \/ k2.at = 0 /\ Succ(ch, c) = StepOf(coll[r] + 1, FirstStep(0))
  <2>1. k2 = Channel(Forward(ch, Position(k)), 0, k.sendTicket, k.recvTicket)
    OBVIOUS
  <2>2. k.at = LastOp(k) /\ k \in ChannelType /\ IsStep(ch, k) /\ k.sendTicket \in Nat /\ k.recvTicket \in Nat
    BY <1>1, <1>2, <1>4
  <2> HIDE DEF k2, k
  <2> QED BY <2>1, <2>2, Finish
<1>6. kernel' = [kernel EXCEPT ![r][ch] = k2]
  BY DEF Step
<1> HIDE DEF k2
<1>7. /\ kernel' \in [Ranks -> [Channels -> ChannelType]] /\ kernel'[r][ch] = k2
      /\ \A q \in Ranks : \A e \in Channels : q # r \/ e # ch => kernel'[q][e] = kernel[q][e]
  <2>1. RingTypes /\ k2 \in ChannelType
    BY <1>1, <1>5
  <2> HIDE DEF k, c
  <2> QED BY <2>1, <1>6, OneChannel, ZenonT(30)
<1>8. RingTypes'
  BY <1>1, <1>7 DEF RingTypes, hostVars, laneVars, IsBuffer
<1>9. /\ ChannelOk(r, ch) /\ LaneOk(r, After(r), ch) /\ LaneOk(Before(r), r, ch)
      /\ After(r) # r /\ Before(r) # r /\ ChannelOk(After(r), ch) /\ ChannelOk(Before(r), ch)
      /\ After(Before(r)) = r
  BY <1>1, <1>2, Around, Neighbours
<1>10. /\ Sent(r, ch) /\ Begun(r, ch) /\ ~ Sent(r, ch)' /\ ~ Begun(r, ch)'
       /\ Fin(r, ch) \in Nat /\ sends[r][ch] = Fin(r, ch) + 1 /\ recvs[r][ch] = Fin(r, ch) + 1
       /\ Fin(r, ch)' = Fin(r, ch) + 1
  <2>1. Sent(r, ch) /\ Begun(r, ch) /\ ~ Sent(r, ch)' /\ ~ Begun(r, ch)'
    BY <1>3, <1>5, <1>7 DEF Sent, Begun
  <2>2. Fin(r, ch) = sends[r][ch] - 1 /\ Fin(r, ch)' = sends[r][ch]
    BY <2>1 DEF Fin, laneVars
  <2> QED BY <1>2, <1>9, <2>1, <2>2 DEF ChannelOk
<1>11. arrived[r][ch] = Fin(r, ch) + 1 /\ arrived[After(r)][ch] = Fin(r, ch) + 1
  <2>1. k.recvTicket = recvs[r][ch]
    BY <1>3, <1>9 DEF ChannelOk
  <2> QED BY <1>2, <1>3, <1>9, <1>10, <2>1 DEF LaneOk
<1>12. /\ Fin(After(r), ch) \in {Fin(r, ch), Fin(r, ch) + 1}
       /\ Fin(Before(r), ch) \in {Fin(r, ch), Fin(r, ch) + 1}
  <2>1. Fin(After(r), ch) \in Nat /\ recvs[After(r)][ch] <= Fin(After(r), ch) + 1
    BY <1>9 DEF ChannelOk
  <2>2. Fin(Before(r), ch) \in Nat /\ sends[Before(r)][ch] <= Fin(Before(r), ch) + 1
    BY <1>2, <1>9 DEF ChannelOk, Fin
  <2> QED BY <1>2, <1>9, <1>10, <1>11, <2>1, <2>2, SMTT(30) DEF LaneOk
<1>13. sq[r][ch] = <<>>
  <2>1. Len(sq[r][ch]) = 0
    BY <1>2, <1>9, <1>10, <1>11 DEF LaneOk
  <2> QED BY <1>2, <2>1
<1>14. ~ Dead(r, ch) /\ ~ Dead(r, ch)'
  BY <1>4 DEF Dead, hostVars
<1>15. Cur(r, ch) = c /\ Cur(r, ch)' = Succ(ch, c)
  <2>1. Cur(r, ch) = c
    BY <1>1, <1>4, InsideIs
  <2>2. CASE k2.at = 1 /\ Succ(ch, c) = StepOf(coll[r], k2)
    <3>1. Inside(r, ch)'
      BY <1>7, <2>2 DEF Inside
    <3>2. Cur(r, ch)' = StepOf(coll[r], k2)
      BY <1>7, <3>1 DEF Cur, hostVars, StepOf
    <3> QED BY <2>1, <2>2, <3>2
  <2>3. CASE k2.at = 0 /\ Succ(ch, c) = StepOf(coll[r] + 1, FirstStep(0))
    <3>1. ~ Inside(r, ch)'
      BY <1>5, <1>7, <2>3 DEF Inside
    <3>2. Cur(r, ch)' = StepOf(coll[r] + 1, FirstStep(0))
      BY <1>4, <3>1 DEF Cur, hostVars, StepOf, FirstStep
    <3> QED BY <2>1, <2>3, <3>2
  <2> QED BY <1>5, <2>2, <2>3
<1> HIDE DEF c
<1>16. ASSUME NEW q \in Ranks, q # r
       PROVE  Fin(q, ch)' = Fin(q, ch) /\ kernel'[q][ch] = kernel[q][ch]
  BY <1>7, <1>16 DEF Fin, Sent, laneVars
<1>17. ChannelOk(r, ch)'
  <2>1. Inside(r, ch)' => IsStep(ch, kernel[r][ch])'
    BY <1>5, <1>7 DEF IsStep, Inside
  <2> QED BY <1>4, <1>5, <1>7, <1>10, <2>1 DEF ChannelOk, hostVars, laneVars
<1>18. LaneOk(r, After(r), ch)'
  BY <1>2, <1>5, <1>7, <1>9, <1>10, <1>11, <1>16 DEF LaneOk, hostVars, laneVars
<1>19. LaneOk(Before(r), r, ch)'
  BY <1>2, <1>5, <1>7, <1>9, <1>10, <1>11, <1>16 DEF LaneOk, hostVars, laneVars
<1>20. /\ LocalInv' /\ CountInv'
       /\ \A q \in Ranks : \A e \in Channels : q # r \/ e # ch => Same(q, e)
  BY <1>1, <1>7, <1>8, <1>17, <1>18, <1>19, ChannelFrame DEF laneVars
<1>21. Finishes(r, ch)
  <2>1. Heard(r, ch) /\ ~ Heard(r, ch)'
    BY <1>4, <1>10, <1>11 DEF Heard, laneVars
  <2> QED BY <1>4, <1>10, <1>12, <1>14, <1>15, <1>20, <2>1 DEF Finishes
<1>22. CurInv'
  <2> SUFFICES ASSUME NEW q \in Ranks, NEW e \in Channels,
                      Busy(e), ~ Dead(q, e)', ~ Dead(After(q), e)'
               PROVE  CurOk(q, After(q), e)'
    BY DEF CurInv, Busy, After
  <2> DEFINE n == After(q)
  <2>1. n \in Ranks /\ Before(n) = q /\ n # q
    BY Neighbours
  <2>2. CASE q = r /\ e = ch
    <3>1. Same(n, e)
      BY <1>20, <2>1, <2>2
    <3>2. CurOk(q, n, e) /\ Fin(n, e)' = Fin(n, e) /\ Cur(n, e)' = Cur(n, e)
      BY <1>14, <2>2, <3>1, SameIs DEF ControlInv, CurInv, Keeps
    <3> HIDE DEF n
    <3>3. CurOk(q, n, e)'
      BY <1>10, <1>12, <1>15, <2>2, <3>2 DEF CurOk, n
    <3> QED BY <3>3 DEF n
  <2>3. CASE n = r /\ e = ch
    <3>1. Same(q, e)
      BY <1>20, <2>1, <2>3
    <3>2. CurOk(q, r, e) /\ Fin(q, e)' = Fin(q, e) /\ Cur(q, e)' = Cur(q, e)
      BY <1>14, <2>3, <3>1, SameIs DEF ControlInv, CurInv, Keeps
    <3>3. CurOk(q, r, e)'
      BY <1>10, <1>12, <1>15, <2>1, <2>3, <3>2 DEF CurOk
    <3> QED BY <2>3, <3>3
  <2>4. CASE ~ (q = r /\ e = ch) /\ ~ (n = r /\ e = ch)
    <3>1. Same(q, e) /\ Same(n, e)
      BY <1>20, <2>1, <2>4
    <3>2. /\ Fin(q, e)' = Fin(q, e) /\ Cur(q, e)' = Cur(q, e) /\ ~ Dead(q, e)
          /\ Fin(n, e)' = Fin(n, e) /\ Cur(n, e)' = Cur(n, e) /\ ~ Dead(n, e)
      BY <3>1, SameIs DEF Keeps
    <3>3. CurOk(q, n, e)
      BY <3>2 DEF ControlInv, CurInv
    <3> QED BY <3>2, <3>3 DEF CurOk
  <2> QED BY <2>2, <2>3, <2>4
<1>23. WqeInv'
  <2> SUFFICES ASSUME NEW q \in Ranks, NEW e \in Channels, sq'[q][e] # <<>>
               PROVE  sq'[q][e][1] = Wqe(q, e, Cur(q, e)')
    BY DEF WqeInv, Wqe
  <2>1. q # r \/ e # ch
    BY <1>13 DEF laneVars
  <2>2. Same(q, e) /\ sq'[q][e] = sq[q][e]
    BY <1>20, <2>1 DEF laneVars
  <2> QED BY <1>1, <2>2, SameIs, WqeInvKept DEF ControlInv
<1> QED BY <1>20, <1>21, <1>22, <1>23 DEF ControlInv
-----------------------------------------------------------------------------
(* The host *)

\* A step of the host of one rank, with no channel beyond the first operation.
LEMMA HostFrame ==
    ASSUME ControlInv, NEW r \in Ranks, RingTypes', UNCHANGED <<lanes, laneVars>>,
           \A q \in Ranks : q # r =>
               /\ kernel'[q] = kernel[q] /\ coll'[q] = coll[q] /\ host'[q] = host[q]
               /\ outcome'[q] = outcome[q] /\ failed'[q] = failed[q],
           HostOk(r)',
           \A c \in Channels : /\ ChannelOk(r, c)' /\ kernel'[r][c].at \in {0, 1} /\ Keeps(r, c)
                               /\ Heard(r, c)' => Heard(r, c)
    PROVE  ControlInv' /\ Kept /\ Unheard
<1>1. LocalInv /\ CountInv /\ WqeInv /\ CurInv
  BY DEF ControlInv
<1>2. ASSUME NEW q \in Ranks, NEW c \in Channels, q # r PROVE Same(q, c)
  BY <1>2 DEF Same, laneVars
<1>3. Kept
  <2> SUFFICES ASSUME NEW q \in Ranks, NEW c \in Channels PROVE Keeps(q, c)
    BY DEF Kept
  <2> QED BY <1>2, SameIs
<1>4. Unheard
  <2> SUFFICES ASSUME NEW q \in Ranks, NEW c \in Channels, Heard(q, c)' PROVE Heard(q, c)
    BY DEF Unheard
  <2>1. CASE q = r
    BY <2>1
  <2>2. CASE q # r
    BY <1>2, <2>2, SameIs DEF Keeps, Heard, laneVars
  <2> QED BY <2>1, <2>2
<1>5. ASSUME NEW q \in Ranks PROVE HostOk(q)'
  <2>1. CASE q = r
    BY <2>1
  <2>2. CASE q # r
    <3>1. HostOk(q)
      BY <1>1 DEF LocalInv
    <3> QED BY <2>2, <3>1 DEF HostOk
  <2> QED BY <2>1, <2>2
<1>6. ASSUME NEW q \in Ranks, NEW c \in Channels PROVE ChannelOk(q, c)'
  <2>1. CASE q = r
    BY <2>1
  <2>2. CASE q # r
    <3>1. /\ Same(q, c) /\ recvs'[q][c] = recvs[q][c] /\ Fin(q, c)' = Fin(q, c)
          /\ Inside(q, c)' <=> Inside(q, c)
          /\ Begun(q, c)' <=> Begun(q, c)
      BY <1>2, <2>2, SameIs DEF laneVars, Keeps
    <3>2. ChannelOk(q, c)
      BY <1>1 DEF LocalInv
    <3>3. IsStep(c, kernel[q][c])' <=> IsStep(c, kernel[q][c])
      BY <3>1 DEF Same, IsStep
    <3> QED BY <3>1, <3>2, <3>3 DEF ChannelOk, Same
  <2> QED BY <2>1, <2>2
<1>7. ASSUME NEW q \in Ranks, NEW c \in Channels PROVE LaneOk(q, After(q), c)'
  <2> DEFINE n == After(q)
  <2>1. n \in Ranks /\ LaneOk(q, n, c)
    BY <1>1, Neighbours DEF CountInv
  <2>2. Fin(q, c)' = Fin(q, c) /\ Fin(n, c)' = Fin(n, c)
    BY <1>3, <2>1 DEF Kept, Keeps
  <2>3. /\ kernel'[q][c].at \in {0, 1} \/ kernel'[q][c] = kernel[q][c]
        /\ kernel'[n][c].at \in {0, 1} \/ kernel'[n][c] = kernel[n][c]
    BY <2>1
  <2> QED BY <2>1, <2>2, <2>3 DEF LaneOk, laneVars
<1>8. CountInv'
  BY <1>1, <1>7 DEF CountInv, laneVars
<1>9. LocalInv'
  BY <1>5, <1>6 DEF LocalInv
<1>10. CurInv'
  BY <1>1, <1>3, CurInvKept
<1>11. WqeInv'
  <2> SUFFICES ASSUME NEW q \in Ranks, NEW c \in Channels, sq'[q][c] # <<>>
               PROVE  sq'[q][c][1] = Wqe(q, c, Cur(q, c)')
    BY DEF WqeInv, Wqe
  <2> QED BY <1>1, <1>3, WqeInvKept DEF Kept, laneVars
<1> QED BY <1>3, <1>4, <1>8, <1>9, <1>10, <1>11 DEF ControlInv

\* Outside of the kernel no channel runs, and without an error none has stopped.
LEMMA Resting ==
    ASSUME LocalInv, NEW r \in Ranks, NEW ch \in Channels, host[r] # "kernel", ~ failed[r]
    PROVE  /\ kernel[r][ch].at = 0 /\ kernel[r][ch].status = 0 /\ ~ Inside(r, ch) /\ ~ Dead(r, ch)
           /\ ~ Sent(r, ch) /\ ~ Begun(r, ch) /\ Fin(r, ch) = sends[r][ch]
           /\ recvs[r][ch] = sends[r][ch]
<1>1. ChannelOk(r, ch) /\ HostOk(r)
  BY DEF LocalInv
<1>2. kernel[r][ch].at = 0 /\ kernel[r][ch].status = 0 /\ outcome[r] # "raised"
  BY <1>1 DEF ChannelOk, HostOk
<1>3. sends[r][ch] \in Nat
  BY Values DEF LocalInv
<1>4. ~ Sent(r, ch) /\ ~ Begun(r, ch) /\ ~ Inside(r, ch) /\ ~ Dead(r, ch)
  BY <1>2 DEF Sent, Begun, Inside, Dead
<1>5. Fin(r, ch) = sends[r][ch]
  BY <1>4 DEF Fin
<1> QED BY <1>1, <1>2, <1>3, <1>4, <1>5 DEF ChannelOk

LEMMA EnterControl ==
    ASSUME ControlInv, NEW r \in Ranks, Enter(r)
    PROVE  /\ ControlInv' /\ Kept /\ Unheard
           /\ \A ch \in Channels : ~ Inside(r, ch)'
<1>1. LocalInv /\ RingTypes /\ CountInv /\ host[r] = "idle" /\ ~ failed[r] /\ HostOk(r)
  BY DEF ControlInv, LocalInv, Enter
<1>2. /\ coll' = [coll EXCEPT ![r] = coll[r] + 1] /\ host' = [host EXCEPT ![r] = "copied"]
      /\ outcome' = [outcome EXCEPT ![r] = "none"]
      /\ UNCHANGED <<faults, failed, lanes, scratch, kernel, laneVars>>
      /\ tensor' = [tensor EXCEPT ![r] = Everywhere(Input(r, coll[r] + 1))]
      /\ work' = [work EXCEPT ![r] = Everywhere(Input(r, coll[r] + 1))]
  BY DEF Enter
<1>3. coll \in [Ranks -> Nat] /\ host \in [Ranks -> {"idle", "copied", "kernel"}]
      /\ outcome \in [Ranks -> {"none", "ok", "raised"}]
  BY <1>1 DEF RingTypes
<1>4. /\ coll'[r] = coll[r] + 1 /\ host'[r] = "copied" /\ outcome'[r] = "none"
      /\ \A q \in Ranks : q # r =>
            coll'[q] = coll[q] /\ host'[q] = host[q] /\ outcome'[q] = outcome[q]
      /\ coll' \in [Ranks -> Nat] /\ host' \in [Ranks -> {"idle", "copied", "kernel"}]
      /\ outcome' \in [Ranks -> {"none", "ok", "raised"}]
  BY <1>2, <1>3
<1>5. IsBuffer(work') /\ IsBuffer(tensor')
  <2>1. IsBuffer(work) /\ IsBuffer(tensor)
    BY <1>1 DEF RingTypes
  <2> QED BY <1>2, <2>1 DEF IsBuffer, Everywhere
<1>6. RingTypes'
  BY <1>1, <1>2, <1>4, <1>5 DEF RingTypes, laneVars, IsBuffer
<1>7. HostOk(r)'
  BY <1>1, <1>2, <1>3, <1>4 DEF HostOk
<1>8. ASSUME NEW c \in Channels
      PROVE  /\ ChannelOk(r, c)' /\ kernel'[r][c].at \in {0, 1} /\ Keeps(r, c)
             /\ Heard(r, c)' => Heard(r, c)
             /\ ~ Inside(r, c)'
  <2>1. /\ kernel[r][c].at = 0 /\ kernel[r][c].status = 0 /\ ~ Inside(r, c) /\ ~ Dead(r, c)
        /\ ~ Sent(r, c) /\ ~ Begun(r, c) /\ Fin(r, c) = sends[r][c]
        /\ recvs[r][c] = sends[r][c] /\ sends[r][c] \in Nat
    BY <1>1, Resting, Values
  <2>2. /\ ~ Inside(r, c)' /\ ~ Dead(r, c)' /\ ~ Sent(r, c)' /\ ~ Begun(r, c)'
        /\ Fin(r, c)' = sends[r][c]
    BY <1>2, <1>4, <2>1 DEF Inside, Dead, Sent, Begun, Fin, laneVars
  <2>3. Cur(r, c)' = Cur(r, c)
    BY <1>1, <1>2, <1>4, <2>1, <2>2 DEF Cur, StepOf, FirstStep
  <2>4. ChannelOk(r, c)'
    BY <1>2, <2>1, <2>2 DEF ChannelOk, laneVars
  <2> QED BY <1>2, <2>1, <2>2, <2>3, <2>4 DEF Keeps, Heard
<1> QED BY <1>2, <1>4, <1>6, <1>7, <1>8, HostFrame

LEMMA LaunchControl ==
    ASSUME ControlInv, NEW r \in Ranks, Launch(r)
    PROVE  ControlInv' /\ Kept /\ Unheard
<1>1. LocalInv /\ RingTypes /\ CountInv /\ host[r] = "copied" /\ HostOk(r) /\ ~ failed[r]
  BY DEF ControlInv, LocalInv, Launch, HostOk
<1>2. /\ host' = [host EXCEPT ![r] = "kernel"]
      /\ kernel' = [kernel EXCEPT ![r] = [ch \in Channels |-> Channel(Start(ch), 0, 0, 0)]]
      /\ UNCHANGED <<faults, coll, outcome, failed, lanes, tensor, dataVars, laneVars>>
  BY DEF Launch
<1>3. ASSUME NEW ch \in Channels
      PROVE  LET k == Channel(Start(ch), 0, 0, 0) IN
             /\ k \in ChannelType /\ k.status = 0
             /\ Busy(ch) => k.at = 1 /\ k.phase = "rs" /\ k.step = 1 /\ k.off = 0
             /\ ~ Busy(ch) => k.at = 0
  BY LoopIs DEF Channel, Start, Ended, FirstStep, ChannelType
<1>4. /\ host' \in [Ranks -> {"idle", "copied", "kernel"}] /\ host'[r] = "kernel"
      /\ kernel' \in [Ranks -> [Channels -> ChannelType]]
      /\ \A q \in Ranks : q # r => kernel'[q] = kernel[q] /\ host'[q] = host[q]
      /\ \A ch \in Channels : kernel'[r][ch] = Channel(Start(ch), 0, 0, 0)
  <2>1. host \in [Ranks -> {"idle", "copied", "kernel"}]
        /\ kernel \in [Ranks -> [Channels -> ChannelType]]
    BY <1>1 DEF RingTypes
  <2>2. [ch \in Channels |-> Channel(Start(ch), 0, 0, 0)] \in [Channels -> ChannelType]
    BY <1>3
  <2> QED BY <1>2, <2>1, <2>2
<1>5. RingTypes'
  BY <1>1, <1>2, <1>4 DEF RingTypes, laneVars, dataVars, IsBuffer
<1>6. HostOk(r)'
  BY <1>1, <1>2, <1>4 DEF HostOk
<1>7. ASSUME NEW c \in Channels
      PROVE  /\ ChannelOk(r, c)' /\ kernel'[r][c].at \in {0, 1} /\ Keeps(r, c)
             /\ Heard(r, c)' => Heard(r, c)
  <2>1. /\ ~ Inside(r, c) /\ ~ Dead(r, c) /\ Fin(r, c) = sends[r][c]
        /\ recvs[r][c] = sends[r][c] /\ sends[r][c] \in Nat /\ arrived[r][c] \in Nat
    BY <1>1, Resting, Values
  <2>2. /\ kernel'[r][c].at \in {0, 1} /\ kernel'[r][c].status = 0
        /\ Busy(c) => /\ kernel'[r][c].at = 1 /\ kernel'[r][c].phase = "rs"
                      /\ kernel'[r][c].step = 1 /\ kernel'[r][c].off = 0
        /\ ~ Busy(c) => kernel'[r][c].at = 0
    BY <1>3, <1>4
  <2>3. /\ Inside(r, c)' <=> Busy(c)
        /\ ~ Dead(r, c)' /\ ~ Sent(r, c)' /\ ~ Begun(r, c)' /\ Fin(r, c)' = sends[r][c]
    BY <1>2, <1>4, <2>2 DEF Inside, Dead, Sent, Begun, Fin, laneVars
  <2>4. Busy(c) => Cur(r, c)' = Cur(r, c)
    BY <1>1, <1>2, <1>4, <2>1, <2>2, <2>3 DEF Cur, StepOf, FirstStep
  <2>5. arrived[r][c] <= Fin(r, c)
    BY <1>1, <2>1, Around DEF LaneOk
  <2>6. ~ Heard(r, c)'
    BY <1>2, <2>1, <2>3, <2>5 DEF Heard, laneVars
  <2>7. Inside(r, c)' => IsStep(c, kernel[r][c])'
    <3>1. SUFFICES ASSUME Busy(c) PROVE IsStep(c, kernel[r][c])'
      BY <2>3
    <3>2. 0 \in Offsets(L, c, World)
      BY <3>1, OffsetsAre DEF Busy
    <3>3. IsStep(c, kernel'[r][c])
      BY <2>2, <3>1, <3>2, RingAssumption DEF IsStep
    <3> QED BY <3>3 DEF IsStep
  <2>8. ChannelOk(r, c)'
    BY <1>2, <1>4, <2>1, <2>2, <2>3, <2>7 DEF ChannelOk, laneVars
  <2> QED BY <2>1, <2>2, <2>3, <2>4, <2>6, <2>8 DEF Keeps
<1> QED BY <1>2, <1>4, <1>5, <1>6, <1>7, HostFrame

\* A channel that has ended without an error is outside of any step.
LEMMA AfterKernel ==
    ASSUME LocalInv, NEW r \in Ranks, NEW ch \in Channels, KernelEnded(r), StatusesOk(r)
    PROVE  /\ ~ Inside(r, ch) /\ ~ Dead(r, ch) /\ ~ Sent(r, ch) /\ ~ Begun(r, ch)
           /\ Cur(r, ch) = StepOf(coll[r] + 1, FirstStep(0))
BY DEF KernelEnded, StatusesOk, Inside, Dead, Sent, Begun, Cur

\* The end of a call.
LEMMA EndControl ==
    ASSUME ControlInv, NEW r \in Ranks, Return(r) \/ Raise(r)
    PROVE  ControlInv' /\ Kept /\ Unheard
<1>1. LocalInv /\ RingTypes /\ CountInv /\ HostOk(r)
  BY DEF ControlInv, LocalInv
<1>2. /\ host' = [host EXCEPT ![r] = "idle"] /\ host[r] # "idle"
      /\ UNCHANGED <<faults, coll, lanes, dataVars, kernel, laneVars>>
      /\ tensor' = tensor \/ tensor' = [tensor EXCEPT ![r] = work[r]]
      /\ \A ch \in Channels : kernel[r][ch].at = 0
  <2>1. KernelEnded(r) => host[r] # "idle" /\ \A ch \in Channels : kernel[r][ch].at = 0
    BY DEF KernelEnded
  <2>2. host[r] = "copied" => \A ch \in Channels : kernel[r][ch].at = 0
    BY <1>1 DEF LocalInv, ChannelOk
  <2> QED BY <2>1, <2>2 DEF Return, Raise
<1>3. \/ /\ Return(r) /\ outcome' = [outcome EXCEPT ![r] = "ok"] /\ UNCHANGED failed
         /\ KernelEnded(r) /\ StatusesOk(r)
      \/ outcome' = [outcome EXCEPT ![r] = "raised"] /\ failed' = [failed EXCEPT ![r] = TRUE]
  BY DEF Return, Raise
<1>4. /\ host \in [Ranks -> {"idle", "copied", "kernel"}]
      /\ outcome \in [Ranks -> {"none", "ok", "raised"}] /\ failed \in [Ranks -> BOOLEAN]
  BY <1>1 DEF RingTypes
<1>5. /\ host' \in [Ranks -> {"idle", "copied", "kernel"}] /\ host'[r] = "idle"
      /\ outcome' \in [Ranks -> {"none", "ok", "raised"}] /\ failed' \in [Ranks -> BOOLEAN]
      /\ \/ outcome'[r] = "ok" /\ failed'[r] = failed[r]
         \/ outcome'[r] = "raised" /\ failed'[r]
      /\ \A q \in Ranks : q # r =>
            host'[q] = host[q] /\ outcome'[q] = outcome[q] /\ failed'[q] = failed[q]
  BY <1>2, <1>3, <1>4
<1>6. IsBuffer(tensor')
  <2>1. IsBuffer(work) /\ IsBuffer(tensor)
    BY <1>1 DEF RingTypes
  <2>2. work[r] = [s \in Slots |-> work[r][s]]
    BY <2>1 DEF IsBuffer
  <2> QED BY <1>2, <2>1, <2>2 DEF IsBuffer
<1>7. RingTypes'
  BY <1>1, <1>2, <1>5, <1>6 DEF RingTypes, laneVars, dataVars, IsBuffer
<1>8. HostOk(r)'
  BY <1>1, <1>2, <1>5 DEF HostOk
<1>9. ASSUME NEW c \in Channels
      PROVE  /\ ChannelOk(r, c)' /\ kernel'[r][c].at \in {0, 1} /\ Keeps(r, c)
             /\ Heard(r, c)' => Heard(r, c)
  <2>1. ChannelOk(r, c)
    BY <1>1 DEF LocalInv
  <2>2. /\ Inside(r, c)' <=> Inside(r, c)
        /\ Begun(r, c)' <=> Begun(r, c)
        /\ Fin(r, c)' = Fin(r, c)
    BY <1>2 DEF Inside, Begun, Fin, Sent, laneVars
  <2>3. Inside(r, c) => Cur(r, c)' = Cur(r, c)
    BY <1>2, <2>2 DEF Cur, StepOf
  <2>4. IsStep(c, kernel[r][c])' <=> IsStep(c, kernel[r][c])
    BY <1>2 DEF IsStep
  <2>5. kernel[r][c].status # 0 => outcome'[r] = "raised"
    BY <1>3, <1>4, <1>5 DEF StatusesOk
  <2>6. ChannelOk(r, c)'
    BY <1>2, <2>1, <2>2, <2>4, <2>5 DEF ChannelOk, laneVars
  <2>7. ~ Dead(r, c)
    BY <1>2 DEF Dead
  <2>8. ~ Dead(r, c)' => Cur(r, c)' = Cur(r, c)
    <3>1. CASE Inside(r, c)
      BY <2>3, <3>1
    <3>2. CASE ~ Inside(r, c) /\ outcome'[r] = "raised"
      BY <1>5, <2>2, <3>2 DEF Dead
    <3>3. CASE ~ Inside(r, c) /\ outcome'[r] = "ok"
      <4>1. KernelEnded(r)
        BY <1>3, <1>4, <3>3
      <4> QED BY <1>2, <1>5, <2>2, <3>3, <4>1 DEF Cur, KernelEnded, StepOf, FirstStep
    <3> QED BY <1>5, <3>1, <3>2, <3>3
  <2> QED BY <1>2, <2>2, <2>3, <2>6, <2>7, <2>8 DEF Keeps, Heard, laneVars
<1> QED BY <1>2, <1>5, <1>7, <1>8, <1>9, HostFrame

LEMMA AbortControl ==
    ASSUME ControlInv, NEW r \in Ranks, Abort(r)
    PROVE  ControlInv' /\ Kept /\ Unheard
<1>1. LocalInv /\ RingTypes /\ CountInv /\ HostOk(r) /\ CurInv /\ WqeInv
  BY DEF ControlInv, LocalInv
<1>2. /\ host[r] = "idle" /\ lanes' = [lanes EXCEPT ![r] = FALSE]
      /\ failed' = [failed EXCEPT ![r] = TRUE] /\ sq' = [sq EXCEPT ![r] = [l \in Lanes |-> <<>>]]
      /\ UNCHANGED <<faults, coll, host, outcome, tensor, dataVars, kernel, sends, acked, recvs, arrived>>
  BY DEF Abort
<1>3. /\ lanes \in [Ranks -> BOOLEAN] /\ failed \in [Ranks -> BOOLEAN]
      /\ sq \in [Ranks -> [Lanes -> Seq(Wqes)]]
  BY <1>1 DEF RingTypes
<1>4. /\ lanes' \in [Ranks -> BOOLEAN] /\ failed' \in [Ranks -> BOOLEAN]
      /\ ~ lanes'[r] /\ failed'[r]
      /\ \A q \in Ranks : q # r => lanes'[q] = lanes[q] /\ failed'[q] = failed[q] /\ sq'[q] = sq[q]
      /\ sq'[r] = [l \in Lanes |-> <<>>]
  BY <1>2, <1>3
<1>5. sq' \in [Ranks -> [Lanes -> Seq(Wqes)]]
  <2>1. [l \in Lanes |-> <<>>] \in [Lanes -> Seq(Wqes)]
    OBVIOUS
  <2> QED BY <1>2, <1>3, <2>1
<1>6. RingTypes'
  BY <1>1, <1>2, <1>4, <1>5 DEF RingTypes, dataVars, IsBuffer
<1>7. ASSUME NEW q \in Ranks, NEW c \in Channels PROVE Same(q, c)
  BY <1>2 DEF Same
<1>8. Kept /\ Unheard
  <2>1. \A q \in Ranks : \A c \in Channels : Keeps(q, c)
    BY <1>7, SameIs
  <2>2. ASSUME NEW q \in Ranks, NEW c \in Channels, Heard(q, c)' PROVE Heard(q, c)
    BY <1>2, <1>7, <2>2, SameIs DEF Heard, Keeps
  <2> QED BY <2>1, <2>2 DEF Kept, Unheard
<1>9. ASSUME NEW q \in Ranks PROVE HostOk(q)'
  <2>1. HostOk(q)
    BY <1>1 DEF LocalInv
  <2> QED BY <1>2, <1>4, <2>1 DEF HostOk
<1>10. ASSUME NEW q \in Ranks, NEW c \in Channels PROVE ChannelOk(q, c)'
  <2>1. ChannelOk(q, c)
    BY <1>1 DEF LocalInv
  <2> QED BY <1>2, <2>1 DEF ChannelOk, Inside, IsStep, Fin, Sent, Begun
<1>11. ASSUME NEW q \in Ranks, NEW c \in Channels PROVE LaneOk(q, After(q), c)'
  <2>1. LaneOk(q, After(q), c) /\ After(q) \in Ranks /\ c \in Lanes
    BY <1>1, Neighbours, ChannelsAreLanes DEF CountInv
  <2>2. CASE q = r
    <3>1. Len(sq'[q][c]) = 0
      BY <1>4, <2>1, <2>2
    <3> QED BY <1>2, <1>4, <2>1, <2>2, <3>1 DEF LaneOk, Fin, Sent
  <2>3. CASE q # r
    BY <1>2, <1>4, <2>1, <2>3 DEF LaneOk, Fin, Sent
  <2> QED BY <2>2, <2>3
<1>12. ASSUME NEW q \in Ranks, NEW l \in Lanes \ Channels PROVE sq'[q][l] = <<>>
  BY <1>1, <1>4 DEF CountInv
<1>13. WqeInv'
  <2> SUFFICES ASSUME NEW q \in Ranks, NEW c \in Channels, sq'[q][c] # <<>>
               PROVE  sq'[q][c][1] = Wqe(q, c, Cur(q, c)')
    BY DEF WqeInv, Wqe
  <2>1. sq'[q][c] = sq[q][c]
    BY <1>4, ChannelsAreLanes
  <2> QED BY <1>1, <1>8, <2>1, WqeInvKept DEF Kept
<1>14. LocalInv' /\ CountInv' /\ CurInv'
  BY <1>1, <1>6, <1>8, <1>9, <1>10, <1>11, <1>12, CurInvKept DEF LocalInv, CountInv
<1> QED BY <1>8, <1>13, <1>14 DEF ControlInv

-----------------------------------------------------------------------------
(* The adapters *)

\* A step that leaves all that the invariants of the lanes look at.
LEMMA StillControl ==
    ASSUME ControlInv, UNCHANGED <<hostVars, kernel, laneVars>>, IsBuffer(work'), IsBuffer(scratch')
    PROVE  ControlInv' /\ Kept /\ Unheard
<1>1. ASSUME NEW q \in Ranks, NEW c \in Channels PROVE Same(q, c)
  BY DEF Same, hostVars, laneVars
<1>2. Kept /\ Unheard
  <2>1. \A q \in Ranks : \A c \in Channels : Keeps(q, c)
    BY <1>1, SameIs
  <2>2. ASSUME NEW q \in Ranks, NEW c \in Channels, Heard(q, c)' PROVE Heard(q, c)
    BY <1>1, <2>2, SameIs DEF Heard, Keeps, laneVars
  <2> QED BY <2>1, <2>2 DEF Kept, Unheard
<1>3. LocalInv'
  <2>1. RingTypes'
    BY DEF ControlInv, LocalInv, RingTypes, hostVars, laneVars, IsBuffer
  <2>2. ASSUME NEW q \in Ranks PROVE HostOk(q)'
    BY DEF ControlInv, LocalInv, HostOk, hostVars
  <2>3. ASSUME NEW q \in Ranks, NEW c \in Channels PROVE ChannelOk(q, c)'
    <3>1. ChannelOk(q, c)
      BY DEF ControlInv, LocalInv
    <3> QED BY <3>1 DEF ChannelOk, Inside, IsStep, Fin, Sent, Begun, hostVars, laneVars
  <2> QED BY <2>1, <2>2, <2>3 DEF LocalInv
<1>4. CountInv'
  BY DEF ControlInv, CountInv, LaneOk, Fin, Sent, hostVars, laneVars
<1>5. CurInv'
  BY <1>2, CurInvKept DEF ControlInv
<1>6. WqeInv'
  <2> SUFFICES ASSUME NEW q \in Ranks, NEW c \in Channels, sq'[q][c] # <<>>
               PROVE  sq'[q][c][1] = Wqe(q, c, Cur(q, c)')
    BY DEF WqeInv, Wqe
  <2> QED BY <1>2, WqeInvKept DEF Kept, ControlInv, laneVars
<1> QED BY <1>2, <1>3, <1>4, <1>5, <1>6 DEF ControlInv

LEMMA HwAckControl ==
    ASSUME ControlInv, NEW r \in Ranks, NEW l \in Lanes, HwAck(r, l)
    PROVE  ControlInv' /\ Kept /\ Unheard
<1>1. LocalInv /\ RingTypes /\ CountInv
  BY DEF ControlInv, LocalInv
<1>2. /\ lanes[r] /\ acked[r][l] < sends[r][l] - Len(sq[r][l])
      /\ acked' = [acked EXCEPT ![r][l] = acked[r][l] + 1]
      /\ UNCHANGED <<faults, hostVars, dataVars, kernel, sq, sends, recvs, arrived>>
  BY DEF HwAck
<1>3. acked \in [Ranks -> [Lanes -> Nat]]
  BY <1>1 DEF RingTypes
<1>4. /\ acked' \in [Ranks -> [Lanes -> Nat]] /\ acked'[r][l] = acked[r][l] + 1
      /\ \A q \in Ranks : \A c \in Lanes : q # r \/ c # l => acked'[q][c] = acked[q][c]
  <2>1. acked[r][l] + 1 \in Nat
    BY <1>3
  <2> QED BY <1>2, <1>3, <2>1, OneLane
<1>5. ASSUME NEW q \in Ranks, NEW c \in Channels PROVE Same(q, c)
  BY <1>2 DEF Same, hostVars
<1>6. Kept /\ Unheard
  <2>1. \A q \in Ranks : \A c \in Channels : Keeps(q, c)
    BY <1>5, SameIs
  <2>2. ASSUME NEW q \in Ranks, NEW c \in Channels, Heard(q, c)' PROVE Heard(q, c)
    BY <1>2, <1>5, <2>2, SameIs DEF Heard, Keeps
  <2> QED BY <2>1, <2>2 DEF Kept, Unheard
<1>7. LocalInv'
  <2>1. RingTypes'
    BY <1>1, <1>2, <1>4 DEF RingTypes, hostVars, dataVars, IsBuffer
  <2>2. ASSUME NEW q \in Ranks PROVE HostOk(q)'
    BY <1>1, <1>2 DEF LocalInv, HostOk, hostVars
  <2>3. ASSUME NEW q \in Ranks, NEW c \in Channels PROVE ChannelOk(q, c)'
    <3>1. ChannelOk(q, c)
      BY <1>1 DEF LocalInv
    <3> QED BY <1>2, <3>1 DEF ChannelOk, Inside, IsStep, Fin, Sent, Begun, hostVars
  <2> QED BY <2>1, <2>2, <2>3 DEF LocalInv
<1>8. CountInv'
  <2>1. ASSUME NEW q \in Ranks, NEW c \in Channels PROVE LaneOk(q, After(q), c)'
    <3>1. LaneOk(q, After(q), c) /\ After(q) \in Ranks
      BY <1>1, Neighbours DEF CountInv
    <3>2. /\ acked[q][c] \in Nat /\ sends[q][c] \in Nat /\ arrived[After(q)][c] \in Nat /\ c \in Lanes
      BY <1>1, <3>1, Values
    <3>3. acked'[q][c] <= arrived[After(q)][c]
      BY <1>2, <1>4, <3>1, <3>2, SMTT(30) DEF LaneOk
    <3> QED BY <1>2, <3>1, <3>3 DEF LaneOk, Fin, Sent, hostVars
  <2> QED BY <1>1, <1>2, <2>1 DEF CountInv
<1>9. CurInv'
  BY <1>6, CurInvKept DEF ControlInv
<1>10. WqeInv'
  <2> SUFFICES ASSUME NEW q \in Ranks, NEW c \in Channels, sq'[q][c] # <<>>
               PROVE  sq'[q][c][1] = Wqe(q, c, Cur(q, c)')
    BY DEF WqeInv, Wqe
  <2> QED BY <1>2, <1>6, WqeInvKept DEF Kept, ControlInv
<1> QED BY <1>6, <1>7, <1>8, <1>9, <1>10 DEF ControlInv

\* A lane with something on it is that of a channel, and both ends are where
\* the put belongs.
Delivers(r, ch) ==
    /\ ch \in Channels /\ Inside(r, ch) /\ arrived[After(r)][ch] = Fin(r, ch)
    /\ Head(sq[r][ch]) = Wqe(r, ch, Cur(r, ch))
    /\ \/ Fin(r, ch) = Fin(After(r), ch)
       \/ Fin(r, ch) = Fin(After(r), ch) + 1 /\ Inside(After(r), ch)

LEMMA OnTheLane ==
    ASSUME ControlInv, NEW r \in Ranks, NEW l \in Lanes, sq[r][l] # <<>>
    PROVE  Delivers(r, l)
<1>1. LocalInv /\ CountInv /\ RingTypes
  BY DEF ControlInv, LocalInv
<1>2. l \in Channels
  BY <1>1 DEF CountInv
<1>3. /\ Inside(r, l) /\ arrived[After(r)][l] = Fin(r, l)
      /\ Fin(r, l) \in {Fin(After(r), l), Fin(After(r), l) + 1}
  BY <1>1, <1>2, Posted
<1>4. sq[r][l] \in Seq(Wqes) /\ Head(sq[r][l]) = sq[r][l][1]
  BY <1>1, <1>2, Values
<1>5. Head(sq[r][l]) = Wqe(r, l, Cur(r, l))
  BY <1>2, <1>4 DEF ControlInv, WqeInv
<1>6. ASSUME Fin(r, l) = Fin(After(r), l) + 1 PROVE Inside(After(r), l)
  <2> DEFINE n == After(r)
  <2>1. n \in Ranks /\ LaneOk(r, n, l) /\ ChannelOk(n, l)
    BY <1>1, <1>2, Neighbours DEF CountInv, LocalInv
  <2>2. recvs[n][l] \in Nat /\ Fin(n, l) \in Nat /\ recvs[n][l] >= Fin(n, l) + 1
    BY <1>1, <1>2, <1>3, <1>6, <2>1, Values DEF LaneOk, ChannelOk
  <2>3. Begun(n, l)
    BY <2>1, <2>2 DEF ChannelOk
  <2> QED BY <1>1, <1>2, <2>1, <2>3, Values DEF Begun, Inside
<1> QED BY <1>2, <1>3, <1>5, <1>6 DEF Delivers

\* The notification of a step comes to a rank that is in it.
LEMMA HwDeliverControl ==
    ASSUME ControlInv, NEW r \in Ranks, NEW l \in Lanes, HwDeliver(r, l),
           IsBuffer(work'), IsBuffer(scratch')
    PROVE  /\ ControlInv' /\ Kept /\ l \in Channels
           /\ Fin(After(r), l) = Fin(r, l) /\ Inside(After(r), l)
           /\ \A q \in Ranks : \A c \in Channels :
                 Heard(q, c)' => Heard(q, c) \/ (q = After(r) /\ c = l)
<1> DEFINE n == After(r)
<1>1. LocalInv /\ RingTypes /\ CountInv /\ n \in Ranks /\ n # r /\ Before(n) = r
  BY Neighbours DEF ControlInv, LocalInv
<1>2. /\ sq[r][l] # <<>> /\ recvs[n][l] > arrived[n][l]
      /\ sq' = [sq EXCEPT ![r][l] = Tail(sq[r][l])]
      /\ arrived' = [arrived EXCEPT ![n][l] = arrived[n][l] + 1]
      /\ UNCHANGED <<faults, hostVars, kernel, sends, acked, recvs>>
  BY DEF HwDeliver, Connected
<1>3. l \in Channels
  BY <1>1, <1>2 DEF CountInv
<1>4. /\ Inside(r, l) /\ Len(sq[r][l]) = 1 /\ sends[r][l] = Fin(r, l) + 1 /\ arrived[n][l] = Fin(r, l)
      /\ lanes[r] /\ Fin(r, l) \in {Fin(n, l), Fin(n, l) + 1}
  BY <1>1, <1>2, <1>3, Posted
<1>5. /\ ChannelOk(n, l) /\ ChannelOk(r, l) /\ LaneOk(r, n, l)
      /\ recvs[n][l] \in Nat /\ arrived[n][l] \in Nat /\ sq[r][l] \in Seq(Wqes)
      /\ Fin(r, l) \in Nat /\ Fin(n, l) \in Nat /\ sends[r][l] \in Nat
  BY <1>1, <1>3, Values DEF LocalInv, CountInv, ChannelOk
<1>6. Fin(n, l) = Fin(r, l) /\ Begun(n, l) /\ recvs[n][l] = Fin(r, l) + 1
  BY <1>2, <1>4, <1>5 DEF ChannelOk
<1>7. Inside(n, l)
  BY <1>1, <1>3, <1>6, Values DEF Begun, Inside
<1>8. /\ sq' \in [Ranks -> [Lanes -> Seq(Wqes)]] /\ sq'[r][l] = <<>>
      /\ \A q \in Ranks : \A c \in Lanes : q # r \/ c # l => sq'[q][c] = sq[q][c]
  <2>1. sq \in [Ranks -> [Lanes -> Seq(Wqes)]]
    BY <1>1 DEF RingTypes
  <2>2. Tail(sq[r][l]) = <<>> /\ <<>> \in Seq(Wqes)
    <3>1. Tail(sq[r][l]) \in Seq(Wqes) /\ Len(Tail(sq[r][l])) = 0
      BY <1>2, <1>4, <1>5, HeadTailProperties
    <3> QED BY <3>1, EmptySeq
  <2>3. sq' = [sq EXCEPT ![r][l] = <<>>]
    BY <1>2, <2>2
  <2> QED BY <2>1, <2>2, <2>3, OneLane
<1>9. /\ arrived' \in [Ranks -> [Lanes -> Nat]] /\ arrived'[n][l] = arrived[n][l] + 1
      /\ \A q \in Ranks : \A c \in Lanes : q # n \/ c # l => arrived'[q][c] = arrived[q][c]
  <2>1. arrived \in [Ranks -> [Lanes -> Nat]] /\ arrived[n][l] + 1 \in Nat
    BY <1>1, <1>5, SMTT(30) DEF RingTypes
  <2> HIDE DEF n
  <2> QED BY <1>1, <1>2, <2>1, OneLane
<1>10. ASSUME NEW q \in Ranks, NEW c \in Channels PROVE Same(q, c)
  BY <1>2 DEF Same, hostVars
<1>11. Kept
  BY <1>10, SameIs DEF Kept
<1>12. ASSUME NEW q \in Ranks, NEW c \in Channels, Heard(q, c)'
       PROVE  Heard(q, c) \/ (q = n /\ c = l)
  BY <1>9, <1>10, <1>12, SameIs, ChannelsAreLanes DEF Heard, Keeps
<1>13. LocalInv'
  <2>1. RingTypes'
    BY <1>1, <1>2, <1>8, <1>9, SMTT(30) DEF RingTypes, hostVars, IsBuffer
  <2>2. ASSUME NEW q \in Ranks PROVE HostOk(q)'
    BY <1>1, <1>2 DEF LocalInv, HostOk, hostVars
  <2>3. ASSUME NEW q \in Ranks, NEW c \in Channels PROVE ChannelOk(q, c)'
    <3>1. ChannelOk(q, c)
      BY <1>1 DEF LocalInv
    <3> QED BY <1>2, <3>1 DEF ChannelOk, Inside, IsStep, Fin, Sent, Begun, hostVars
  <2> QED BY <2>1, <2>2, <2>3 DEF LocalInv
<1>14. CountInv'
  <2>1. ASSUME NEW q \in Ranks, NEW c \in Channels PROVE LaneOk(q, After(q), c)'
    <3>1. LaneOk(q, After(q), c) /\ After(q) \in Ranks /\ Before(After(q)) = q /\ c \in Lanes
      BY <1>1, Neighbours, ChannelsAreLanes DEF CountInv
    <3>2. Fin(q, c)' = Fin(q, c) /\ Fin(After(q), c)' = Fin(After(q), c)
      BY <1>11, <3>1 DEF Kept, Keeps
    <3>3. CASE q = r /\ c = l
      <4>1. Len(sq'[r][l]) = 0
        BY <1>8
      <4>2. arrived'[n][l] = sends[r][l] /\ arrived'[n][l] = recvs[n][l]
            /\ arrived'[n][l] = Fin(r, l) + 1
        BY <1>4, <1>5, <1>6, <1>9
      <4>3. acked[r][l] <= arrived'[n][l]
        <5>1. acked[r][l] \in Nat /\ acked[r][l] <= arrived[n][l]
          BY <1>1, <1>3, <1>5, Values DEF LaneOk
        <5> QED BY <1>5, <1>9, <5>1
      <4> QED BY <1>2, <1>4, <1>5, <1>6, <3>2, <3>3, <4>1, <4>2, <4>3 DEF LaneOk, hostVars
    <3>4. CASE q # r \/ c # l
      <4>1. /\ sq'[q][c] = sq[q][c] /\ arrived'[After(q)][c] = arrived[After(q)][c]
        BY <1>1, <1>8, <1>9, <3>1, <3>4
      <4> QED BY <1>2, <3>1, <3>2, <4>1 DEF LaneOk, hostVars
    <3> QED BY <3>3, <3>4
  <2>2. ASSUME NEW q \in Ranks, NEW c \in Lanes \ Channels PROVE sq'[q][c] = <<>>
    BY <1>1, <1>3, <1>8 DEF CountInv
  <2> QED BY <2>1, <2>2 DEF CountInv
<1>15. CurInv'
  BY <1>11, CurInvKept DEF ControlInv
<1>16. WqeInv'
  <2> SUFFICES ASSUME NEW q \in Ranks, NEW c \in Channels, sq'[q][c] # <<>>
               PROVE  sq'[q][c][1] = Wqe(q, c, Cur(q, c)')
    BY DEF WqeInv, Wqe
  <2>1. sq'[q][c] = sq[q][c]
    BY <1>8, ChannelsAreLanes
  <2> QED BY <1>11, <2>1, WqeInvKept DEF Kept, ControlInv
<1> QED BY <1>3, <1>6, <1>7, <1>11, <1>12, <1>13, <1>14, <1>15, <1>16 DEF ControlInv
-----------------------------------------------------------------------------
(* What a rank holds, from step to step *)

\* The step after a step, case by case.
LEMMA SuccIs ==
    ASSUME NEW ch \in Channels, NEW k \in ChannelType, IsStep(ch, k), NEW m, NEW d,
           d = Succ(ch, StepOf(m, k))
    PROVE  \/ /\ k.phase = "rs" /\ k.step < World - 1
              /\ d.coll = m /\ d.off = k.off /\ d.phase = "rs" /\ d.step = k.step + 1
           \/ /\ k.phase = "rs" /\ k.step = World - 1
              /\ d.coll = m /\ d.off = k.off /\ d.phase = "ag" /\ d.step = 0
           \/ /\ k.phase = "ag" /\ k.step < World - 2
              /\ d.coll = m /\ d.off = k.off /\ d.phase = "ag" /\ d.step = k.step + 1
           \/ /\ k.phase = "ag" /\ k.step = World - 2 /\ k.off + Stride \in Offsets(L, ch, World)
              /\ d.coll = m /\ d.off = k.off + Stride /\ d.phase = "rs" /\ d.step = 1
           \/ /\ k.phase = "ag" /\ k.step = World - 2 /\ k.off + Stride \notin Offsets(L, ch, World)
              /\ d.coll = m + 1 /\ d.off = 0 /\ d.phase = "rs" /\ d.step = 1
<1> DEFINE c == StepOf(m, k)
           off == k.off + World * L.base
<1>1. /\ c = [coll |-> m, off |-> k.off, phase |-> k.phase, step |-> k.step]
      /\ k.phase \in {"rs", "ag"} /\ k.step \in Nat /\ World \in Nat /\ World >= 2
      /\ off = k.off + Stride
  BY RingAssumption DEF StepOf, ChannelType, Stride
<1>a. \/ k.phase = "rs" /\ k.step \in 1..(World - 1)
      \/ k.phase = "ag" /\ k.step \in 0..(World - 2)
  BY <1>1 DEF IsStep
<1> HIDE DEF c
<1>2. CASE k.phase = "rs" /\ k.step < World - 1
  <2>1. c.phase = "rs" /\ c.step < World - 1 /\ c.step # World - 1
    BY <1>1, <1>2
  <2>2. d = [c EXCEPT !.step = @ + 1]
    BY <2>1 DEF Succ, c
  <2> QED BY <1>1, <1>2, <2>2
<1>3. CASE k.phase = "rs" /\ k.step = World - 1
  <2>1. c.phase = "rs" /\ c.step = World - 1 /\ ~ c.step < World - 1
    BY <1>1, <1>3
  <2>2. d = [c EXCEPT !.phase = "ag", !.step = 0]
    BY <2>1 DEF Succ, c
  <2> QED BY <1>1, <1>3, <2>2
<1>4. CASE k.phase = "ag" /\ k.step < World - 2
  <2>1. c.phase = "ag" /\ c.phase # "rs" /\ c.step < World - 2
    BY <1>1, <1>4
  <2>2. d = [c EXCEPT !.step = @ + 1]
    BY <2>1 DEF Succ, c
  <2> QED BY <1>1, <1>4, <2>2
<1>5. CASE k.phase = "ag" /\ k.step = World - 2
  <2>1. c.phase = "ag" /\ c.phase # "rs" /\ ~ c.step < World - 2 /\ c.off + World * L.base = off /\ c.coll = m
    BY <1>1, <1>5
  <2> HIDE DEF off
  <2>2. d = IF off \in Offsets(L, ch, World) THEN StepOf(m, FirstStep(off))
                                             ELSE StepOf(m + 1, FirstStep(0))
    BY <2>1 DEF Succ, c
  <2> QED BY <1>1, <1>5, <2>2 DEF StepOf, FirstStep
<1> QED BY <1>1, <1>a, <1>2, <1>3, <1>4, <1>5

\* Before the first step a rank has its own input.
LEMMA HeldFirst ==
    ASSUME NEW r \in Ranks, NEW off \in Nat, NEW o \in Ranks, NEW m
    PROVE  Held(r, off, o, StepOf(m, FirstStep(0)), m) = {r}
<1>1. Hop(r, o) \in 1..World /\ World \in Nat /\ Arc(r, 1) = {r}
  BY Hops, Arcs, RingAssumption
<1>2. Hop(r, o) <= 1 => Arc(r, Hop(r, o)) = {r}
  BY <1>1
<1> QED BY <1>1, <1>2 DEF Held, StepOf, FirstStep

\* A step changes what it receives: in the reduce-scatter a sum of one rank
\* more, in the all-gather the sum of all.
LEMMA HeldNext ==
    ASSUME NEW r \in Ranks, NEW s \in Slots, NEW k \in ChannelType, IsStep(s[1], k), NEW m \in Nat
    PROVE  Held(r, s[2], s[3], Succ(s[1], StepOf(m, k)), m)
           = IF Receives(r, StepOf(m, k), s)
             THEN IF k.phase = "rs" THEN Arc(r, k.step + 1) ELSE Ranks
             ELSE Held(r, s[2], s[3], StepOf(m, k), m)
<1> DEFINE c == StepOf(m, k)
           d == Succ(s[1], c)
           h == Hop(r, s[3])
<1>1. /\ s[1] \in Channels /\ s[2] \in Nat /\ s[2] \in Offsets(L, s[1], World) /\ s[3] \in Ranks
      /\ World \in Nat /\ World >= 2 /\ Stride \in Nat \ {0}
  BY SlotIs, RingAssumption, LayoutIs
<1>2. h \in 1..World /\ Arc(r, 1) = {r} /\ Arc(r, World) = Ranks
  BY <1>1, Hops, Arcs
<1>3. /\ c.coll = m /\ c.off = k.off /\ c.phase = k.phase /\ c.step = k.step
      /\ k.off \in Nat /\ k.step \in Nat /\ k.phase \in {"rs", "ag"}
      /\ k.off \in Offsets(L, s[1], World)
  BY DEF StepOf, ChannelType, IsStep
<1>4. /\ k.off < s[2] => k.off + Stride <= s[2]
      /\ k.off + Stride \notin Offsets(L, s[1], World) => s[2] <= k.off
  BY <1>1, <1>3, OffsetsAre
<1>5. Receives(r, c, s) <=> s[2] = k.off /\ h = k.step + 1
  BY <1>3 DEF Receives
<1>6. Held(r, s[2], s[3], c, m)
      = IF s[2] < k.off THEN Ranks ELSE IF s[2] > k.off THEN {r}
        ELSE IF k.phase = "rs" THEN IF h <= k.step THEN Arc(r, h) ELSE {r}
        ELSE IF h <= k.step THEN Ranks ELSE Arc(r, h)
  BY <1>3 DEF Held
<1>7. Held(r, s[2], s[3], d, m)
      = IF d.coll # m \/ s[2] < d.off THEN Ranks ELSE IF s[2] > d.off THEN {r}
        ELSE IF d.phase = "rs" THEN IF h <= d.step THEN Arc(r, h) ELSE {r}
        ELSE IF h <= d.step THEN Ranks ELSE Arc(r, h)
  BY DEF Held
<1>8. \/ /\ k.phase = "rs" /\ k.step < World - 1
         /\ d.coll = m /\ d.off = k.off /\ d.phase = "rs" /\ d.step = k.step + 1
      \/ /\ k.phase = "rs" /\ k.step = World - 1
         /\ d.coll = m /\ d.off = k.off /\ d.phase = "ag" /\ d.step = 0
      \/ /\ k.phase = "ag" /\ k.step < World - 2
         /\ d.coll = m /\ d.off = k.off /\ d.phase = "ag" /\ d.step = k.step + 1
      \/ /\ k.phase = "ag" /\ k.step = World - 2 /\ k.off + Stride \in Offsets(L, s[1], World)
         /\ d.coll = m /\ d.off = k.off + Stride /\ d.phase = "rs" /\ d.step = 1
      \/ /\ k.phase = "ag" /\ k.step = World - 2 /\ k.off + Stride \notin Offsets(L, s[1], World)
         /\ d.coll = m + 1 /\ d.off = 0 /\ d.phase = "rs" /\ d.step = 1
  <2> HIDE DEF d
  <2>1. d = Succ(s[1], StepOf(m, k))
    BY DEF d
  <2> QED BY <1>1, <2>1, SuccIs
<1> HIDE DEF c, d, h
<1>9. CASE k.phase = "rs" /\ k.step < World - 1
  BY <1>1, <1>2, <1>3, <1>5, <1>6, <1>7, <1>8, <1>9 DEF c, d
<1>10. CASE k.phase = "rs" /\ k.step = World - 1
  <2>1. d.coll = m /\ d.off = k.off /\ d.phase = "ag" /\ d.step = 0
    BY <1>1, <1>8, <1>10
  <2>2. ~ h <= d.step
    BY <1>2, <2>1
  <2> QED BY <1>1, <1>2, <1>3, <1>5, <1>6, <1>7, <1>10, <2>1, <2>2 DEF c, d
<1>11. CASE k.phase = "ag" /\ k.step < World - 2
  BY <1>1, <1>2, <1>3, <1>5, <1>6, <1>7, <1>8, <1>11 DEF c, d
<1>12. CASE k.phase = "ag" /\ k.step = World - 2 /\ k.off + Stride \in Offsets(L, s[1], World)
  <2>1. d.coll = m /\ d.off = k.off + Stride /\ d.phase = "rs" /\ d.step = 1
    BY <1>1, <1>8, <1>12
  <2>2. h <= 1 => Arc(r, h) = {r}
    BY <1>2
  <2>3. CASE s[2] < k.off
    BY <1>1, <1>3, <1>5, <1>6, <1>7, <2>1, <2>3 DEF c, d
  <2>4. CASE s[2] = k.off
    BY <1>1, <1>2, <1>3, <1>5, <1>6, <1>7, <1>12, <2>1, <2>4 DEF c, d
  <2>5. CASE s[2] > k.off
    BY <1>1, <1>3, <1>4, <1>5, <1>6, <1>7, <2>1, <2>2, <2>5 DEF c, d
  <2> QED BY <1>1, <1>3, <2>3, <2>4, <2>5
<1>13. CASE k.phase = "ag" /\ k.step = World - 2 /\ k.off + Stride \notin Offsets(L, s[1], World)
  <2>1. d.coll # m /\ s[2] <= k.off
    BY <1>1, <1>4, <1>8, <1>13
  <2>2. CASE s[2] < k.off
    BY <1>1, <1>3, <1>5, <1>6, <1>7, <2>1, <2>2 DEF c, d
  <2>3. CASE s[2] = k.off
    BY <1>1, <1>2, <1>3, <1>5, <1>6, <1>7, <1>13, <2>1, <2>3 DEF c, d
  <2> QED BY <1>1, <1>3, <2>1, <2>2, <2>3
<1> QED BY <1>8, <1>9, <1>10, <1>11, <1>12, <1>13
-----------------------------------------------------------------------------
(* The buffers *)

\* Steps that touch no buffer.
LEMMA DataKept ==
    ASSUME ControlInv, WorkInv, ScratchInv, EnteredInv, Kept, Unheard,
           UNCHANGED <<coll, dataVars>>
    PROVE  WorkInv' /\ ScratchInv' /\ EnteredInv'
<1>1. ASSUME NEW r \in Ranks, NEW s \in Slots
      PROVE  /\ Keeps(r, s[1]) /\ Keeps(Before(r), s[1]) /\ s[1] \in Channels /\ Busy(s[1])
             /\ Heard(r, s[1])' => Heard(r, s[1])
  BY SlotIs, Neighbours DEF Kept, Unheard
<1>2. WorkInv'
  <2> SUFFICES ASSUME NEW r \in Ranks, NEW s \in Slots, coll'[r] # 0, ~ Dead(r, s[1])'
               PROVE  WorkOk(r, s)'
    BY DEF WorkInv, Slots
  <2>1. ~ Dead(r, s[1]) /\ Cur(r, s[1])' = Cur(r, s[1]) /\ coll[r] # 0 /\ coll'[r] = coll[r]
        /\ work'[r][s] = work[r][s]
    BY <1>1 DEF Keeps, dataVars
  <2>2. WorkOk(r, s)
    BY <2>1 DEF WorkInv
  <2>3. Early(r, s) => Early(r, s)'
    BY <1>1, <2>1 DEF Early, Keeps, Before, Gathers, Receives, Succ, Hop
  <2> HIDE DEF WorkInv
  <2> QED BY <1>1, <2>1, <2>2, <2>3 DEF WorkOk, Held, Gathers, Receives, Arc, Hop, Lag, Parts
<1>3. ScratchInv'
  <2> SUFFICES ASSUME NEW r \in Ranks, NEW s \in Slots, Heard(r, s[1])', Cur(r, s[1])'.phase = "rs",
                      Receives(r, Cur(r, s[1])', s)
               PROVE  scratch'[r][s] = Parts(coll'[r], Arc(Before(r), Cur(r, s[1])'.step))
    BY DEF ScratchInv, Slots, Receives, Hop, Parts, Arc, Before, Lag
  <2>1. Heard(r, s[1]) /\ Cur(r, s[1])' = Cur(r, s[1])
    BY <1>1 DEF Heard, Keeps
  <2> QED BY <2>1 DEF ScratchInv, dataVars
<1>4. EnteredInv'
  BY DEF EnteredInv, dataVars
<1> QED BY <1>2, <1>3, <1>4

\* The copy of the tensor at the beginning of a call.
LEMMA EnterData ==
    ASSUME ControlInv, WorkInv, ScratchInv, EnteredInv, NEW r \in Ranks, Enter(r)
    PROVE  WorkInv' /\ ScratchInv' /\ EnteredInv'
<1>1. /\ ControlInv' /\ Kept /\ Unheard /\ RingTypes
      /\ \A ch \in Channels : ~ Inside(r, ch)'
  BY EnterControl DEF ControlInv, LocalInv
<1>2. /\ coll' = [coll EXCEPT ![r] = coll[r] + 1] /\ host' = [host EXCEPT ![r] = "copied"]
      /\ work' = [work EXCEPT ![r] = Everywhere(Input(r, coll[r] + 1))] /\ scratch' = scratch
  BY DEF Enter
<1>3. /\ coll \in [Ranks -> Nat] /\ coll'[r] = coll[r] + 1 /\ host'[r] = "copied"
      /\ \A q \in Ranks : q # r => coll'[q] = coll[q] /\ work'[q] = work[q]
      /\ \A s \in Slots : work'[r][s] = Parts(coll[r] + 1, {r})
  <2>1. Input(r, coll[r] + 1) = Parts(coll[r] + 1, {r})
    BY OwnInput
  <2> QED BY <1>1, <1>2, <2>1 DEF RingTypes, IsBuffer, Everywhere
<1>4. WorkInv'
  <2> SUFFICES ASSUME NEW q \in Ranks, NEW s \in Slots, coll'[q] # 0, ~ Dead(q, s[1])'
               PROVE  WorkOk(q, s)'
    BY DEF WorkInv, Slots
  <2>0. s[1] \in Channels /\ s[2] \in Nat /\ s[3] \in Ranks /\ Busy(s[1])
    BY SlotIs
  <2>1. CASE q = r
    <3>1. ~ Inside(r, s[1])' /\ Cur(r, s[1])' = StepOf(coll[r] + 1, FirstStep(0))
      BY <1>1, <1>3, <2>0 DEF Cur, StepOf, FirstStep
    <3>2. Held(r, s[2], s[3], Cur(r, s[1])', coll'[r]) = {r}
      BY <1>3, <2>0, <3>1, HeldFirst
    <3>3. work'[r][s] = Parts(coll'[r], Held(r, s[2], s[3], Cur(r, s[1])', coll'[r]))
      BY <1>3, <3>2
    <3>4. ~ Heard(r, s[1])'
      BY <3>1 DEF Heard
    <3> QED BY <2>1, <3>3, <3>4 DEF WorkOk, Held, Arc, Hop, Lag, Parts
  <2>2. CASE q # r
    <3>1. Keeps(q, s[1]) /\ Keeps(Before(q), s[1]) /\ (Heard(q, s[1])' => Heard(q, s[1]))
      BY <1>1, <2>0, Neighbours DEF Kept, Unheard
    <3>2. ~ Dead(q, s[1]) /\ Cur(q, s[1])' = Cur(q, s[1]) /\ coll[q] # 0 /\ coll'[q] = coll[q]
          /\ work'[q][s] = work[q][s]
      BY <1>3, <2>0, <2>2, <3>1 DEF Keeps
    <3>3. WorkOk(q, s)
      BY <3>2 DEF WorkInv
    <3>4. Early(q, s) => Early(q, s)'
      BY <3>1, <3>2 DEF Early, Keeps, Before, Gathers, Receives, Succ, Hop
    <3> QED BY <3>1, <3>2, <3>3, <3>4 DEF WorkOk, Held, Gathers, Receives, Arc, Hop, Lag, Parts
  <2> QED BY <2>1, <2>2
<1>5. ScratchInv'
  <2> SUFFICES ASSUME NEW q \in Ranks, NEW s \in Slots, Heard(q, s[1])', Cur(q, s[1])'.phase = "rs",
                      Receives(q, Cur(q, s[1])', s)
               PROVE  scratch'[q][s] = Parts(coll'[q], Arc(Before(q), Cur(q, s[1])'.step))
    BY DEF ScratchInv, Slots, Receives, Hop, Parts, Arc, Before, Lag
  <2>0. s[1] \in Channels
    BY SlotIs
  <2>1. q # r
    BY <1>1, <2>0 DEF Heard
  <2>2. Heard(q, s[1]) /\ Cur(q, s[1])' = Cur(q, s[1])
    BY <1>1, <2>0 DEF Heard, Kept, Unheard, Keeps
  <2> QED BY <1>2, <1>3, <2>1, <2>2 DEF ScratchInv
<1>6. EnteredInv'
  <2> SUFFICES ASSUME NEW q \in Ranks, NEW s \in Slots, NEW x \in DOMAIN work'[q][s] \cup DOMAIN scratch'[q][s]
               PROVE  \E p \in Ranks : \E c \in 1..coll'[p] : x = <<p, c>>
    BY DEF EnteredInv, Slots
  <2>1. \A p \in Ranks : coll[p] \in Nat /\ coll'[p] \in Nat /\ coll[p] <= coll'[p]
    BY <1>3
  <2>2. CASE x \in DOMAIN work[q][s] \cup DOMAIN scratch[q][s]
    <3>0. PICK p \in Ranks : \E c \in 1..coll[p] : x = <<p, c>>
      BY <2>2 DEF EnteredInv
    <3>1. PICK c \in 1..coll[p] : x = <<p, c>>
      BY <3>0
    <3>2. c \in 1..coll'[p]
      BY <2>1
    <3> QED BY <3>1, <3>2
  <2>3. CASE q = r /\ x \in DOMAIN work'[r][s]
    <3>1. DOMAIN work'[r][s] = {r} \X {coll[r] + 1}
      BY <1>3, PartsDomain
    <3>2. x = <<r, coll[r] + 1>>
      BY <2>3, <3>1
    <3>3. coll[r] + 1 \in 1..coll'[r]
      BY <1>3
    <3> QED BY <3>2, <3>3
  <2> QED BY <1>2, <1>3, <2>2, <2>3
<1> QED BY <1>4, <1>5, <1>6

\* A rank that is in a step has entered its collective.
LEMMA CollIs ==
    ASSUME LocalInv, NEW r \in Ranks, NEW ch \in Channels, Inside(r, ch)
    PROVE  coll[r] \in Nat /\ coll[r] # 0
<1>1. HostOk(r) /\ ChannelOk(r, ch) /\ coll[r] \in Nat
  BY DEF LocalInv, RingTypes
<1>2. host[r] = "kernel" \/ outcome[r] = "raised"
  BY <1>1 DEF ChannelOk, Inside
<1> QED BY <1>1, <1>2 DEF HostOk

\* The end of a step: in the reduce-scatter the piece that was received is
\* added to the own one, in the all-gather it is there.
LEMMA FinishData ==
    ASSUME ControlInv, WorkInv, ScratchInv, EnteredInv, NEW r \in Ranks, NEW ch \in Channels,
           Finishes(r, ch), coll' = coll, scratch' = scratch, arrived' = arrived,
           \A q \in Ranks : \A s \in Slots :
               ~ (q = r /\ s[1] = ch /\ kernel[r][ch].phase = "rs" /\ Receives(r, Cur(r, ch), s))
               => work'[q][s] = work[q][s],
           \A s \in Slots :
               s[1] = ch /\ kernel[r][ch].phase = "rs" /\ Receives(r, Cur(r, ch), s)
               => work'[r][s] = work[r][s] (+) scratch[r][s]
    PROVE  WorkInv' /\ ScratchInv' /\ EnteredInv'
<1> DEFINE k == kernel[r][ch]
           c == Cur(r, ch)
           p == Before(r)
<1>1. LocalInv /\ RingTypes /\ CountInv /\ k \in ChannelType
  BY Values DEF ControlInv, LocalInv
<1>2. /\ Inside(r, ch) /\ ~ Dead(r, ch) /\ ~ Dead(r, ch)' /\ host[r] = "kernel"
      /\ Fin(r, ch)' = Fin(r, ch) + 1 /\ Cur(r, ch)' = Succ(ch, c)
      /\ Heard(r, ch) /\ ~ Heard(r, ch)'
      /\ Fin(After(r), ch) \in {Fin(r, ch), Fin(r, ch) + 1}
      /\ \A q \in Ranks : \A e \in Channels : q # r \/ e # ch => Same(q, e)
  BY DEF Finishes
<1>3. /\ c = StepOf(coll[r], k) /\ IsStep(ch, k) /\ coll[r] \in Nat /\ coll[r] # 0
      /\ c.off = k.off /\ c.phase = k.phase /\ c.step = k.step /\ c.coll = coll[r]
      /\ k.phase \in {"rs", "ag"} /\ k.step \in Nat
  BY <1>1, <1>2, InsideIs, CollIs DEF StepOf, ChannelType
<1>4. ASSUME NEW s \in Slots, s[1] = ch PROVE WorkOk(r, s)'
  <2> DEFINE full == Parts(coll[r], Ranks)
             d == Succ(ch, c)
  <2>1. WorkOk(r, s) /\ s[3] \in Ranks
    BY <1>2, <1>3, <1>4, SlotIs DEF WorkInv
  <2>2. Held(r, s[2], s[3], d, coll[r])
        = IF Receives(r, c, s) THEN IF k.phase = "rs" THEN Arc(r, k.step + 1) ELSE Ranks
          ELSE Held(r, s[2], s[3], c, coll[r])
    BY <1>1, <1>3, <1>4, HeldNext
  <2>3. \/ work[r][s] = Parts(coll[r], Held(r, s[2], s[3], c, coll[r]))
        \/ work[r][s] = full /\ Early(r, s)
    BY <1>4, <2>1 DEF WorkOk
  <2>4. Gathers(r, c, s) => work[r][s] = full
    BY <1>2, <1>4, <2>1 DEF WorkOk
  <2>5. SUFFICES \/ work'[r][s] = Parts(coll[r], Held(r, s[2], s[3], d, coll[r]))
                 \/ work'[r][s] = full /\ Early(r, s)'
    <3>1. ~ Heard(r, s[1])' /\ Cur(r, s[1])' = d /\ coll'[r] = coll[r]
      BY <1>2, <1>4
    <3> HIDE DEF d
    <3> QED BY <2>5, <3>1 DEF WorkOk, Held, Arc, Hop, Lag, Parts
  <2>6. CASE Receives(r, c, s) /\ k.phase = "ag"
    <3>1. work[r][s] = full /\ work'[r][s] = work[r][s]
      BY <1>3, <1>4, <2>4, <2>6 DEF Gathers
    <3> QED BY <2>2, <2>6, <3>1
  <2>7. CASE Receives(r, c, s) /\ k.phase = "rs"
    <3>1. /\ World \in Nat /\ World >= 2 /\ k.step \in 1..(World - 1)
          /\ s[2] = c.off /\ Hop(r, s[3]) = c.step + 1
      BY <1>3, <2>7, RingAssumption DEF IsStep, Receives
    <3>2. Held(r, s[2], s[3], c, coll[r]) = {r}
      <4>1. c.off \in Nat /\ ~ c.step + 1 <= c.step
        BY <1>1, <1>3 DEF ChannelType
      <4> HIDE DEF c
      <4> QED BY <1>3, <2>7, <3>1, <4>1 DEF Held
    <3>3. ~ Early(r, s)
      <4>1. ~ Gathers(r, c, s)
        BY <1>3, <2>7 DEF Gathers
      <4>2. d.phase = "ag" => d.step = 0
        <5> HIDE DEF d
        <5>1. d = Succ(ch, StepOf(coll[r], k))
          BY <1>3 DEF d
        <5> QED BY <1>1, <1>3, <2>7, <5>1, SuccIs
      <4>3. ~ Gathers(r, d, s)
        BY <1>3, <3>1, <4>2 DEF Gathers, Receives
      <4> QED BY <1>4, <4>1, <4>3 DEF Early
    <3>4. work[r][s] = Parts(coll[r], {r})
      BY <2>3, <3>2, <3>3
    <3>5. scratch[r][s] = Parts(coll[r], Arc(p, k.step))
      BY <1>2, <1>3, <1>4, <2>7 DEF ScratchInv
    <3>6. Arc(r, k.step + 1) = {r} \cup Arc(p, k.step) /\ r \notin Arc(p, k.step)
      <4>1. p \in Ranks /\ After(p) = r
        BY Neighbours
      <4> QED BY <3>1, <4>1, Arcs
    <3>7. work'[r][s] = Parts(coll[r], {r} \cup Arc(p, k.step))
      <4>1. {r} \cap Arc(p, k.step) = {}
        BY <3>6
      <4> QED BY <1>4, <2>7, <3>4, <3>5, <4>1, AddParts
    <3> QED BY <2>2, <2>7, <3>6, <3>7
  <2>8. CASE ~ Receives(r, c, s)
    <3>1. work'[r][s] = work[r][s]
      BY <1>4, <2>8
    <3>2. CASE work[r][s] = Parts(coll[r], Held(r, s[2], s[3], c, coll[r]))
      BY <2>2, <2>8, <3>1, <3>2
    <3>3. CASE work[r][s] = full /\ Early(r, s)
      <4>1. Gathers(r, d, s)
        BY <1>4, <2>8, <3>3 DEF Early, Gathers
      <4>2. Inside(r, ch)'
        <5>1. d.phase = "ag"
          BY <4>1 DEF Gathers
        <5> HIDE DEF d
        <5>2. Cur(r, ch)'.phase = "ag"
          BY <1>2, <5>1 DEF d
        <5> QED BY <5>2 DEF Cur, StepOf, FirstStep
      <4>3. Gathers(r, Cur(r, s[1])', s)
        BY <1>2, <1>4, <4>1
      <4>4. Early(r, s)'
        BY <1>4, <4>2, <4>3 DEF Early, Gathers, Receives, Hop
      <4> QED BY <3>1, <3>3, <4>4
    <3> QED BY <2>3, <3>2, <3>3
  <2> QED BY <1>3, <2>6, <2>7, <2>8
<1>5. ASSUME NEW q \in Ranks, NEW s \in Slots, q # r \/ s[1] # ch, coll[q] # 0, ~ Dead(q, s[1])'
      PROVE  WorkOk(q, s)'
  <2>1. /\ s[1] \in Channels /\ Before(q) \in Ranks /\ After(Before(q)) = q
        /\ Fin(r, ch) \in Nat /\ Fin(After(r), ch) \in Nat
    BY <1>1, SlotIs, Neighbours, Around
  <2>2. Same(q, s[1]) /\ work'[q][s] = work[q][s]
    BY <1>2, <1>5, <2>1
  <2>3. /\ Keeps(q, s[1]) /\ Cur(q, s[1])' = Cur(q, s[1]) /\ ~ Dead(q, s[1])
        /\ Inside(q, s[1])' <=> Inside(q, s[1])
    BY <1>5, <2>2, SameIs
  <2>4. WorkOk(q, s)
    BY <1>5, <2>3 DEF WorkInv
  <2>5. Early(q, s) => Early(q, s)'
    <3>1. Fin(Before(q), s[1]) = Fin(q, s[1]) + 1 => Fin(Before(q), s[1])' = Fin(Before(q), s[1])
      <4>1. CASE Before(q) = r /\ s[1] = ch
        BY <1>2, <2>1, <4>1
      <4>2. CASE Before(q) # r \/ s[1] # ch
        BY <1>2, <2>1, <4>2, SameIs DEF Keeps
      <4> QED BY <4>1, <4>2
    <3> QED BY <2>3, <3>1 DEF Early, Keeps, Before, Gathers, Receives, Succ, Hop
  <2>6. Heard(q, s[1])' => Heard(q, s[1])
    BY <2>3 DEF Heard, Keeps
  <2> QED BY <2>2, <2>3, <2>4, <2>5, <2>6 DEF WorkOk, Held, Gathers, Receives, Arc, Hop, Lag, Parts
<1>6. WorkInv'
  <2> SUFFICES ASSUME NEW q \in Ranks, NEW s \in Slots, coll'[q] # 0, ~ Dead(q, s[1])'
               PROVE  WorkOk(q, s)'
    BY DEF WorkInv, Slots
  <2> QED BY <1>4, <1>5
<1>7. ScratchInv'
  <2> SUFFICES ASSUME NEW q \in Ranks, NEW s \in Slots, Heard(q, s[1])', Cur(q, s[1])'.phase = "rs",
                      Receives(q, Cur(q, s[1])', s)
               PROVE  scratch'[q][s] = Parts(coll'[q], Arc(Before(q), Cur(q, s[1])'.step))
    BY DEF ScratchInv, Slots, Receives, Hop, Parts, Arc, Before, Lag
  <2>0. s[1] \in Channels
    BY SlotIs
  <2>1. q # r \/ s[1] # ch
    BY <1>2
  <2>2. Same(q, s[1])
    BY <1>2, <2>0, <2>1
  <2>3. Heard(q, s[1]) /\ Cur(q, s[1])' = Cur(q, s[1])
    BY <2>2, SameIs DEF Heard, Keeps
  <2> QED BY <2>3 DEF ScratchInv
<1>8. EnteredInv'
  <2> SUFFICES ASSUME NEW q \in Ranks, NEW s \in Slots, NEW x \in DOMAIN work'[q][s] \cup DOMAIN scratch'[q][s]
               PROVE  \E e \in Ranks : \E m \in 1..coll'[e] : x = <<e, m>>
    BY DEF EnteredInv, Slots
  <2>1. DOMAIN (work[q][s] (+) scratch[q][s]) = DOMAIN work[q][s] \cup DOMAIN scratch[q][s]
    BY DEF (+)
  <2>2. x \in DOMAIN work[q][s] \cup DOMAIN scratch[q][s]
    BY <2>1
  <2> QED BY <2>2 DEF EnteredInv
<1> QED BY <1>6, <1>7, <1>8

\* The piece that r sends in a step, seen by the next rank.
LEMMA SentPiece ==
    ASSUME LocalInv, NEW r \in Ranks, NEW ch \in Channels, Inside(r, ch)
    PROVE  LET c == Cur(r, ch)
               o == SendOwner(r, c.phase, c.step)
               slot == <<ch, c.off, o>>
           IN  /\ Receives(After(r), c, slot) /\ o \in Ranks
               /\ \A s \in Slots : s[1] = ch /\ Receives(After(r), c, s) => s = slot
<1> DEFINE c == Cur(r, ch)
           o == SendOwner(r, c.phase, c.step)
           slot == <<ch, c.off, o>>
           n == After(r)
<1>1. c.step \in 0..(World - 1) /\ n \in Ranks
  <2>1. /\ c = StepOf(coll[r], kernel[r][ch]) /\ IsStep(ch, kernel[r][ch])
        /\ kernel[r][ch] \in ChannelType
    BY InsideIs, Values DEF LocalInv
  <2>2. c.step = kernel[r][ch].step
    BY <2>1 DEF StepOf
  <2> QED BY <2>1, <2>2, RingAssumption, Neighbours DEF IsStep, ChannelType
<1> HIDE DEF c
<1>2. o \in Ranks /\ Hop(n, o) = c.step + 1
  BY <1>1, Owners
<1>3. Receives(n, c, slot)
  BY <1>2 DEF Receives
<1>4. ASSUME NEW s \in Slots, s[1] = ch, Receives(n, c, s) PROVE s = slot
  <2>1. s[2] = c.off /\ Hop(n, s[3]) = c.step + 1 /\ s[3] \in Ranks
    BY <1>4, SlotIs DEF Receives
  <2>2. s[3] = o
    BY <1>1, <1>2, <2>1, Hops
  <2> QED BY <1>4, <2>1, <2>2, SlotParts
<1> QED BY <1>2, <1>3, <1>4 DEF c

\* The put of an all-gather step carries the complete sum.
LEMMA GatherPut ==
    ASSUME ControlInv, WorkInv, NEW r \in Ranks, NEW s \in Slots, Inside(r, s[1]),
           coll[r] # 0, Cur(r, s[1]).phase = "ag", s[2] = Cur(r, s[1]).off,
           s[3] = SendOwner(r, Cur(r, s[1]).phase, Cur(r, s[1]).step)
    PROVE  work[r][s] = Parts(coll[r], Ranks)
<1> DEFINE c == Cur(r, s[1])
           k == kernel[r][s[1]]
<1>1. s[1] \in Channels /\ s[3] \in Ranks /\ LocalInv /\ k \in ChannelType
  BY SlotIs, Values DEF ControlInv, LocalInv
<1>2. c = StepOf(coll[r], k) /\ IsStep(s[1], k) /\ ~ Dead(r, s[1])
  BY <1>1, InsideIs
<1>3. /\ c.coll = coll[r] /\ c.off = k.off /\ c.phase = k.phase /\ c.step = k.step
      /\ k.step \in 0..(World - 2) /\ k.off \in Nat /\ World \in Nat /\ World >= 2
  BY <1>1, <1>2, RingAssumption DEF StepOf, IsStep, ChannelType
<1>4. Hop(r, s[3]) = IF c.step = 0 THEN World ELSE c.step
  BY <1>1, <1>3, Owners
<1>5. WorkOk(r, s)
  BY <1>2 DEF WorkInv
<1>6. Held(r, s[2], s[3], c, coll[r]) = Ranks
  <2>1. Arc(r, World) = Ranks
    BY Arcs
  <2> HIDE DEF c, k
  <2>2. s[2] = c.off /\ c.phase = "ag"
    BY DEF c
  <2> QED BY <1>3, <1>4, <2>1, <2>2 DEF Held
<1> QED BY <1>5, <1>6 DEF WorkOk

\* The put of a reduce-scatter step carries the sum up to the sender, unless
\* the sum of all has already overwritten it: then the next rank, which is
\* also the one before in a ring of two, is a step ahead.
LEMMA ScatterPut ==
    ASSUME ControlInv, WorkInv, NEW r \in Ranks, NEW s \in Slots, Inside(r, s[1]),
           coll[r] # 0, Cur(r, s[1]).phase = "rs", s[2] = Cur(r, s[1]).off,
           s[3] = SendOwner(r, Cur(r, s[1]).phase, Cur(r, s[1]).step),
           Fin(After(r), s[1]) = Fin(r, s[1])
    PROVE  work[r][s] = Parts(coll[r], Arc(r, Cur(r, s[1]).step))
<1> DEFINE c == Cur(r, s[1])
           k == kernel[r][s[1]]
           d == Succ(s[1], c)
<1>1. s[1] \in Channels /\ s[3] \in Ranks /\ LocalInv /\ k \in ChannelType /\ Fin(r, s[1]) \in Nat
  BY SlotIs, Values, Around DEF ControlInv, LocalInv
<1>2. c = StepOf(coll[r], k) /\ IsStep(s[1], k) /\ ~ Dead(r, s[1])
  BY <1>1, InsideIs
<1>3. /\ c.coll = coll[r] /\ c.off = k.off /\ c.phase = k.phase /\ c.step = k.step
      /\ k.step \in 1..(World - 1) /\ k.off \in Nat /\ World \in Nat /\ World >= 2
  BY <1>1, <1>2, RingAssumption DEF StepOf, IsStep, ChannelType
<1>4. Hop(r, s[3]) = c.step
  BY <1>1, <1>3, Owners
<1>5. WorkOk(r, s)
  BY <1>2 DEF WorkInv
<1>6. Held(r, s[2], s[3], c, coll[r]) = Arc(r, c.step)
  <2> HIDE DEF c, k
  <2>1. s[2] = c.off /\ c.phase = "rs"
    BY DEF c
  <2> QED BY <1>3, <1>4, <2>1 DEF Held
<1>7. ~ Early(r, s)
  <2>1. ~ Gathers(r, c, s)
    BY DEF Gathers
  <2>2. ASSUME Gathers(r, d, s) PROVE World = 2
    <3> HIDE DEF d
    <3>1. d.phase = "ag" /\ Hop(r, s[3]) = d.step + 1
      BY <2>2 DEF Gathers, Receives
    <3>2. d = Succ(s[1], StepOf(coll[r], k))
      BY <1>2 DEF d
    <3>3. k.step = World - 1 /\ d.step = 0
      BY <1>1, <1>2, <1>3, <3>1, <3>2, SuccIs
    <3>4. Hop(r, s[3]) = World - 1
      <4> HIDE DEF c, k
      <4> QED BY <1>3, <1>4, <3>3
    <3>5. Hop(r, s[3]) = 0 + 1
      BY <3>1, <3>3
    <3> QED BY <1>3, <3>4, <3>5
  <2>3. World = 2 => Before(r) = After(r)
    BY Neighbours DEF Before, Ranks
  <2> QED BY <1>1, <2>1, <2>2, <2>3 DEF Early
<1> QED BY <1>5, <1>6, <1>7 DEF WorkOk

\* The data of a put is placed, before or with its notification.
LEMMA PlacedData ==
    ASSUME ControlInv, WorkInv, ScratchInv, EnteredInv, NEW r \in Ranks, NEW ch \in Channels,
           Delivers(r, ch), Placed(r, Wqe(r, ch, Cur(r, ch))), Kept, coll' = coll,
           coll[r] # 0,
           \A q \in Ranks : \A e \in Channels :
               Heard(q, e)' => \/ Heard(q, e)
                               \/ /\ q = After(r) /\ e = ch
                                  /\ Fin(r, ch) = Fin(After(r), ch) /\ Inside(After(r), ch)
    PROVE  WorkInv' /\ ScratchInv' /\ EnteredInv'
<1> DEFINE c == Cur(r, ch)
           n == After(r)
           o == SendOwner(r, c.phase, c.step)
           slot == <<ch, c.off, o>>
           k == kernel[r][ch]
<1>1. LocalInv /\ RingTypes /\ CountInv /\ n \in Ranks /\ n # r /\ Before(n) = r
  BY Neighbours DEF ControlInv, LocalInv
<1>2. /\ Inside(r, ch) /\ arrived[n][ch] = Fin(r, ch)
      /\ \/ Fin(r, ch) = Fin(n, ch)
         \/ Fin(r, ch) = Fin(n, ch) + 1 /\ Inside(n, ch)
      /\ Fin(r, ch) \in Nat /\ Fin(n, ch) \in Nat
  BY <1>1, Around DEF Delivers
<1>3. /\ c = StepOf(coll[r], k) /\ ~ Dead(r, ch) /\ Busy(ch) /\ IsStep(ch, k) /\ k \in ChannelType
      /\ coll[r] \in Nat
  BY <1>1, <1>2, InsideIs, Values
<1>4. c.coll = coll[r] /\ c.phase = k.phase /\ c.phase \in {"rs", "ag"} /\ c.step = k.step /\ c.off = k.off
  BY <1>3 DEF StepOf, ChannelType
<1>5. /\ Receives(n, c, slot) /\ o \in Ranks
      /\ \A s \in Slots : s[1] = ch /\ Receives(n, c, s) => s = slot
  BY <1>1, <1>2, SentPiece
\* What the next rank knows of the step of the put.
<1>6. ~ Dead(n, ch) => CurOk(r, n, ch)
  BY <1>3 DEF ControlInv, CurInv
<1>7. Inside(n, ch) => ~ Dead(n, ch) /\ Cur(n, ch) = StepOf(coll[n], kernel[n][ch])
                       /\ IsStep(ch, kernel[n][ch]) /\ kernel[n][ch] \in ChannelType
  BY <1>1, InsideIs, Values
<1>8. Fin(r, ch) = Fin(n, ch) /\ ~ Dead(n, ch) => Cur(n, ch) = c
  BY <1>6 DEF CurOk
<1>9. Fin(r, ch) = Fin(n, ch) + 1 => Inside(n, ch) /\ c = Succ(ch, Cur(n, ch))
  BY <1>2, <1>6, <1>7 DEF CurOk
<1>10. work[r] = [s \in Slots |-> work[r][s]] /\ IsBuffer(work) /\ IsBuffer(scratch)
  BY <1>1 DEF RingTypes, IsBuffer
<1> DEFINE w == Wqe(r, ch, c)
<1>11. w.slot = slot
       /\ w.into = IF slot \notin Slots THEN "signal" ELSE IF c.phase = "rs" THEN "scratch" ELSE "work"
  BY DEF Wqe
<1>12. Placed(r, w)
  OBVIOUS
<1> HIDE DEF w, c
\* The effect on the buffers.
<1>13. /\ \A q \in Ranks : \A s \in Slots :
             ~ (q = n /\ s = slot /\ c.phase = "ag") => work'[q][s] = work[q][s]
       /\ \A q \in Ranks : \A s \in Slots :
             ~ (q = n /\ s = slot /\ c.phase = "rs") => scratch'[q][s] = scratch[q][s]
       /\ slot \in Slots /\ c.phase = "ag" => work'[n][slot] = work[r][slot]
       /\ slot \in Slots /\ c.phase = "rs" => scratch'[n][slot] = work[r][slot]
  <2>1. CASE slot \notin Slots
    <3>1. UNCHANGED dataVars
      BY <1>11, <1>12, <2>1 DEF Placed
    <3> QED BY <2>1, <3>1 DEF dataVars
  <2>2. CASE slot \in Slots /\ c.phase = "rs"
    <3>1. scratch' = [scratch EXCEPT ![n][slot] = work[r][slot]] /\ work' = work
      BY <1>11, <1>12, <2>2 DEF Placed
    <3> HIDE DEF slot, n
    <3> QED BY <1>1, <1>10, <2>2, <3>1 DEF IsBuffer
  <2>3. CASE slot \in Slots /\ c.phase = "ag"
    <3>1. work' = [work EXCEPT ![n][slot] = work[r][slot]] /\ scratch' = scratch
      BY <1>11, <1>12, <2>3 DEF Placed
    <3> HIDE DEF slot, n
    <3> QED BY <1>1, <1>10, <2>3, <3>1 DEF IsBuffer
  <2> QED BY <1>4, <2>1, <2>2, <2>3
<1>14. slot[1] = ch /\ slot[2] = c.off /\ slot[3] = o
  OBVIOUS
\* The complete sum may be there now.
<1>15. ASSUME slot \in Slots, c.phase = "ag", ~ Dead(n, ch)
       PROVE  work[r][slot] = Parts(coll[n], Ranks) /\ Early(n, slot)
  <2>1. work[r][slot] = Parts(coll[r], Ranks)
    <3> HIDE DEF slot
    <3> QED BY <1>2, <1>14, <1>15, GatherPut DEF c
  <2>2. CASE Fin(r, ch) = Fin(n, ch)
    <3>1. Cur(n, ch) = c
      BY <1>8, <1>15, <2>2
    <3>2. Inside(n, ch)
      BY <1>15, <3>1 DEF Cur, StepOf, FirstStep
    <3>3. coll[n] = coll[r]
      BY <1>4, <1>7, <3>1, <3>2 DEF StepOf
    <3>4. Early(n, slot)
      <4> HIDE DEF slot
      <4> QED BY <1>5, <1>14, <1>15, <3>1, <3>2 DEF Early, Gathers
    <3> QED BY <2>1, <3>3, <3>4
  <2>3. CASE Fin(r, ch) = Fin(n, ch) + 1
    <3>1. Inside(n, ch) /\ c = Succ(ch, StepOf(coll[n], kernel[n][ch]))
      BY <1>7, <1>9, <2>3
    <3>2. c.coll = coll[n]
      BY <1>7, <1>15, <3>1, SuccIs
    <3>3. coll[n] = coll[r]
      BY <1>4, <3>2
    <3>4. Early(n, slot)
      <4> HIDE DEF slot
      <4> QED BY <1>1, <1>5, <1>9, <1>14, <1>15, <2>3, <3>1 DEF Early, Gathers
    <3> QED BY <2>1, <3>3, <3>4
  <2> QED BY <1>2, <2>2, <2>3
<1>16. WorkInv'
  <2> SUFFICES ASSUME NEW q \in Ranks, NEW s \in Slots, coll'[q] # 0, ~ Dead(q, s[1])'
               PROVE  WorkOk(q, s)'
    BY DEF WorkInv, Slots
  <2>1. /\ s[1] \in Channels /\ Busy(s[1]) /\ Keeps(q, s[1]) /\ Keeps(Before(q), s[1])
    BY SlotIs, Neighbours DEF Kept
  <2>2. ~ Dead(q, s[1]) /\ Cur(q, s[1])' = Cur(q, s[1])
    BY <2>1 DEF Keeps
  <2>3. WorkOk(q, s)
    BY <2>2 DEF WorkInv
  <2>4. Early(q, s) => Early(q, s)'
    BY <2>1, <2>2 DEF Early, Keeps, Before, Gathers, Receives, Succ, Hop
  <2>5. CASE q = n /\ s = slot /\ c.phase = "ag"
    <3>1. work'[q][s] = Parts(coll[q], Ranks) /\ Early(q, s)
      <4>1. ~ Dead(n, ch)
        BY <1>14, <2>2, <2>5
      <4> QED BY <1>13, <1>15, <2>5, <4>1
    <3> QED BY <2>4, <3>1 DEF WorkOk, Parts
  <2>6. CASE ~ (q = n /\ s = slot /\ c.phase = "ag")
    <3>1. work'[q][s] = work[q][s]
      BY <1>13, <2>6
    <3>2. Heard(q, s[1])' /\ Gathers(q, Cur(q, s[1]), s) => Heard(q, s[1])
      <4> SUFFICES ASSUME Heard(q, s[1])', Gathers(q, Cur(q, s[1]), s), ~ Heard(q, s[1])
                   PROVE  FALSE
        OBVIOUS
      <4>1. q = n /\ s[1] = ch /\ Fin(r, ch) = Fin(n, ch) /\ Inside(n, ch)
        BY <2>1
      <4>2. Cur(n, ch) = c
        BY <1>7, <1>8, <4>1
      <4>3. c.phase = "ag" /\ Receives(n, c, s)
        BY <4>1, <4>2 DEF Gathers
      <4> QED BY <1>5, <2>6, <4>1, <4>3
    <3> QED BY <2>2, <2>3, <2>4, <3>1, <3>2 DEF WorkOk, Held, Gathers, Receives, Arc, Hop, Lag, Parts
  <2> QED BY <2>5, <2>6
<1>17. ScratchInv'
  <2> SUFFICES ASSUME NEW q \in Ranks, NEW s \in Slots, Heard(q, s[1])', Cur(q, s[1])'.phase = "rs",
                      Receives(q, Cur(q, s[1])', s)
               PROVE  scratch'[q][s] = Parts(coll'[q], Arc(Before(q), Cur(q, s[1])'.step))
    BY DEF ScratchInv, Slots, Receives, Hop, Parts, Arc, Before, Lag
  <2>1. s[1] \in Channels /\ Keeps(q, s[1])
    BY SlotIs DEF Kept
  <2>2. Inside(q, s[1]) /\ Cur(q, s[1])' = Cur(q, s[1])
    BY <2>1 DEF Heard, Keeps
  <2>3. CASE Heard(q, s[1])
    <3>1. scratch[q][s] = Parts(coll[q], Arc(Before(q), Cur(q, s[1]).step))
      BY <2>2, <2>3 DEF ScratchInv
    <3>2. ~ (q = n /\ s = slot /\ c.phase = "rs")
      <4> SUFFICES ASSUME q = n, s = slot, c.phase = "rs" PROVE FALSE
        OBVIOUS
      <4>1. Fin(r, ch) = Fin(n, ch) + 1
        BY <1>2, <1>14, <2>3 DEF Heard
      <4> DEFINE m == kernel[n][ch]
      <4>2. Inside(n, ch) /\ c = Succ(ch, StepOf(coll[n], m)) /\ Cur(n, ch) = StepOf(coll[n], m)
            /\ IsStep(ch, m) /\ m \in ChannelType
        BY <1>7, <1>9, <4>1
      <4>3. Cur(n, ch).phase = "rs" /\ Receives(n, Cur(n, ch), s)
        BY <1>14, <2>2
      <4>4. m.phase = "rs" /\ m.step = c.step /\ m.step \in Nat
        <5>1. m.phase = "rs" /\ Hop(n, s[3]) = m.step + 1 /\ m.step \in Nat
          BY <4>2, <4>3 DEF StepOf, Receives, ChannelType
        <5>2. Hop(n, s[3]) = c.step + 1 /\ c.step \in Nat
          BY <1>3, <1>4, <1>5 DEF Receives, ChannelType
        <5> QED BY <5>1, <5>2
      <4> HIDE DEF m
      <4> QED BY <4>2, <4>4, SuccIs
    <3> QED BY <1>13, <2>2, <3>1, <3>2
  <2>4. CASE ~ Heard(q, s[1])
    <3>1. q = n /\ s[1] = ch /\ Fin(r, ch) = Fin(n, ch) /\ Inside(n, ch)
      BY <2>1, <2>4
    <3>2. Cur(n, ch) = c
      BY <1>7, <1>8, <3>1
    <3>3. c.phase = "rs" /\ s = slot
      BY <1>5, <2>2, <3>1, <3>2
    <3>4. work[r][slot] = Parts(coll[r], Arc(r, c.step))
      <4>1. slot \in Slots
        BY <3>3
      <4> HIDE DEF slot
      <4> QED BY <1>2, <1>14, <3>1, <3>3, <4>1, ScatterPut DEF c
    <3>5. coll[n] = coll[r]
      BY <1>4, <1>7, <3>1, <3>2 DEF StepOf
    <3>6. scratch'[q][s] = Parts(coll[n], Arc(r, c.step))
      BY <1>13, <3>1, <3>3, <3>4, <3>5
    <3> QED BY <1>1, <2>2, <3>1, <3>2, <3>6
  <2> QED BY <2>3, <2>4
<1>18. EnteredInv'
  <2> SUFFICES ASSUME NEW q \in Ranks, NEW s \in Slots, NEW x \in DOMAIN work'[q][s] \cup DOMAIN scratch'[q][s]
               PROVE  \E e \in Ranks : \E m \in 1..coll'[e] : x = <<e, m>>
    BY DEF EnteredInv, Slots
  <2>1. x \in DOMAIN work[q][s] \cup DOMAIN scratch[q][s] \cup DOMAIN work[r][s]
    <3> HIDE DEF slot, n
    <3> QED BY <1>4, <1>13
  <2> QED BY <2>1 DEF EnteredInv
<1> QED BY <1>16, <1>17, <1>18
-----------------------------------------------------------------------------
(* The invariant holds *)

\* A channel that has come to the end of its steps leaves the complete sum.
LEMMA SumIsThere ==
    ASSUME ControlInv, WorkInv, NEW r \in Ranks, coll[r] # 0, host[r] # "copied",
           \A ch \in Channels : ~ Inside(r, ch) /\ ~ Dead(r, ch)
    PROVE  work[r] = Everywhere(Parts(coll[r], Ranks))
<1>1. work[r] = [s \in Slots |-> work[r][s]] /\ coll[r] \in Nat
  BY DEF ControlInv, LocalInv, RingTypes, IsBuffer
<1>2. ASSUME NEW s \in Slots PROVE work[r][s] = Parts(coll[r], Ranks)
  <2>1. s[1] \in Channels
    BY SlotIs
  <2>2. WorkOk(r, s) /\ ~ Early(r, s)
    BY <2>1 DEF WorkInv, Early
  <2>3. Cur(r, s[1]).coll = coll[r] + 1
    BY <2>1 DEF Cur, StepOf
  <2>4. Held(r, s[2], s[3], Cur(r, s[1]), coll[r]) = Ranks
    BY <1>1, <2>3 DEF Held
  <2> QED BY <2>2, <2>4 DEF WorkOk
<1> QED BY <1>1, <1>2 DEF Everywhere

LEMMA RingInit == Init => RingInv
<1> SUFFICES ASSUME Init PROVE RingInv
  OBVIOUS
<1>0. World \in Nat /\ World >= 2 /\ Channels \subseteq Lanes
  BY RingAssumption, ChannelsAreLanes
<1>1. RingTypes
  <2>1. IdleChannel \in ChannelType
    BY DEF IdleChannel, Channel, Ended, ChannelType
  <2>2. [r \in Ranks |-> [ch \in Channels |-> IdleChannel]] \in [Ranks -> [Channels -> ChannelType]]
    BY <2>1
  <2>3. [r \in Ranks |-> [l \in Lanes |-> <<>>]] \in [Ranks -> [Lanes -> Seq(Wqes)]]
    OBVIOUS
  <2>4. IsBuffer([r \in Ranks |-> Everywhere(EmptyBag)])
    BY DEF IsBuffer, Everywhere
  <2> QED BY <2>2, <2>3, <2>4 DEF RingTypes, Init
<1>2. ASSUME NEW r \in Ranks, NEW ch \in Channels
      PROVE  /\ kernel[r][ch].at = 0 /\ kernel[r][ch].status = 0 /\ ch \in Lanes
             /\ ~ Inside(r, ch) /\ ~ Begun(r, ch) /\ ~ Sent(r, ch) /\ Fin(r, ch) = 0
             /\ Cur(r, ch) = StepOf(1, FirstStep(0))
  <2>1. kernel[r][ch].at = 0 /\ kernel[r][ch].status = 0
    BY DEF Init, IdleChannel, Channel, Ended
  <2>2. sends[r][ch] = 0 /\ coll[r] = 0 /\ host[r] = "idle" /\ ch \in Lanes
    BY <1>0 DEF Init
  <2> QED BY <2>1, <2>2 DEF Inside, Begun, Sent, Fin, Cur
<1>3. ASSUME NEW r \in Ranks PROVE HostOk(r)
  BY DEF Init, HostOk
<1>4. ASSUME NEW r \in Ranks, NEW ch \in Channels PROVE ChannelOk(r, ch)
  <2>1. recvs[r][ch] = 0
    BY <1>2 DEF Init
  <2> QED BY <1>2, <2>1 DEF ChannelOk
<1>5. ASSUME NEW r \in Ranks, NEW ch \in Channels PROVE LaneOk(r, After(r), ch)
  <2>1. After(r) \in Ranks
    BY Neighbours
  <2>2. /\ sends[r][ch] = 0 /\ arrived[After(r)][ch] = 0 /\ recvs[After(r)][ch] = 0 /\ acked[r][ch] = 0
        /\ Len(sq[r][ch]) = 0 /\ lanes[r]
    BY <1>2, <2>1 DEF Init
  <2> QED BY <1>2, <2>1, <2>2 DEF LaneOk
<1>6. CountInv
  BY <1>5 DEF CountInv, Init
<1>7. CurInv
  <2> SUFFICES ASSUME NEW r \in Ranks, NEW ch \in Channels PROVE CurOk(r, After(r), ch)
    BY DEF CurInv
  <2>1. After(r) \in Ranks
    BY Neighbours
  <2> QED BY <1>2, <2>1 DEF CurOk
<1>8. WqeInv
  BY <1>2 DEF WqeInv, Init
<1>9. WorkInv
  BY DEF WorkInv, Init
<1>10. ScratchInv
  <2>1. ASSUME NEW r \in Ranks, NEW s \in Slots PROVE ~ Heard(r, s[1])
    BY <1>2, SlotIs DEF Heard
  <2> QED BY <2>1 DEF ScratchInv
<1>11. EnteredInv
  <2>1. ASSUME NEW r \in Ranks, NEW s \in Slots PROVE DOMAIN work[r][s] = {} /\ DOMAIN scratch[r][s] = {}
    BY DEF Init, Everywhere, EmptyBag, SetToBag
  <2> QED BY <2>1 DEF EnteredInv
<1>12. TensorInv
  BY DEF TensorInv, Init
<1> QED BY <1>1, <1>3, <1>4, <1>6, <1>7, <1>8, <1>9, <1>10, <1>11, <1>12
        DEF RingInv, ControlInv, LocalInv

DataInv == WorkInv /\ ScratchInv /\ EnteredInv

\* The operations of a channel.
LEMMA ChannelKeeps ==
    ASSUME ControlInv, DataInv, NEW r \in Ranks, NEW ch \in Channels, ChannelStep(r, ch)
    PROVE  ControlInv' /\ DataInv'
<1> USE DEF DataInv
<1>0. LocalInv /\ RingTypes
  BY DEF ControlInv, LocalInv
<1>1. CASE PostRecv(r, ch)
  BY <1>1, PostRecvControl, DataKept DEF PostRecv, hostVars
<1>2. CASE Put(r, ch)
  BY <1>2, PutControl, DataKept DEF Put, hostVars
<1>3. CASE Waited(r, ch) /\ kernel[r][ch].at # LastOp(kernel[r][ch])
  BY <1>3, WaitedControl, DataKept DEF Waited, hostVars
<1>4. CASE WaitFails(r, ch)
  BY <1>4, WaitFailsControl, DataKept DEF WaitFails, hostVars
<1>5. CASE Waited(r, ch) /\ kernel[r][ch].at = LastOp(kernel[r][ch])
  <2>1. /\ Doing(r, ch) = "waitSend" => kernel[r][ch].at = 3
        /\ Doing(r, ch) = "waitRecv" => kernel[r][ch].at = 4
    BY <1>0, DoingIs
  <2>2. \/ Doing(r, ch) = "waitSend" /\ SendDone(r, ch)
        \/ Doing(r, ch) = "waitRecv" /\ RecvDone(r, ch)
    BY <1>5 DEF Waited
  <2>3. kernel[r][ch].at = 4 /\ kernel[r][ch].phase # "rs" /\ RecvDone(r, ch)
    BY <1>5, <2>1, <2>2 DEF LastOp
  <2>4. arrived[r][ch] >= kernel[r][ch].recvTicket
    BY <2>3 DEF RecvDone, Lane
  <2>5. Step(r, ch, kernel[r][ch].sendTicket, kernel[r][ch].recvTicket)
        /\ UNCHANGED <<hostVars, dataVars, laneVars>>
    BY <1>5 DEF Waited
  <2>6. IsBuffer(work')
    BY <1>0, <2>5 DEF RingTypes, IsBuffer, dataVars
  <2>7. ControlInv' /\ Finishes(r, ch)
    BY <1>5, <2>4, <2>5, <2>6, FinishControl DEF dataVars
  <2>8. coll' = coll /\ scratch' = scratch /\ work' = work /\ arrived' = arrived
    BY <2>5 DEF hostVars, dataVars, laneVars
  <2>9. WorkInv' /\ ScratchInv' /\ EnteredInv'
    BY <2>3, <2>7, <2>8, FinishData
  <2> QED BY <2>7, <2>9
<1>6. CASE Reduce(r, ch)
  <2> DEFINE k == kernel[r][ch]
             slot == <<ch, k.off, RecvOwner(r, k.step)>>
  <2>1. k.at = 5 /\ k \in ChannelType
    BY <1>0, <1>6, DoingIs, Values DEF Reduce
  <2>2. Inside(r, ch) /\ IsStep(ch, k) /\ k.phase = "rs" /\ k.at = LastOp(k)
        /\ Cur(r, ch) = StepOf(coll[r], k)
    <3>1. Inside(r, ch)
      BY <2>1 DEF Inside
    <3>2. IsStep(ch, k) /\ Cur(r, ch) = StepOf(coll[r], k)
      BY <1>0, <3>1, InsideIs
    <3> QED BY <2>1, <3>1, <3>2 DEF IsStep, ChannelType, LastOp
  <2>3. Step(r, ch, k.sendTicket, k.recvTicket) /\ UNCHANGED <<hostVars, scratch, laneVars>>
        /\ work' = IF slot \in Slots THEN [work EXCEPT ![r][slot] = @ (+) scratch[r][slot]] ELSE work
    BY <1>6 DEF Reduce
  <2>4. arrived[r][ch] >= k.recvTicket
    <3>1. LaneOk(Before(r), r, ch) /\ ChannelOk(r, ch) /\ recvs[r][ch] \in Nat
      BY <1>0, Around, Values DEF ControlInv
    <3> QED BY <2>1, <3>1 DEF LaneOk, ChannelOk
  <2>5. /\ IsBuffer(work')
        /\ \A q \in Ranks : \A s \in Slots : ~ (q = r /\ s = slot) => work'[q][s] = work[q][s]
        /\ slot \in Slots => work'[r][slot] = work[r][slot] (+) scratch[r][slot]
    <3>1. IsBuffer(work)
      BY <1>0 DEF RingTypes
    <3> DEFINE v == work[r][slot] (+) scratch[r][slot]
    <3>2. work' = IF slot \in Slots THEN [work EXCEPT ![r][slot] = v] ELSE work
      BY <2>3
    <3> HIDE DEF slot, v
    <3>3. /\ IsBuffer(work')
          /\ \A q \in Ranks : \A s \in Slots : ~ (q = r /\ s = slot) => work'[q][s] = work[q][s]
          /\ slot \in Slots => work'[r][slot] = v
      BY <3>1, <3>2 DEF IsBuffer
    <3> QED BY <3>3 DEF v
  <2>6. ControlInv' /\ Finishes(r, ch)
    BY <2>2, <2>3, <2>4, <2>5, FinishControl
  <2>7. ASSUME NEW s \in Slots, s[1] = ch PROVE Receives(r, Cur(r, ch), s) <=> s = slot
    <3>1. k.step \in 0..(World - 1)
      BY <2>2, RingAssumption DEF IsStep
    <3>2. RecvOwner(r, k.step) \in Ranks /\ Hop(r, RecvOwner(r, k.step)) = k.step + 1
      BY <3>1, Owners
    <3>3. Receives(r, Cur(r, ch), s) <=> s[2] = k.off /\ Hop(r, s[3]) = k.step + 1
      BY <2>2 DEF Receives, StepOf
    <3>4. Hop(r, s[3]) = k.step + 1 <=> s[3] = RecvOwner(r, k.step)
      BY <3>2, SlotIs, Hops
    <3> QED BY <2>7, <3>3, <3>4, SlotParts
  <2>8. slot[1] = ch
    OBVIOUS
  <2>9. coll' = coll /\ scratch' = scratch /\ arrived' = arrived
    BY <2>3 DEF hostVars, laneVars
  <2> HIDE DEF slot
  <2>10. WorkInv' /\ ScratchInv' /\ EnteredInv'
    BY <2>2, <2>5, <2>6, <2>7, <2>8, <2>9, FinishData
  <2> QED BY <2>6, <2>10
<1> QED BY <1>1, <1>2, <1>3, <1>4, <1>5, <1>6 DEF ChannelStep

\* A write into a buffer.
LEMMA BufferWrite ==
    ASSUME NEW b, IsBuffer(b), NEW n \in Ranks, NEW x, NEW v
    PROVE  IsBuffer([b EXCEPT ![n][x] = v])
<1> DEFINE B == [b EXCEPT ![n][x] = v]
<1>1. b = [r \in Ranks |-> [s \in Slots |-> b[r][s]]]
  BY DEF IsBuffer
<1>2. B = [r \in Ranks |-> IF r = n THEN [b[n] EXCEPT ![x] = v] ELSE b[r]]
  BY <1>1
<1>3. \A r \in Ranks : b[r] = [s \in Slots |-> b[r][s]]
  BY <1>1
<1>4. [b[n] EXCEPT ![x] = v] = [s \in Slots |-> IF s = x THEN v ELSE b[n][s]]
  BY <1>3
<1> HIDE DEF B
<1>5. \A r \in Ranks : B[r] = [s \in Slots |-> B[r][s]]
  BY <1>2, <1>3, <1>4
<1>6. IsBuffer(B)
  BY <1>2, <1>5 DEF IsBuffer
<1> QED BY <1>6 DEF B

\* The adapters.
LEMMA HardwareKeeps ==
    ASSUME ControlInv, DataInv, NEW r \in Ranks, NEW l \in Lanes, Hardware(r, l)
    PROVE  ControlInv' /\ DataInv'
<1> USE DEF DataInv
<1>0. LocalInv /\ RingTypes
  BY DEF ControlInv, LocalInv
<1>1. CASE HwAck(r, l)
  BY <1>1, HwAckControl, DataKept DEF HwAck, hostVars
<1>2. ASSUME sq[r][l] # <<>>, Placed(r, Head(sq[r][l]))
      PROVE  /\ Delivers(r, l) /\ Placed(r, Wqe(r, l, Cur(r, l))) /\ coll[r] # 0
             /\ IsBuffer(work') /\ IsBuffer(scratch')
  <2>1. Delivers(r, l)
    BY <1>2, OnTheLane
  <2>2. Placed(r, Wqe(r, l, Cur(r, l)))
    BY <1>2, <2>1 DEF Delivers
  <2>3. coll[r] # 0
    BY <1>0, <2>1, CollIs DEF Delivers
  <2>4. IsBuffer(work) /\ IsBuffer(scratch)
    BY <1>0 DEF RingTypes
  <2> DEFINE w == Wqe(r, l, Cur(r, l))
             n == After(r)
             v == work[r][w.slot]
  <2>5. \/ scratch' = [scratch EXCEPT ![n][w.slot] = v] /\ work' = work
        \/ work' = [work EXCEPT ![n][w.slot] = v] /\ scratch' = scratch
        \/ work' = work /\ scratch' = scratch
    BY <2>2 DEF Placed, dataVars
  <2>a. n \in Ranks
    BY Neighbours
  <2> HIDE DEF w, n, v
  <2>6. IsBuffer(work') /\ IsBuffer(scratch')
    <3>1. ASSUME NEW x \in {work', scratch'} PROVE IsBuffer(x)
      <4>1. x \in {work, scratch, [work EXCEPT ![n][w.slot] = v], [scratch EXCEPT ![n][w.slot] = v]}
        BY <2>5
      <4>2. IsBuffer([work EXCEPT ![n][w.slot] = v]) /\ IsBuffer([scratch EXCEPT ![n][w.slot] = v])
        BY <2>4, <2>a, BufferWrite
      <4> QED BY <2>4, <4>1, <4>2
    <3>2. IsBuffer(work') /\ IsBuffer(scratch')
      BY <3>1
    <3> QED BY <3>2
  <2> QED BY <2>1, <2>2, <2>3, <2>6
<1>3. CASE HwWrite(r, l)
  <2>1. sq[r][l] # <<>> /\ Placed(r, Head(sq[r][l])) /\ UNCHANGED <<hostVars, kernel, laneVars>>
    BY <1>3 DEF HwWrite, Connected
  <2>2. /\ Delivers(r, l) /\ Placed(r, Wqe(r, l, Cur(r, l))) /\ coll[r] # 0 /\ l \in Channels
        /\ IsBuffer(work') /\ IsBuffer(scratch')
    BY <1>2, <2>1 DEF Delivers
  <2>3. ControlInv' /\ Kept /\ Unheard
    BY <2>1, <2>2, StillControl
  <2>4. WorkInv' /\ ScratchInv' /\ EnteredInv'
    BY <2>1, <2>2, <2>3, PlacedData DEF Unheard, hostVars
  <2> QED BY <2>3, <2>4
<1>4. CASE HwDeliver(r, l)
  <2>1. sq[r][l] # <<>> /\ Placed(r, Head(sq[r][l])) /\ UNCHANGED <<hostVars, kernel>>
    BY <1>4 DEF HwDeliver, Connected
  <2>2. /\ Delivers(r, l) /\ Placed(r, Wqe(r, l, Cur(r, l))) /\ coll[r] # 0 /\ l \in Channels
        /\ IsBuffer(work') /\ IsBuffer(scratch')
    BY <1>2, <2>1 DEF Delivers
  <2>3. /\ ControlInv' /\ Kept /\ Fin(After(r), l) = Fin(r, l) /\ Inside(After(r), l)
        /\ \A q \in Ranks : \A c \in Channels :
              Heard(q, c)' => Heard(q, c) \/ (q = After(r) /\ c = l)
    BY <1>4, <2>2, HwDeliverControl
  <2>4. WorkInv' /\ ScratchInv' /\ EnteredInv'
    BY <2>1, <2>2, <2>3, PlacedData DEF hostVars
  <2> QED BY <2>3, <2>4
<1> QED BY <1>1, <1>3, <1>4 DEF Hardware

\* The host.
LEMMA HostKeeps ==
    ASSUME ControlInv, DataInv, NEW r \in Ranks, HostStep(r) \/ Abort(r)
    PROVE  ControlInv' /\ DataInv'
<1> USE DEF DataInv
<1>1. CASE Enter(r)
  BY <1>1, EnterControl, EnterData
<1>2. CASE Launch(r)
  BY <1>2, LaunchControl, DataKept DEF Launch
<1>3. CASE Return(r) \/ Raise(r)
  <2>1. UNCHANGED <<coll, dataVars>>
    BY <1>3 DEF Return, Raise
  <2> QED BY <1>3, <2>1, EndControl, DataKept
<1>4. CASE Abort(r)
  BY <1>4, AbortControl, DataKept DEF Abort
<1> QED BY <1>1, <1>2, <1>3, <1>4 DEF HostStep

\* The result.
LEMMA TensorKept ==
    ASSUME RingInv, Next
    PROVE  TensorInv'
<1>0. ControlInv /\ LocalInv /\ RingTypes /\ TensorInv /\ WorkInv
  BY DEF RingInv, ControlInv, LocalInv
<1>1. CASE UNCHANGED <<coll, outcome, tensor>>
  BY <1>0, <1>1 DEF TensorInv
<1>2. ASSUME NEW r \in Ranks, Enter(r) PROVE TensorInv'
  BY <1>0, <1>2 DEF Enter, TensorInv, RingTypes, IsBuffer
<1>3. ASSUME NEW r \in Ranks, Raise(r) PROVE TensorInv'
  <2>1. /\ outcome' = [outcome EXCEPT ![r] = "raised"] /\ coll' = coll
        /\ tensor' = tensor \/ tensor' = [tensor EXCEPT ![r] = work[r]]
    BY <1>3 DEF Raise
  <2> QED BY <1>0, <2>1 DEF TensorInv, RingTypes, IsBuffer
<1>4. ASSUME NEW r \in Ranks, Return(r) PROVE TensorInv'
  <2>1. /\ outcome' = [outcome EXCEPT ![r] = "ok"] /\ coll' = coll
        /\ tensor' = [tensor EXCEPT ![r] = work[r]] /\ KernelEnded(r) /\ StatusesOk(r)
    BY <1>4 DEF Return
  <2>2. work[r] = Everywhere(Parts(coll[r], Ranks))
    <3>1. coll[r] # 0 /\ host[r] = "kernel"
      BY <1>0, <2>1 DEF LocalInv, HostOk, KernelEnded
    <3>2. \A ch \in Channels : ~ Inside(r, ch) /\ ~ Dead(r, ch)
      BY <1>0, <2>1, AfterKernel
    <3> QED BY <1>0, <3>1, <3>2, SumIsThere
  <2> QED BY <1>0, <2>1, <2>2 DEF TensorInv, RingTypes, IsBuffer
<1>5. ASSUME NEW r \in Ranks, HostStep(r) \/ Abort(r) PROVE TensorInv'
  <2>1. CASE Launch(r) \/ Abort(r)
    BY <1>1, <2>1 DEF Launch, Abort
  <2> QED BY <1>2, <1>3, <1>4, <1>5, <2>1 DEF HostStep
<1>6. ASSUME NEW r \in Ranks, NEW ch \in Channels, ChannelStep(r, ch) PROVE TensorInv'
  BY <1>1, <1>6 DEF ChannelStep, PostRecv, Put, Waited, WaitFails, Reduce, hostVars
<1>7. ASSUME NEW r \in Ranks, NEW l \in Lanes, Hardware(r, l) PROVE TensorInv'
  BY <1>1, <1>7 DEF Hardware, HwWrite, HwDeliver, HwAck, hostVars
<1>8. CASE Finished
  BY <1>1, <1>8 DEF Finished, vars, hostVars
<1> QED BY <1>5, <1>6, <1>7, <1>8 DEF Next

LEMMA RingStep == RingInv /\ [Next]_vars => RingInv'
<1> SUFFICES ASSUME RingInv, [Next]_vars PROVE RingInv'
  OBVIOUS
<1>0. ControlInv /\ DataInv /\ TensorInv /\ RingTypes
  BY DEF RingInv, ControlInv, LocalInv, DataInv
<1>1. CASE UNCHANGED vars
  <2>1. UNCHANGED <<hostVars, kernel, laneVars, dataVars>> /\ UNCHANGED <<coll, dataVars>>
    BY <1>1 DEF vars, hostVars
  <2>2. IsBuffer(work') /\ IsBuffer(scratch')
    BY <1>0, <2>1 DEF RingTypes, IsBuffer, dataVars
  <2>3. ControlInv' /\ Kept /\ Unheard
    BY <1>0, <2>1, <2>2, StillControl
  <2>4. DataInv'
    BY <1>0, <2>1, <2>3, DataKept DEF DataInv
  <2>5. TensorInv'
    BY <1>0, <1>1 DEF TensorInv, vars, hostVars
  <2> QED BY <2>3, <2>4, <2>5 DEF RingInv, DataInv
<1>2. CASE Next
  <2>1. TensorInv'
    BY <1>2, TensorKept
  <2>2. CASE Finished
    BY <1>1, <2>2 DEF Finished
  <2>3. CASE \E r \in Ranks : HostStep(r) \/ Abort(r)
    BY <1>0, <2>1, <2>3, HostKeeps DEF RingInv, DataInv
  <2>4. CASE \E r \in Ranks, ch \in Channels : ChannelStep(r, ch)
    BY <1>0, <2>1, <2>4, ChannelKeeps DEF RingInv, DataInv
  <2>5. CASE \E r \in Ranks, l \in Lanes : Hardware(r, l)
    BY <1>0, <2>1, <2>5, HardwareKeeps DEF RingInv, DataInv
  <2> QED BY <1>2, <2>2, <2>3, <2>4, <2>5 DEF Next
<1> QED BY <1>1, <1>2

\* The schedule of the kernel keeps the buffers as the algorithm needs them:
\* neighbours are never more than a step apart, and every piece holds the
\* inputs of the ranks it has passed, each once, also across strides and
\* collectives, and after a rank has timed out or has destroyed its QPs.
THEOREM RingInvHolds == Spec => []RingInv
BY RingInit, RingStep, PTL DEF Spec

\* A result that lives in the work buffer stays there until the next call of
\* its rank, whatever the other ranks write.
THEOREM ResultStableHolds == Spec => []ResultStable
<1>1. RingInv => ResultStable
  <2> SUFFICES ASSUME RingInv, NEW r \in Ranks, host[r] = "idle", outcome[r] = "ok"
               PROVE  work[r] = tensor[r]
    BY DEF ResultStable
  <2>1. LocalInv /\ ControlInv /\ WorkInv /\ TensorInv /\ RingTypes
    BY DEF RingInv, ControlInv, LocalInv
  <2>2. coll[r] # 0
    BY <2>1 DEF LocalInv, HostOk
  <2>3. ASSUME NEW ch \in Channels PROVE ~ Inside(r, ch) /\ ~ Dead(r, ch)
    <3>1. ChannelOk(r, ch)
      BY <2>1 DEF LocalInv
    <3> QED BY <3>1 DEF ChannelOk, Inside, Dead
  <2>4. work[r] = Everywhere(Parts(coll[r], Ranks))
    BY <2>1, <2>2, <2>3, SumIsThere
  <2> QED BY <2>1, <2>4 DEF TensorInv
<1> QED BY <1>1, RingInvHolds, PTL

-----------------------------------------------------------------------------
(* The refinement *)

\* A tensor with the complete sum is read as all inputs of the collective.
LEMMA InputsOfSum ==
    ASSUME NEW c
    PROVE  Inputs(Everywhere(Parts(c, Ranks))) = Ranks \X {c}
<1> DEFINE t == Everywhere(Parts(c, Ranks))
           some == CHOOSE s \in Slots : TRUE
<1>1. some \in Slots
  BY SomeSlot
<1> HIDE DEF some
<1>2. t[some] = Parts(c, Ranks)
  BY <1>1 DEF Everywhere
<1>3. DOMAIN t[some] = Ranks \X {c} /\ SetToBag(DOMAIN t[some]) = Parts(c, Ranks)
  BY <1>2, PartsDomain
<1> QED BY <1>3 DEF Inputs, some

\* Whoever has the complete sum of a collective knows that all have entered it.
LEMMA AllEntered ==
    ASSUME ControlInv, EnteredInv, NEW r \in Ranks, work[r] = Everywhere(Parts(coll[r], Ranks))
    PROVE  \A k \in Ranks : coll[k] >= coll[r]
<1> SUFFICES ASSUME NEW k \in Ranks PROVE coll[k] >= coll[r]
  OBVIOUS
<1>1. PICK s \in Slots : TRUE
  BY SomeSlot
<1>2. work[r][s] = Parts(coll[r], Ranks)
  BY <1>1 DEF Everywhere
<1>3. <<k, coll[r]>> \in DOMAIN work[r][s]
  BY <1>2, PartsDomain
<1>4. PICK q \in Ranks : \E c \in 1..coll[q] : <<k, coll[r]>> = <<q, c>>
  BY <1>1, <1>3 DEF EnteredInv
<1>5. coll[r] \in 1..coll[k]
  BY <1>4
<1> QED BY <1>5 DEF ControlInv, LocalInv, RingTypes

InsideOf == [r \in Ranks |-> host[r] # "idle"]
SummedOf == [r \in Ranks |-> IF outcome[r] = "ok" THEN Inputs(tensor[r]) ELSE {}]

\* Every step is a step of the promise, or none.
LEMMA PromiseStep ==
    ASSUME RingInv, [Next]_vars
    PROVE  [Promise!Next]_(Promise!absVars)
<1>0. ControlInv /\ LocalInv /\ RingTypes /\ TensorInv /\ WorkInv /\ EnteredInv
  BY DEF RingInv, ControlInv, LocalInv
<1>a. /\ host \in [Ranks -> {"idle", "copied", "kernel"}] /\ failed \in [Ranks -> BOOLEAN]
      /\ outcome \in [Ranks -> {"none", "ok", "raised"}] /\ coll \in [Ranks -> Nat]
      /\ tensor = [q \in Ranks |-> tensor[q]]
  BY <1>0 DEF RingTypes, IsBuffer
<1>1. ASSUME UNCHANGED <<coll, outcome, failed, tensor>>,
             \A r \in Ranks : host'[r] # "idle" <=> host[r] # "idle"
      PROVE  UNCHANGED Promise!absVars
  <2>1. InsideOf' = InsideOf
    BY <1>1 DEF InsideOf
  <2>2. SummedOf' = SummedOf
    BY <1>1 DEF SummedOf, Inputs, Everywhere, Slots
  <2> QED BY <1>1, <2>1, <2>2 DEF Promise!absVars, InsideOf, SummedOf
<1>2. CASE UNCHANGED hostVars
  BY <1>1, <1>2 DEF hostVars
<1>3. ASSUME NEW r \in Ranks, Enter(r) PROVE Promise!Enter(r)
  <2>1. /\ host[r] = "idle" /\ ~ failed[r] /\ coll[r] < MaxColl
        /\ coll' = [coll EXCEPT ![r] = @ + 1] /\ host' = [host EXCEPT ![r] = "copied"]
        /\ outcome' = [outcome EXCEPT ![r] = "none"] /\ UNCHANGED failed
        /\ tensor' = [tensor EXCEPT ![r] = Everywhere(Input(r, coll[r] + 1))]
    BY <1>3 DEF Enter
  <2>2. ~ InsideOf[r]
    BY <2>1 DEF InsideOf
  <2>3. InsideOf' = [InsideOf EXCEPT ![r] = TRUE]
    BY <1>a, <2>1 DEF InsideOf
  <2>4. SummedOf' = [SummedOf EXCEPT ![r] = {}]
    <3>1. \A q \in Ranks : q # r => outcome'[q] = outcome[q] /\ tensor'[q] = tensor[q]
      BY <1>a, <2>1
    <3>2. outcome'[r] = "none"
      BY <1>a, <2>1
    <3>3. \A q \in Ranks : SummedOf'[q] = IF q = r THEN {} ELSE SummedOf[q]
      BY <3>1, <3>2 DEF SummedOf, Inputs, Everywhere, Slots
    <3> QED BY <3>3 DEF SummedOf
  <2> QED BY <2>1, <2>2, <2>3, <2>4 DEF Promise!Enter, InsideOf, SummedOf
<1>4. ASSUME NEW r \in Ranks, Return(r) PROVE Promise!Return(r)
  <2>1. /\ KernelEnded(r) /\ StatusesOk(r) /\ host' = [host EXCEPT ![r] = "idle"]
        /\ outcome' = [outcome EXCEPT ![r] = "ok"] /\ UNCHANGED <<coll, failed>>
        /\ tensor' = [tensor EXCEPT ![r] = work[r]]
    BY <1>4 DEF Return
  <2>2. host[r] = "kernel" /\ coll[r] # 0
    BY <1>0, <2>1 DEF KernelEnded, LocalInv, HostOk
  <2>3. work[r] = Everywhere(Parts(coll[r], Ranks))
    <3>1. \A ch \in Channels : ~ Inside(r, ch) /\ ~ Dead(r, ch)
      BY <1>0, <2>1, AfterKernel
    <3> QED BY <1>0, <2>2, <3>1, SumIsThere
  <2>4. \A k \in Ranks : coll[k] >= coll[r]
    BY <1>0, <2>3, AllEntered
  <2>5. InsideOf' = [InsideOf EXCEPT ![r] = FALSE] /\ InsideOf[r]
    BY <1>a, <2>1, <2>2 DEF InsideOf
  <2>6. SummedOf' = [SummedOf EXCEPT ![r] = Ranks \X {coll[r]}]
    <3>1. \A q \in Ranks : q # r => outcome'[q] = outcome[q] /\ tensor'[q] = tensor[q]
      BY <1>a, <2>1
    <3>2. outcome'[r] = "ok" /\ tensor'[r] = Everywhere(Parts(coll[r], Ranks))
      BY <1>a, <2>1, <2>3
    <3>3. Inputs(tensor'[r]) = Ranks \X {coll[r]}
      BY <3>2, InputsOfSum
    <3>4. SummedOf'[r] = Inputs(tensor'[r])
      BY <3>2 DEF SummedOf, Inputs, Everywhere, Slots
    <3>5. \A q \in Ranks : q # r => SummedOf'[q] = SummedOf[q]
      BY <3>1 DEF SummedOf, Inputs, Everywhere, Slots
    <3> QED BY <3>3, <3>4, <3>5 DEF SummedOf
  <2> QED BY <2>1, <2>4, <2>5, <2>6 DEF Promise!Return, InsideOf, SummedOf
<1>5. ASSUME NEW r \in Ranks, Raise(r) PROVE Promise!Raise(r)
  <2>1. /\ host[r] # "idle" /\ host' = [host EXCEPT ![r] = "idle"]
        /\ outcome' = [outcome EXCEPT ![r] = "raised"] /\ failed' = [failed EXCEPT ![r] = TRUE]
        /\ UNCHANGED coll
        /\ tensor' = tensor \/ tensor' = [tensor EXCEPT ![r] = work[r]]
    BY <1>5 DEF Raise, KernelEnded
  <2>2. outcome[r] = "none"
    BY <1>0, <2>1 DEF LocalInv, HostOk
  <2>3. InsideOf' = [InsideOf EXCEPT ![r] = FALSE] /\ InsideOf[r]
    BY <1>a, <2>1 DEF InsideOf
  <2>4. SummedOf' = SummedOf
    <3>1. \A q \in Ranks : q # r => outcome'[q] = outcome[q] /\ tensor'[q] = tensor[q]
      BY <1>a, <2>1
    <3>2. outcome'[r] = "raised"
      BY <1>a, <2>1
    <3>3. \A q \in Ranks : SummedOf'[q] = SummedOf[q]
      BY <2>2, <3>1, <3>2 DEF SummedOf, Inputs, Everywhere, Slots
    <3> QED BY <3>3 DEF SummedOf
  <2> QED BY <2>1, <2>3, <2>4 DEF Promise!Raise, InsideOf, SummedOf
<1>6. ASSUME NEW r \in Ranks, Abort(r) PROVE Promise!Revoke(r)
  <2>1. /\ host[r] = "idle" /\ failed' = [failed EXCEPT ![r] = TRUE]
        /\ UNCHANGED <<coll, host, outcome, tensor>>
    BY <1>6 DEF Abort
  <2>2. InsideOf' = InsideOf /\ ~ InsideOf[r]
    BY <2>1 DEF InsideOf
  <2>3. SummedOf' = SummedOf
    BY <2>1 DEF SummedOf, Inputs, Everywhere, Slots
  <2> QED BY <2>1, <2>2, <2>3 DEF Promise!Revoke, InsideOf, SummedOf
<1>7. ASSUME NEW r \in Ranks, Launch(r) PROVE UNCHANGED Promise!absVars
  BY <1>a, <1>1, <1>7 DEF Launch
<1>8. CASE UNCHANGED vars
  BY <1>2, <1>8 DEF vars
<1>9. CASE Next
  <2>1. CASE \E r \in Ranks : HostStep(r) \/ Abort(r)
    BY <1>3, <1>4, <1>5, <1>6, <1>7, <2>1 DEF HostStep, Promise!Next
  <2>2. CASE \E r \in Ranks, ch \in Channels : ChannelStep(r, ch)
    BY <1>2, <2>2 DEF ChannelStep, PostRecv, Put, Waited, WaitFails, Reduce
  <2>3. CASE \E r \in Ranks, l \in Lanes : Hardware(r, l)
    BY <1>2, <2>3 DEF Hardware, HwWrite, HwDeliver, HwAck
  <2>4. CASE Finished
    BY <1>8, <2>4 DEF Finished
  <2> QED BY <1>9, <2>1, <2>2, <2>3, <2>4 DEF Next
<1> QED BY <1>8, <1>9

\* The ring implements the all-reduce: a call returns only the sum of what
\* every rank has put into this collective, each input once, and only after
\* all have entered it; a call that raises fails the group on its rank.
THEOREM RingImplementsAllReduce == Spec => ImplementsAllReduce
<1>1. Init => Promise!Init
  <2> SUFFICES ASSUME Init PROVE Promise!Init
    OBVIOUS
  <2>1. InsideOf = [r \in Ranks |-> FALSE] /\ SummedOf = [r \in Ranks |-> {}]
    BY DEF Init, InsideOf, SummedOf
  <2> QED BY <2>1 DEF Init, Promise!Init, InsideOf, SummedOf
<1>2. RingInv /\ [Next]_vars => [Promise!Next]_(Promise!absVars)
  BY PromiseStep
<1> QED BY <1>1, <1>2, RingInvHolds, PTL DEF Spec, ImplementsAllReduce, Promise!Spec

-----------------------------------------------------------------------------
(* Every element lies in one piece *)

\* The piece of channel ch, stride off and owner o, as Pieces lists it.
PieceAt(l, world, ch, off, o) ==
    [channel |-> ch, off |-> off, owner |-> o,
     start |-> Piece(l, ch, off, world, o).start, len |-> Piece(l, ch, off, world, o).len]

\* What Pieces lists.
LEMMA PiecesAre ==
    ASSUME NEW l, NEW world
    PROVE  /\ \A p \in Pieces(l, world) : \E ch \in 0..(l.active - 1) :
                \E off \in Offsets(l, ch, world), o \in 0..(world - 1) : p = PieceAt(l, world, ch, off, o)
           /\ \A ch \in 0..(l.active - 1) : \A off \in Offsets(l, ch, world), o \in 0..(world - 1) :
                PieceAt(l, world, ch, off, o) \in Pieces(l, world)
BY DEF Pieces, PieceAt

\* The elements of a piece lie in its channel, its stride and its chunk.
LEMMA InPiece ==
    ASSUME NEW l, NEW world, Sound(l, world), NEW ch \in 0..(l.active - 1),
           NEW off \in Offsets(l, ch, world), NEW o \in 0..(world - 1), NEW e
    PROVE  LET n == ChannelCount(l, ch)
               c == Chunk(l, n - off, world)
               x == e - ch * l.perChannel
           IN  /\ off \in Nat /\ n \in Int /\ n - off \in Nat \ {0} /\ c \in Nat \ {0} /\ o * c \in Nat
               /\ e \in Elements(PieceAt(l, world, ch, off, o)) <=>
                    e \in Int /\ o * c <= x - off /\ x - off < o * c + c /\ x < n
<1> DEFINE n == ChannelCount(l, ch)
           rem == n - off
           c == Chunk(l, rem, world)
           s == ch * l.perChannel
           y == o * c
<1>1. s \in Nat
  BY ChannelIs
<1>2. n \in Int /\ off \in Nat /\ rem \in Nat \ {0}
  BY PieceIs
<1>3. c \in Nat \ {0}
  BY PieceIs
<1>4. y \in Nat
  BY PieceIs
<1>5. /\ PieceAt(l, world, ch, off, o).start = s + off + y
      /\ PieceAt(l, world, ch, off, o).len = Smaller(c, Larger(0, rem - y))
  BY PieceIs DEF PieceAt
<1> HIDE DEF n, s, c, y
<1>6. e \in Elements(PieceAt(l, world, ch, off, o)) <=>
        e \in Int /\ y <= (e - s) - off /\ (e - s) - off < y + c /\ (e - s) < n
  <2> DEFINE len == Smaller(c, Larger(0, rem - y))
             st == s + off + y
  <2>1. st \in Nat /\ len \in Nat
    BY <1>1, <1>2, <1>3, <1>4 DEF Smaller, Larger
  <2>2. e \in Elements(PieceAt(l, world, ch, off, o)) <=> e \in st..(st + len - 1)
    BY <1>5 DEF Elements
  <2>3. e \in st..(st + len - 1) <=> e \in Int /\ st <= e /\ e <= st + len - 1
    BY <2>1
  <2>4. ASSUME NEW i \in Int
        PROVE  (st <= i /\ i <= st + len - 1)
                 <=> (y <= (i - s) - off /\ (i - s) - off < y + c /\ (i - s) < n)
    BY <1>1, <1>2, <1>3, <1>4 DEF Smaller, Larger
  <2> HIDE DEF st, len
  <2> QED BY <2>2, <2>3, <2>4
<1> QED BY <1>1, <1>2, <1>3, <1>4, <1>6 DEF n, c, s, y

\* An element of a piece belongs to the tensor, and tells which piece it is.
LEMMA PieceOf ==
    ASSUME NEW l, NEW world, Sound(l, world), NEW ch \in 0..(l.active - 1),
           NEW off \in Offsets(l, ch, world), NEW o \in 0..(world - 1),
           NEW e \in Elements(PieceAt(l, world, ch, off, o))
    PROVE  /\ e \in 0..(l.count - 1)
           /\ ch * l.perChannel <= e /\ e < ch * l.perChannel + l.perChannel
           /\ off <= e - ch * l.perChannel /\ e - ch * l.perChannel < off + world * l.base
<1> DEFINE n == ChannelCount(l, ch)
           rem == n - off
           c == Chunk(l, rem, world)
           s == ch * l.perChannel
           y == o * c
           w == world * l.base
<1>1. /\ off \in Nat /\ n \in Int /\ rem \in Nat \ {0} /\ c \in Nat \ {0} /\ y \in Nat
      /\ e \in Int /\ y <= (e - s) - off /\ (e - s) - off < y + c /\ (e - s) < n
  BY InPiece
<1>2. /\ s \in Nat /\ n = Smaller(l.count - s, l.perChannel)
      /\ l.count \in Nat /\ l.perChannel \in Nat
  BY ChannelIs DEF Sound
<1>3. /\ c \in Nat \ {0} /\ w \in Nat \ {0} /\ (rem < w \/ (c = l.base /\ rem >= w))
  <2>1. rem \in Nat \ {0} /\ rem <= l.count
    BY PieceIs
  <2> HIDE DEF rem
  <2>2. w \in Nat \ {0} /\ (~(rem < w) => c = l.base) /\ c \in Nat \ {0}
    BY <2>1, ChunkIs
  <2> HIDE DEF w, c
  <2> QED BY <2>1, <2>2
<1> HIDE DEF n, s
<1>4. e - s < l.count - s /\ e - s < l.perChannel /\ n <= l.perChannel
  BY <1>1, <1>2 DEF Smaller
<1>5. (e - s) - off < w
  <2>1. CASE rem < w
    BY <1>1, <1>2, <1>3, <2>1
  <2>2. CASE c = l.base
    <3>1. PICK d \in Nat : world = o + 1 + d
      <4>1. world - o - 1 \in Nat /\ world = o + 1 + (world - o - 1)
        BY DEF Sound
      <4> QED BY <4>1
    <3> HIDE DEF c, rem
    <3>2. w = o * c + c + d * c /\ d * c \in Nat
      BY <1>3, <2>2, <3>1
    <3> HIDE DEF w
    <3> QED BY <1>1, <1>2, <1>3, <3>2
  <2> QED BY <1>3, <2>1, <2>2
<1> HIDE DEF y, w, c, rem
<1>6. e \in 0..(l.count - 1) /\ s <= e /\ e < s + l.perChannel /\ off <= e - s /\ e - s < off + w
  BY <1>1, <1>2, <1>3, <1>4, <1>5
<1> QED BY <1>6 DEF s, w

\* No element lies in two pieces.
LEMMA OnePiece ==
    ASSUME NEW l, NEW world, Sound(l, world), NEW e,
           NEW ch \in 0..(l.active - 1), NEW off \in Offsets(l, ch, world), NEW o \in 0..(world - 1),
           NEW dh \in 0..(l.active - 1), NEW pff \in Offsets(l, dh, world), NEW p \in 0..(world - 1),
           e \in Elements(PieceAt(l, world, ch, off, o)), e \in Elements(PieceAt(l, world, dh, pff, p))
    PROVE  ch = dh /\ off = pff /\ o = p
<1>1. /\ e \in Int /\ l.perChannel \in Nat \ {0} /\ ch \in Nat /\ dh \in Nat
      /\ ch * l.perChannel <= e /\ e < ch * l.perChannel + l.perChannel
      /\ dh * l.perChannel <= e /\ e < dh * l.perChannel + l.perChannel
  <2>1. /\ e \in 0..(l.count - 1) /\ ch * l.perChannel <= e /\ e < ch * l.perChannel + l.perChannel
        /\ dh * l.perChannel <= e /\ e < dh * l.perChannel + l.perChannel
    BY PieceOf
  <2>2. l.perChannel \in Nat \ {0} /\ l.active \in Nat /\ l.count \in Nat
    BY DEF Sound
  <2> QED BY <2>1, <2>2
<1>2. ch = dh
  BY <1>1, SameQuotient
<1> DEFINE w == world * l.base
           x == e - ch * l.perChannel
           n == ChannelCount(l, ch)
<1>3. /\ off <= x /\ x < off + w /\ pff <= x /\ x < pff + w /\ x \in Int /\ w \in Nat \ {0}
  <2>1. w \in Nat \ {0} /\ ch * l.perChannel \in Nat
    BY ChannelIs
  <2> QED BY <1>1, <1>2, <2>1, PieceOf
<1>4. off \in Nat /\ pff \in Nat /\ off % w = 0 /\ pff % w = 0
  BY <1>2, PieceIs
<1> HIDE DEF w, x
<1>5. off = pff
  <2>1. (off < pff => off + w <= pff) /\ (pff < off => pff + w <= off)
    BY <1>3, <1>4, Multiples
  <2> QED BY <1>3, <1>4, <2>1
<1> DEFINE c == Chunk(l, n - off, world)
<1>6. /\ c \in Nat \ {0}
      /\ o * c <= x - off /\ x - off < o * c + c /\ p * c <= x - off /\ x - off < p * c + c
  BY <1>2, <1>5, InPiece DEF x
<1>7. o \in Nat /\ p \in Nat /\ x - off \in Int
  BY <1>3, <1>4
<1> HIDE DEF c
<1>8. o = p
  BY <1>6, <1>7, SameQuotient
<1> QED BY <1>2, <1>5, <1>8

\* Every element lies in a piece.
LEMMA SomePiece ==
    ASSUME NEW l, NEW world, Sound(l, world), NEW e \in 0..(l.count - 1)
    PROVE  \E ch \in 0..(l.active - 1) : \E off \in Offsets(l, ch, world), o \in 0..(world - 1) :
              e \in Elements(PieceAt(l, world, ch, off, o))
<1>1. /\ e \in Nat /\ e < l.count /\ l.perChannel \in Nat \ {0} /\ l.active \in Nat \ {0}
      /\ l.count \in Nat /\ l.count <= l.active * l.perChannel /\ l.base \in Nat \ {0} /\ world \in Nat \ {0}
  BY DEF Sound
<1>2. PICK ch \in Nat : ch * l.perChannel \in Nat /\ ch * l.perChannel <= e /\ e < ch * l.perChannel + l.perChannel
  BY <1>1, Quotient
<1>3. ch \in 0..(l.active - 1)
  <2>1. SUFFICES ASSUME ~(ch < l.active) PROVE FALSE
    BY <1>1
  <2>2. PICK d \in Nat : ch = l.active + d
    <3>1. ch - l.active \in Nat /\ ch = l.active + (ch - l.active)
      BY <1>1, <2>1
    <3> QED BY <3>1
  <2>3. ch * l.perChannel = l.active * l.perChannel + d * l.perChannel /\ d * l.perChannel \in Nat
        /\ l.active * l.perChannel \in Nat
    BY <1>1, <2>2
  <2> QED BY <1>1, <1>2, <2>3
<1> DEFINE n == ChannelCount(l, ch)
           s == ch * l.perChannel
           x == e - s
           w == world * l.base
<1>4. n \in Int /\ n = Smaller(l.count - s, l.perChannel) /\ s \in Nat
  BY <1>3, ChannelIs
<1>5. x \in Nat /\ x < n
  <2> HIDE DEF n
  <2> QED BY <1>1, <1>2, <1>4 DEF Smaller
<1>6. w \in Nat \ {0}
  BY <1>1
<1> HIDE DEF n, x, w
<1>7. PICK k \in Nat : k * w \in Nat /\ k * w <= x /\ x < k * w + w
  BY <1>5, <1>6, Quotient
<1> PICK off \in Nat : off = k * w
  BY <1>7
<1>8. off \in Offsets(l, ch, world) /\ off <= x /\ x < off + w
  <2>1. off % w = 0
    BY <1>6, <1>7
  <2>2. off \in 0..(n - 1)
    BY <1>4, <1>5, <1>7
  <2> QED BY <1>3, <1>7, <2>1, <2>2, StridesAre DEF n, w
<1> DEFINE rem == n - off
           c == Chunk(l, rem, world)
<1>9. rem \in Nat \ {0} /\ x - off < rem /\ rem <= l.count
  BY <1>1, <1>4, <1>5, <1>7 DEF Smaller
<1> HIDE DEF rem
<1>10. c \in Nat \ {0} /\ (rem < w => rem <= world * c) /\ (~(rem < w) => c = l.base)
  BY <1>9, ChunkIs DEF w
<1>11. x - off < world * c
  <2>1. CASE rem < w
    <3>1. world * c \in Nat
      BY <1>1, <1>10
    <3> HIDE DEF c
    <3> QED BY <1>5, <1>9, <1>10, <2>1, <3>1
  <2>2. CASE ~(rem < w)
    <3>1. world * c = w
      BY <1>10, <2>2 DEF w
    <3> HIDE DEF c
    <3> QED BY <1>8, <1>5, <1>6, <3>1
  <2> QED BY <2>1, <2>2
<1> HIDE DEF c
<1>12. x - off \in Nat
  BY <1>5, <1>8
<1>13. PICK o \in Nat : o * c \in Nat /\ o * c <= x - off /\ x - off < o * c + c
  BY <1>10, <1>12, Quotient
<1>14. o \in 0..(world - 1)
  <2>1. SUFFICES ASSUME ~(o < world) PROVE FALSE
    BY <1>1
  <2>2. PICK d \in Nat : o = world + d
    <3>1. o - world \in Nat /\ o = world + (o - world)
      BY <1>1, <2>1
    <3> QED BY <3>1
  <2>3. o * c = world * c + d * c /\ d * c \in Nat /\ world * c \in Nat
    BY <1>1, <1>10, <2>2
  <2> QED BY <1>11, <1>12, <1>13, <2>3
<1>15. e \in Elements(PieceAt(l, world, ch, off, o)) <=>
         e \in Int /\ o * c <= x - off /\ x - off < o * c + c /\ x < n
  BY <1>3, <1>8, <1>14, InPiece DEF n, x, s, c, rem
<1>16. e \in Elements(PieceAt(l, world, ch, off, o))
  BY <1>1, <1>5, <1>13, <1>15
<1> QED BY <1>3, <1>8, <1>14, <1>16

\* What a tensor is.
LEMMA TensorTypes ==
    ASSUME NEW t \in Tensors
    PROVE  /\ t.count \in Nat \ {0} /\ t.itemsize \in Nat \ {0}
           /\ t.sms \in Nat \ {0} /\ t.world \in Nat \ {0}
<1>1. t.count \in 1..MaxCount /\ t.itemsize \in ItemSizes /\ t.sms \in 1..MaxSms /\ t.world \in 2..MaxWorld
  BY DEF Tensors
<1>2. MaxCount \in Nat /\ MaxSms \in Nat /\ MaxWorld \in Nat /\ ItemSizes \subseteq Nat \ {0}
  BY TensorsAssumption
<1>3. t.itemsize \in Nat \ {0}
  BY <1>1, <1>2
<1>4. t.count \in Nat \ {0} /\ t.sms \in Nat \ {0} /\ t.world \in Nat \ {0}
  BY <1>1, <1>2
<1> QED BY <1>3, <1>4

\* The kernel runs on all channels for which there are bytes.
LEMMA ChannelsEnough ==
    ASSUME NEW t \in Tensors
    PROVE  LET a == ActiveChannels(t.count, t.itemsize, t.sms) IN
           a \in 1..t.sms /\ Enough(t, a) /\ \A n \in (a + 1)..t.sms : ~Enough(t, n)
<1> DEFINE b == t.count * t.itemsize
           q == b \div ChannelBytes
           m == b % ChannelBytes
           a == ActiveChannels(t.count, t.itemsize, t.sms)
<1>1. t.count \in Nat \ {0} /\ t.itemsize \in Nat \ {0} /\ t.sms \in Nat \ {0} /\ ChannelBytes \in Nat \ {0}
  BY TensorTypes, LayoutAssumption
<1>2. b \in Nat
  BY <1>1
<1>3. a = Smaller(t.sms, Larger(1, q)) /\ \A n : Enough(t, n) <=> n = 1 \/ b >= n * ChannelBytes
  BY DEF ActiveChannels, Enough
<1> HIDE DEF a, b
<1>4. q \in Nat /\ m \in 0..(ChannelBytes - 1) /\ b = ChannelBytes * q + m
  BY <1>1, <1>2
<1> HIDE DEF q, m
<1>5. ASSUME NEW n \in Nat PROVE b >= n * ChannelBytes <=> n <= q
  <2>1. CASE n <= q
    <3>1. PICK d \in Nat : q = n + d
      <4>1. q - n \in Nat /\ q = n + (q - n)
        BY <1>4, <2>1
      <4> QED BY <4>1
    <3>2. ChannelBytes * q = n * ChannelBytes + ChannelBytes * d /\ ChannelBytes * d \in Nat
          /\ n * ChannelBytes \in Nat
      BY <1>1, <3>1
    <3> QED BY <1>1, <1>2, <1>4, <2>1, <3>2
  <2>2. CASE ~(n <= q)
    <3>1. PICK d \in Nat : n = q + 1 + d
      <4>1. n - q - 1 \in Nat /\ n = q + 1 + (n - q - 1)
        BY <1>4, <2>2
      <4> QED BY <4>1
    <3>2. n * ChannelBytes = ChannelBytes * q + ChannelBytes + d * ChannelBytes /\ d * ChannelBytes \in Nat
          /\ ChannelBytes * q \in Nat
      BY <1>1, <1>4, <3>1
    <3> QED BY <1>1, <1>2, <1>4, <2>2, <3>2
  <2> QED BY <2>1, <2>2
<1>6. a \in 1..t.sms /\ (a = 1 \/ a <= q) /\ (a = t.sms \/ a >= q)
  BY <1>1, <1>3, <1>4 DEF Smaller, Larger
<1>7. Enough(t, a)
  BY <1>3, <1>5, <1>6
<1>8. ASSUME NEW n \in (a + 1)..t.sms PROVE ~Enough(t, n)
  <2>1. n \in Nat /\ n # 1 /\ ~(n <= q)
    BY <1>1, <1>4, <1>6
  <2> QED BY <1>3, <1>5, <2>1
<1> QED BY <1>6, <1>7, <1>8 DEF a

\* The layout of every tensor is a partition, over the channels NCCL would use.
LEMMA LayoutPartitions == EveryElementOnce
<1> SUFFICES ASSUME NEW t \in Tensors, Fits(t.count, t.sms, t.world)
             PROVE  LET l == Layout(t.count, t.itemsize, t.sms)
                        pieces == Pieces(l, t.world)
                    IN  /\ \A e \in 0..(t.count - 1) : Cardinality({p \in pieces : e \in Elements(p)}) = 1
                        /\ \A p \in pieces : Elements(p) \subseteq 0..(t.count - 1)
                        /\ l.active \in 1..t.sms /\ Enough(t, l.active)
                        /\ \A n \in (l.active + 1)..t.sms : ~Enough(t, n)
  BY DEF EveryElementOnce
<1> DEFINE l == Layout(t.count, t.itemsize, t.sms)
           P == Pieces(l, t.world)
           At(ch, off, o) == PieceAt(l, t.world, ch, off, o)
<1>1. Sound(l, t.world) /\ l.count = t.count /\ l.active = ActiveChannels(t.count, t.itemsize, t.sms)
  BY TensorTypes, LayoutSound
<1>2. t.world \in Nat \ {0}
  BY TensorTypes
<1>3. /\ l.active \in 1..t.sms /\ Enough(t, l.active)
      /\ \A n \in (l.active + 1)..t.sms : ~Enough(t, n)
  BY <1>1, ChannelsEnough
<1> HIDE DEF l
<1>4. ASSUME NEW p \in P, NEW e \in Elements(p) PROVE e \in 0..(t.count - 1)
  <2>1. PICK ch \in 0..(l.active - 1) : \E off \in Offsets(l, ch, t.world), o \in 0..(t.world - 1) :
            p = At(ch, off, o)
    BY PiecesAre
  <2>2. PICK off \in Offsets(l, ch, t.world), o \in 0..(t.world - 1) : p = At(ch, off, o)
    BY <2>1
  <2> QED BY <1>1, <1>2, <2>2, PieceOf
<1>5. ASSUME NEW e \in 0..(t.count - 1) PROVE Cardinality({p \in P : e \in Elements(p)}) = 1
  <2>1. PICK ch \in 0..(l.active - 1) : \E off \in Offsets(l, ch, t.world), o \in 0..(t.world - 1) :
            e \in Elements(At(ch, off, o))
    BY <1>1, <1>2, SomePiece
  <2>2. PICK off \in Offsets(l, ch, t.world), o \in 0..(t.world - 1) : e \in Elements(At(ch, off, o))
    BY <2>1
  <2>3. At(ch, off, o) \in P
    BY PiecesAre
  <2>4. ASSUME NEW p \in P, e \in Elements(p) PROVE p = At(ch, off, o)
    <3>1. PICK dh \in 0..(l.active - 1) : \E pff \in Offsets(l, dh, t.world), q \in 0..(t.world - 1) :
              p = At(dh, pff, q)
      BY PiecesAre
    <3>2. PICK pff \in Offsets(l, dh, t.world), q \in 0..(t.world - 1) : p = At(dh, pff, q)
      BY <3>1
    <3>3. ch = dh /\ off = pff /\ o = q
      BY <1>1, <1>2, <2>2, <2>4, <3>2, OnePiece
    <3> QED BY <3>2, <3>3
  <2>5. {p \in P : e \in Elements(p)} = {At(ch, off, o)}
    BY <2>2, <2>3, <2>4
  <2> QED BY <2>5, FS_Singleton
<1> QED BY <1>3, <1>4, <1>5 DEF l

\* For every tensor that ends a cell of every channel, and a stride, below 2^31
\* (Fits), every item size, number of CTAs and ranks, and every cell, chunk and
\* alignment: none of the kernel's Int32 products and sums of elements wraps, an
\* element lies in exactly one piece and no piece leaves the tensor.  Of a larger
\* tensor, which _allreduce_tensor accepts too, it is false (ElementsAddressed).
THEOREM EveryElementOnceHolds == Spec => []EveryElementOnce
BY LayoutPartitions, PTL
=============================================================================
