------------------------- MODULE FlowTransportProofs -------------------------
(***************************************************************************)
(* What receive_into returns is one whole tensor, and next_task hands out  *)
(* every task once: proofs for any number of flows and any sizes.          *)
(*                                                                         *)
(* TaskInv is about the lock of the shared counter.  TransferInv follows   *)
(* the data: what a connection carries, together with what its sender has  *)
(* still to send, is in order and begins with what its receiver expects;   *)
(* what a receiver holds is of the transfer whose header it has read; and  *)
(* a stripe that is marked as placed is there, being copied, or lost with  *)
(* a worker that was killed, which receive_into then sees.                 *)
(***************************************************************************)
EXTENDS FlowTransport, SequenceTheorems, FiniteSetTheorems, TLAPS

-----------------------------------------------------------------------------
(* The shared counter. *)

SendType == [at : {"idle", "barrier", "released", "collect", "failing", "ok", "failed"},
             broken : BOOLEAN, next : Nat, owner : Flows \cup {None}, read : Nat]
TxPlaces == {"idle", "connect", "barrier", "go", "lock", "fetch", "send"} \cup Ended
ItemType == [kind : {"magic", "done"}, id : Senders, flow : Flows, total : Nat, off : Nat, n : Nat]
            \cup [kind : {"unit"}, id : Senders, off : Nat]
TxType == [at : TxPlaces, todo : Seq(ItemType), task : Nat, took : SUBSET Nat]

\* A flow that sends has something to send; only processes take tasks.
TxOk(x) == /\ x.at = "send" => x.todo # <<>>
           /\ x.at \in {"lock", "fetch"} => ~ Threads

SenderTypes ==
    /\ scenario \in Scenarios
    /\ send \in [Senders -> SendType] /\ tx \in [Senders -> [Flows -> TxType]]
    /\ \A s \in Senders :
           IF send[s].at = "idle" THEN \A f \in Flows : tx[s][f].at = "idle" ELSE NFlows <= Size(s)
    /\ \A s \in Senders : \A f \in Flows : TxOk(tx[s][f])

\* TasksHandedOutOnce, made inductive: who has read the counter has its lock, and
\* the counter has not moved since.
TaskInv ==
    /\ SenderTypes /\ TasksHandedOutOnce
    /\ \A s \in Senders : \A f \in Flows :
           tx[s][f].at = "fetch" => send[s].owner = f /\ tx[s][f].task = send[s].next

-----------------------------------------------------------------------------
(* What a connection carries. *)

RxPlaces == {"idle", "prepare", "accept", "header", "data", "lock", "place", "copy"} \cup Ended
ConnType == [sock : {"none", "open", "closed"}, peer : {"none", "backlog", "accepted", "closed"},
             stream : Seq(ItemType)]
RxType == [at : RxPlaces, from : Senders \cup {None}, tid : Senders \cup {None}, part : Nat,
           left : Nat, staged : Seq(Senders \X Nat), got : Nat, seen : SUBSET Nat]

ReceiverTypes ==
    /\ conn \in [Senders -> [Flows -> ConnType]] /\ queue \in [Flows -> Seq(Senders)]
    /\ rx \in [Flows -> RxType] /\ placed \subseteq Nat
    /\ dest \in [0..(NUnits - 1) -> (Senders \X Nat) \cup {None}]

Early == {"idle", "prepare", "accept"}
Busy == {"header", "data", "lock", "place", "copy"}

\* A header, or the terminator, that flow f of s may send.
Opening(s, f, b) ==
    IF Threads
    THEN b = Header("magic", s, f, PartStart(Size(s), f), PartLen(Size(s), f))
    ELSE \/ b = Header("done", s, f, 0, 0)
         \/ \E p \in 0..(Size(s) - 1) :
               p % StripeUnits = 0 /\ b = Header("magic", s, f, p, Min({StripeUnits, Size(s) - p}))

\* The last unit of the part, or of a stripe.
LastOf(s, f, u) ==
    IF Threads THEN u + 1 = PartStart(Size(s), f) + PartLen(Size(s), f)
    ELSE u + 1 = Size(s) \/ (u + 1) % StripeUnits = 0

\* Flow f of s sends b after a: the units of a part, round and round, or those of
\* a stripe and then the next header.
Follows(s, f, a, b) ==
    \/ a.kind = "magic" /\ b = Unit(s, a.off)
    \/ /\ a.kind = "unit"
       /\ IF ~ LastOf(s, f, a.off) THEN b = Unit(s, a.off + 1)
          ELSE IF Threads THEN b = Unit(s, PartStart(Size(s), f)) ELSE Opening(s, f, b)

(* What follows is about the records of a flow: t of the sender, c of the      *)
(* connection, x of the receiver.                                           *)

Reading(s, x) == x.at = "data" /\ x.from = s

\* The place of the unit that receiver f waits for.
NextUnit(f, x) ==
    x.part + IF Threads THEN (PartLen(NUnits, f) * Iterations - x.left) % PartLen(NUnits, f)
             ELSE Len(x.staged)

\* What receiver f expects of s next.
Expected(s, f, x, b) == IF Reading(s, x) THEN b = Unit(s, NextUnit(f, x)) ELSE Opening(s, f, b)

\* A wire in order.
InOrder(s, f, q) ==
    /\ \A i \in 1..Len(q) : Opening(s, f, q[i]) \/ \E u \in Nat : q[i] = Unit(s, u)
    /\ \A i \in 1..(Len(q) - 1) : Follows(s, f, q[i], q[i + 1])

\* Where a wire may end when its sender goes on with the next task.
Closing(s, f, b) == b.kind = "done" \/ (b.kind = "unit" /\ LastOf(s, f, b.off))

\* A wire q whose next piece is the one that receiver f expects.
WireGood(s, f, at, x, q) ==
    /\ InOrder(s, f, q)
    /\ q # <<>> => Expected(s, f, x, q[1])
    /\ q = <<>> /\ at \notin Ended => ~ Reading(s, x)
    /\ q # <<>> /\ ~ Threads /\ at \notin Ended => Closing(s, f, q[Len(q)])
    /\ q # <<>> /\ at \in {"lock", "fetch"} => q[Len(q)].kind = "unit"

\* The wire: what was sent and not received, and what is still to be sent.
WireOk(s, f, t, c, x) ==
    /\ t.at \in {"idle", "connect"} => c.peer = "none"
    /\ t.at \in {"idle", "connect", "barrier", "go"} => c.stream = <<>> /\ t.todo = <<>>
    /\ t.at \in {"lock", "fetch"} => t.todo = <<>>
    /\ x.at \in Busy /\ x.from = s => c.peer = "accepted"
    /\ c.peer # "closed" => WireGood(s, f, t.at, x, c.stream \o t.todo)

WireInv == \A s \in Senders : \A f \in Flows : WireOk(s, f, tx[s][f], conn[s][f], rx[f])

-----------------------------------------------------------------------------
(* What a receiver has put together. *)

\* Thread mode: the units received so far are in the destination d.
PartOk(f, x, d) ==
    LET lo == PartStart(NUnits, f)
        n == PartLen(NUnits, f)
    IN  /\ x.at = "data" =>
              /\ x.part = lo /\ x.left \in 1..(n * Iterations)
              /\ \A i \in 0..(n - 1) : i < n * Iterations - x.left => d[lo + i] = <<x.tid, lo + i>>
        /\ x.at = "done" => \A i \in 0..(n - 1) : d[lo + i] = <<x.tid, lo + i>>
        /\ x.at \notin {"lock", "place", "copy"}

\* Process mode: what is staged is the beginning of a stripe.
StagedOk(x) ==
    LET n == Len(x.staged)
    IN  x.at \in {"data", "lock", "place", "copy"} =>
            /\ x.part % StripeUnits = 0 /\ x.part < NUnits
            /\ \A i \in 1..n : x.staged[i] = <<x.tid, x.part + i - 1>>
            /\ n + (IF x.at = "data" THEN x.left ELSE 0) = Min({StripeUnits, NUnits - x.part})
            /\ x.at = "data" => x.left > 0

FlowOk(f, x, d) ==
    /\ x.at \in Early => x.from = None /\ x.tid = None
    /\ x.at \in Busy \cup {"done"} => x.from \in Senders
    /\ x.tid \in {None, x.from}
    /\ x.at \in {"data", "lock", "place", "copy", "done"} => x.tid # None
    /\ x.at = "data" => Size(x.tid) = NUnits
    /\ IF Threads THEN PartOk(f, x, d) ELSE StagedOk(x)

FlowInv == \A f \in Flows : FlowOk(f, rx[f], dest)

\* What is queued has not been accepted.
QueueInv ==
    \A f \in Flows : rx[f].at \in Early =>
        \A i \in 1..Len(queue[f]) : conn[queue[f][i]][f].peer = "backlog"

\* The units of stripe k are in the destination, all of one transfer.
Copied(k) ==
    \E f \in Flows : rx[f].tid # None /\ \A u \in DOMAIN dest : u \div StripeUnits = k => dest[u] = <<rx[f].tid, u>>

\* A stripe that is marked as placed is there, or being copied, or died with its worker.
PlacedInv ==
    \A k \in placed :
        \/ \E f \in Flows : rx[f].at = "killed"
        \/ \E f \in Flows : rx[f].at = "copy" /\ Stripe(f) = k
        \/ Copied(k)

\* ReceivedWhole, made inductive.
TransferInv ==
    /\ ReceiverTypes
    /\ WireInv /\ FlowInv /\ QueueInv
    /\ ~ Threads => PlacedInv
    /\ recv = "listen" => \A f \in Flows : rx[f].at = "idle"
    /\ recv = "ok" => (\E s \in Senders : Whole(s)) /\ \A f \in Flows : rx[f].at = "done"
    /\ local = "ok" => recv = "ok"
-----------------------------------------------------------------------------
(* Arithmetic of parts and stripes. *)

\* Quotient and remainder.
LEMMA DivMod ==
    ASSUME NEW a \in Nat, NEW b \in Nat \ {0}
    PROVE  a \div b \in Nat /\ a % b \in 0..(b - 1) /\ a = b * (a \div b) + (a % b)
OBVIOUS

\* They are unique.
LEMMA DivUnique ==
    ASSUME NEW b \in Nat \ {0}, NEW q \in Nat, NEW r \in 0..(b - 1)
    PROVE  (b * q + r) \div b = q /\ (b * q + r) % b = r
OBVIOUS

\* The smaller of two.
LEMMA MinOf ==
    ASSUME NEW a \in Int, NEW b \in Int
    PROVE  Min({a, b}) = IF a <= b THEN a ELSE b
<1>1. \E x \in {a, b} : \A y \in {a, b} : x <= y
  OBVIOUS
<1>2. Min({a, b}) \in {a, b} /\ \A y \in {a, b} : Min({a, b}) <= y
  BY <1>1 DEF Min
<1> QED BY <1>2

\* One step further in a round of n.
LEMMA ModStep ==
    ASSUME NEW n \in Nat \ {0}, NEW x \in Nat
    PROVE  (x + 1) % n = IF x % n = n - 1 THEN 0 ELSE (x % n) + 1
<1> DEFINE q == x \div n
           r == x % n
<1>1. q \in Nat /\ r \in 0..(n - 1) /\ x = n * q + r
  BY DivMod
<1> HIDE DEF q, r
<1>2. CASE r = n - 1
  <2>1. x + 1 = n * (q + 1) + 0
    BY <1>1, <1>2
  <2>2. (n * (q + 1) + 0) % n = 0
    BY <1>1, DivUnique
  <2> QED BY <1>2, <2>1, <2>2 DEF r
<1>3. CASE r # n - 1
  <2>1. x + 1 = n * q + (r + 1) /\ r + 1 \in 0..(n - 1)
    BY <1>1, <1>3
  <2>2. (n * q + (r + 1)) % n = r + 1
    BY <1>1, <2>1, DivUnique
  <2> QED BY <1>3, <2>1, <2>2 DEF r
<1> QED BY <1>2, <1>3

\* Division is monotonic, and n more dividend than the divisor give one more.
LEMMA DivMono ==
    ASSUME NEW a \in Nat, NEW c \in Nat, NEW b \in Nat \ {0}, a <= c
    PROVE  a \div b <= c \div b /\ (a + b <= c => (a \div b) + 1 <= c \div b)
<1> DEFINE q == a \div b
           r == a % b
           p == c \div b
           t == c % b
<1>1. /\ q \in Nat /\ r \in 0..(b - 1) /\ a = b * q + r
      /\ p \in Nat /\ t \in 0..(b - 1) /\ c = b * p + t
  BY DivMod
<1> HIDE DEF q, r, p, t
<1>2. q <= p
  <2> SUFFICES ASSUME p + 1 <= q PROVE FALSE
    BY <1>1
  <2>1. b * (p + 1) <= b * q
    BY <1>1
  <2>2. b * (p + 1) = b * p + b
    BY <1>1
  <2> QED BY <1>1, <2>1, <2>2
<1>3. ASSUME a + b <= c PROVE q + 1 <= p
  <2> SUFFICES ASSUME p <= q PROVE FALSE
    BY <1>1
  <2>1. b * p <= b * q
    BY <1>1
  <2> QED BY <1>1, <1>3, <2>1
<1> QED BY <1>2, <1>3 DEF q, p

\* The parts of a tensor of n units.
LEMMA PartBounds ==
    ASSUME NEW n \in Nat, NFlows <= n, NEW f \in Flows
    PROVE  /\ PartStart(n, f) \in Nat /\ PartLen(n, f) \in Nat \ {0}
           /\ PartStart(n, f) + PartLen(n, f) = (n * (f + 1)) \div NFlows
           /\ PartStart(n, f) + PartLen(n, f) <= n
<1>1. NFlows \in Nat \ {0} /\ f \in Nat /\ f + 1 <= NFlows
  BY FlowAssumption DEF Flows
<1> DEFINE a == n * f
           c == n * (f + 1)
           e == n * NFlows
<1>2. a \in Nat /\ c \in Nat /\ e \in Nat /\ a + NFlows <= c /\ a <= c /\ c <= e
  <2>1. a \in Nat /\ c \in Nat /\ e \in Nat
    BY <1>1
  <2>2. c = a + n
    BY <1>1
  <2>3. c <= e
    BY <1>1
  <2> QED BY <1>1, <2>1, <2>2, <2>3
<1>3. e \div NFlows = n
  <2>1. e = NFlows * n + 0
    BY <1>1
  <2> QED BY <1>1, <2>1, DivUnique
<1>4. PartStart(n, f) = a \div NFlows /\ PartLen(n, f) = (c \div NFlows) - (a \div NFlows)
  BY DEF PartStart, PartLen, Partition
<1> HIDE DEF a, c, e
<1>5. a \div NFlows \in Nat /\ c \div NFlows \in Nat
  BY <1>1, <1>2, DivMod
<1>6. (a \div NFlows) + 1 <= c \div NFlows
  BY <1>1, <1>2, DivMono
<1>7. c \div NFlows <= n
  BY <1>1, <1>2, <1>3, DivMono
<1>8. PartStart(n, f) + PartLen(n, f) = c \div NFlows /\ PartLen(n, f) \in Nat \ {0}
  BY <1>4, <1>5, <1>6
<1> QED BY <1>4, <1>5, <1>7, <1>8 DEF c

\* They do not overlap.
LEMMA PartsApart ==
    ASSUME NEW n \in Nat, NFlows <= n, NEW f \in Flows, NEW g \in Flows, f < g
    PROVE  PartStart(n, f) + PartLen(n, f) <= PartStart(n, g)
<1>1. NFlows \in Nat \ {0} /\ f \in Nat /\ g \in Nat /\ f + 1 <= g
  BY FlowAssumption DEF Flows
<1> DEFINE c == n * (f + 1)
           e == n * g
<1>2. c \in Nat /\ e \in Nat /\ c <= e
  BY <1>1
<1>3. PartStart(n, f) + PartLen(n, f) = c \div NFlows /\ PartStart(n, g) = e \div NFlows
  BY PartBounds DEF PartStart, Partition
<1> HIDE DEF c, e
<1> QED BY <1>1, <1>2, <1>3, DivMono

\* Every unit is in one.
LEMMA PartsCover ==
    ASSUME NEW n \in Nat, NFlows <= n, NEW u \in 0..(n - 1)
    PROVE  \E f \in Flows : u - PartStart(n, f) \in 0..(PartLen(n, f) - 1)
<1>1. NFlows \in Nat \ {0} /\ n \in Nat \ {0} /\ u \in Nat /\ u + 1 <= n
  BY FlowAssumption
<1> DEFINE N == NFlows
           y == (u + 1) * N - 1
           f == y \div n
           r == y % n
<1>2. (u + 1) * N \in Nat /\ N <= (u + 1) * N /\ (u + 1) * N <= n * N
  BY <1>1
<1>3. y \in Nat /\ y + 1 = (u + 1) * N
  BY <1>1, <1>2
<1> HIDE DEF y
<1>4. f \in Nat /\ r \in 0..(n - 1) /\ y = n * f + r
  BY <1>1, <1>3, DivMod
<1> HIDE DEF f, r
<1>5. f \in Flows
  <2> SUFFICES ASSUME N <= f PROVE FALSE
    BY <1>1, <1>4 DEF Flows
  <2>1. n * N <= n * f
    BY <1>1, <1>4
  <2> QED BY <1>1, <1>2, <1>3, <1>4, <2>1
<1> DEFINE a == n * f
           c == n * (f + 1)
<1>6. a \in Nat /\ c \in Nat /\ a + 1 <= (u + 1) * N /\ (u + 1) * N <= c
  <2>1. c = a + n /\ a \in Nat
    BY <1>1, <1>4
  <2> QED BY <1>1, <1>3, <1>4, <2>1
<1>7. PartStart(n, f) = a \div N /\ PartStart(n, f) + PartLen(n, f) = c \div N
      /\ PartStart(n, f) \in Nat /\ PartLen(n, f) \in Nat
  BY <1>5, PartBounds DEF PartStart, Partition
<1> HIDE DEF a, c
<1>8. a \div N <= u
  <2> DEFINE p == a \div N
  <2>1. p \in Nat /\ a % N \in 0..(N - 1) /\ a = N * p + (a % N)
    BY <1>1, <1>6, DivMod
  <2> HIDE DEF p
  <2> SUFFICES ASSUME u + 1 <= p PROVE FALSE
    BY <1>1, <2>1 DEF p
  <2>2. (u + 1) * N <= N * p
    BY <1>1, <2>1
  <2> QED BY <1>1, <1>2, <1>6, <2>1, <2>2
<1>9. u + 1 <= c \div N
  <2>1. (u + 1) * N = N * (u + 1) + 0
    BY <1>1
  <2>2. ((u + 1) * N) \div N = u + 1
    BY <1>1, <2>1, DivUnique
  <2> QED BY <1>1, <1>2, <1>6, <2>2, DivMono
<1> HIDE DEF N
<1>10. u - PartStart(n, f) \in 0..(PartLen(n, f) - 1)
  BY <1>1, <1>7, <1>8, <1>9
<1> QED BY <1>5, <1>10

\* Where a stripe starts.
LEMMA StripeStart ==
    ASSUME NEW n \in Nat \ {0}, NEW t \in Nat
    PROVE  /\ StripeCount(n) \in Nat \ {0} /\ t % StripeCount(n) \in Nat
           /\ (t % StripeCount(n)) * StripeUnits \in 0..(n - 1)
           /\ ((t % StripeCount(n)) * StripeUnits) % StripeUnits = 0
<1> DEFINE S == StripeUnits
           y == n + S - 1
           c == y \div S
           k == t % c
<1>1. S \in Nat \ {0} /\ y \in Nat
  BY FlowAssumption
<1>2. c = StripeCount(n)
  BY DEF StripeCount
<1>3. y = n + S - 1
  OBVIOUS
<1> HIDE DEF S, y
<1>4. c \in Nat /\ y % S \in 0..(S - 1) /\ y = S * c + (y % S)
  BY <1>1, DivMod
<1> HIDE DEF c
<1>5. c # 0
  <2> SUFFICES ASSUME c = 0 PROVE FALSE
    OBVIOUS
  <2>1. S * c = 0
    BY <1>1
  <2> QED BY <1>1, <1>3, <1>4, <2>1
<1>6. k \in 0..(c - 1)
  BY <1>4, <1>5, DivMod
<1> HIDE DEF k
<1>7. k * S \in Nat /\ k * S <= n - 1
  <2>1. S * (k + 1) <= S * c
    BY <1>1, <1>4, <1>6
  <2>2. S * (k + 1) = k * S + S
    BY <1>1, <1>6
  <2>3. k * S \in Nat /\ S * c \in Nat
    BY <1>1, <1>4, <1>6
  <2> QED BY <1>1, <1>3, <1>4, <2>1, <2>2, <2>3
<1>8. (k * S) % S = 0
  <2>1. k * S = S * k + 0
    BY <1>1, <1>6
  <2> QED BY <1>1, <1>6, <2>1, DivUnique
<1>9. k * S \in 0..(n - 1)
  BY <1>7
<1> QED BY <1>2, <1>4, <1>5, <1>6, <1>8, <1>9 DEF k, S

\* The units of the stripe that starts at p.
LEMMA StripeOf ==
    ASSUME NEW p \in Nat, p % StripeUnits = 0, NEW u \in Nat
    PROVE  u \div StripeUnits = p \div StripeUnits <=> p <= u /\ u < p + StripeUnits
<1> DEFINE S == StripeUnits
           a == p \div S
           b == u \div S
           r == u % S
<1>1. S \in Nat \ {0}
  BY FlowAssumption
<1>2. a \in Nat /\ p = S * a
  BY <1>1, DivMod
<1>3. b \in Nat /\ r \in 0..(S - 1) /\ u = S * b + r
  BY <1>1, DivMod
<1> HIDE DEF S, a, b, r
<1>4. ASSUME a = b PROVE p <= u /\ u < p + S
  BY <1>1, <1>2, <1>3, <1>4
<1>5. ASSUME p <= u, u < p + S PROVE a = b
  <2>1. ASSUME a + 1 <= b PROVE FALSE
    <3>1. S * (a + 1) <= S * b
      BY <1>1, <1>2, <1>3, <2>1
    <3>2. S * (a + 1) = S * a + S
      BY <1>1, <1>2
    <3> QED BY <1>1, <1>2, <1>3, <1>5, <3>1, <3>2
  <2>2. ASSUME b + 1 <= a PROVE FALSE
    <3>1. S * (b + 1) <= S * a
      BY <1>1, <1>2, <1>3, <2>2
    <3>2. S * (b + 1) = S * b + S
      BY <1>1, <1>3
    <3> QED BY <1>1, <1>2, <1>3, <1>5, <3>1, <3>2
  <2> QED BY <1>2, <1>3, <2>1, <2>2
<1> QED BY <1>2, <1>3, <1>4, <1>5 DEF S, a, b

\* The last unit of the stripe that starts at p.
LEMMA StripeEnd ==
    ASSUME NEW n \in Nat, NEW p \in 0..(n - 1), p % StripeUnits = 0,
           NEW m, m = Min({StripeUnits, n - p})
    PROVE  /\ m \in Nat \ {0} /\ m <= StripeUnits /\ p + m <= n
           /\ m = StripeUnits \/ p + m = n
           /\ \A i \in 0..(m - 1) : (p + i + 1 = n \/ (p + i + 1) % StripeUnits = 0) <=> i + 1 = m
<1> DEFINE S == StripeUnits
           a == p \div S
<1>1. S \in Nat \ {0} /\ p \in Nat
  BY FlowAssumption
<1>2. m = IF S <= n - p THEN S ELSE n - p
  BY <1>1, MinOf
<1>3. a \in Nat /\ p = S * a
  <2>1. p % S = 0
    OBVIOUS
  <2>2. a \in Nat /\ p = S * a + (p % S)
    BY <1>1, DivMod
  <2>3. S * a \in Nat
    BY <1>1, <2>2
  <2> QED BY <2>1, <2>2, <2>3
<1> HIDE DEF S, a
<1>4. m \in Nat \ {0} /\ m <= S /\ p + m <= n /\ (m = S \/ p + m = n)
  <2>1. CASE S <= n - p
    BY <1>1, <1>2, <2>1
  <2>2. CASE ~ (S <= n - p)
    BY <1>1, <1>2, <2>2
  <2> QED BY <2>1, <2>2
<1>5. ASSUME NEW i \in 0..(m - 1)
      PROVE  (p + i + 1 = n \/ (p + i + 1) % S = 0) <=> i + 1 = m
  <2>1. (p + i + 1) % S = IF i + 1 = S THEN 0 ELSE i + 1
    <3>1. CASE i + 1 = S
      <4>1. p + i + 1 = S * (a + 1) + 0
        BY <1>1, <1>3, <1>4, <3>1
      <4>2. (S * (a + 1) + 0) % S = 0
        BY <1>1, <1>3, DivUnique
      <4> QED BY <3>1, <4>1, <4>2
    <3>2. CASE i + 1 # S
      <4> DEFINE r == i + 1
      <4>1. p + i + 1 = S * a + r /\ r \in 0..(S - 1)
        BY <1>1, <1>3, <1>4, <3>2
      <4> HIDE DEF r
      <4>2. (S * a + r) % S = r
        BY <1>1, <1>3, <4>1, DivUnique
      <4>3. r = i + 1
        BY DEF r
      <4> QED BY <3>2, <4>1, <4>2, <4>3
    <3> QED BY <3>1, <3>2
  <2> QED BY <1>1, <1>4, <2>1
<1> QED BY <1>4, <1>5 DEF S
-----------------------------------------------------------------------------
(* Sequences. *)

\* Taking the first element of a concatenation.
LEMMA TailConcat ==
    ASSUME NEW T, NEW a \in Seq(T), a # <<>>, NEW x \in Seq(T)
    PROVE  a \o x # <<>> /\ Tail(a \o x) = Tail(a) \o x /\ Head(a \o x) = Head(a)
<1> DEFINE k == Len(a)
           l == Len(x)
           t == Tail(a)
<1>1. k \in Nat \ {0} /\ l \in Nat
  BY EmptySeq, LenProperties
<1>2. /\ a \o x \in Seq(T) /\ Len(a \o x) = k + l
      /\ \A i \in 1..(k + l) : (a \o x)[i] = IF i <= k THEN a[i] ELSE x[i - k]
  BY ConcatProperties
<1>3. t \in Seq(T) /\ Len(t) = k - 1 /\ \A i \in 1..(k - 1) : t[i] = a[i + 1]
  BY HeadTailProperties
<1> HIDE DEF t
<1>4. /\ t \o x \in Seq(T) /\ Len(t \o x) = (k - 1) + l
      /\ \A i \in 1..((k - 1) + l) : (t \o x)[i] = IF i <= k - 1 THEN t[i] ELSE x[i - (k - 1)]
  <2> DEFINE n == Len(t)
  <2>1. /\ t \o x \in Seq(T) /\ Len(t \o x) = n + l
        /\ \A i \in 1..(n + l) : (t \o x)[i] = IF i <= n THEN t[i] ELSE x[i - n]
    BY <1>3, ConcatProperties
  <2>2. n = k - 1
    BY <1>3
  <2> HIDE DEF n, k, l
  <2> QED BY <2>1, <2>2
<1> HIDE DEF k, l
<1>5. a \o x # <<>>
  BY ConcatEqualIffEmpty
<1>6. /\ Tail(a \o x) \in Seq(T) /\ Len(Tail(a \o x)) = (k - 1) + l
      /\ \A i \in 1..((k - 1) + l) : Tail(a \o x)[i] = (a \o x)[i + 1]
  <2>1. (k + l) - 1 = (k - 1) + l
    BY <1>1
  <2> QED BY <1>2, <1>5, <2>1, HeadTailProperties
<1>7. ASSUME NEW i \in 1..((k - 1) + l) PROVE Tail(a \o x)[i] = (t \o x)[i]
  <2>1. i + 1 \in 1..(k + l)
    BY <1>1
  <2>2. CASE i <= k - 1
    <3>1. i + 1 <= k /\ i \in 1..(k - 1)
      BY <1>1, <2>2
    <3>2. Tail(a \o x)[i] = a[i + 1]
      BY <1>2, <1>6, <2>1, <3>1
    <3>3. (t \o x)[i] = a[i + 1]
      BY <1>3, <1>4, <2>2, <3>1
    <3> QED BY <3>2, <3>3
  <2>3. CASE ~ (i <= k - 1)
    <3>1. ~ (i + 1 <= k) /\ (i + 1) - k = i - (k - 1)
      BY <1>1, <2>3
    <3>2. Tail(a \o x)[i] = x[(i + 1) - k]
      BY <1>2, <1>6, <2>1, <3>1
    <3>3. (t \o x)[i] = x[i - (k - 1)]
      BY <1>4, <2>3
    <3> QED BY <3>1, <3>2, <3>3
  <2> QED BY <2>2, <2>3
<1>8. Tail(a \o x) = t \o x
  BY <1>4, <1>6, <1>7, SeqEqual
<1>9. Head(a \o x) = Head(a)
  <2>1. 1 \in 1..(k + l) /\ 1 <= k
    BY <1>1
  <2>2. (a \o x)[1] = a[1]
    BY <1>2, <2>1
  <2> QED BY <2>2
<1> QED BY <1>5, <1>8, <1>9 DEF t

\* A piece that moves from the sender to the stream leaves the wire as it is.
LEMMA MoveHead ==
    ASSUME NEW T, NEW a \in Seq(T), NEW b \in Seq(T), b # <<>>
    PROVE  Append(a, Head(b)) \in Seq(T) /\ Append(a, Head(b)) \o Tail(b) = a \o b
<1> DEFINE h == Head(b)
           t == Tail(b)
<1>1. h \in T /\ t \in Seq(T)
  BY HeadTailProperties
<1>2. b = <<h>> \o t
  <2> DEFINE n == Len(b)
             r == SubSeq(b, 1 + 1, n)
  <2>1. n \in Nat \ {0}
    BY EmptySeq, LenProperties
  <2>2. 1 \in 1..n /\ n \in 1..n
    BY <2>1
  <2>3. SubSeq(b, 1, n) = <<b[1]>> \o r
    BY <2>2, SubSeqRecursiveFirst
  <2>4. SubSeq(b, 1, n) = b
    BY SubSeqFull
  <2>5. r = t
    BY TailIsSubSeq
  <2>6. b[1] = h
    OBVIOUS
  <2> HIDE DEF n, r, t, h
  <2> QED BY <2>3, <2>4, <2>5, <2>6
<1>3. <<h>> \in Seq(T)
  BY <1>1
<1> HIDE DEF h, t
<1>4. Append(a, h) = a \o <<h>> /\ Append(a, h) \in Seq(T)
  BY <1>1, AppendIsConcat, AppendProperties
<1>5. (a \o <<h>>) \o t = a \o (<<h>> \o t)
  BY <1>1, <1>3, ConcatAssociative
<1>6. Append(a, h) \o t = a \o b
  BY <1>2, <1>4, <1>5
<1> QED BY <1>4, <1>6 DEF h, t

\* The ends of a concatenation.
LEMMA ConcatEnds ==
    ASSUME NEW T, NEW a \in Seq(T), NEW b \in Seq(T)
    PROVE  /\ a # <<>> => a \o b # <<>> /\ (a \o b)[1] = a[1]
           /\ b # <<>> => a \o b # <<>> /\ (a \o b)[Len(a \o b)] = b[Len(b)]
           /\ a = <<>> => a \o b = b
           /\ b = <<>> => a \o b = a
<1> DEFINE k == Len(a)
           l == Len(b)
<1>1. k \in Nat /\ l \in Nat
  BY LenProperties
<1>2. Len(a \o b) = k + l /\ \A i \in 1..(k + l) : (a \o b)[i] = IF i <= k THEN a[i] ELSE b[i - k]
  BY ConcatProperties
<1>3. (a # <<>> => k # 0) /\ (b # <<>> => l # 0)
  BY EmptySeq
<1>4. (a # <<>> => a \o b # <<>>) /\ (b # <<>> => a \o b # <<>>)
  BY ConcatEqualIffEmpty
<1> HIDE DEF k, l
<1>5. ASSUME a # <<>> PROVE (a \o b)[1] = a[1]
  <2>1. 1 \in 1..(k + l) /\ 1 <= k
    BY <1>1, <1>3, <1>5
  <2> QED BY <1>2, <2>1
<1>6. ASSUME b # <<>> PROVE (a \o b)[k + l] = b[l]
  <2>1. k + l \in 1..(k + l) /\ ~ (k + l <= k) /\ (k + l) - k = l
    BY <1>1, <1>3, <1>6
  <2> QED BY <1>2, <2>1
<1>7. (a = <<>> => a \o b = b) /\ (b = <<>> => a \o b = a)
  BY ConcatEmptySeq
<1> QED BY <1>2, <1>4, <1>5, <1>6, <1>7 DEF l

\* Two wires in order, one after the other.
LEMMA ConcatInOrder ==
    ASSUME NEW s, NEW f, NEW a \in Seq(ItemType), NEW b \in Seq(ItemType),
           InOrder(s, f, a), InOrder(s, f, b),
           a # <<>> /\ b # <<>> => Follows(s, f, a[Len(a)], b[1])
    PROVE  InOrder(s, f, a \o b)
<1> DEFINE k == Len(a)
           l == Len(b)
           Good(x) == Opening(s, f, x) \/ \E u \in Nat : x = Unit(s, u)
<1>1. k \in Nat /\ l \in Nat
  BY LenProperties
<1>2. Len(a \o b) = k + l /\ \A i \in 1..(k + l) : (a \o b)[i] = IF i <= k THEN a[i] ELSE b[i - k]
  BY ConcatProperties
<1>3. (k # 0 => a # <<>>) /\ (l # 0 => b # <<>>)
  BY EmptySeq
<1>4. (\A i \in 1..k : Good(a[i])) /\ (\A i \in 1..l : Good(b[i]))
  BY DEF InOrder
<1>5. (\A i \in 1..(k - 1) : Follows(s, f, a[i], a[i + 1])) /\ (\A i \in 1..(l - 1) : Follows(s, f, b[i], b[i + 1]))
  BY DEF InOrder
<1>6. k # 0 /\ l # 0 => Follows(s, f, a[k], b[1])
  BY <1>3
<1> HIDE DEF k, l, Good
<1>7. ASSUME NEW i \in 1..(k + l) PROVE Good((a \o b)[i])
  <2>1. CASE i <= k
    <3>1. i \in 1..k
      BY <1>1, <2>1
    <3> QED BY <1>2, <1>4, <2>1, <3>1
  <2>2. CASE ~ (i <= k)
    <3>1. i - k \in 1..l
      BY <1>1, <2>2
    <3> QED BY <1>2, <1>4, <2>2, <3>1
  <2> QED BY <2>1, <2>2
<1>8. ASSUME NEW i \in 1..((k + l) - 1) PROVE Follows(s, f, (a \o b)[i], (a \o b)[i + 1])
  <2>1. i \in 1..(k + l) /\ i + 1 \in 1..(k + l)
    BY <1>1
  <2>2. CASE i < k
    <3>1. i \in 1..(k - 1) /\ i <= k /\ i + 1 <= k
      BY <1>1, <2>2
    <3> QED BY <1>2, <1>5, <2>1, <3>1
  <2>3. CASE i = k
    <3>1. k # 0 /\ l # 0 /\ i <= k /\ ~ (i + 1 <= k) /\ (i + 1) - k = 1
      BY <1>1, <2>3
    <3> QED BY <1>2, <1>6, <2>1, <2>3, <3>1
  <2>4. CASE k < i
    <3>1. ~ (i <= k) /\ ~ (i + 1 <= k) /\ i - k \in 1..(l - 1) /\ (i + 1) - k = (i - k) + 1
      BY <1>1, <2>4
    <3>2. (a \o b)[i] = b[i - k] /\ (a \o b)[i + 1] = b[(i - k) + 1]
      BY <1>2, <2>1, <3>1
    <3> QED BY <1>5, <3>1, <3>2
  <2>5. i < k \/ i = k \/ k < i
    BY <1>1
  <2> QED BY <2>2, <2>3, <2>4, <2>5
<1> QED BY <1>2, <1>7, <1>8 DEF InOrder, Good

\* What is left of a wire in order when its first piece is taken.
LEMMA TailInOrder ==
    ASSUME NEW s, NEW f, NEW q \in Seq(ItemType), q # <<>>, InOrder(s, f, q)
    PROVE  /\ InOrder(s, f, Tail(q))
           /\ Tail(q) # <<>> => Follows(s, f, q[1], Tail(q)[1]) /\ Tail(q)[Len(Tail(q))] = q[Len(q)]
           /\ Tail(q) = <<>> => q[Len(q)] = q[1]
<1> DEFINE n == Len(q)
           t == Tail(q)
           m == Len(t)
           Good(x) == Opening(s, f, x) \/ \E u \in Nat : x = Unit(s, u)
<1>1. n \in Nat \ {0}
  BY EmptySeq, LenProperties
<1>2. t \in Seq(ItemType) /\ m = n - 1 /\ \A i \in 1..m : t[i] = q[i + 1]
  BY HeadTailProperties
<1>3. m # 0 <=> t # <<>>
  BY <1>2, EmptySeq
<1>4. (\A i \in 1..n : Good(q[i])) /\ \A i \in 1..(n - 1) : Follows(s, f, q[i], q[i + 1])
  BY DEF InOrder
<1> HIDE DEF n, t, m, Good
<1>5. ASSUME NEW i \in 1..m PROVE Good(t[i])
  <2>1. i + 1 \in 1..n
    BY <1>1, <1>2
  <2> QED BY <1>2, <1>4, <2>1
<1>6. ASSUME NEW i \in 1..(m - 1) PROVE Follows(s, f, t[i], t[i + 1])
  <2>1. i \in 1..m /\ i + 1 \in 1..m /\ i + 1 \in 1..(n - 1)
    BY <1>1, <1>2
  <2>2. t[i] = q[i + 1] /\ t[i + 1] = q[(i + 1) + 1]
    BY <1>2, <2>1
  <2> QED BY <1>4, <2>1, <2>2
<1>7. ASSUME t # <<>> PROVE Follows(s, f, q[1], t[1]) /\ t[m] = q[n]
  <2>1. 1 \in 1..m /\ m \in 1..m /\ m + 1 = n /\ 1 \in 1..(n - 1)
    BY <1>1, <1>2, <1>3, <1>7
  <2>2. t[1] = q[1 + 1] /\ t[m] = q[m + 1]
    BY <1>2, <2>1
  <2> QED BY <1>4, <2>1, <2>2
<1>8. t = <<>> => n = 1
  BY <1>1, <1>2, <1>3
<1>9. InOrder(s, f, t)
  BY <1>5, <1>6 DEF InOrder, m, Good
<1> QED BY <1>7, <1>8, <1>9 DEF t, m, n
-----------------------------------------------------------------------------
(* What a flow sends. *)

LEMMA Sizes ==
    ASSUME scenario \in Scenarios, NEW s \in Senders
    PROVE  Size(s) \in Nat /\ Iterations \in Nat \ {0}
BY FlowAssumption DEF Size, Iterations, Senders

LEMMA ItemTypes ==
    ASSUME NEW s \in Senders, NEW f \in Flows, Size(s) \in Nat,
           NEW kind \in {"magic", "done"}, NEW o \in Nat, NEW n \in Nat
    PROVE  Header(kind, s, f, o, n) \in ItemType /\ Unit(s, o) \in ItemType
BY DEF Header, Unit, ItemType

\* A sequence that starts with one piece.
LEMMA StartsWith ==
    ASSUME NEW s \in Senders, NEW f \in Flows, NEW h \in ItemType, NEW b \in Seq(ItemType),
           Opening(s, f, h), InOrder(s, f, b), b # <<>> => Follows(s, f, h, b[1])
    PROVE  /\ <<h>> \o b \in Seq(ItemType) /\ <<h>> \o b # <<>> /\ (<<h>> \o b)[1] = h
           /\ InOrder(s, f, <<h>> \o b)
           /\ b # <<>> => (<<h>> \o b)[Len(<<h>> \o b)] = b[Len(b)]
           /\ b = <<>> => <<h>> \o b = <<h>>
<1> DEFINE a == <<h>>
<1>1. a \in Seq(ItemType) /\ a # <<>> /\ Len(a) = 1 /\ a[1] = h
  OBVIOUS
<1> HIDE DEF a
<1>2. InOrder(s, f, a)
  BY <1>1 DEF InOrder
<1>3. b # <<>> => Follows(s, f, a[Len(a)], b[1])
  BY <1>1
<1>4. InOrder(s, f, a \o b)
  BY <1>1, <1>2, <1>3, ConcatInOrder
<1>5. /\ a \o b # <<>> /\ (a \o b)[1] = h
      /\ b # <<>> => (a \o b)[Len(a \o b)] = b[Len(b)]
      /\ b = <<>> => a \o b = a
  BY <1>1, ConcatEnds
<1>6. a \o b \in Seq(ItemType)
  BY <1>1, ConcatProperties
<1> QED BY <1>4, <1>5, <1>6 DEF a

\* What _send_flow sends is a header, and then its part round and round.
LEMMA StaticItemsOk ==
    ASSUME scenario \in Scenarios, Threads, NEW s \in Senders, NEW f \in Flows, NFlows <= Size(s)
    PROVE  /\ StaticItems(s, f) \in Seq(ItemType) /\ StaticItems(s, f) # <<>>
           /\ InOrder(s, f, StaticItems(s, f)) /\ Opening(s, f, StaticItems(s, f)[1])
<1> DEFINE lo == PartStart(Size(s), f)
           n == PartLen(Size(s), f)
           m == Iterations * n
           h == Header("magic", s, f, lo, n)
           g(i) == lo + ((i - 1) % n)
           b == [i \in 1..m |-> Unit(s, g(i))]
<1>1. Size(s) \in Nat /\ Iterations \in Nat \ {0}
  BY Sizes
<1>2. lo \in Nat /\ n \in Nat \ {0}
  BY <1>1, PartBounds
<1>3. h \in ItemType
  BY <1>1, <1>2, ItemTypes
<1>4. Opening(s, f, h)
  BY DEF Opening
<1>5. h.kind = "magic" /\ h.off = lo
  BY DEF Header
<1>6. \A u : LastOf(s, f, u) <=> u + 1 = lo + n
  BY DEF LastOf
<1>7. \A u : Unit(s, u).kind = "unit" /\ Unit(s, u).off = u
  BY DEF Unit
<1>8. StaticItems(s, f) = <<h>> \o b
  BY DEF StaticItems
<1>9. \A u \in Nat : Unit(s, u) \in ItemType
  BY <1>1, ItemTypes
<1>10. m \in Nat \ {0}
  <2> HIDE DEF n
  <2>1. Iterations * n \in Nat /\ Iterations * n >= n
    BY <1>1, <1>2
  <2> QED BY <1>2, <2>1
<1> HIDE DEF lo, n, m, h
<1>11. ASSUME NEW i \in 1..m PROVE g(i) \in Nat
  BY <1>2, DivMod
<1>12. b \in Seq(ItemType) /\ Len(b) = m /\ \A i \in 1..m : b[i] = Unit(s, g(i))
  <2>1. b \in [1..m -> ItemType]
    BY <1>9, <1>11
  <2> QED BY <1>10, <2>1
<1>13. ASSUME NEW i \in 1..(m - 1) PROVE Follows(s, f, b[i], b[i + 1])
  <2>1. i \in 1..m /\ i + 1 \in 1..m /\ i - 1 \in Nat /\ (i - 1) + 1 = i /\ (i + 1) - 1 = i
    BY <1>10
  <2> DEFINE r == (i - 1) % n
             q == i % n
  <2>2. q = IF r = n - 1 THEN 0 ELSE r + 1
    BY <1>2, <2>1, ModStep
  <2>3. r \in 0..(n - 1)
    BY <1>2, <2>1, DivMod
  <2>4. b[i] = Unit(s, lo + r) /\ b[i + 1] = Unit(s, lo + q)
    BY <1>12, <2>1
  <2> HIDE DEF r, q, b
  <2>5. CASE r = n - 1
    <3>1. LastOf(s, f, lo + r) /\ q = 0 /\ lo + q = lo
      BY <1>2, <1>6, <2>2, <2>5
    <3> QED BY <1>7, <2>4, <3>1 DEF Follows, lo
  <2>6. CASE r # n - 1
    <3>1. ~ LastOf(s, f, lo + r) /\ lo + q = (lo + r) + 1
      BY <1>2, <1>6, <2>2, <2>3, <2>6
    <3> QED BY <1>7, <2>4, <3>1 DEF Follows
  <2> QED BY <2>5, <2>6
<1>14. InOrder(s, f, b)
  <2>1. \A i \in 1..m : \E u \in Nat : b[i] = Unit(s, u)
    BY <1>11, <1>12
  <2> HIDE DEF b
  <2> QED BY <1>12, <1>13, <2>1 DEF InOrder
<1>15. Follows(s, f, h, b[1])
  <2>1. 1 \in 1..m /\ (1 - 1) % n = 0 /\ lo + 0 = lo
    BY <1>2, <1>10
  <2>2. b[1] = Unit(s, lo)
    BY <1>12, <2>1
  <2> QED BY <1>5, <2>2 DEF Follows
<1> HIDE DEF b
<1>16. /\ <<h>> \o b \in Seq(ItemType) /\ <<h>> \o b # <<>> /\ (<<h>> \o b)[1] = h
       /\ InOrder(s, f, <<h>> \o b)
  BY <1>3, <1>4, <1>12, <1>14, <1>15, StartsWith
<1> QED BY <1>4, <1>8, <1>16

\* What _send_dynamic_flow sends for a task is a stripe, to its end, or the terminator.
LEMMA TaskItemsOk ==
    ASSUME scenario \in Scenarios, ~ Threads, NEW s \in Senders, NEW f \in Flows, NFlows <= Size(s),
           NEW t \in Nat
    PROVE  /\ TaskItems(s, f, t) \in Seq(ItemType) /\ TaskItems(s, f, t) # <<>>
           /\ InOrder(s, f, TaskItems(s, f, t)) /\ Opening(s, f, TaskItems(s, f, t)[1])
           /\ Closing(s, f, TaskItems(s, f, t)[Len(TaskItems(s, f, t))])
<1>1. Size(s) \in Nat \ {0}
  BY Sizes, FlowAssumption
<1>2. CASE t >= TaskCount(s)
  <2> DEFINE h == Header("done", s, f, 0, 0)
  <2>1. TaskItems(s, f, t) = <<h>>
    BY <1>2 DEF TaskItems
  <2>2. h \in ItemType
    BY <1>1, ItemTypes
  <2>3. Opening(s, f, h)
    BY DEF Opening
  <2>4. Closing(s, f, h)
    BY DEF Closing, Header
  <2> HIDE DEF h
  <2>5. <<h>> \in Seq(ItemType) /\ <<h>> # <<>> /\ Len(<<h>>) = 1 /\ <<h>>[1] = h
    BY <2>2
  <2>6. InOrder(s, f, <<h>>)
    BY <2>3, <2>5 DEF InOrder
  <2> QED BY <2>1, <2>3, <2>4, <2>5, <2>6
<1>3. CASE ~ (t >= TaskCount(s))
  <2> DEFINE z == Size(s)
             k == t % StripeCount(z)
             p == k * StripeUnits
             n == Min({StripeUnits, z - p})
             h == Header("magic", s, f, p, n)
             b == [i \in 1..n |-> Unit(s, p + i - 1)]
  <2>1. TaskItems(s, f, t) = <<h>> \o b
    BY <1>3 DEF TaskItems, StripeLen
  <2>2. p \in 0..(z - 1) /\ p % StripeUnits = 0
    BY <1>1, StripeStart
  <2>3. Opening(s, f, h)
    BY <2>2 DEF Opening
  <2>4. h.kind = "magic" /\ h.off = p
    BY DEF Header
  <2>5. \A u : LastOf(s, f, u) <=> u + 1 = z \/ (u + 1) % StripeUnits = 0
    BY DEF LastOf
  <2>6. \A u : Unit(s, u).kind = "unit" /\ Unit(s, u).off = u
    BY DEF Unit
  <2>7. \A u \in Nat : Unit(s, u) \in ItemType
    BY <1>1, ItemTypes
  <2> HIDE DEF p, z
  <2>8. p \in Nat /\ z \in Nat
    BY <1>1, <2>2 DEF z
  <2>9. /\ n \in Nat \ {0}
        /\ \A i \in 0..(n - 1) : (p + i + 1 = z \/ (p + i + 1) % StripeUnits = 0) <=> i + 1 = n
    <3>1. n = Min({StripeUnits, z - p})
      OBVIOUS
    <3> HIDE DEF n
    <3> QED BY <2>2, <2>8, <3>1, StripeEnd
  <2>11. h \in ItemType
    BY <1>1, <2>8, <2>9, ItemTypes DEF z
  <2> HIDE DEF n, h
  <2>12. ASSUME NEW i \in 1..n
         PROVE  p + i - 1 \in Nat /\ (LastOf(s, f, p + i - 1) <=> i = n)
    <3>1. i - 1 \in 0..(n - 1) /\ (p + i - 1) + 1 = p + (i - 1) + 1 /\ ((i - 1) + 1 = n <=> i = n)
      BY <2>8, <2>9
    <3>2. p + i - 1 \in Nat
      BY <2>8, <2>9
    <3> QED BY <2>5, <2>9, <3>1, <3>2
  <2>13. b \in Seq(ItemType) /\ Len(b) = n /\ \A i \in 1..n : b[i] = Unit(s, p + i - 1)
    <3>1. b \in [1..n -> ItemType]
      BY <2>7, <2>12
    <3> QED BY <2>9, <3>1
  <2> HIDE DEF b
  <2>14. ASSUME NEW i \in 1..(n - 1) PROVE Follows(s, f, b[i], b[i + 1])
    <3>1. i \in 1..n /\ i + 1 \in 1..n /\ i # n /\ p + (i + 1) - 1 = (p + i - 1) + 1
      BY <2>8, <2>9
    <3>2. ~ LastOf(s, f, p + i - 1)
      BY <2>12, <3>1
    <3>3. b[i] = Unit(s, p + i - 1) /\ b[i + 1] = Unit(s, (p + i - 1) + 1)
      BY <2>13, <3>1
    <3> QED BY <2>6, <3>2, <3>3 DEF Follows
  <2>15. InOrder(s, f, b)
    <3>1. \A i \in 1..n : \E u \in Nat : b[i] = Unit(s, u)
      BY <2>12, <2>13
    <3> QED BY <2>13, <2>14, <3>1 DEF InOrder
  <2>16. b # <<>> /\ Follows(s, f, h, b[1]) /\ Closing(s, f, b[n])
    <3>1. 1 \in 1..n /\ n \in 1..n /\ p + 1 - 1 = p
      BY <2>8, <2>9
    <3>2. b[1] = Unit(s, p) /\ b[n] = Unit(s, p + n - 1)
      BY <2>13, <3>1
    <3>3. LastOf(s, f, p + n - 1)
      BY <2>12, <3>1
    <3>4. b # <<>>
      BY <2>9, <2>13, EmptySeq
    <3>5. Follows(s, f, h, b[1])
      BY <2>4, <3>2 DEF Follows
    <3>6. Closing(s, f, b[n])
      BY <2>6, <3>2, <3>3 DEF Closing
    <3> QED BY <3>4, <3>5, <3>6
  <2>17. /\ <<h>> \o b \in Seq(ItemType) /\ <<h>> \o b # <<>> /\ (<<h>> \o b)[1] = h
         /\ InOrder(s, f, <<h>> \o b)
         /\ (<<h>> \o b)[Len(<<h>> \o b)] = b[n]
    <3>1. b # <<>> => Follows(s, f, h, b[1])
      BY <2>16
    <3> QED BY <2>3, <2>11, <2>13, <2>15, <2>16, <3>1, StartsWith
  <2> QED BY <2>1, <2>3, <2>16, <2>17
<1> QED BY <1>2, <1>3
-----------------------------------------------------------------------------
(* The senders' steps. *)

\* How a sender's flow moves on without sending anything.
Moves(a, b) ==
    \/ a = b \/ b \in Ended
    \/ a = "idle" /\ b = "connect"
    \/ a = "barrier" /\ b = "go"
    \/ a = "go" /\ b = "lock" /\ ~ Threads
    \/ a = "lock" /\ b = "fetch"

TxKeeps ==
    /\ tx' \in [Senders -> [Flows -> TxType]]
    /\ \A s \in Senders : \A f \in Flows :
           /\ tx'[s][f].todo = tx[s][f].todo /\ tx'[s][f].took = tx[s][f].took
           /\ Moves(tx[s][f].at, tx'[s][f].at)

SendKeeps ==
    /\ send' \in [Senders -> SendType]
    /\ \A s \in Senders : send'[s].next = send[s].next /\ send'[s].owner = send[s].owner

ConnKeeps == conn \in [Senders -> [Flows -> ConnType]] =>
    /\ conn' \in [Senders -> [Flows -> ConnType]]
    /\ \A s \in Senders : \A f \in Flows :
           conn'[s][f].peer = conn[s][f].peer /\ conn'[s][f].stream = conn[s][f].stream

\* Only the flows of s move, and nobody takes a task.
OnlyFlowsOf(r) ==
    /\ \A s \in Senders : s # r => send'[s].at = send[s].at /\ tx'[s] = tx[s]
    /\ \A f \in Flows : tx'[r][f].at = "fetch" => tx[r][f].at = "fetch" /\ tx'[r][f].task = tx[r][f].task
    /\ IF send'[r].at = "idle" THEN \A f \in Flows : tx'[r][f].at = "idle" ELSE NFlows <= Size(r)

\* One flow's entry changes.
LEMMA UpdateOne ==
    ASSUME NEW T, NEW m \in [Senders -> [Flows -> T]], NEW r \in Senders, NEW g \in Flows, NEW y \in T
    PROVE  /\ [m EXCEPT ![r][g] = y] \in [Senders -> [Flows -> T]]
           /\ \A s \in Senders : \A f \in Flows :
                 [m EXCEPT ![r][g] = y][s][f] = IF s = r /\ f = g THEN y ELSE m[s][f]
OBVIOUS

\* All entries of a sender change.
LEMMA UpdateAll ==
    ASSUME NEW T, NEW m \in [Senders -> [Flows -> T]], NEW r \in Senders, NEW y \in [Flows -> T]
    PROVE  /\ [m EXCEPT ![r] = y] \in [Senders -> [Flows -> T]]
           /\ \A s \in Senders : [m EXCEPT ![r] = y][s] = IF s = r THEN y ELSE m[s]
OBVIOUS

\* A flow, or all flows of a call, change their places.
OneMoves(r, g, x) == tx' = [tx EXCEPT ![r][g].at = x]
AllMove(r, x) == tx' = [tx EXCEPT ![r] = [f \in Flows |-> [tx[r][f] EXCEPT !.at = x[f]]]]

LEMMA TxAt ==
    ASSUME tx \in [Senders -> [Flows -> TxType]], NEW r \in Senders, NEW g \in Flows, NEW x \in TxPlaces,
           OneMoves(r, g, x)
    PROVE  /\ tx' \in [Senders -> [Flows -> TxType]]
           /\ \A s \in Senders : s # r => tx'[s] = tx[s]
           /\ \A s \in Senders : \A f \in Flows :
                 /\ tx'[s][f].todo = tx[s][f].todo /\ tx'[s][f].took = tx[s][f].took
                 /\ tx'[s][f].task = tx[s][f].task
                 /\ tx'[s][f].at = IF s = r /\ f = g THEN x ELSE tx[s][f].at
<1> DEFINE y == [tx[r][g] EXCEPT !.at = x]
<1>1. /\ y \in TxType /\ y.at = x
      /\ y.todo = tx[r][g].todo /\ y.took = tx[r][g].took /\ y.task = tx[r][g].task
  <2>1. tx[r][g] \in TxType
    OBVIOUS
  <2> QED BY <2>1 DEF TxType
<1>2. tx' = [tx EXCEPT ![r][g] = y]
  BY DEF OneMoves
<1> HIDE DEF y
<1>3. /\ tx' \in [Senders -> [Flows -> TxType]]
      /\ \A s \in Senders : \A f \in Flows : tx'[s][f] = IF s = r /\ f = g THEN y ELSE tx[s][f]
  BY <1>1, <1>2, UpdateOne
<1>4. \A s \in Senders : s # r => tx'[s] = tx[s]
  BY <1>2
<1> QED BY <1>1, <1>3, <1>4

LEMMA TxAll ==
    ASSUME tx \in [Senders -> [Flows -> TxType]], NEW r \in Senders, NEW x \in [Flows -> TxPlaces],
           AllMove(r, x)
    PROVE  /\ tx' \in [Senders -> [Flows -> TxType]]
           /\ \A s \in Senders : s # r => tx'[s] = tx[s]
           /\ \A s \in Senders : \A f \in Flows :
                 /\ tx'[s][f].todo = tx[s][f].todo /\ tx'[s][f].took = tx[s][f].took
                 /\ tx'[s][f].task = tx[s][f].task
                 /\ tx'[s][f].at = IF s = r THEN x[f] ELSE tx[s][f].at
<1> DEFINE h == [f \in Flows |-> [tx[r][f] EXCEPT !.at = x[f]]]
<1>1. ASSUME NEW f \in Flows
      PROVE  /\ h[f] \in TxType
             /\ h[f].todo = tx[r][f].todo /\ h[f].took = tx[r][f].took /\ h[f].task = tx[r][f].task /\ h[f].at = x[f]
  <2>1. tx[r][f] \in TxType /\ x[f] \in TxPlaces
    OBVIOUS
  <2>2. h[f] = [tx[r][f] EXCEPT !.at = x[f]]
    OBVIOUS
  <2> QED BY <2>1, <2>2 DEF TxType
<1>2. h \in [Flows -> TxType]
  BY <1>1
<1>3. tx' = [tx EXCEPT ![r] = h]
  BY DEF AllMove
<1> HIDE DEF h
<1>4. tx' \in [Senders -> [Flows -> TxType]] /\ \A s \in Senders : tx'[s] = IF s = r THEN h ELSE tx[s]
  BY <1>2, <1>3, UpdateAll
<1> QED BY <1>1, <1>4

LEMMA EndTxKeeps ==
    ASSUME tx \in [Senders -> [Flows -> TxType]],
           NEW r \in Senders, NEW g \in Flows, NEW how \in Ended, EndTx(r, g, how)
    PROVE  /\ TxKeeps /\ ConnKeeps
           /\ \A s \in Senders : s # r => tx'[s] = tx[s]
           /\ \A f \in Flows : /\ tx'[r][f].task = tx[r][f].task
                               /\ tx'[r][f].at = IF f = g THEN how ELSE tx[r][f].at
<1>1. how \in TxPlaces
  BY DEF TxPlaces
<1>2. OneMoves(r, g, how)
  BY DEF EndTx, OneMoves
<1>3. /\ tx' \in [Senders -> [Flows -> TxType]]
      /\ \A s \in Senders : s # r => tx'[s] = tx[s]
      /\ \A s \in Senders : \A f \in Flows :
            /\ tx'[s][f].todo = tx[s][f].todo /\ tx'[s][f].took = tx[s][f].took
            /\ tx'[s][f].task = tx[s][f].task
            /\ tx'[s][f].at = IF s = r /\ f = g THEN how ELSE tx[s][f].at
  BY <1>1, <1>2, TxAt
<1>4. TxKeeps
  BY <1>3 DEF TxKeeps, Moves
<1>5. ConnKeeps
  <2> SUFFICES ASSUME conn \in [Senders -> [Flows -> ConnType]] PROVE ConnKeeps
    BY DEF ConnKeeps
  <2> DEFINE y == [conn[r][g] EXCEPT !.sock = IF conn[r][g].sock = "open" THEN "closed" ELSE conn[r][g].sock]
  <2>1. y \in ConnType /\ y.peer = conn[r][g].peer /\ y.stream = conn[r][g].stream
    <3>1. conn[r][g] \in ConnType
      OBVIOUS
    <3> QED BY <3>1 DEF ConnType
  <2>2. conn' = [conn EXCEPT ![r][g] = y]
    BY DEF EndTx
  <2> HIDE DEF y
  <2>3. /\ conn' \in [Senders -> [Flows -> ConnType]]
        /\ \A s \in Senders : \A f \in Flows : conn'[s][f] = IF s = r /\ f = g THEN y ELSE conn[s][f]
    BY <2>1, <2>2, UpdateOne
  <2> QED BY <2>1, <2>3 DEF ConnKeeps
<1> QED BY <1>3, <1>4, <1>5

LEMMA TerminateKeeps ==
    ASSUME tx \in [Senders -> [Flows -> TxType]],
           send \in [Senders -> SendType], NEW r \in Senders, NFlows <= Size(r), TerminateWorkers(r)
    PROVE  TxKeeps /\ ConnKeeps /\ SendKeeps /\ OnlyFlowsOf(r)
<1> DEFINE x == [f \in Flows |-> IF tx[r][f].at \in Ended THEN tx[r][f].at ELSE "killed"]
<1>1. x \in [Flows -> TxPlaces] /\ \A f \in Flows : x[f] \in Ended
  BY DEF TxType, TxPlaces, Ended
<1>2. AllMove(r, x)
  BY DEF TerminateWorkers, AllMove
<1> HIDE DEF x
<1>4. /\ tx' \in [Senders -> [Flows -> TxType]]
      /\ \A s \in Senders : s # r => tx'[s] = tx[s]
      /\ \A s \in Senders : \A f \in Flows :
            /\ tx'[s][f].todo = tx[s][f].todo /\ tx'[s][f].took = tx[s][f].took
            /\ tx'[s][f].task = tx[s][f].task
            /\ tx'[s][f].at = IF s = r THEN x[f] ELSE tx[s][f].at
  BY <1>1, <1>2, TxAll
<1>5. TxKeeps
  BY <1>1, <1>4 DEF TxKeeps, Moves
<1>6. SendKeeps /\ send'[r].at = "failed" /\ \A s \in Senders : s # r => send'[s].at = send[s].at
  BY DEF TerminateWorkers, SendKeeps, SendType
<1>7. OnlyFlowsOf(r)
  BY <1>1, <1>4, <1>6 DEF OnlyFlowsOf, Ended
<1>8. ConnKeeps
  <2> SUFFICES ASSUME conn \in [Senders -> [Flows -> ConnType]] PROVE ConnKeeps
    BY DEF ConnKeeps
  <2> DEFINE y == [f \in Flows |-> [conn[r][f] EXCEPT !.sock =
                      IF conn[r][f].sock = "open" THEN "closed" ELSE conn[r][f].sock]]
  <2>1. ASSUME NEW f \in Flows
        PROVE  y[f] \in ConnType /\ y[f].peer = conn[r][f].peer /\ y[f].stream = conn[r][f].stream
    <3>1. conn[r][f] \in ConnType
      OBVIOUS
    <3> QED BY <3>1 DEF ConnType
  <2>2. y \in [Flows -> ConnType]
    BY <2>1
  <2>3. conn' = [conn EXCEPT ![r] = y]
    BY DEF TerminateWorkers
  <2> HIDE DEF y
  <2>4. conn' \in [Senders -> [Flows -> ConnType]] /\ \A s \in Senders : conn'[s] = IF s = r THEN y ELSE conn[s]
    BY <2>2, <2>3, UpdateAll
  <2> QED BY <2>1, <2>4 DEF ConnKeeps
<1> QED BY <1>5, <1>6, <1>7, <1>8
-----------------------------------------------------------------------------
(* next_task *)

LEMMA TaskKept ==
    ASSUME TaskInv, scenario' = scenario, SendKeeps, tx' \in [Senders -> [Flows -> TxType]],
           \A s \in Senders : \A f \in Flows : tx'[s][f].took = tx[s][f].took,
           \A s \in Senders : \A f \in Flows : TxOk(tx'[s][f]),
           NEW r \in Senders, OnlyFlowsOf(r)
    PROVE  TaskInv'
<1>1. (\A s \in Senders : Size(s)' = Size(s)) /\ (\A x : TxOk(x)' <=> TxOk(x))
  BY DEF Size, TxOk, Threads
<1>2. SenderTypes'
  <2>1. scenario' \in Scenarios /\ send' \in [Senders -> SendType]
    BY DEF TaskInv, SenderTypes, SendKeeps
  <2>2. ASSUME NEW s \in Senders
        PROVE  IF send'[s].at = "idle" THEN \A f \in Flows : tx'[s][f].at = "idle" ELSE NFlows <= Size(s)
    BY DEF TaskInv, SenderTypes, OnlyFlowsOf
  <2> QED BY <1>1, <2>1, <2>2 DEF SenderTypes
<1>3. TasksHandedOutOnce'
  <2>1. ASSUME NEW s \in Senders
        PROVE  /\ \A f, g \in Flows : f # g => tx'[s][f].took \cap tx'[s][g].took = {}
               /\ UNION {tx'[s][f].took : f \in Flows} = 0..(send'[s].next - 1)
    <3>1. {tx'[s][f].took : f \in Flows} = {tx[s][f].took : f \in Flows}
      OBVIOUS
    <3>2. send'[s].next = send[s].next
      BY DEF SendKeeps
    <3>3. \A f, g \in Flows : f # g => tx[s][f].took \cap tx[s][g].took = {}
      BY DEF TaskInv, TasksHandedOutOnce
    <3>4. UNION {tx[s][f].took : f \in Flows} = 0..(send[s].next - 1)
      BY DEF TaskInv, TasksHandedOutOnce
    <3>5. UNION {tx'[s][f].took : f \in Flows} = 0..(send'[s].next - 1)
      BY <3>1, <3>2, <3>4
    <3>6. \A f \in Flows : tx'[s][f].took = tx[s][f].took
      OBVIOUS
    <3>7. \A f, g \in Flows : f # g => tx'[s][f].took \cap tx'[s][g].took = {}
      BY <3>3, <3>6
    <3> QED BY <3>5, <3>7
  <2> QED BY <2>1 DEF TasksHandedOutOnce
<1>4. ASSUME NEW s \in Senders, NEW f \in Flows, tx'[s][f].at = "fetch"
      PROVE  send'[s].owner = f /\ tx'[s][f].task = send'[s].next
  <2>1. tx[s][f].at = "fetch" /\ tx'[s][f].task = tx[s][f].task
    BY <1>4 DEF OnlyFlowsOf
  <2>2. send'[s].owner = send[s].owner /\ send'[s].next = send[s].next
    BY DEF SendKeeps
  <2> QED BY <2>1, <2>2 DEF TaskInv
<1> QED BY <1>2, <1>3, <1>4 DEF TaskInv

LEMMA TaskKeeps ==
    ASSUME TaskInv, scenario' = scenario, SendKeeps, TxKeeps, NEW r \in Senders, OnlyFlowsOf(r)
    PROVE  TaskInv'
<1>1. ASSUME NEW s \in Senders, NEW f \in Flows
      PROVE  tx'[s][f].took = tx[s][f].took /\ TxOk(tx'[s][f])
  <2>1. /\ tx'[s][f].todo = tx[s][f].todo /\ (tx'[s][f].at = "send" => tx[s][f].at = "send")
        /\ tx'[s][f].at \in {"lock", "fetch"} => tx[s][f].at \in {"lock", "fetch"} \/ ~ Threads
    BY DEF TxKeeps, Moves, Ended
  <2> QED BY <2>1 DEF TxKeeps, TaskInv, SenderTypes, TxOk
<1> QED BY <1>1, TaskKept DEF TxKeeps

\* The caller's steps.
LEMMA MainKeeps ==
    ASSUME TaskInv, NEW r \in Senders, SenderMain(r) \/ StartSend(r)
    PROVE  /\ TxKeeps /\ SendKeeps /\ ConnKeeps /\ OnlyFlowsOf(r)
           /\ UNCHANGED <<scenario, queue, listening, recvVars, local, kills>>
<1>1. send \in [Senders -> SendType] /\ tx \in [Senders -> [Flows -> TxType]] /\ scenario \in Scenarios
  BY DEF TaskInv, SenderTypes
<1>2. IF send[r].at = "idle" THEN \A f \in Flows : tx[r][f].at = "idle" ELSE NFlows <= Size(r)
  BY DEF TaskInv, SenderTypes
<1>3. ASSUME UNCHANGED <<tx, conn>>, send' \in [Senders -> SendType],
             \A s \in Senders : send'[s].next = send[s].next /\ send'[s].owner = send[s].owner,
             send[r].at # "idle", send'[r].at # "idle", \A s \in Senders : s # r => send'[s].at = send[s].at
      PROVE  TxKeeps /\ SendKeeps /\ ConnKeeps /\ OnlyFlowsOf(r)
  BY <1>1, <1>2, <1>3 DEF TxKeeps, SendKeeps, Moves, ConnKeeps, OnlyFlowsOf
<1>4. CASE StartSend(r)
  <2> DEFINE x == [f \in Flows |-> "connect"]
  <2>1. x \in [Flows -> TxPlaces] /\ AllMove(r, x)
    BY <1>4 DEF StartSend, AllMove, TxPlaces
  <2>2. NFlows <= Size(r)
    BY <1>1, <1>4, FlowAssumption DEF StartSend, Size, Senders
  <2>3. \A f \in Flows : x[f] = "connect" /\ tx[r][f].at = "idle"
    BY <1>2, <1>4 DEF StartSend
  <2> HIDE DEF x
  <2>4. /\ tx' \in [Senders -> [Flows -> TxType]]
        /\ \A s \in Senders : s # r => tx'[s] = tx[s]
        /\ \A s \in Senders : \A f \in Flows :
              /\ tx'[s][f].todo = tx[s][f].todo /\ tx'[s][f].took = tx[s][f].took
              /\ tx'[s][f].task = tx[s][f].task
              /\ tx'[s][f].at = IF s = r THEN x[f] ELSE tx[s][f].at
    BY <1>1, <2>1, TxAll
  <2>5. SendKeeps /\ send'[r].at = "barrier" /\ \A s \in Senders : s # r => send'[s].at = send[s].at
    BY <1>1, <1>4 DEF StartSend, SendKeeps, SendType
  <2>6. TxKeeps
    BY <2>3, <2>4 DEF TxKeeps, Moves
  <2>7. OnlyFlowsOf(r)
    BY <2>2, <2>3, <2>4, <2>5 DEF OnlyFlowsOf
  <2> QED BY <1>4, <2>5, <2>6, <2>7 DEF StartSend, ConnKeeps, netVars, recvVars
<1>5. CASE BarrierTrips(r)
  <2> DEFINE x == [f \in Flows |-> "go"]
  <2>1. x \in [Flows -> TxPlaces] /\ AllMove(r, x)
    BY <1>5 DEF BarrierTrips, AllMove, TxPlaces
  <2>2. NFlows <= Size(r)
    BY <1>2, <1>5 DEF BarrierTrips
  <2>3. \A f \in Flows : x[f] = "go" /\ tx[r][f].at = "barrier"
    BY <1>5 DEF BarrierTrips
  <2> HIDE DEF x
  <2>4. /\ tx' \in [Senders -> [Flows -> TxType]]
        /\ \A s \in Senders : s # r => tx'[s] = tx[s]
        /\ \A s \in Senders : \A f \in Flows :
              /\ tx'[s][f].todo = tx[s][f].todo /\ tx'[s][f].took = tx[s][f].took
              /\ tx'[s][f].task = tx[s][f].task
              /\ tx'[s][f].at = IF s = r THEN x[f] ELSE tx[s][f].at
    BY <1>1, <2>1, TxAll
  <2>5. SendKeeps /\ send'[r].at = "released" /\ \A s \in Senders : s # r => send'[s].at = send[s].at
    BY <1>1, <1>5 DEF BarrierTrips, SendKeeps, SendType
  <2>6. TxKeeps
    BY <2>3, <2>4 DEF TxKeeps, Moves
  <2>7. OnlyFlowsOf(r)
    BY <2>2, <2>3, <2>4, <2>5 DEF OnlyFlowsOf
  <2> QED BY <1>5, <2>5, <2>6, <2>7 DEF BarrierTrips, ConnKeeps, netVars, recvVars
<1>6. CASE TerminateWorkers(r) /\ send[r].at # "idle" /\ UNCHANGED <<scenario, queue, listening, recvVars, local, kills>>
  BY <1>1, <1>2, <1>6, TerminateKeeps
<1>7. CASE BarrierBreaks(r)
  <2>1. /\ UNCHANGED <<tx, conn>> /\ send' \in [Senders -> SendType]
        /\ \A s \in Senders : send'[s].next = send[s].next /\ send'[s].owner = send[s].owner
        /\ send[r].at # "idle" /\ send'[r].at # "idle" /\ \A s \in Senders : s # r => send'[s].at = send[s].at
    BY <1>1, <1>7 DEF BarrierBreaks, SendType, netVars
  <2> QED BY <1>3, <1>7, <2>1 DEF BarrierBreaks, netVars
<1>8. CASE SetGo(r)
  <2>1. /\ UNCHANGED <<tx, conn>> /\ send' \in [Senders -> SendType]
        /\ \A s \in Senders : send'[s].next = send[s].next /\ send'[s].owner = send[s].owner
        /\ send[r].at # "idle" /\ send'[r].at # "idle" /\ \A s \in Senders : s # r => send'[s].at = send[s].at
    BY <1>1, <1>8 DEF SetGo, SendType, netVars
  <2> QED BY <1>3, <1>8, <2>1 DEF SetGo, netVars
<1>9. CASE SendRaises(r)
  <2>1. CASE Threads
    <3>1. /\ UNCHANGED <<tx, conn>> /\ send' \in [Senders -> SendType]
          /\ \A s \in Senders : send'[s].next = send[s].next /\ send'[s].owner = send[s].owner
          /\ send[r].at # "idle" /\ send'[r].at # "idle" /\ \A s \in Senders : s # r => send'[s].at = send[s].at
      <4>1. send' = [send EXCEPT ![r].at = "failing"] /\ UNCHANGED <<tx, conn>> /\ send[r].at # "idle"
        BY <1>9, <2>1 DEF SendRaises
      <4> QED BY <1>1, <4>1 DEF SendType
    <3> QED BY <1>3, <1>9, <3>1 DEF SendRaises
  <2>2. CASE ~ Threads
    BY <1>6, <1>9, <2>2 DEF SendRaises
  <2> QED BY <2>1, <2>2
<1>10. CASE CollectThreads(r)
  <2> DEFINE y == IF send[r].at = "collect" /\ \A f \in Flows : tx[r][f].at = "done" THEN "ok" ELSE "failed"
  <2>1. y \in {"ok", "failed"} /\ send' = [send EXCEPT ![r].at = y]
    BY <1>10 DEF CollectThreads
  <2> HIDE DEF y
  <2>2. /\ send' \in [Senders -> SendType]
        /\ \A s \in Senders : send'[s].next = send[s].next /\ send'[s].owner = send[s].owner
        /\ send'[r].at # "idle" /\ \A s \in Senders : s # r => send'[s].at = send[s].at
    BY <1>1, <2>1 DEF SendType
  <2>3. UNCHANGED <<tx, conn>> /\ send[r].at # "idle"
    BY <1>10 DEF CollectThreads, netVars
  <2> QED BY <1>3, <1>10, <2>2, <2>3 DEF CollectThreads, netVars
<1>11. CASE CollectEnd(r)
  <2> DEFINE y == IF (\A f \in Flows : tx[r][f].at = "done") /\ SentUnits(r) = Size(r) * Iterations
                  THEN "ok" ELSE "failed"
  <2>1. y \in {"ok", "failed"} /\ send' = [send EXCEPT ![r].at = y]
    BY <1>11 DEF CollectEnd
  <2> HIDE DEF y
  <2>2. /\ send' \in [Senders -> SendType]
        /\ \A s \in Senders : send'[s].next = send[s].next /\ send'[s].owner = send[s].owner
        /\ send'[r].at # "idle" /\ \A s \in Senders : s # r => send'[s].at = send[s].at
    BY <1>1, <2>1 DEF SendType
  <2>3. UNCHANGED <<tx, conn>> /\ send[r].at # "idle"
    BY <1>11 DEF CollectEnd, netVars
  <2> QED BY <1>3, <1>11, <2>2, <2>3 DEF CollectEnd, netVars
<1>12. CASE CollectMessage(r)
  <2>1. CASE TerminateWorkers(r)
    BY <1>6, <1>12, <2>1 DEF CollectMessage
  <2>2. CASE send' = [send EXCEPT ![r].read = @ + 1] /\ UNCHANGED <<tx, conn>>
    <3>1. /\ send' \in [Senders -> SendType]
          /\ \A s \in Senders : send'[s].next = send[s].next /\ send'[s].owner = send[s].owner
          /\ send'[r].at = send[r].at /\ \A s \in Senders : s # r => send'[s].at = send[s].at
      <4> DEFINE y == [send[r] EXCEPT !.read = send[r].read + 1]
      <4>1. y \in SendType /\ y.next = send[r].next /\ y.owner = send[r].owner /\ y.at = send[r].at
        <5>1. send[r] \in SendType /\ send[r].read + 1 \in Nat
          BY <1>1 DEF SendType
        <5> QED BY <5>1 DEF SendType
      <4>2. send' = [send EXCEPT ![r] = y]
        BY <2>2
      <4> HIDE DEF y
      <4> QED BY <1>1, <4>1, <4>2
    <3>2. send[r].at # "idle"
      BY <1>12 DEF CollectMessage
    <3> QED BY <1>3, <1>12, <2>2, <3>1, <3>2 DEF CollectMessage
  <2> QED BY <1>12, <2>1, <2>2 DEF CollectMessage
<1> QED BY <1>4, <1>5, <1>7, <1>8, <1>9, <1>10, <1>11, <1>12 DEF SenderMain

\* A flow that fails or is killed.
FlowEnds(r, g) == ConnectFails(r, g) \/ BarrierRaises(r, g) \/ SendFails(r, g) \/ KillWorker(r, g)

LEMMA EndsKeeps ==
    ASSUME TaskInv, NEW r \in Senders, NEW g \in Flows, FlowEnds(r, g)
    PROVE  /\ TxKeeps /\ SendKeeps /\ ConnKeeps /\ OnlyFlowsOf(r)
           /\ UNCHANGED <<scenario, send, queue, listening, recvVars, local>>
<1>1. send \in [Senders -> SendType] /\ tx \in [Senders -> [Flows -> TxType]] /\ scenario \in Scenarios
  BY DEF TaskInv, SenderTypes
<1>2. IF send[r].at = "idle" THEN \A f \in Flows : tx[r][f].at = "idle" ELSE NFlows <= Size(r)
  BY DEF TaskInv, SenderTypes
<1>3. /\ EndTx(r, g, "failed") \/ EndTx(r, g, "killed") \/ EndTx(r, g, "asleep")
      /\ tx[r][g].at # "idle" /\ UNCHANGED <<scenario, send, queue, listening, recvVars, local>>
  BY DEF FlowEnds, ConnectFails, BarrierRaises, SendFails, KillWorker
<1>4. PICK how \in {"failed", "killed", "asleep"} : EndTx(r, g, how)
  BY <1>3
<1>5. how \in Ended /\ how # "fetch"
  BY DEF Ended
<1>6. /\ TxKeeps /\ ConnKeeps
      /\ \A s \in Senders : s # r => tx'[s] = tx[s]
      /\ \A f \in Flows : /\ tx'[r][f].task = tx[r][f].task
                          /\ tx'[r][f].at = IF f = g THEN how ELSE tx[r][f].at
  BY <1>1, <1>4, <1>5, EndTxKeeps
<1>7. SendKeeps
  BY <1>1, <1>3 DEF SendKeeps
<1>8. OnlyFlowsOf(r)
  BY <1>2, <1>3, <1>5, <1>6 DEF OnlyFlowsOf
<1> QED BY <1>3, <1>6, <1>7, <1>8

\* The steps in which a flow goes on.
LEMMA GoesOn ==
    ASSUME TaskInv, NEW r \in Senders, NEW g \in Flows,
           Connect(r, g) \/ Go(r, g) \/ SendItem(r, g)
    PROVE  TaskInv'
<1>1. send \in [Senders -> SendType] /\ tx \in [Senders -> [Flows -> TxType]] /\ scenario \in Scenarios
  BY DEF TaskInv, SenderTypes
<1>2. IF send[r].at = "idle" THEN \A f \in Flows : tx[r][f].at = "idle" ELSE NFlows <= Size(r)
  BY DEF TaskInv, SenderTypes
<1>3. tx[r][g] \in TxType /\ tx[r][g].at # "idle" /\ UNCHANGED <<scenario, send>>
  BY <1>1 DEF Connect, Go, SendItem
<1>4. send[r].at # "idle" /\ NFlows <= Size(r)
  BY <1>2, <1>3
<1>5. ASSUME NEW y \in TxType, tx' = [tx EXCEPT ![r][g] = y], y.took = tx[r][g].took, y.at # "fetch", TxOk(y)
      PROVE  TaskInv'
  <2>1. /\ tx' \in [Senders -> [Flows -> TxType]]
        /\ \A s \in Senders : \A f \in Flows : tx'[s][f] = IF s = r /\ f = g THEN y ELSE tx[s][f]
    BY <1>1, <1>5, UpdateOne
  <2>2. \A s \in Senders : s # r => tx'[s] = tx[s]
    BY <1>1, <1>5
  <2>3. OnlyFlowsOf(r)
    BY <1>3, <1>4, <1>5, <2>1, <2>2 DEF OnlyFlowsOf
  <2>4. SendKeeps
    BY <1>1, <1>3 DEF SendKeeps
  <2>5. \A s \in Senders : \A f \in Flows : tx'[s][f].took = tx[s][f].took
    BY <1>5, <2>1
  <2>6. \A s \in Senders : \A f \in Flows : TxOk(tx'[s][f])
    BY <1>5, <2>1 DEF TaskInv, SenderTypes
  <2> QED BY <1>3, <2>1, <2>3, <2>4, <2>5, <2>6, TaskKept
<1>6. CASE Connect(r, g)
  <2> DEFINE y == [tx[r][g] EXCEPT !.at = "barrier"]
  <2>1. y \in TxType /\ y.took = tx[r][g].took /\ y.at # "fetch" /\ TxOk(y)
    BY <1>3 DEF TxType, TxPlaces, TxOk
  <2>2. tx' = [tx EXCEPT ![r][g] = y]
    BY <1>6 DEF Connect
  <2> HIDE DEF y
  <2> QED BY <1>5, <2>1, <2>2
<1>7. CASE Go(r, g) /\ ~ Threads
  <2> DEFINE y == [tx[r][g] EXCEPT !.at = "lock"]
  <2>1. y \in TxType /\ y.took = tx[r][g].took /\ y.at # "fetch" /\ TxOk(y)
    BY <1>3, <1>7 DEF TxType, TxPlaces, TxOk
  <2>2. tx' = [tx EXCEPT ![r][g] = y]
    BY <1>7 DEF Go
  <2> HIDE DEF y
  <2> QED BY <1>5, <2>1, <2>2
<1>8. CASE Go(r, g) /\ Threads
  <2> DEFINE y == [tx[r][g] EXCEPT !.at = "send", !.todo = StaticItems(r, g)]
  <2>1. StaticItems(r, g) \in Seq(ItemType) /\ StaticItems(r, g) # <<>>
    BY <1>1, <1>4, <1>8, StaticItemsOk
  <2>2. y \in TxType /\ y.took = tx[r][g].took /\ y.at # "fetch" /\ TxOk(y)
    BY <1>3, <2>1 DEF TxType, TxPlaces, TxOk
  <2>3. tx' = [tx EXCEPT ![r][g] = y]
    BY <1>8 DEF Go
  <2> HIDE DEF y
  <2> QED BY <1>5, <2>2, <2>3
<1>9. CASE SendItem(r, g)
  <2> DEFINE item == Head(tx[r][g].todo)
             last == Len(tx[r][g].todo) = 1
             ends == last /\ (Threads \/ item.kind = "done")
             a == IF ends THEN "done" ELSE IF last THEN "lock" ELSE tx[r][g].at
             w == Tail(tx[r][g].todo)
             y == [tx[r][g] EXCEPT !.todo = w, !.at = a]
  <2>1. tx' = [tx EXCEPT ![r][g].todo = w, ![r][g].at = a] /\ tx[r][g].at = "send"
    BY <1>9 DEF SendItem
  <2>2. tx[r][g].todo \in Seq(ItemType) /\ tx[r][g].todo # <<>>
    BY <1>3, <2>1 DEF TxType, TaskInv, SenderTypes, TxOk
  <2>3. w \in Seq(ItemType) /\ (~ last => w # <<>>)
    <3> DEFINE n == Len(tx[r][g].todo)
               m == Len(w)
    <3>1. n \in Nat \ {0}
      BY <2>2, EmptySeq, LenProperties
    <3>2. w \in Seq(ItemType) /\ m = n - 1
      BY <2>2, HeadTailProperties
    <3>3. w = <<>> => m = 0
      BY <3>2, EmptySeq
    <3>4. last <=> n = 1
      OBVIOUS
    <3> HIDE DEF n, m, w, last
    <3> QED BY <3>1, <3>2, <3>3, <3>4
  <2>4. a \in TxPlaces /\ a # "fetch" /\ (a = "send" => ~ last) /\ (a = "lock" => ~ Threads)
    BY <2>1 DEF TxPlaces, Ended
  <2> HIDE DEF a, w, last
  <2>5. /\ y \in TxType /\ y.took = tx[r][g].took /\ y.at # "fetch"
        /\ TxOk(y)
    BY <1>3, <2>3, <2>4 DEF TxType, TxOk
  <2>6. tx' = [tx EXCEPT ![r][g] = y]
    BY <2>1
  <2> HIDE DEF y
  <2> QED BY <1>5, <2>5, <2>6
<1> QED BY <1>6, <1>7, <1>8, <1>9

\* The counter is read under its lock.
LEMMA LockTaskStep ==
    ASSUME TaskInv, NEW r \in Senders, NEW g \in Flows, LockTask(r, g)
    PROVE  TaskInv' /\ TxKeeps
<1>1. send \in [Senders -> SendType] /\ tx \in [Senders -> [Flows -> TxType]] /\ scenario \in Scenarios
  BY DEF TaskInv, SenderTypes
<1> DEFINE y == [tx[r][g] EXCEPT !.at = "fetch", !.task = send[r].next]
           z == [send[r] EXCEPT !.owner = g]
<1>2. /\ y \in TxType /\ y.at = "fetch" /\ y.task = send[r].next
      /\ y.took = tx[r][g].took /\ y.todo = tx[r][g].todo
  <2>1. tx[r][g] \in TxType /\ send[r].next \in Nat
    BY <1>1 DEF SendType
  <2> QED BY <2>1 DEF TxType, TxPlaces
<1>3. z \in SendType /\ z.owner = g /\ z.next = send[r].next /\ z.at = send[r].at
  <2>1. send[r] \in SendType
    BY <1>1
  <2> QED BY <2>1 DEF SendType
<1>4. /\ tx' = [tx EXCEPT ![r][g] = y] /\ send' = [send EXCEPT ![r] = z] /\ scenario' = scenario
      /\ tx[r][g].at = "lock" /\ send[r].owner = None
  BY DEF LockTask
<1> HIDE DEF y, z
<1>5. /\ tx' \in [Senders -> [Flows -> TxType]]
      /\ \A s \in Senders : \A f \in Flows : tx'[s][f] = IF s = r /\ f = g THEN y ELSE tx[s][f]
  BY <1>1, <1>2, <1>4, UpdateOne
<1>6. send' \in [Senders -> SendType] /\ \A s \in Senders : send'[s] = IF s = r THEN z ELSE send[s]
  BY <1>1, <1>3, <1>4
<1>7. TxKeeps
  BY <1>2, <1>4, <1>5 DEF TxKeeps, Moves
<1>8. SenderTypes'
  <2>1. ASSUME NEW s \in Senders
        PROVE  IF send'[s].at = "idle" THEN \A f \in Flows : tx'[s][f].at = "idle" ELSE NFlows <= Size(s)
    <3>1. send'[s].at = send[s].at
      BY <1>3, <1>6
    <3>2. send[r].at # "idle"
      BY <1>4 DEF TaskInv, SenderTypes
    <3>3. \A f \in Flows : s # r => tx'[s][f].at = tx[s][f].at
      BY <1>5
    <3> QED BY <3>1, <3>2, <3>3 DEF TaskInv, SenderTypes
  <2>2. \A s \in Senders : \A f \in Flows : TxOk(tx'[s][f])
    <3>1. TxOk(y)
      BY <1>2, <1>4 DEF TaskInv, SenderTypes, TxOk
    <3> QED BY <1>5, <3>1 DEF TaskInv, SenderTypes
  <2>3. (\A s \in Senders : Size(s)' = Size(s)) /\ (\A x : TxOk(x)' <=> TxOk(x))
    BY <1>4 DEF Size, TxOk, Threads
  <2> QED BY <1>1, <1>4, <1>5, <1>6, <2>1, <2>2, <2>3 DEF SenderTypes
<1>9. TasksHandedOutOnce'
  <2>1. ASSUME NEW s \in Senders
        PROVE  /\ \A f, h \in Flows : f # h => tx'[s][f].took \cap tx'[s][h].took = {}
               /\ UNION {tx'[s][f].took : f \in Flows} = 0..(send'[s].next - 1)
    <3>1. \A f \in Flows : tx'[s][f].took = tx[s][f].took
      BY <1>2, <1>5
    <3>2. {tx'[s][f].took : f \in Flows} = {tx[s][f].took : f \in Flows}
      BY <3>1
    <3>3. send'[s].next = send[s].next
      BY <1>3, <1>6
    <3>4. \A f, h \in Flows : f # h => tx[s][f].took \cap tx[s][h].took = {}
      BY DEF TaskInv, TasksHandedOutOnce
    <3>5. UNION {tx[s][f].took : f \in Flows} = 0..(send[s].next - 1)
      BY DEF TaskInv, TasksHandedOutOnce
    <3>6. UNION {tx'[s][f].took : f \in Flows} = 0..(send'[s].next - 1)
      BY <3>2, <3>3, <3>5
    <3>7. \A f, h \in Flows : f # h => tx'[s][f].took \cap tx'[s][h].took = {}
      BY <3>1, <3>4
    <3> QED BY <3>6, <3>7
  <2> QED BY <2>1 DEF TasksHandedOutOnce
<1>10. ASSUME NEW s \in Senders, NEW f \in Flows, tx'[s][f].at = "fetch"
       PROVE  send'[s].owner = f /\ tx'[s][f].task = send'[s].next
  <2>1. CASE s = r /\ f = g
    BY <1>2, <1>3, <1>5, <1>6, <2>1
  <2>2. CASE s = r /\ f # g
    <3>1. tx[s][f].at = "fetch"
      BY <1>5, <1>10, <2>2
    <3>2. send[r].owner = f
      BY <2>2, <3>1 DEF TaskInv
    <3> QED BY <1>4, <3>2, FlowAssumption DEF Flows
  <2>3. CASE s # r
    <3>1. tx[s][f].at = "fetch" /\ tx'[s][f] = tx[s][f] /\ send'[s] = send[s]
      BY <1>5, <1>6, <1>10, <2>3
    <3> QED BY <3>1 DEF TaskInv
  <2> QED BY <2>1, <2>2, <2>3
<1> QED BY <1>7, <1>8, <1>9, <1>10 DEF TaskInv

\* The counter is counted on, and the task is the flow's own.
LEMMA FetchTaskStep ==
    ASSUME TaskInv, NEW r \in Senders, NEW g \in Flows, FetchTask(r, g)
    PROVE  TaskInv'
<1>1. send \in [Senders -> SendType] /\ tx \in [Senders -> [Flows -> TxType]] /\ scenario \in Scenarios
  BY DEF TaskInv, SenderTypes
<1> DEFINE t == tx[r][g].task
           y == [tx[r][g] EXCEPT !.at = "send", !.took = tx[r][g].took \cup {t}, !.todo = TaskItems(r, g, t)]
           z == [send[r] EXCEPT !.next = t + 1, !.owner = None]
<1>2. tx[r][g].at = "fetch" /\ tx[r][g] \in TxType /\ t \in Nat /\ send[r].owner = g /\ t = send[r].next
  BY <1>1 DEF TaskInv, FetchTask, TxType
<1>3. send[r].at # "idle" /\ NFlows <= Size(r)
  BY <1>2 DEF TaskInv, SenderTypes
<1>4. TaskItems(r, g, t) \in Seq(ItemType) /\ TaskItems(r, g, t) # <<>>
  <2>1. ~ Threads
    BY <1>2 DEF TaskInv, SenderTypes, TxOk
  <2> QED BY <2>1, <1>1, <1>2, <1>3, TaskItemsOk
<1>5. y \in TxType /\ y.at = "send" /\ y.took = tx[r][g].took \cup {t} /\ y.todo # <<>>
  BY <1>2, <1>4 DEF TxType, TxPlaces
<1>6. z \in SendType /\ z.next = t + 1 /\ z.at = send[r].at
  <2> DEFINE w == t + 1
  <2>1. send[r] \in SendType /\ w \in Nat
    BY <1>1, <1>2
  <2>2. z = [send[r] EXCEPT !.next = w, !.owner = None]
    OBVIOUS
  <2> HIDE DEF w, z
  <2>3. z \in SendType /\ z.next = w /\ z.at = send[r].at
    BY <2>1, <2>2 DEF SendType
  <2> QED BY <2>3 DEF w
<1>7. tx' = [tx EXCEPT ![r][g] = y] /\ send' = [send EXCEPT ![r] = z] /\ scenario' = scenario
  BY DEF FetchTask
<1> HIDE DEF y, z, t
<1>8. /\ tx' \in [Senders -> [Flows -> TxType]]
      /\ \A s \in Senders : \A f \in Flows : tx'[s][f] = IF s = r /\ f = g THEN y ELSE tx[s][f]
  BY <1>1, <1>5, <1>7, UpdateOne
<1>9. send' \in [Senders -> SendType] /\ \A s \in Senders : send'[s] = IF s = r THEN z ELSE send[s]
  BY <1>1, <1>6, <1>7
<1>10. SenderTypes'
  <2>1. ASSUME NEW s \in Senders
        PROVE  IF send'[s].at = "idle" THEN \A f \in Flows : tx'[s][f].at = "idle" ELSE NFlows <= Size(s)
    <3>1. send'[s].at = send[s].at
      BY <1>6, <1>9
    <3>2. \A f \in Flows : s # r => tx'[s][f].at = tx[s][f].at
      BY <1>8
    <3> QED BY <1>3, <3>1, <3>2 DEF TaskInv, SenderTypes
  <2>2. \A s \in Senders : \A f \in Flows : TxOk(tx'[s][f])
    <3>1. TxOk(y)
      BY <1>5 DEF TxOk
    <3> QED BY <1>8, <3>1 DEF TaskInv, SenderTypes
  <2>3. (\A s \in Senders : Size(s)' = Size(s)) /\ (\A x : TxOk(x)' <=> TxOk(x))
    BY <1>7 DEF Size, TxOk, Threads
  <2> QED BY <1>1, <1>7, <1>8, <1>9, <2>1, <2>2, <2>3 DEF SenderTypes
<1>11. TasksHandedOutOnce'
  <2>1. ASSUME NEW s \in Senders
        PROVE  /\ \A f, h \in Flows : f # h => tx'[s][f].took \cap tx'[s][h].took = {}
               /\ UNION {tx'[s][f].took : f \in Flows} = 0..(send'[s].next - 1)
    <3>1. \A f, h \in Flows : f # h => tx[s][f].took \cap tx[s][h].took = {}
      BY DEF TaskInv, TasksHandedOutOnce
    <3>2. UNION {tx[s][f].took : f \in Flows} = 0..(send[s].next - 1)
      BY DEF TaskInv, TasksHandedOutOnce
    <3>3. CASE s # r
      <4>1. (\A f \in Flows : tx'[s][f].took = tx[s][f].took) /\ send'[s].next = send[s].next
        BY <1>8, <1>9, <3>3
      <4>2. {tx'[s][f].took : f \in Flows} = {tx[s][f].took : f \in Flows}
        BY <4>1
      <4>3. UNION {tx'[s][f].took : f \in Flows} = 0..(send'[s].next - 1)
        BY <3>2, <4>1, <4>2
      <4>4. \A f, h \in Flows : f # h => tx'[s][f].took \cap tx'[s][h].took = {}
        BY <3>1, <4>1
      <4> QED BY <4>3, <4>4
    <3>4. CASE s = r
      <4>1. \A f \in Flows : tx'[s][f].took = IF f = g THEN tx[s][f].took \cup {t} ELSE tx[s][f].took
        BY <1>5, <1>8, <3>4
      <4>2. \A f \in Flows : t \notin tx[s][f].took
        <5>1. t \notin 0..(send[s].next - 1)
          BY <1>2, <3>4
        <5> QED BY <3>2, <5>1
      <4>3. \A f, h \in Flows : f # h => tx'[s][f].took \cap tx'[s][h].took = {}
        BY <3>1, <4>1, <4>2
      <4>4. UNION {tx'[s][f].took : f \in Flows} = (UNION {tx[s][f].took : f \in Flows}) \cup {t}
        BY <4>1
      <4>5. (0..(send[s].next - 1)) \cup {t} = 0..(send'[s].next - 1)
        <5>1. send[s].next = t /\ send'[s].next = t + 1
          BY <1>2, <1>6, <1>9, <3>4
        <5>2. (0..(t - 1)) \cup {t} = 0..((t + 1) - 1)
          BY <1>2
        <5> QED BY <5>1, <5>2
      <4>6. UNION {tx'[s][f].took : f \in Flows} = 0..(send'[s].next - 1)
        BY <3>2, <4>4, <4>5
      <4> QED BY <4>3, <4>6
    <3> QED BY <3>3, <3>4
  <2> QED BY <2>1 DEF TasksHandedOutOnce
<1>12. ASSUME NEW s \in Senders, NEW f \in Flows, tx'[s][f].at = "fetch"
       PROVE  send'[s].owner = f /\ tx'[s][f].task = send'[s].next
  <2>1. ~ (s = r /\ f = g)
    BY <1>5, <1>8, <1>12
  <2>2. CASE s = r
    <3>1. tx[s][f].at = "fetch"
      BY <1>8, <1>12, <2>1
    <3>2. send[r].owner = f
      BY <2>2, <3>1 DEF TaskInv
    <3> QED BY <1>2, <2>1, <2>2, <3>2
  <2>3. CASE s # r
    <3>1. tx[s][f].at = "fetch" /\ tx'[s][f] = tx[s][f] /\ send'[s] = send[s]
      BY <1>8, <1>9, <1>12, <2>3
    <3> QED BY <3>1 DEF TaskInv
  <2> QED BY <2>2, <2>3
<1> QED BY <1>10, <1>11, <1>12 DEF TaskInv

\* Steps of the receiver and of transfer_tensor_local leave the senders alone.
SendersRest == UNCHANGED <<scenario, send, tx>>

LEMMA OthersRest ==
    ASSUME Next
    PROVE  \/ \E s \in Senders : SenderMain(s) \/ StartSend(s)
           \/ \E s \in Senders : \E f \in Flows : SenderFlow(s, f) \/ KillWorker(s, f)
           \/ SendersRest
<1>1. ASSUME NEW f \in Flows, ReceiverFlow(f) \/ KillFlow(f) PROVE SendersRest
  BY <1>1 DEF ReceiverFlow, KillFlow, Accept, AcceptTimesOut, ReadHeader, ReadStatic, ReadDynamic,
              PeerClosed, LockPlaced, Place, Copy, SendersRest
<1>2. ASSUME ReceiverMain PROVE SendersRest
  BY <1>2 DEF ReceiverMain, Listen, StartReceive, PreparedTrips, ReceiveRaises, ReceiveReturns,
              ReceiveMessage, OrphansEnd, SendersRest
<1>3. ASSUME LocalStarts \/ LocalReturns \/ LocalGivesUp PROVE SendersRest
  BY <1>3 DEF LocalStarts, LocalReturns, LocalGivesUp, SendersRest
<1>4. "local" \in Senders /\ "rival" \in Senders
  BY DEF Senders
<1> QED BY <1>1, <1>2, <1>3, <1>4 DEF Next, Progress, LocalMain

LEMMA TaskInit == Init => TaskInv
<1> SUFFICES ASSUME Init PROVE TaskInv
  OBVIOUS
<1>1. /\ send = [s \in Senders |->
               [at |-> "idle", broken |-> FALSE, next |-> 0, owner |-> None, read |-> 0]]
      /\ tx = [s \in Senders |-> [f \in Flows |->
               [at |-> "idle", todo |-> <<>>, task |-> 0, took |-> {}]]]
      /\ scenario \in Scenarios
  BY DEF Init, SenderInit
<1>2. send \in [Senders -> SendType]
  BY <1>1 DEF SendType
<1>3. tx \in [Senders -> [Flows -> TxType]]
  BY <1>1 DEF TxType, TxPlaces
<1>4. \A s \in Senders : \A f \in Flows : tx[s][f].at = "idle" /\ tx[s][f].took = {}
  BY <1>1
<1>5. \A s \in Senders : send[s].at = "idle" /\ send[s].next = 0
  BY <1>1
<1>6. SenderTypes
  BY <1>1, <1>2, <1>3, <1>4, <1>5 DEF SenderTypes, TxOk
<1>7. TasksHandedOutOnce
  <2>1. ASSUME NEW s \in Senders
        PROVE  /\ \A f, g \in Flows : f # g => tx[s][f].took \cap tx[s][g].took = {}
               /\ UNION {tx[s][f].took : f \in Flows} = 0..(send[s].next - 1)
    <3>1. UNION {tx[s][f].took : f \in Flows} = {}
      BY <1>4
    <3>2. 0..(send[s].next - 1) = {}
      BY <1>5
    <3> QED BY <1>4, <3>1, <3>2
  <2> QED BY <2>1 DEF TasksHandedOutOnce
<1> QED BY <1>4, <1>6, <1>7 DEF TaskInv

LEMMA TaskNext == TaskInv /\ [Next]_vars => TaskInv'
<1> SUFFICES ASSUME TaskInv, [Next]_vars PROVE TaskInv'
  OBVIOUS
<1>1. CASE SendersRest \/ UNCHANGED vars
  <2>1. UNCHANGED <<scenario, send, tx>>
    BY <1>1 DEF SendersRest, vars
  <2> QED BY <2>1 DEF TaskInv, SenderTypes, TasksHandedOutOnce, TxOk, Size, Threads
<1>2. ASSUME NEW s \in Senders, SenderMain(s) \/ StartSend(s) PROVE TaskInv'
  BY <1>2, MainKeeps, TaskKeeps
<1>3. ASSUME NEW s \in Senders, NEW f \in Flows, SenderFlow(s, f) \/ KillWorker(s, f) PROVE TaskInv'
  <2>1. CASE FlowEnds(s, f)
    BY <2>1, EndsKeeps, TaskKeeps
  <2>2. CASE Connect(s, f) \/ Go(s, f) \/ SendItem(s, f)
    BY <2>2, GoesOn
  <2>3. CASE LockTask(s, f)
    BY <2>3, LockTaskStep
  <2>4. CASE FetchTask(s, f)
    BY <2>4, FetchTaskStep
  <2> QED BY <1>3, <2>1, <2>2, <2>3, <2>4 DEF SenderFlow, FlowEnds
<1> QED BY <1>1, <1>2, <1>3, OthersRest

\* Who has read the shared counter of _send_dynamic_flow has its lock, and the
\* counter has not moved since; the tasks taken are those it has counted.
THEOREM TaskInvHolds == Spec => []TaskInv
BY TaskInit, TaskNext, PTL DEF Spec

\* next_task.value hands every task out once, also when workers are killed with
\* its lock.
THEOREM TasksHandedOutOnceHolds == Spec => []TasksHandedOutOnce
<1>1. TaskInv => TasksHandedOutOnce
  BY DEF TaskInv
<1> QED BY <1>1, TaskInvHolds, PTL
-----------------------------------------------------------------------------
(* Wires. *)

\* The scenario does not change, and with it what a wire may carry.
LEMMA SameScene ==
    ASSUME scenario' = scenario
    PROVE  /\ Threads' <=> Threads
           /\ \A s : Size(s)' = Size(s)
           /\ \A s, f, t, c, x : WireOk(s, f, t, c, x)' <=> WireOk(s, f, t, c, x)
           /\ \A f, x, d : FlowOk(f, x, d)' <=> FlowOk(f, x, d)
<1>1. (Threads' <=> Threads) /\ (\A s : Size(s)' = Size(s)) /\ Iterations' = Iterations
  BY DEF Threads, Size, Iterations
<1>2. ASSUME NEW s, NEW f, NEW b PROVE Opening(s, f, b)' <=> Opening(s, f, b)
  <2>1. \A kind, o, n : Header(kind, s, f, o, n)' = Header(kind, s, f, o, n)
    BY <1>1 DEF Header
  <2>2. Size(s)' = Size(s)
    BY <1>1
  <2> QED BY <1>1, <2>1, <2>2 DEF Opening
<1>3. ASSUME NEW s, NEW f, NEW u PROVE LastOf(s, f, u)' <=> LastOf(s, f, u)
  <2>1. Size(s)' = Size(s)
    BY <1>1
  <2> QED BY <1>1, <2>1 DEF LastOf
<1>4. ASSUME NEW s, NEW f, NEW a, NEW b PROVE Follows(s, f, a, b)' <=> Follows(s, f, a, b)
  <2>1. Size(s)' = Size(s)
    BY <1>1
  <2> QED BY <1>1, <1>2, <1>3, <2>1 DEF Follows
<1>5. ASSUME NEW s, NEW f, NEW q PROVE InOrder(s, f, q)' <=> InOrder(s, f, q)
  BY <1>2, <1>4 DEF InOrder
<1>6. ASSUME NEW s, NEW f, NEW b PROVE Closing(s, f, b)' <=> Closing(s, f, b)
  BY <1>3 DEF Closing
<1>7. ASSUME NEW f, NEW x PROVE NextUnit(f, x)' = NextUnit(f, x)
  BY <1>1 DEF NextUnit
<1>8. ASSUME NEW s, NEW f, NEW x, NEW b PROVE Expected(s, f, x, b)' <=> Expected(s, f, x, b)
  BY <1>2, <1>7 DEF Expected
<1>9. ASSUME NEW s, NEW f, NEW at, NEW x, NEW q PROVE WireGood(s, f, at, x, q)' <=> WireGood(s, f, at, x, q)
  BY <1>1, <1>5, <1>6, <1>8 DEF WireGood
<1>10. ASSUME NEW s, NEW f, NEW t, NEW c, NEW x PROVE WireOk(s, f, t, c, x)' <=> WireOk(s, f, t, c, x)
  BY <1>9 DEF WireOk
<1>11. ASSUME NEW f, NEW x, NEW d PROVE FlowOk(f, x, d)' <=> FlowOk(f, x, d)
  <2>1. PartOk(f, x, d)' <=> PartOk(f, x, d)
    BY <1>1 DEF PartOk
  <2>2. Size(x.tid)' = Size(x.tid)
    BY <1>1
  <2> QED BY <1>1, <2>1, <2>2 DEF FlowOk
<1> QED BY <1>1, <1>10, <1>11

\* A sender that moves on without sending, and a receiver that reads as before,
\* unless the connection is closed.
LEMMA WireKept ==
    ASSUME NEW s, NEW f, NEW t, NEW c, NEW x, WireOk(s, f, t, c, x),
           NEW tt, NEW cc, NEW xx, cc.stream = c.stream, tt.todo = t.todo, Moves(t.at, tt.at),
           cc.peer = c.peer \/ (c.peer # "none" /\ cc.peer = "closed"),
           xx.at \in Busy /\ xx.from = s => x.at \in Busy /\ x.from = s /\ cc.peer = c.peer,
           cc.peer = c.peer => /\ Reading(s, xx) <=> Reading(s, x)
                               /\ Reading(s, x) => NextUnit(f, xx) = NextUnit(f, x)
    PROVE  WireOk(s, f, tt, cc, xx)
<1> DEFINE q == c.stream \o t.todo
<1>1. cc.stream \o tt.todo = q
  OBVIOUS
<1>2. c.peer # "closed" => WireGood(s, f, t.at, x, q)
  BY DEF WireOk
<1> HIDE DEF q
<1>3. ASSUME cc.peer # "closed" PROVE WireGood(s, f, tt.at, xx, q)
  <2>1. cc.peer = c.peer /\ WireGood(s, f, t.at, x, q)
    BY <1>2, <1>3
  <2>2. q # <<>> => Expected(s, f, xx, q[1])
    BY <2>1 DEF WireGood, Expected
  <2>3. tt.at \notin Ended => t.at \notin Ended
    BY DEF Moves, Ended
  <2>4. tt.at \in {"lock", "fetch"} => t.at \in {"lock", "fetch"} \/ q = <<>>
    <3>1. t.at = "go" => q = <<>>
      <4>1. t.at = "go" => c.stream = <<>> /\ t.todo = <<>>
        BY DEF WireOk
      <4>2. <<>> \o <<>> = <<>>
        OBVIOUS
      <4> QED BY <4>1, <4>2 DEF q
    <3> QED BY <3>1 DEF Moves, Ended
  <2> QED BY <2>1, <2>2, <2>3, <2>4 DEF WireGood
<1>4. tt.at \in {"idle", "connect"} => cc.peer = "none"
  <2>1. tt.at \in {"idle", "connect"} => t.at \in {"idle", "connect"}
    BY DEF Moves, Ended
  <2> QED BY <2>1 DEF WireOk
<1>5. tt.at \in {"idle", "connect", "barrier", "go"} => cc.stream = <<>> /\ tt.todo = <<>>
  <2>1. tt.at \in {"idle", "connect", "barrier", "go"} => t.at \in {"idle", "connect", "barrier", "go"}
    BY DEF Moves, Ended
  <2> QED BY <2>1 DEF WireOk
<1>6. tt.at \in {"lock", "fetch"} => tt.todo = <<>>
  <2>1. tt.at \in {"lock", "fetch"} => t.at \in {"go", "lock", "fetch"}
    BY DEF Moves, Ended
  <2> QED BY <2>1 DEF WireOk
<1>7. xx.at \in Busy /\ xx.from = s => cc.peer = "accepted"
  BY DEF WireOk
<1> QED BY <1>1, <1>3, <1>4, <1>5, <1>6, <1>7 DEF WireOk

\* A connection is made.
LEMMA WireConnect ==
    ASSUME NEW s \in Senders, NEW f \in Flows, NEW t, NEW c, NEW x, WireOk(s, f, t, c, x), t.at = "connect",
           NEW tt, NEW cc, tt.at = "barrier", tt.todo = t.todo, cc.stream = c.stream, cc.peer = "backlog"
    PROVE  WireOk(s, f, tt, cc, x)
<1>1. c.peer = "none" /\ c.stream = <<>> /\ t.todo = <<>>
  BY DEF WireOk
<1>2. ~ (x.at \in Busy /\ x.from = s)
  BY <1>1 DEF WireOk
<1>3. WireGood(s, f, t.at, x, c.stream \o t.todo)
  BY <1>1 DEF WireOk
<1>4. c.stream \o t.todo = <<>> /\ cc.stream \o tt.todo = <<>>
  <2>1. <<>> \o <<>> = <<>>
    OBVIOUS
  <2> QED BY <1>1, <2>1
<1>5. ~ Reading(s, x)
  BY <1>2 DEF Reading, Busy
<1>6. WireGood(s, f, tt.at, x, <<>>)
  BY <1>3, <1>4, <1>5 DEF WireGood
<1> QED BY <1>1, <1>2, <1>4, <1>6 DEF WireOk

\* What a flow of threads, or a task, puts on the wire.
LEMMA WireFilled ==
    ASSUME NEW s \in Senders, NEW f \in Flows, NEW t, NEW c, NEW x, WireOk(s, f, t, c, x),
           c.stream \in Seq(ItemType), t.at \in {"go", "fetch"},
           NEW tt, NEW w \in Seq(ItemType), tt.at = "send", tt.todo = w,
           w # <<>>, InOrder(s, f, w), Opening(s, f, w[1]), ~ Threads => Closing(s, f, w[Len(w)]),
           t.at = "fetch" => ~ Threads
    PROVE  WireOk(s, f, tt, c, x)
<1> DEFINE a == c.stream
<1>1. t.todo = <<>> /\ (t.at = "go" => a = <<>>)
  BY DEF WireOk
<1>2. a \o t.todo = a
  BY <1>1, ConcatEmptySeq
<1>3. ASSUME c.peer # "closed" PROVE WireGood(s, f, tt.at, x, a \o w)
  <2>1. WireGood(s, f, t.at, x, a)
    BY <1>2, <1>3 DEF WireOk
  <2>2. a # <<>> => Follows(s, f, a[Len(a)], w[1])
    <3> SUFFICES ASSUME a # <<>> PROVE Follows(s, f, a[Len(a)], w[1])
      OBVIOUS
    <3>1. t.at = "fetch" /\ ~ Threads
      BY <1>1
    <3>2. Closing(s, f, a[Len(a)]) /\ a[Len(a)].kind = "unit"
      BY <2>1, <3>1 DEF WireGood, Ended
    <3> QED BY <3>1, <3>2 DEF Closing, Follows
  <2>3. InOrder(s, f, a)
    BY <2>1 DEF WireGood
  <2>4. InOrder(s, f, a \o w)
    BY <2>2, <2>3, ConcatInOrder
  <2>5. /\ a # <<>> => (a \o w)[1] = a[1]
        /\ a \o w # <<>> /\ (a \o w)[Len(a \o w)] = w[Len(w)]
        /\ a = <<>> => a \o w = w
    BY ConcatEnds
  <2>6. Expected(s, f, x, (a \o w)[1])
    <3>1. CASE a # <<>>
      BY <2>1, <2>5, <3>1 DEF WireGood
    <3>2. CASE a = <<>>
      <4>1. ~ Reading(s, x)
        BY <2>1, <3>2 DEF WireGood, Ended
      <4> QED BY <2>5, <3>2, <4>1 DEF Expected
    <3> QED BY <3>1, <3>2
  <2> QED BY <2>4, <2>5, <2>6 DEF WireGood
<1> QED BY <1>3 DEF WireOk

\* A piece is sent, or lost because the other end is gone.
LEMMA WireSend ==
    ASSUME NEW s \in Senders, NEW f \in Flows, NEW t, NEW c, NEW x, WireOk(s, f, t, c, x), TxOk(t),
           c.stream \in Seq(ItemType), t.todo \in Seq(ItemType), t.at = "send",
           NEW tt, NEW cc, tt.todo = Tail(t.todo), cc.peer = c.peer,
           c.peer # "closed" => cc.stream = Append(c.stream, Head(t.todo)),
           tt.at = IF Len(t.todo) = 1 /\ (Threads \/ Head(t.todo).kind = "done") THEN "done"
                   ELSE IF Len(t.todo) = 1 THEN "lock" ELSE "send"
    PROVE  WireOk(s, f, tt, cc, x)
<1> DEFINE a == c.stream
           b == t.todo
           h == Head(b)
           q == a \o b
<1>1. b # <<>>
  BY DEF TxOk
<1>2. Append(a, h) \in Seq(ItemType) /\ Append(a, h) \o Tail(b) = q
  BY <1>1, MoveHead
<1>3. q # <<>> /\ q[Len(q)] = b[Len(b)]
  BY <1>1, ConcatEnds
<1>4. Len(b) = 1 => b[Len(b)] = h /\ Tail(b) = <<>>
  <2> DEFINE m == Len(Tail(b))
             n == Len(b)
  <2>1. Tail(b) \in Seq(ItemType) /\ m = n - 1
    BY <1>1, HeadTailProperties
  <2>2. n = 1 => m = 0
    BY <2>1
  <2>3. m = 0 => Tail(b) = <<>>
    BY <2>1, EmptySeq
  <2> QED BY <2>2, <2>3
<1>5. (tt.at = "lock" => Len(b) = 1 /\ ~ Threads /\ h.kind # "done") /\ tt.at \in {"done", "lock", "send"}
  OBVIOUS
<1>6. tt.at \in {"lock", "fetch"} => tt.todo = <<>>
  BY <1>4, <1>5
<1>7. ASSUME c.peer # "closed" PROVE WireGood(s, f, tt.at, x, cc.stream \o tt.todo)
  <2>1. cc.stream \o tt.todo = q
    BY <1>2, <1>7
  <2>2. WireGood(s, f, t.at, x, q)
    BY <1>7 DEF WireOk
  <2> HIDE DEF q
  <2>3. ~ Threads => Closing(s, f, q[Len(q)])
    BY <1>3, <2>2 DEF WireGood, Ended
  <2>4. tt.at = "lock" => q[Len(q)].kind = "unit"
    BY <1>3, <1>4, <1>5, <2>3 DEF Closing
  <2> QED BY <1>3, <1>5, <2>1, <2>2, <2>3, <2>4 DEF WireGood
<1>8. x.at \in Busy /\ x.from = s => cc.peer = "accepted"
  BY DEF WireOk
<1> QED BY <1>5, <1>6, <1>7, <1>8 DEF WireOk

\* A connection is accepted.
LEMMA WireAccept ==
    ASSUME NEW s, NEW f, NEW t, NEW c, NEW x, WireOk(s, f, t, c, x), c.peer = "backlog", x.at \notin Busy,
           NEW cc, NEW xx, cc.stream = c.stream, cc.peer = "accepted", xx.at = "header"
    PROVE  WireOk(s, f, t, cc, xx)
<1>1. WireGood(s, f, t.at, x, c.stream \o t.todo)
  BY DEF WireOk
<1>2. ~ Reading(s, x) /\ ~ Reading(s, xx)
  BY DEF Reading, Busy
<1> DEFINE q == c.stream \o t.todo
<1> HIDE DEF q
<1>3. WireGood(s, f, t.at, xx, q)
  BY <1>1, <1>2 DEF q, WireGood, Expected
<1>4. cc.stream \o t.todo = q
  BY DEF q
<1> QED BY <1>3, <1>4 DEF WireOk

\* A receiver that has to do with another connection.
LEMMA WireOther ==
    ASSUME NEW s, NEW f, NEW t, NEW c, NEW x, WireOk(s, f, t, c, x),
           NEW xx, x.from # s \/ x.at \notin Busy, xx.from # s \/ xx.at \notin Busy
    PROVE  WireOk(s, f, t, c, xx)
<1>1. ~ Reading(s, x) /\ ~ Reading(s, xx)
  BY DEF Reading, Busy
<1> DEFINE q == c.stream \o t.todo
<1>2. c.peer # "closed" => WireGood(s, f, t.at, x, q)
  BY DEF WireOk
<1> HIDE DEF q
<1>3. c.peer # "closed" => WireGood(s, f, t.at, xx, q)
  BY <1>1, <1>2 DEF WireGood, Expected
<1> QED BY <1>3 DEF WireOk, q

\* A connection that its receiver closes.
LEMMA WireClosed ==
    ASSUME NEW s, NEW f, NEW t, NEW c, NEW x, WireOk(s, f, t, c, x), c.peer # "none", TxOk(t),
           NEW cc, NEW xx, cc.peer = "closed", xx.at \notin Busy, c.stream = <<>> => cc.stream = <<>>
    PROVE  WireOk(s, f, t, cc, xx)
BY DEF WireOk

\* The first piece of what was sent.
LEMMA WireHead ==
    ASSUME NEW s, NEW f, NEW t, NEW c, NEW x, WireOk(s, f, t, c, x),
           c.stream \in Seq(ItemType), c.stream # <<>>, t.todo \in Seq(ItemType), x.at \in Busy, x.from = s
    PROVE  c.peer = "accepted" /\ Head(c.stream) \in ItemType /\ Expected(s, f, x, Head(c.stream))
<1>1. c.peer = "accepted"
  BY DEF WireOk
<1>2. WireGood(s, f, t.at, x, c.stream \o t.todo)
  BY <1>1 DEF WireOk
<1>3. c.stream \o t.todo # <<>> /\ (c.stream \o t.todo)[1] = c.stream[1]
  BY ConcatEnds
<1>4. Expected(s, f, x, c.stream[1])
  BY <1>2, <1>3 DEF WireGood
<1>5. c.stream[1] = Head(c.stream) /\ Head(c.stream) \in ItemType
  BY HeadTailProperties
<1> QED BY <1>1, <1>4, <1>5

\* The first piece is received, and the next one is what is expected then.
LEMMA WireTaken ==
    ASSUME NEW s, NEW f, NEW t, NEW c, NEW x, WireOk(s, f, t, c, x), TxOk(t), t.at \in TxPlaces,
           c.stream \in Seq(ItemType), c.stream # <<>>, t.todo \in Seq(ItemType), x.at \in Busy, x.from = s,
           NEW cc, NEW xx, cc.stream = Tail(c.stream), cc.peer = c.peer,
           \A b : Follows(s, f, Head(c.stream), b) => Expected(s, f, xx, b),
           ~ Threads /\ Closing(s, f, Head(c.stream)) => ~ Reading(s, xx)
    PROVE  WireOk(s, f, t, cc, xx)
<1> DEFINE a == c.stream
           q == a \o t.todo
<1>1. c.peer = "accepted"
  BY DEF WireOk
<1>2. WireGood(s, f, t.at, x, q)
  BY <1>1 DEF WireOk
<1>3. q # <<>> /\ Tail(q) = Tail(a) \o t.todo /\ Head(q) = Head(a)
  BY TailConcat
<1>4. q \in Seq(ItemType)
  BY ConcatProperties
<1>5. InOrder(s, f, q)
  BY <1>2 DEF WireGood
<1> DEFINE r == Tail(q)
<1>6. q[1] = Head(q)
  <2>1. q[1] = a[1]
    BY ConcatEnds
  <2>2. a[1] = Head(a)
    OBVIOUS
  <2> QED BY <1>3, <2>1, <2>2
<1>7. cc.stream \o t.todo = r
  BY <1>3
<1> HIDE DEF q
<1>8. /\ InOrder(s, f, r)
      /\ r # <<>> => Follows(s, f, q[1], r[1]) /\ r[Len(r)] = q[Len(q)]
      /\ r = <<>> => q[Len(q)] = q[1]
  BY <1>3, <1>4, <1>5, TailInOrder
<1>9. r # <<>> => Expected(s, f, xx, r[1])
  BY <1>3, <1>6, <1>8
<1>10. t.at \notin {"idle", "connect", "barrier", "go"}
  BY DEF WireOk
<1>11. r = <<>> /\ t.at \notin Ended => ~ Reading(s, xx)
  <2> SUFFICES ASSUME r = <<>>, t.at \notin Ended PROVE ~ Reading(s, xx)
    OBVIOUS
  <2>1. CASE Threads
    <3>1. t.at = "send"
      BY <1>10, <2>1 DEF TxOk, TxPlaces
    <3>2. t.todo # <<>>
      BY <3>1 DEF TxOk
    <3>3. Tail(a) \in Seq(ItemType)
      BY HeadTailProperties
    <3>4. Tail(a) \o t.todo # <<>>
      BY <3>2, <3>3, ConcatEnds
    <3> QED BY <1>3, <3>4
  <2>2. CASE ~ Threads
    <3>1. Closing(s, f, q[Len(q)])
      BY <1>2, <1>3, <2>2 DEF WireGood
    <3> QED BY <1>3, <1>6, <1>8, <2>2, <3>1
  <2> QED BY <2>1, <2>2
<1>12. r # <<>> /\ ~ Threads /\ t.at \notin Ended => Closing(s, f, r[Len(r)])
  BY <1>2, <1>3, <1>8 DEF WireGood
<1>13. r # <<>> /\ t.at \in {"lock", "fetch"} => r[Len(r)].kind = "unit"
  BY <1>2, <1>3, <1>8 DEF WireGood
<1> HIDE DEF r
<1>14. WireGood(s, f, t.at, xx, r)
  BY <1>8, <1>9, <1>11, <1>12, <1>13 DEF WireGood
<1>15. t.at \in {"lock", "fetch"} => t.todo = <<>>
  BY DEF WireOk
<1> QED BY <1>1, <1>7, <1>10, <1>14, <1>15 DEF WireOk
-----------------------------------------------------------------------------
(* The senders' steps, seen from the receiver. *)

\* A step that leaves the receiver alone.
LEMMA ReceiverRests ==
    ASSUME TransferInv, scenario' = scenario, UNCHANGED recvVars,
           conn' \in [Senders -> [Flows -> ConnType]], queue' \in [Flows -> Seq(Senders)],
           WireInv', QueueInv', local' = "ok" => recv = "ok"
    PROVE  TransferInv'
<1>1. UNCHANGED <<recv, rx, placed, dest>>
  BY DEF recvVars
<1>2. ReceiverTypes'
  BY <1>1 DEF TransferInv, ReceiverTypes
<1>3. FlowInv'
  BY <1>1, SameScene DEF TransferInv, FlowInv
<1>4. ~ Threads' => PlacedInv'
  <2>1. PlacedInv' <=> PlacedInv
    BY <1>1 DEF PlacedInv, Copied, Stripe
  <2>2. Threads' <=> Threads
    BY SameScene
  <2> QED BY <2>1, <2>2 DEF TransferInv
<1>5. recv' = "listen" => \A f \in Flows : rx'[f].at = "idle"
  BY <1>1 DEF TransferInv
<1>6. recv' = "ok" => (\E s \in Senders : Whole(s)') /\ \A f \in Flows : rx'[f].at = "done"
  <2>1. \A s : Whole(s)' <=> Whole(s)
    BY <1>1 DEF Whole
  <2> QED BY <1>1, <2>1 DEF TransferInv
<1> QED BY <1>1, <1>2, <1>3, <1>4, <1>5, <1>6 DEF TransferInv

LEMMA SenderKeepsTransfer ==
    ASSUME TaskInv, TransferInv, TxKeeps, ConnKeeps,
           UNCHANGED <<scenario, queue, recvVars>>, local' = "ok" => recv = "ok"
    PROVE  TransferInv'
<1>1. conn \in [Senders -> [Flows -> ConnType]] /\ queue \in [Flows -> Seq(Senders)]
  BY DEF TransferInv, ReceiverTypes
<1>2. /\ conn' \in [Senders -> [Flows -> ConnType]]
      /\ \A s \in Senders : \A f \in Flows :
            conn'[s][f].peer = conn[s][f].peer /\ conn'[s][f].stream = conn[s][f].stream
  BY <1>1 DEF ConnKeeps
<1>3. UNCHANGED <<rx, queue>>
  BY DEF recvVars
<1>4. WireInv'
  <2>1. ASSUME NEW s \in Senders, NEW f \in Flows
        PROVE  WireOk(s, f, tx'[s][f], conn'[s][f], rx'[f])
    <3>1. WireOk(s, f, tx[s][f], conn[s][f], rx[f])
      BY DEF TransferInv, WireInv
    <3>2. tx'[s][f].todo = tx[s][f].todo /\ Moves(tx[s][f].at, tx'[s][f].at)
      BY DEF TxKeeps
    <3>3. conn'[s][f].peer = conn[s][f].peer /\ conn'[s][f].stream = conn[s][f].stream /\ rx'[f] = rx[f]
      BY <1>2, <1>3
    <3> DEFINE t == tx[s][f]
               tt == tx'[s][f]
               c == conn[s][f]
               cc == conn'[s][f]
               x == rx[f]
    <3>4. /\ WireOk(s, f, t, c, x) /\ cc.stream = c.stream /\ tt.todo = t.todo /\ Moves(t.at, tt.at)
          /\ cc.peer = c.peer /\ rx'[f] = x
      BY <3>1, <3>2, <3>3
    <3> HIDE DEF t, tt, c, cc, x
    <3>5. WireOk(s, f, tt, cc, x)
      BY <3>4, WireKept
    <3> QED BY <3>4, <3>5 DEF tt, cc
  <2> QED BY <2>1, SameScene DEF WireInv
<1>5. QueueInv'
  <2>1. ASSUME NEW f \in Flows, rx[f].at \in Early, NEW i \in 1..Len(queue[f])
        PROVE  conn'[queue[f][i]][f].peer = "backlog"
    <3>1. queue[f][i] \in Senders
      BY <1>1, ElementOfSeq
    <3> QED BY <1>2, <2>1, <3>1 DEF TransferInv, QueueInv
  <2> QED BY <1>3, <2>1 DEF QueueInv
<1> QED BY <1>1, <1>2, <1>3, <1>4, <1>5, ReceiverRests

\* A step of one flow that changes its own end.
LEMMA OneWire ==
    ASSUME TransferInv, scenario' = scenario, rx' = rx, NEW r \in Senders, NEW g \in Flows,
           WireOk(r, g, tx'[r][g], conn'[r][g], rx[g]),
           \A s \in Senders : \A f \in Flows : ~ (s = r /\ f = g) => tx'[s][f] = tx[s][f] /\ conn'[s][f] = conn[s][f]
    PROVE  WireInv'
<1>1. ASSUME NEW s \in Senders, NEW f \in Flows
      PROVE  WireOk(s, f, tx'[s][f], conn'[s][f], rx'[f])
  <2>1. CASE s = r /\ f = g
    BY <2>1
  <2>2. CASE ~ (s = r /\ f = g)
    <3>1. tx'[s][f] = tx[s][f] /\ conn'[s][f] = conn[s][f]
      BY <2>2
    <3>2. WireOk(s, f, tx[s][f], conn[s][f], rx[f])
      BY DEF TransferInv, WireInv
    <3> QED BY <3>1, <3>2
  <2> QED BY <2>1, <2>2
<1> QED BY <1>1, SameScene DEF WireInv

LEMMA ConnectStep ==
    ASSUME TaskInv, TransferInv, NEW r \in Senders, NEW g \in Flows, Connect(r, g)
    PROVE  TransferInv'
<1>1. /\ conn \in [Senders -> [Flows -> ConnType]] /\ queue \in [Flows -> Seq(Senders)]
      /\ tx \in [Senders -> [Flows -> TxType]]
  BY DEF TransferInv, ReceiverTypes, TaskInv, SenderTypes
<1> DEFINE y == [tx[r][g] EXCEPT !.at = "barrier"]
           c == [conn[r][g] EXCEPT !.sock = "open", !.peer = "backlog"]
           q == Append(queue[g], r)
<1>2. y \in TxType /\ y.at = "barrier" /\ y.todo = tx[r][g].todo
  <2>1. tx[r][g] \in TxType
    BY <1>1
  <2> QED BY <2>1 DEF TxType, TxPlaces
<1>3. c \in ConnType /\ c.peer = "backlog" /\ c.stream = conn[r][g].stream
  <2>1. conn[r][g] \in ConnType
    BY <1>1
  <2> QED BY <2>1 DEF ConnType
<1>4. /\ tx' = [tx EXCEPT ![r][g] = y] /\ conn' = [conn EXCEPT ![r][g] = c]
      /\ queue' = [queue EXCEPT ![g] = q] /\ tx[r][g].at = "connect"
  BY DEF Connect
<1>5. UNCHANGED <<scenario, recvVars, local>>
  BY DEF Connect
<1> HIDE DEF y, c
<1>6. \A s \in Senders : \A f \in Flows : tx'[s][f] = IF s = r /\ f = g THEN y ELSE tx[s][f]
  BY <1>1, <1>2, <1>4, UpdateOne
<1>7. /\ conn' \in [Senders -> [Flows -> ConnType]]
      /\ \A s \in Senders : \A f \in Flows : conn'[s][f] = IF s = r /\ f = g THEN c ELSE conn[s][f]
  BY <1>1, <1>3, <1>4, UpdateOne
<1>8. WireOk(r, g, y, c, rx[g])
  <2>1. WireOk(r, g, tx[r][g], conn[r][g], rx[g])
    BY DEF TransferInv, WireInv
  <2> QED BY <1>2, <1>3, <1>4, <2>1, WireConnect
<1>9. WireInv'
  <2>1. WireOk(r, g, tx'[r][g], conn'[r][g], rx[g])
    BY <1>6, <1>7, <1>8
  <2>2. rx' = rx /\ scenario' = scenario
    BY <1>5 DEF recvVars
  <2> QED BY <1>6, <1>7, <2>1, <2>2, OneWire
<1>10. /\ q \in Seq(Senders) /\ Len(q) = Len(queue[g]) + 1 /\ q[Len(queue[g]) + 1] = r
       /\ \A i \in 1..Len(queue[g]) : q[i] = queue[g][i]
  BY <1>1, AppendProperties
<1> HIDE DEF q
<1>11. queue' \in [Flows -> Seq(Senders)] /\ \A f \in Flows : queue'[f] = IF f = g THEN q ELSE queue[f]
  BY <1>1, <1>4, <1>10
<1>12. ASSUME NEW f \in Flows, rx[f].at \in Early, NEW i \in 1..Len(queue[f])
       PROVE  conn'[queue[f][i]][f].peer = "backlog"
  <2>1. queue[f][i] \in Senders
    BY <1>1, ElementOfSeq
  <2>2. conn[queue[f][i]][f].peer = "backlog"
    BY <1>12 DEF TransferInv, QueueInv
  <2> QED BY <1>3, <1>7, <2>1, <2>2
<1>13. QueueInv'
  <2>1. ASSUME NEW f \in Flows, rx[f].at \in Early, NEW i \in 1..Len(queue'[f])
        PROVE  conn'[queue'[f][i]][f].peer = "backlog"
    <3>1. CASE f # g
      BY <1>11, <1>12, <2>1, <3>1
    <3>2. CASE f = g
      <4> DEFINE n == Len(queue[g])
      <4>1. n \in Nat /\ i \in 1..(n + 1) /\ queue'[f] = q
        BY <1>1, <1>10, <1>11, <3>2, LenProperties
      <4>2. CASE i = n + 1
        <5>1. queue'[f][i] = r
          BY <1>10, <4>1, <4>2
        <5> QED BY <1>3, <1>7, <3>2, <5>1
      <4>3. CASE i # n + 1
        <5> HIDE DEF n
        <5>1. i \in 1..n
          BY <4>1, <4>3
        <5>2. i \in 1..Len(queue[g]) /\ queue'[f][i] = queue[f][i]
          BY <1>10, <3>2, <4>1, <5>1 DEF n
        <5> QED BY <1>12, <2>1, <3>2, <5>2
      <4> QED BY <4>2, <4>3
    <3> QED BY <3>1, <3>2
  <2>2. rx' = rx
    BY <1>5 DEF recvVars
  <2> QED BY <2>1, <2>2 DEF QueueInv
<1>14. local' = "ok" => recv = "ok"
  BY <1>5 DEF TransferInv
<1> QED BY <1>5, <1>7, <1>9, <1>11, <1>13, <1>14, ReceiverRests

\* A flow that puts its part or a stripe on the wire.
Fills(r, g, w) ==
    \/ tx[r][g].at = "go" /\ Threads /\ w = StaticItems(r, g)
    \/ tx[r][g].at = "fetch" /\ w = TaskItems(r, g, tx[r][g].task)

LEMMA FillStep ==
    ASSUME TaskInv, TransferInv, NEW r \in Senders, NEW g \in Flows, NEW w, Fills(r, g, w),
           NEW y \in TxType, y.at = "send", y.todo = w, tx' = [tx EXCEPT ![r][g] = y],
           UNCHANGED <<scenario, conn, queue, recvVars, local>>
    PROVE  TransferInv'
<1>1. /\ conn \in [Senders -> [Flows -> ConnType]] /\ queue \in [Flows -> Seq(Senders)]
      /\ tx \in [Senders -> [Flows -> TxType]] /\ scenario \in Scenarios
  BY DEF TransferInv, ReceiverTypes, TaskInv, SenderTypes
<1>2. tx[r][g] \in TxType /\ conn[r][g] \in ConnType
  BY <1>1
<1>3. conn[r][g].stream \in Seq(ItemType) /\ tx[r][g].task \in Nat
  BY <1>2 DEF ConnType, TxType
<1>4. NFlows <= Size(r)
  BY DEF TaskInv, SenderTypes, Fills
<1>5. tx[r][g].at = "fetch" => ~ Threads
  BY DEF TaskInv, SenderTypes, TxOk
<1>6. /\ w \in Seq(ItemType) /\ w # <<>> /\ InOrder(r, g, w) /\ Opening(r, g, w[1])
      /\ ~ Threads => Closing(r, g, w[Len(w)])
  <2>1. CASE Threads
    <3>1. w = StaticItems(r, g)
      BY <1>5, <2>1 DEF Fills
    <3> QED BY <1>1, <1>4, <2>1, <3>1, StaticItemsOk
  <2>2. CASE ~ Threads
    <3>1. w = TaskItems(r, g, tx[r][g].task)
      BY <2>2 DEF Fills
    <3> QED BY <1>1, <1>3, <1>4, <2>2, <3>1, TaskItemsOk
  <2> QED BY <2>1, <2>2
<1>7. WireOk(r, g, tx[r][g], conn[r][g], rx[g])
  BY DEF TransferInv, WireInv
<1>8. WireOk(r, g, y, conn[r][g], rx[g])
  <2>1. tx[r][g].at \in {"go", "fetch"}
    BY DEF Fills
  <2> QED BY <1>3, <1>5, <1>6, <1>7, <2>1, WireFilled
<1>9. \A s \in Senders : \A f \in Flows : tx'[s][f] = IF s = r /\ f = g THEN y ELSE tx[s][f]
  BY <1>1, UpdateOne
<1>10. WireInv'
  <2>1. WireOk(r, g, tx'[r][g], conn'[r][g], rx[g])
    BY <1>8, <1>9
  <2>2. rx' = rx /\ scenario' = scenario
    BY DEF recvVars
  <2> QED BY <1>9, <2>1, <2>2, OneWire
<1>11. QueueInv'
  <2>1. UNCHANGED <<conn, queue, rx>>
    BY DEF recvVars
  <2> QED BY <2>1 DEF QueueInv, TransferInv
<1>12. local' = "ok" => recv = "ok"
  BY DEF TransferInv
<1> QED BY <1>1, <1>10, <1>11, <1>12, ReceiverRests

LEMMA SendItemStep ==
    ASSUME TaskInv, TransferInv, NEW r \in Senders, NEW g \in Flows, SendItem(r, g)
    PROVE  TransferInv'
<1>1. /\ conn \in [Senders -> [Flows -> ConnType]] /\ queue \in [Flows -> Seq(Senders)]
      /\ tx \in [Senders -> [Flows -> TxType]]
  BY DEF TransferInv, ReceiverTypes, TaskInv, SenderTypes
<1>2. tx[r][g] \in TxType /\ conn[r][g] \in ConnType /\ TxOk(tx[r][g]) /\ tx[r][g].at = "send"
  BY <1>1 DEF TaskInv, SenderTypes, SendItem
<1> DEFINE b == tx[r][g].todo
           a == conn[r][g].stream
           item == Head(b)
           last == Len(b) = 1
           ends == last /\ (Threads \/ item.kind = "done")
           gone == conn[r][g].peer = "closed"
           at == IF ends THEN "done" ELSE IF last THEN "lock" ELSE tx[r][g].at
           w == Tail(b)
           e == IF gone THEN a ELSE Append(a, item)
           k == IF ends THEN "closed" ELSE conn[r][g].sock
           y == [tx[r][g] EXCEPT !.todo = w, !.at = at]
           c == [conn[r][g] EXCEPT !.stream = e, !.sock = k]
<1>3. b \in Seq(ItemType) /\ b # <<>> /\ a \in Seq(ItemType)
  BY <1>2 DEF TxType, ConnType, TxOk
<1>4. w \in Seq(ItemType) /\ item \in ItemType
  BY <1>3, HeadTailProperties
<1>5. e \in Seq(ItemType)
  BY <1>3, <1>4, AppendProperties
<1>6. /\ tx' = [tx EXCEPT ![r][g].todo = w, ![r][g].at = at]
      /\ conn' = [conn EXCEPT ![r][g].stream = e, ![r][g].sock = k]
      /\ UNCHANGED <<scenario, queue, recvVars, local>>
  BY DEF SendItem
<1>7. k \in {"none", "open", "closed"} /\ at \in TxPlaces
  BY <1>2 DEF ConnType, TxType, TxPlaces, Ended
<1>8. at = IF Len(b) = 1 /\ (Threads \/ Head(b).kind = "done") THEN "done" ELSE IF Len(b) = 1 THEN "lock" ELSE "send"
  BY <1>2
<1>9. conn[r][g].peer # "closed" => e = Append(a, Head(b))
  OBVIOUS
<1> HIDE DEF at, w, e, k
<1>10. y \in TxType /\ y.todo = w /\ y.at = at
  BY <1>2, <1>4, <1>7 DEF TxType
<1>11. c \in ConnType /\ c.stream = e /\ c.peer = conn[r][g].peer
  BY <1>2, <1>5, <1>7 DEF ConnType
<1>12. tx' = [tx EXCEPT ![r][g] = y] /\ conn' = [conn EXCEPT ![r][g] = c]
  BY <1>6
<1> HIDE DEF y, c
<1>13. \A s \in Senders : \A f \in Flows : tx'[s][f] = IF s = r /\ f = g THEN y ELSE tx[s][f]
  BY <1>1, <1>10, <1>12, UpdateOne
<1>14. /\ conn' \in [Senders -> [Flows -> ConnType]]
       /\ \A s \in Senders : \A f \in Flows : conn'[s][f] = IF s = r /\ f = g THEN c ELSE conn[s][f]
  BY <1>1, <1>11, <1>12, UpdateOne
<1>15. WireOk(r, g, y, c, rx[g])
  <2>1. WireOk(r, g, tx[r][g], conn[r][g], rx[g])
    BY DEF TransferInv, WireInv
  <2>2. y.todo = Tail(tx[r][g].todo)
    BY <1>10 DEF w
  <2> QED BY <1>2, <1>3, <1>8, <1>9, <1>10, <1>11, <2>1, <2>2, WireSend
<1>16. WireInv'
  <2>1. WireOk(r, g, tx'[r][g], conn'[r][g], rx[g])
    BY <1>13, <1>14, <1>15
  <2>2. rx' = rx /\ scenario' = scenario
    BY <1>6 DEF recvVars
  <2> QED BY <1>13, <1>14, <2>1, <2>2, OneWire
<1>17. QueueInv'
  <2>1. ASSUME NEW f \in Flows, rx[f].at \in Early, NEW i \in 1..Len(queue[f])
        PROVE  conn'[queue[f][i]][f].peer = "backlog"
    <3>1. queue[f][i] \in Senders
      BY <1>1, ElementOfSeq
    <3>2. conn[queue[f][i]][f].peer = "backlog"
      BY <2>1 DEF TransferInv, QueueInv
    <3> QED BY <1>11, <1>14, <3>1, <3>2
  <2>2. rx' = rx /\ queue' = queue
    BY <1>6 DEF recvVars
  <2> QED BY <2>1, <2>2 DEF QueueInv
<1>18. local' = "ok" => recv = "ok"
  BY <1>6 DEF TransferInv
<1> QED BY <1>1, <1>6, <1>14, <1>16, <1>17, <1>18, ReceiverRests

LEMMA SendersTransfer ==
    ASSUME TaskInv, TransferInv, NEW s \in Senders, NEW f \in Flows,
           SenderMain(s) \/ StartSend(s) \/ SenderFlow(s, f) \/ KillWorker(s, f)
    PROVE  TransferInv'
<1>1. CASE SenderMain(s) \/ StartSend(s)
  <2>1. TxKeeps /\ ConnKeeps /\ UNCHANGED <<scenario, queue, recvVars, local>>
    BY <1>1, MainKeeps
  <2>2. local' = "ok" => recv = "ok"
    BY <2>1 DEF TransferInv
  <2> QED BY <2>1, <2>2, SenderKeepsTransfer
<1>2. CASE FlowEnds(s, f)
  <2>1. TxKeeps /\ ConnKeeps /\ UNCHANGED <<scenario, queue, recvVars, local>>
    BY <1>2, EndsKeeps
  <2>2. local' = "ok" => recv = "ok"
    BY <2>1 DEF TransferInv
  <2> QED BY <2>1, <2>2, SenderKeepsTransfer
<1>3. CASE Connect(s, f)
  BY <1>3, ConnectStep
<1>4. CASE SendItem(s, f)
  BY <1>4, SendItemStep
<1>5. CASE LockTask(s, f)
  <2>1. TxKeeps
    BY <1>5, LockTaskStep
  <2>2. UNCHANGED <<scenario, queue, recvVars, local>> /\ conn' = conn
    BY <1>5 DEF LockTask, netVars
  <2>3. ConnKeeps
    BY <2>2 DEF ConnKeeps
  <2>4. local' = "ok" => recv = "ok"
    BY <2>2 DEF TransferInv
  <2> QED BY <2>1, <2>2, <2>3, <2>4, SenderKeepsTransfer
<1>6. tx \in [Senders -> [Flows -> TxType]] /\ tx[s][f] \in TxType /\ scenario \in Scenarios
  BY DEF TaskInv, SenderTypes
<1>7. CASE FetchTask(s, f)
  <2> DEFINE t == tx[s][f].task
             w == TaskItems(s, f, t)
             y == [tx[s][f] EXCEPT !.at = "send", !.took = tx[s][f].took \cup {t}, !.todo = w]
  <2>1. tx[s][f].at = "fetch" /\ tx' = [tx EXCEPT ![s][f] = y] /\ UNCHANGED <<scenario, conn, queue, recvVars, local>>
    BY <1>7 DEF FetchTask, netVars
  <2>2. t \in Nat /\ NFlows <= Size(s) /\ ~ Threads
    BY <1>6, <2>1 DEF TxType, TaskInv, SenderTypes, TxOk
  <2>3. w \in Seq(ItemType)
    BY <1>6, <2>2, TaskItemsOk
  <2> HIDE DEF w
  <2>4. y \in TxType /\ y.at = "send" /\ y.todo = w
    BY <1>6, <2>2, <2>3 DEF TxType, TxPlaces
  <2> HIDE DEF y
  <2>5. Fills(s, f, w)
    BY <2>1 DEF w, Fills
  <2> QED BY <2>1, <2>4, <2>5, FillStep
<1>8. CASE Go(s, f) /\ Threads
  <2> DEFINE w == StaticItems(s, f)
             y == [tx[s][f] EXCEPT !.at = "send", !.todo = w]
  <2>1. tx[s][f].at = "go" /\ tx' = [tx EXCEPT ![s][f] = y] /\ UNCHANGED <<scenario, conn, queue, recvVars, local>>
    BY <1>8 DEF Go, netVars
  <2>2. NFlows <= Size(s)
    BY <2>1 DEF TaskInv, SenderTypes
  <2>3. w \in Seq(ItemType)
    BY <1>6, <1>8, <2>2, StaticItemsOk
  <2> HIDE DEF w
  <2>4. y \in TxType /\ y.at = "send" /\ y.todo = w
    BY <1>6, <2>3 DEF TxType, TxPlaces
  <2> HIDE DEF y
  <2>5. w = StaticItems(s, f)
    BY DEF w
  <2>6. Fills(s, f, w)
    BY <1>8, <2>1, <2>5 DEF Fills
  <2> QED BY <2>1, <2>4, <2>6, FillStep
<1>9. CASE Go(s, f) /\ ~ Threads
  <2>1. OneMoves(s, f, "lock") /\ tx[s][f].at = "go" /\ UNCHANGED <<scenario, conn, queue, recvVars, local>>
    BY <1>9 DEF Go, OneMoves, netVars
  <2>2. "lock" \in TxPlaces
    BY DEF TxPlaces
  <2>3. /\ tx' \in [Senders -> [Flows -> TxType]]
        /\ \A r \in Senders : \A g \in Flows :
              /\ tx'[r][g].todo = tx[r][g].todo /\ tx'[r][g].took = tx[r][g].took
              /\ tx'[r][g].at = IF r = s /\ g = f THEN "lock" ELSE tx[r][g].at
    BY <1>6, <2>1, <2>2, TxAt
  <2>4. TxKeeps
    BY <1>9, <2>1, <2>3 DEF TxKeeps, Moves
  <2>5. ConnKeeps
    BY <2>1 DEF ConnKeeps
  <2>6. local' = "ok" => recv = "ok"
    BY <2>1 DEF TransferInv
  <2> QED BY <2>1, <2>4, <2>5, <2>6, SenderKeepsTransfer
<1> QED BY <1>1, <1>2, <1>3, <1>4, <1>5, <1>7, <1>8, <1>9 DEF SenderFlow, FlowEnds
-----------------------------------------------------------------------------
(* The receivers' steps. *)

\* A step of one receiving flow.
RxTo(g, x) ==
    /\ rx' = [rx EXCEPT ![g] = x] /\ UNCHANGED <<scenario, tx, recv, local>>
    /\ \A s \in Senders : \A f \in Flows : f # g => conn'[s][f] = conn[s][f]
    /\ \A f \in Flows : f # g => queue'[f] = queue[f]

LEMMA RxStep ==
    ASSUME TransferInv, NEW g \in Flows, NEW x \in RxType, RxTo(g, x),
           rx[g].at \notin Ended \cup {"idle"}, x.at \notin Early,
           conn' \in [Senders -> [Flows -> ConnType]], queue' \in [Flows -> Seq(Senders)],
           placed' \subseteq Nat, dest' \in [0..(NUnits - 1) -> (Senders \X Nat) \cup {None}],
           \A s \in Senders : WireOk(s, g, tx[s][g], conn'[s][g], x),
           FlowOk(g, x, dest'), \A f \in Flows : f # g => FlowOk(f, rx[f], dest'),
           ~ Threads => PlacedInv'
    PROVE  TransferInv'
<1>1. /\ rx' \in [Flows -> RxType] /\ \A f \in Flows : rx'[f] = IF f = g THEN x ELSE rx[f]
      /\ UNCHANGED <<scenario, tx, recv, local>>
  BY DEF TransferInv, ReceiverTypes, RxTo
<1>2. ReceiverTypes'
  BY <1>1 DEF ReceiverTypes
<1>3. WireInv'
  <2>1. ASSUME NEW s \in Senders, NEW f \in Flows
        PROVE  WireOk(s, f, tx'[s][f], conn'[s][f], rx'[f])
    <3>1. CASE f = g
      BY <1>1, <3>1
    <3>2. CASE f # g
      <4>1. tx'[s][f] = tx[s][f] /\ conn'[s][f] = conn[s][f] /\ rx'[f] = rx[f]
        BY <1>1, <3>2 DEF RxTo
      <4>2. WireOk(s, f, tx[s][f], conn[s][f], rx[f])
        BY DEF TransferInv, WireInv
      <4> QED BY <4>1, <4>2
    <3> QED BY <3>1, <3>2
  <2> QED BY <1>1, <2>1, SameScene DEF WireInv
<1>4. FlowInv'
  <2>1. \A f \in Flows : FlowOk(f, rx'[f], dest')
    BY <1>1
  <2> QED BY <1>1, <2>1, SameScene DEF FlowInv
<1>5. QueueInv'
  <2>1. ASSUME NEW f \in Flows, rx'[f].at \in Early, NEW i \in 1..Len(queue'[f])
        PROVE  conn'[queue'[f][i]][f].peer = "backlog"
    <3>1. f # g /\ rx'[f] = rx[f]
      BY <1>1, <2>1
    <3>2. queue'[f] = queue[f]
      BY <3>1 DEF RxTo
    <3>3. queue \in [Flows -> Seq(Senders)]
      BY DEF TransferInv, ReceiverTypes
    <3>4. i \in 1..Len(queue[f]) /\ queue[f][i] \in Senders
      BY <3>2, <3>3, ElementOfSeq
    <3>5. conn[queue[f][i]][f].peer = "backlog"
      BY <2>1, <3>1, <3>4 DEF TransferInv, QueueInv
    <3>6. conn'[queue[f][i]][f] = conn[queue[f][i]][f]
      BY <3>1, <3>4 DEF RxTo
    <3> QED BY <3>2, <3>5, <3>6
  <2> QED BY <2>1 DEF QueueInv
<1>6. recv # "listen" /\ recv # "ok"
  BY DEF TransferInv, Ended
<1>7. Threads' <=> Threads
  BY <1>1, SameScene
<1> QED BY <1>1, <1>2, <1>3, <1>4, <1>5, <1>6, <1>7 DEF TransferInv

\* Nothing is placed and nothing is copied.
LEMMA PlacedKept ==
    ASSUME PlacedInv, rx \in [Flows -> RxType], NEW g \in Flows, NEW x \in RxType, RxTo(g, x),
           UNCHANGED <<placed, dest>>, rx[g].at # "killed",
           rx[g].at # "copy" \/ x.at = "killed", rx[g].tid # None => x.tid = rx[g].tid
    PROVE  PlacedInv'
<1>1. rx' \in [Flows -> RxType] /\ \A f \in Flows : rx'[f] = IF f = g THEN x ELSE rx[f]
  BY DEF RxTo
<1>2. ASSUME NEW k \in placed
      PROVE  \/ \E f \in Flows : rx'[f].at = "killed"
             \/ \E f \in Flows : rx'[f].at = "copy" /\ Stripe(f)' = k
             \/ Copied(k)'
  <2>1. ASSUME NEW f \in Flows, rx[f].at = "killed" PROVE rx'[f].at = "killed"
    BY <1>1, <2>1
  <2>2. ASSUME NEW f \in Flows, rx[f].at = "copy", Stripe(f) = k
        PROVE  (rx'[f].at = "copy" /\ Stripe(f)' = k) \/ rx'[g].at = "killed"
    BY <1>1, <2>2 DEF Stripe
  <2>3. ASSUME Copied(k) PROVE Copied(k)'
    <3>1. PICK f \in Flows : /\ rx[f].tid # None
                             /\ \A u \in DOMAIN dest : u \div StripeUnits = k => dest[u] = <<rx[f].tid, u>>
      BY <2>3 DEF Copied
    <3>2. rx'[f].tid = rx[f].tid
      BY <1>1, <3>1
    <3> QED BY <3>1, <3>2 DEF Copied
  <2> QED BY <1>2, <2>1, <2>2, <2>3 DEF PlacedInv
<1> QED BY <1>2 DEF PlacedInv

\* How a receiving flow ends without a result.
Stops == {"failed", "killed", "asleep"}

LEMMA FlowStops ==
    ASSUME NEW f, NEW x \in RxType, NEW d, FlowOk(f, x, d), NEW how \in Stops,
           NEW y, y = [x EXCEPT !.at = how]
    PROVE  y \in RxType /\ y.at = how /\ y.from = x.from /\ y.tid = x.tid /\ FlowOk(f, y, d)
<1>1. y \in RxType /\ y.at = how /\ y.from = x.from /\ y.tid = x.tid
  BY DEF RxType, RxPlaces, Ended, Stops
<1>2. FlowOk(f, y, d)
  BY <1>1 DEF FlowOk, PartOk, StagedOk, Early, Busy, Stops
<1> QED BY <1>1, <1>2

\* A flow fails or is killed.
LEMMA EndRxStep ==
    ASSUME TaskInv, TransferInv, NEW g \in Flows, NEW how \in Stops, EndRx(g, how, rx[g]),
           rx[g].at \notin Ended \cup {"idle"}, how # "killed" => rx[g].at # "copy",
           UNCHANGED <<scenario, tx, queue, recv, placed, dest, local>>
    PROVE  TransferInv'
<1>1. /\ conn \in [Senders -> [Flows -> ConnType]] /\ queue \in [Flows -> Seq(Senders)]
      /\ rx \in [Flows -> RxType] /\ rx[g] \in RxType /\ placed \subseteq Nat
      /\ dest \in [0..(NUnits - 1) -> (Senders \X Nat) \cup {None}]
  BY DEF TransferInv, ReceiverTypes
<1>2. \A f \in Flows : FlowOk(f, rx[f], dest)
  BY DEF TransferInv, FlowInv
<1> DEFINE x == [rx[g] EXCEPT !.at = how]
<1>3. x \in RxType /\ x.at = how /\ x.from = rx[g].from /\ x.tid = rx[g].tid /\ FlowOk(g, x, dest)
  <2>1. x = [rx[g] EXCEPT !.at = how]
    OBVIOUS
  <2> HIDE DEF x
  <2>2. FlowOk(g, rx[g], dest)
    BY <1>2
  <2>3. rx[g] \in RxType
    BY <1>1
  <2> QED BY <2>1, <2>2, <2>3, FlowStops
<1>4. rx' = [rx EXCEPT ![g] = x]
  BY DEF EndRx
<1> HIDE DEF x
<1>5. x.at \notin Busy /\ x.at \notin Early
  BY <1>3 DEF Busy, Early, Stops
<1>6. /\ conn' \in [Senders -> [Flows -> ConnType]]
      /\ \A s \in Senders : \A f \in Flows : f # g => conn'[s][f] = conn[s][f]
      /\ \A s \in Senders : WireOk(s, g, tx[s][g], conn'[s][g], x)
  <2>1. CASE rx[g].from = None
    <3>1. conn' = conn
      BY <2>1 DEF EndRx
    <3>2. ASSUME NEW s \in Senders PROVE WireOk(s, g, tx[s][g], conn'[s][g], x)
      <4>1. WireOk(s, g, tx[s][g], conn[s][g], rx[g])
        BY DEF TransferInv, WireInv
      <4>2. rx[g].from # s
        BY <2>1, FlowAssumption DEF Senders
      <4> QED BY <1>5, <3>1, <4>1, <4>2, WireOther
    <3> QED BY <1>1, <3>1, <3>2
  <2>2. CASE rx[g].from # None
    <3> DEFINE r == rx[g].from
               c == [conn[r][g] EXCEPT !.peer = "closed"]
    <3>1. r \in Senders
      BY <1>1, <2>2 DEF RxType
    <3>2. c \in ConnType /\ c.peer = "closed" /\ c.stream = conn[r][g].stream
      <4>1. conn[r][g] \in ConnType
        BY <1>1, <3>1
      <4> QED BY <4>1 DEF ConnType
    <3>3. conn' = [conn EXCEPT ![r][g] = c]
      BY <2>2 DEF EndRx
    <3>4. rx[g].at \in Busy
      <4>1. rx[g].at \notin Early
        BY <1>2, <2>2 DEF FlowOk
      <4> QED BY <1>1, <4>1 DEF RxType, RxPlaces, Early, Busy
    <3> HIDE DEF c
    <3>5. /\ conn' \in [Senders -> [Flows -> ConnType]]
          /\ \A s \in Senders : \A f \in Flows : conn'[s][f] = IF s = r /\ f = g THEN c ELSE conn[s][f]
      BY <1>1, <3>1, <3>2, <3>3, UpdateOne
    <3>6. ASSUME NEW s \in Senders PROVE WireOk(s, g, tx[s][g], conn'[s][g], x)
      <4>1. WireOk(s, g, tx[s][g], conn[s][g], rx[g])
        BY DEF TransferInv, WireInv
      <4>2. CASE s # r
        BY <1>5, <3>5, <4>1, <4>2, WireOther
      <4>3. CASE s = r
        <5>1. conn'[s][g] = c /\ conn[s][g].peer = "accepted"
          BY <3>4, <3>5, <4>1, <4>3 DEF WireOk
        <5>2. TxOk(tx[s][g])
          BY DEF TaskInv, SenderTypes
        <5>3. c.peer = "closed" /\ c.stream = conn[s][g].stream
          BY <3>2, <4>3
        <5> QED BY <1>5, <4>1, <5>1, <5>2, <5>3, WireClosed
      <4> QED BY <4>2, <4>3
    <3> QED BY <3>5, <3>6
  <2> QED BY <2>1, <2>2
<1>7. RxTo(g, x)
  BY <1>4, <1>6 DEF RxTo
<1>8. ~ Threads => PlacedInv'
  <2>1. ~ Threads => PlacedInv
    BY DEF TransferInv
  <2>2. rx[g].at # "killed" /\ (rx[g].at # "copy" \/ x.at = "killed") /\ (rx[g].tid # None => x.tid = rx[g].tid)
    BY <1>3 DEF Ended
  <2> QED BY <1>1, <1>3, <1>7, <2>1, <2>2, PlacedKept
<1>9. dest' = dest /\ placed' = placed /\ queue' = queue
  OBVIOUS
<1> QED BY <1>1, <1>2, <1>3, <1>5, <1>6, <1>7, <1>8, <1>9, RxStep

LEMMA AcceptStep ==
    ASSUME TaskInv, TransferInv, NEW g \in Flows, Accept(g)
    PROVE  TransferInv'
<1>1. /\ conn \in [Senders -> [Flows -> ConnType]] /\ queue \in [Flows -> Seq(Senders)]
      /\ rx \in [Flows -> RxType] /\ rx[g] \in RxType /\ placed \subseteq Nat
      /\ dest \in [0..(NUnits - 1) -> (Senders \X Nat) \cup {None}]
  BY DEF TransferInv, ReceiverTypes
<1>2. \A f \in Flows : FlowOk(f, rx[f], dest)
  BY DEF TransferInv, FlowInv
<1>3. rx[g].at = "accept" /\ queue[g] # <<>> /\ queue[g] \in Seq(Senders)
  BY <1>1 DEF Accept
<1> DEFINE r == Head(queue[g])
           w == Tail(queue[g])
           x == [rx[g] EXCEPT !.at = "header", !.from = r]
           c == [conn[r][g] EXCEPT !.peer = "accepted"]
<1>4. r \in Senders /\ w \in Seq(Senders)
  BY <1>3, HeadTailProperties
<1>5. /\ rx' = [rx EXCEPT ![g].at = "header", ![g].from = r] /\ conn' = [conn EXCEPT ![r][g] = c]
      /\ queue' = [queue EXCEPT ![g] = w] /\ UNCHANGED <<scenario, tx, recv, placed, dest, local>>
  BY DEF Accept
<1>6. conn[r][g].peer = "backlog"
  <2> DEFINE n == Len(queue[g])
  <2>1. n \in Nat \ {0}
    BY <1>3, EmptySeq, LenProperties
  <2>2. 1 \in 1..n
    BY <2>1
  <2>3. rx[g].at \in Early
    BY <1>3 DEF Early
  <2>4. conn[queue[g][1]][g].peer = "backlog"
    BY <2>2, <2>3 DEF TransferInv, QueueInv
  <2>5. queue[g][1] = r
    OBVIOUS
  <2> QED BY <2>4, <2>5
<1> HIDE DEF r, w
<1>7. x \in RxType /\ x.at = "header" /\ x.from = r /\ x.tid = rx[g].tid
  BY <1>1, <1>4 DEF RxType, RxPlaces
<1>8. c \in ConnType /\ c.peer = "accepted" /\ c.stream = conn[r][g].stream
  <2>1. conn[r][g] \in ConnType
    BY <1>1, <1>4
  <2> QED BY <2>1 DEF ConnType
<1>9. rx' = [rx EXCEPT ![g] = x]
  BY <1>5
<1> HIDE DEF x, c
<1>10. /\ conn' \in [Senders -> [Flows -> ConnType]]
       /\ \A s \in Senders : \A f \in Flows : conn'[s][f] = IF s = r /\ f = g THEN c ELSE conn[s][f]
  BY <1>1, <1>4, <1>5, <1>8, UpdateOne
<1>11. rx[g].tid = None /\ rx[g].at \notin Busy
  BY <1>2, <1>3 DEF FlowOk, Early, Busy
<1>12. FlowOk(g, x, dest)
  BY <1>4, <1>7, <1>11 DEF FlowOk, PartOk, StagedOk, Early, Busy
<1>13. ASSUME NEW s \in Senders PROVE WireOk(s, g, tx[s][g], conn'[s][g], x)
  <2>1. WireOk(s, g, tx[s][g], conn[s][g], rx[g])
    BY DEF TransferInv, WireInv
  <2>2. CASE s # r
    BY <1>7, <1>10, <1>11, <2>1, <2>2, WireOther
  <2>3. CASE s = r
    <3>1. conn'[s][g] = c /\ c.stream = conn[s][g].stream /\ conn[s][g].peer = "backlog"
      BY <1>6, <1>8, <1>10, <2>3
    <3> QED BY <1>7, <1>8, <1>11, <2>1, <3>1, WireAccept
  <2> QED BY <2>2, <2>3
<1>14. queue' \in [Flows -> Seq(Senders)] /\ \A f \in Flows : f # g => queue'[f] = queue[f]
  BY <1>1, <1>4, <1>5
<1>15. RxTo(g, x)
  BY <1>5, <1>9, <1>10, <1>14 DEF RxTo
<1>16. ~ Threads => PlacedInv'
  <2>1. ~ Threads => PlacedInv
    BY DEF TransferInv
  <2>2. rx[g].at # "killed" /\ rx[g].at # "copy" /\ (rx[g].tid # None => x.tid = rx[g].tid)
    BY <1>3, <1>7
  <2> QED BY <1>1, <1>5, <1>7, <1>15, <2>1, <2>2, PlacedKept
<1>17. rx[g].at \notin Ended \cup {"idle"} /\ x.at \notin Early
  BY <1>3, <1>7 DEF Ended, Early
<1>18. dest' = dest /\ placed' = placed
  BY <1>5
<1> QED BY <1>1, <1>2, <1>7, <1>10, <1>12, <1>13, <1>14, <1>15, <1>16, <1>17, <1>18, RxStep

\* From the end of a stripe to the next header the connection rests.
LEMMA StaysBusy ==
    ASSUME TransferInv, NEW g \in Flows, rx[g].at \in {"lock", "place", "copy"},
           NEW x, x.at \in {"place", "copy", "header"}, x.from = rx[g].from
    PROVE  /\ ~ Threads /\ rx[g].tid # None /\ rx[g].from \in Senders
           /\ \A s \in Senders : WireOk(s, g, tx[s][g], conn[s][g], x)
<1>1. ASSUME NEW s \in Senders PROVE WireOk(s, g, tx[s][g], conn[s][g], x)
  <2>1. WireOk(s, g, tx[s][g], conn[s][g], rx[g])
    BY DEF TransferInv, WireInv
  <2>2. rx[g].at \in Busy /\ ~ Reading(s, rx[g]) /\ ~ Reading(s, x)
    BY DEF Busy, Reading
  <2>3. Moves(tx[s][g].at, tx[s][g].at)
    BY DEF Moves
  <2> QED BY <2>1, <2>2, <2>3, WireKept
<1>2. FlowOk(g, rx[g], dest)
  BY DEF TransferInv, FlowInv
<1>3. ~ Threads /\ rx[g].tid # None /\ rx[g].from \in Senders
  BY <1>2 DEF FlowOk, PartOk, Busy
<1> QED BY <1>1, <1>3

LEMMA LockPlacedStep ==
    ASSUME TaskInv, TransferInv, NEW g \in Flows, LockPlaced(g)
    PROVE  TransferInv'
<1>1. /\ conn \in [Senders -> [Flows -> ConnType]] /\ queue \in [Flows -> Seq(Senders)]
      /\ rx \in [Flows -> RxType] /\ rx[g] \in RxType /\ placed \subseteq Nat
      /\ dest \in [0..(NUnits - 1) -> (Senders \X Nat) \cup {None}]
  BY DEF TransferInv, ReceiverTypes
<1>2. \A f \in Flows : FlowOk(f, rx[f], dest)
  BY DEF TransferInv, FlowInv
<1> DEFINE k == Stripe(g)
           e == rx[g].seen \cup {k}
           x == [rx[g] EXCEPT !.at = "place", !.seen = e]
<1>3. /\ rx[g].at = "lock" /\ rx' = [rx EXCEPT ![g] = x]
      /\ UNCHANGED <<scenario, tx, conn, queue, recv, placed, dest, local>>
  BY DEF LockPlaced, netVars
<1>4. k \in Nat
  <2>1. rx[g].part \in Nat
    BY <1>1 DEF RxType
  <2>2. StripeUnits \in Nat \ {0}
    BY FlowAssumption
  <2> QED BY <2>1, <2>2, DivMod DEF Stripe
<1>5. e \in SUBSET Nat
  BY <1>1, <1>4 DEF RxType
<1> HIDE DEF e
<1>6. /\ x \in RxType /\ x.at = "place" /\ x.from = rx[g].from /\ x.tid = rx[g].tid
      /\ x.part = rx[g].part /\ x.staged = rx[g].staged
  BY <1>1, <1>5 DEF RxType, RxPlaces
<1> HIDE DEF x
<1>7. ~ Threads /\ rx[g].tid # None /\ rx[g].from \in Senders /\ \A s \in Senders : WireOk(s, g, tx[s][g], conn[s][g], x)
  BY <1>3, <1>6, StaysBusy
<1>8. FlowOk(g, x, dest)
  <2>1. StagedOk(rx[g])
    BY <1>2, <1>7 DEF FlowOk
  <2>2. StagedOk(x)
    BY <1>3, <1>6, <2>1 DEF StagedOk
  <2>3. FlowOk(g, rx[g], dest)
    BY <1>2
  <2> QED BY <1>6, <1>7, <2>2, <2>3 DEF FlowOk, Early
<1>9. RxTo(g, x)
  BY <1>3 DEF RxTo
<1>10. PlacedInv'
  <2>1. PlacedInv
    BY <1>7 DEF TransferInv
  <2>2. rx[g].at # "killed" /\ rx[g].at # "copy" /\ (rx[g].tid # None => x.tid = rx[g].tid)
    BY <1>3, <1>6
  <2> QED BY <1>1, <1>3, <1>6, <1>9, <2>1, <2>2, PlacedKept
<1>11. rx[g].at \notin Ended \cup {"idle"} /\ x.at \notin Early
  BY <1>3, <1>6 DEF Ended, Early
<1>12. dest' = dest /\ placed' = placed /\ conn' = conn /\ queue' = queue
  BY <1>3
<1> QED BY <1>1, <1>2, <1>6, <1>7, <1>8, <1>9, <1>10, <1>11, <1>12, RxStep

LEMMA PlaceStep ==
    ASSUME TaskInv, TransferInv, NEW g \in Flows, Place(g)
    PROVE  TransferInv'
<1>1. /\ conn \in [Senders -> [Flows -> ConnType]] /\ queue \in [Flows -> Seq(Senders)]
      /\ rx \in [Flows -> RxType] /\ rx[g] \in RxType /\ placed \subseteq Nat
      /\ dest \in [0..(NUnits - 1) -> (Senders \X Nat) \cup {None}]
  BY DEF TransferInv, ReceiverTypes
<1>2. \A f \in Flows : FlowOk(f, rx[f], dest)
  BY DEF TransferInv, FlowInv
<1> DEFINE k == Stripe(g)
           a == IF k \in placed THEN "header" ELSE "copy"
           x == [rx[g] EXCEPT !.at = a]
<1>3. /\ rx[g].at = "place" /\ rx' = [rx EXCEPT ![g] = x] /\ placed' = placed \cup {k}
      /\ UNCHANGED <<scenario, tx, conn, queue, recv, dest, local>>
  BY DEF Place, netVars
<1>4. k \in Nat
  <2>1. rx[g].part \in Nat
    BY <1>1 DEF RxType
  <2>2. StripeUnits \in Nat \ {0}
    BY FlowAssumption
  <2> QED BY <2>1, <2>2, DivMod DEF Stripe
<1>5. a \in {"header", "copy"} /\ (a = "header" => k \in placed)
  OBVIOUS
<1> HIDE DEF a
<1>6. /\ x \in RxType /\ x.at = a /\ x.from = rx[g].from /\ x.tid = rx[g].tid
      /\ x.part = rx[g].part /\ x.staged = rx[g].staged
  <2>1. a \in RxPlaces
    BY <1>5 DEF RxPlaces
  <2> QED BY <1>1, <2>1 DEF RxType
<1> HIDE DEF x
<1>7. ~ Threads /\ rx[g].tid # None /\ rx[g].from \in Senders /\ \A s \in Senders : WireOk(s, g, tx[s][g], conn[s][g], x)
  BY <1>3, <1>5, <1>6, StaysBusy
<1>8. FlowOk(g, x, dest)
  <2>1. StagedOk(rx[g])
    BY <1>2, <1>7 DEF FlowOk
  <2>2. StagedOk(x)
    BY <1>3, <1>5, <1>6, <2>1 DEF StagedOk
  <2>3. FlowOk(g, rx[g], dest)
    BY <1>2
  <2> QED BY <1>5, <1>6, <1>7, <2>2, <2>3 DEF FlowOk, Early
<1>9. RxTo(g, x)
  BY <1>3 DEF RxTo
<1>10. \A f \in Flows : rx'[f] = IF f = g THEN x ELSE rx[f]
  BY <1>1, <1>3
<1>11. PlacedInv'
  <2>1. PlacedInv
    BY <1>7 DEF TransferInv
  <2>2. ASSUME NEW j \in placed'
        PROVE  \/ \E f \in Flows : rx'[f].at = "killed"
               \/ \E f \in Flows : rx'[f].at = "copy" /\ Stripe(f)' = j
               \/ Copied(j)'
    <3>1. CASE j \notin placed
      <4>1. j = k /\ rx'[g].at = "copy"
        BY <1>3, <1>5, <1>6, <1>10, <3>1
      <4>2. Stripe(g)' = k
        BY <1>6, <1>10 DEF Stripe
      <4> QED BY <4>1, <4>2
    <3>2. CASE j \in placed
      <4>1. ASSUME NEW f \in Flows, rx[f].at = "killed" PROVE rx'[f].at = "killed"
        BY <1>3, <1>10, <4>1
      <4>2. ASSUME NEW f \in Flows, rx[f].at = "copy", Stripe(f) = j
            PROVE  rx'[f].at = "copy" /\ Stripe(f)' = j
        BY <1>3, <1>10, <4>2 DEF Stripe
      <4>3. ASSUME Copied(j) PROVE Copied(j)'
        <5>1. PICK f \in Flows : /\ rx[f].tid # None
                                 /\ \A u \in DOMAIN dest : u \div StripeUnits = j => dest[u] = <<rx[f].tid, u>>
          BY <4>3 DEF Copied
        <5>2. rx'[f].tid = rx[f].tid
          BY <1>6, <1>10
        <5> QED BY <1>3, <5>1, <5>2 DEF Copied
      <4> QED BY <2>1, <3>2, <4>1, <4>2, <4>3 DEF PlacedInv
    <3> QED BY <3>1, <3>2
  <2> QED BY <2>2 DEF PlacedInv
<1>12. rx[g].at \notin Ended \cup {"idle"} /\ x.at \notin Early
  BY <1>3, <1>5, <1>6 DEF Ended, Early
<1>13. dest' = dest /\ placed' \subseteq Nat /\ conn' = conn /\ queue' = queue
  BY <1>1, <1>3, <1>4
<1> QED BY <1>1, <1>2, <1>6, <1>7, <1>8, <1>9, <1>11, <1>12, <1>13, RxStep

LEMMA CopyStep ==
    ASSUME TaskInv, TransferInv, NEW g \in Flows, Copy(g)
    PROVE  TransferInv'
<1>1. /\ conn \in [Senders -> [Flows -> ConnType]] /\ queue \in [Flows -> Seq(Senders)]
      /\ rx \in [Flows -> RxType] /\ rx[g] \in RxType /\ placed \subseteq Nat
      /\ dest \in [0..(NUnits - 1) -> (Senders \X Nat) \cup {None}]
  BY DEF TransferInv, ReceiverTypes
<1>2. \A f \in Flows : FlowOk(f, rx[f], dest)
  BY DEF TransferInv, FlowInv
<1> DEFINE lo == rx[g].part
           st == rx[g].staged
           n == Len(st)
           tid == rx[g].tid
           k == Stripe(g)
           x == [rx[g] EXCEPT !.at = "header"]
<1>3. /\ rx[g].at = "copy" /\ rx' = [rx EXCEPT ![g] = x]
      /\ dest' = [u \in DOMAIN dest |-> IF u - lo \in 0..(n - 1) THEN st[u - lo + 1] ELSE dest[u]]
      /\ UNCHANGED <<scenario, tx, conn, queue, recv, placed, local>>
  BY DEF Copy, netVars
<1>4. /\ x \in RxType /\ x.at = "header" /\ x.from = rx[g].from /\ x.tid = rx[g].tid
  BY <1>1 DEF RxType, RxPlaces
<1> HIDE DEF x
<1>5. ~ Threads /\ tid # None /\ rx[g].from \in Senders /\ \A s \in Senders : WireOk(s, g, tx[s][g], conn[s][g], x)
  BY <1>3, <1>4, StaysBusy
<1>6. /\ lo % StripeUnits = 0 /\ lo < NUnits /\ n = Min({StripeUnits, NUnits - lo})
      /\ \A i \in 1..n : st[i] = <<tid, lo + i - 1>>
  <2>1. StagedOk(rx[g])
    BY <1>2, <1>5 DEF FlowOk
  <2>2. n + 0 = Min({StripeUnits, NUnits - lo})
    BY <1>3, <2>1 DEF StagedOk
  <2>3. n \in Nat
    BY <1>1, LenProperties DEF RxType
  <2> HIDE DEF n
  <2>4. n + 0 = n
    BY <2>3
  <2> QED BY <1>3, <2>1, <2>2, <2>4 DEF StagedOk, n
<1>7. lo \in Nat /\ tid \in Senders /\ NUnits \in Nat \ {0} /\ StripeUnits \in Nat \ {0}
  BY <1>1, <1>5, FlowAssumption DEF RxType
<1>8. k = lo \div StripeUnits
  BY DEF Stripe
<1> HIDE DEF lo, st, n, tid, k
<1>9. n \in Nat \ {0} /\ n <= StripeUnits /\ lo + n <= NUnits /\ (n = StripeUnits \/ lo + n = NUnits)
  <2>1. lo \in 0..(NUnits - 1)
    BY <1>6, <1>7
  <2> QED BY <1>6, <1>7, <2>1, StripeEnd
<1>10. ASSUME NEW u \in 0..(NUnits - 1)
       PROVE  dest'[u] = IF u \div StripeUnits = k THEN <<tid, u>> ELSE dest[u]
  <2>1. u \div StripeUnits = k <=> lo <= u /\ u < lo + StripeUnits
    <3>1. u \in Nat
      OBVIOUS
    <3>2. u \div StripeUnits = lo \div StripeUnits <=> lo <= u /\ u < lo + StripeUnits
      BY <1>6, <1>7, <3>1, StripeOf
    <3> QED BY <1>8, <3>2
  <2>2. u \div StripeUnits = k <=> u - lo \in 0..(n - 1)
    BY <1>7, <1>9, <2>1
  <2>3. dest'[u] = IF u - lo \in 0..(n - 1) THEN st[u - lo + 1] ELSE dest[u]
    BY <1>1, <1>3
  <2>4. u - lo \in 0..(n - 1) => u - lo + 1 \in 1..n /\ lo + (u - lo + 1) - 1 = u
    BY <1>7, <1>9
  <2> QED BY <1>6, <2>2, <2>3, <2>4
<1>11. dest' \in [0..(NUnits - 1) -> (Senders \X Nat) \cup {None}]
  <2>1. DOMAIN dest' = 0..(NUnits - 1) /\ dest' = [u \in 0..(NUnits - 1) |-> dest'[u]]
    BY <1>1, <1>3
  <2>2. ASSUME NEW u \in 0..(NUnits - 1) PROVE dest'[u] \in (Senders \X Nat) \cup {None}
    <3>1. <<tid, u>> \in Senders \X Nat
      BY <1>7
    <3>2. dest[u] \in (Senders \X Nat) \cup {None}
      BY <1>1
    <3>3. dest'[u] = <<tid, u>> \/ dest'[u] = dest[u]
      BY <1>10
    <3> QED BY <3>1, <3>2, <3>3
  <2> QED BY <2>1, <2>2
<1>12. FlowOk(g, x, dest')
  <2>1. FlowOk(g, rx[g], dest)
    BY <1>2
  <2> QED BY <1>4, <1>5, <2>1 DEF FlowOk, StagedOk, Early
<1>13. \A f \in Flows : FlowOk(f, rx[f], dest')
  BY <1>2, <1>5 DEF FlowOk
<1>14. RxTo(g, x)
  BY <1>3 DEF RxTo
<1>15. \A f \in Flows : rx'[f] = IF f = g THEN x ELSE rx[f]
  BY <1>1, <1>3
<1>16. DOMAIN dest' = 0..(NUnits - 1) /\ DOMAIN dest = 0..(NUnits - 1)
  BY <1>1, <1>11
<1>17. \A f \in Flows : rx'[f].tid = rx[f].tid
  BY <1>4, <1>15
<1>18. ASSUME NEW j, j = k PROVE Copied(j)'
  <2>1. rx'[g].tid = tid
    BY <1>17 DEF tid
  <2>2. \A u \in DOMAIN dest' : u \div StripeUnits = j => dest'[u] = <<rx'[g].tid, u>>
    BY <1>10, <1>16, <1>18, <2>1
  <2>3. rx'[g].tid # None
    BY <1>5, <2>1
  <2> QED BY <2>2, <2>3 DEF Copied
<1>19. PlacedInv'
  <2>1. PlacedInv
    BY <1>5 DEF TransferInv
  <2>2. ASSUME NEW j \in placed
        PROVE  \/ \E f \in Flows : rx'[f].at = "killed"
               \/ \E f \in Flows : rx'[f].at = "copy" /\ Stripe(f)' = j
               \/ Copied(j)'
    <3>1. CASE j = k
      BY <1>18, <3>1
    <3>2. CASE j # k
      <4>1. ASSUME NEW f \in Flows, rx[f].at = "killed" PROVE rx'[f].at = "killed"
        BY <1>3, <1>15, <4>1
      <4>2. ASSUME NEW f \in Flows, rx[f].at = "copy", Stripe(f) = j
            PROVE  rx'[f].at = "copy" /\ Stripe(f)' = j
        <5>1. f # g
          BY <3>2, <4>2 DEF k
        <5> QED BY <1>15, <4>2, <5>1 DEF Stripe
      <4>3. ASSUME Copied(j) PROVE Copied(j)'
        <5>1. PICK f \in Flows : /\ rx[f].tid # None
                                 /\ \A u \in DOMAIN dest : u \div StripeUnits = j => dest[u] = <<rx[f].tid, u>>
          BY <4>3 DEF Copied
        <5>2. rx'[f].tid = rx[f].tid
          BY <1>17
        <5>3. ASSUME NEW u \in DOMAIN dest', u \div StripeUnits = j PROVE dest'[u] = <<rx'[f].tid, u>>
          <6>1. dest'[u] = dest[u]
            BY <1>10, <1>16, <3>2, <5>3
          <6>2. dest[u] = <<rx[f].tid, u>>
            BY <1>16, <5>1, <5>3
          <6> QED BY <5>2, <6>1, <6>2
        <5> QED BY <5>1, <5>2, <5>3 DEF Copied
      <4> QED BY <2>1, <4>1, <4>2, <4>3 DEF PlacedInv
    <3> QED BY <3>1, <3>2
  <2> QED BY <1>3, <2>2 DEF PlacedInv
<1>20. rx[g].at \notin Ended \cup {"idle"} /\ x.at \notin Early
  BY <1>3, <1>4 DEF Ended, Early
<1>21. placed' \subseteq Nat /\ conn' = conn /\ queue' = queue
  BY <1>1, <1>3
<1> QED BY <1>1, <1>4, <1>5, <1>11, <1>12, <1>13, <1>14, <1>19, <1>20, <1>21, RxStep

\* What a receiver reads: its own connection has the piece that it expects.
LEMMA ReadHead ==
    ASSUME TaskInv, TransferInv, NEW g \in Flows, rx[g].at \in {"header", "data"}, Incoming(g) # <<>>,
           NEW r, r = rx[g].from, NEW h, h = Head(Incoming(g))
    PROVE  /\ r \in Senders /\ conn[r][g] \in ConnType /\ conn[r][g].peer = "accepted"
           /\ conn[r][g].stream \in Seq(ItemType) /\ conn[r][g].stream # <<>> /\ h = Head(conn[r][g].stream)
           /\ tx[r][g].todo \in Seq(ItemType) /\ tx[r][g].at \in TxPlaces /\ TxOk(tx[r][g])
           /\ WireOk(r, g, tx[r][g], conn[r][g], rx[g])
           /\ h \in ItemType /\ Expected(r, g, rx[g], h)
<1>1. FlowOk(g, rx[g], dest)
  BY DEF TransferInv, FlowInv
<1>2. rx[g].at \in Busy
  BY DEF Busy
<1>3. r \in Senders
  BY <1>1, <1>2 DEF FlowOk
<1>4. conn[r][g] \in ConnType
  BY <1>3 DEF TransferInv, ReceiverTypes
<1>5. conn[r][g].stream \in Seq(ItemType) /\ conn[r][g].stream # <<>> /\ h = Head(conn[r][g].stream)
  BY <1>4 DEF ConnType, Incoming
<1>6. tx[r][g] \in TxType /\ TxOk(tx[r][g])
  BY <1>3 DEF TaskInv, SenderTypes
<1>7. tx[r][g].todo \in Seq(ItemType) /\ tx[r][g].at \in TxPlaces
  BY <1>6 DEF TxType
<1>8. WireOk(r, g, tx[r][g], conn[r][g], rx[g])
  BY <1>3 DEF TransferInv, WireInv
<1> DEFINE c == conn[r][g]
           t == tx[r][g]
           x == rx[g]
<1>9. /\ WireOk(r, g, t, c, x) /\ c.stream \in Seq(ItemType) /\ c.stream # <<>> /\ t.todo \in Seq(ItemType)
      /\ x.at \in Busy /\ x.from = r
  BY <1>2, <1>5, <1>7, <1>8
<1> HIDE DEF c, t, x
<1>10. c.peer = "accepted" /\ Head(c.stream) \in ItemType /\ Expected(r, g, x, Head(c.stream))
  BY <1>9, WireHead
<1> QED BY <1>3, <1>4, <1>5, <1>6, <1>7, <1>8, <1>10 DEF c, t, x

\* The receiver goes on, and expects what is sent next; or it ends.
ReadsOn(g, x) ==
    LET r == rx[g].from
        h == Head(Incoming(g))
    IN  /\ conn' = Consumed(g)
        /\ \A b : Follows(r, g, h, b) => Expected(r, g, x, b)
        /\ ~ Threads /\ Closing(r, g, h) => ~ Reading(r, x)
ReadsLast(g, x) == conn' = ConsumedLast(g) /\ x.at \notin Busy

LEMMA ReadWires ==
    ASSUME TaskInv, TransferInv, NEW g \in Flows, rx[g].at \in {"header", "data"}, Incoming(g) # <<>>,
           NEW x, x.from = rx[g].from, ReadsOn(g, x) \/ ReadsLast(g, x)
    PROVE  /\ conn' \in [Senders -> [Flows -> ConnType]]
           /\ \A s \in Senders : \A f \in Flows : f # g => conn'[s][f] = conn[s][f]
           /\ \A s \in Senders : WireOk(s, g, tx[s][g], conn'[s][g], x)
<1> DEFINE r == rx[g].from
           h == Head(Incoming(g))
           w == Tail(conn[r][g].stream)
           p == IF ReadsOn(g, x) THEN conn[r][g].peer ELSE "closed"
           c == [conn[r][g] EXCEPT !.stream = w, !.peer = p]
<1>1. r = rx[g].from /\ h = Head(Incoming(g))
  OBVIOUS
<1> HIDE DEF r, h
<1>2. /\ r \in Senders /\ conn[r][g] \in ConnType /\ conn[r][g].peer = "accepted"
      /\ conn[r][g].stream \in Seq(ItemType) /\ conn[r][g].stream # <<>> /\ h = Head(conn[r][g].stream)
      /\ tx[r][g].todo \in Seq(ItemType) /\ tx[r][g].at \in TxPlaces /\ TxOk(tx[r][g])
      /\ WireOk(r, g, tx[r][g], conn[r][g], rx[g])
  BY <1>1, ReadHead
<1>3. conn \in [Senders -> [Flows -> ConnType]]
  BY DEF TransferInv, ReceiverTypes
<1>4. w \in Seq(ItemType)
  BY <1>2, HeadTailProperties
<1>5. conn' = [conn EXCEPT ![r][g] = c]
  <2>1. CASE ReadsOn(g, x)
    <3>1. conn' = [conn EXCEPT ![r][g].stream = Tail(@)]
      BY <1>1, <2>1 DEF ReadsOn, Consumed
    <3>2. c = [conn[r][g] EXCEPT !.stream = w]
      BY <1>2, <2>1 DEF ConnType
    <3> QED BY <3>1, <3>2
  <2>2. CASE ~ ReadsOn(g, x)
    <3>1. conn' = [conn EXCEPT ![r][g].stream = Tail(@), ![r][g].peer = "closed"]
      BY <1>1, <2>2 DEF ReadsLast, ConsumedLast
    <3> QED BY <1>2, <1>3, <2>2, <3>1
  <2> QED BY <2>1, <2>2
<1>6. p \in {"accepted", "closed"} /\ (ReadsOn(g, x) => p = conn[r][g].peer) /\ (~ ReadsOn(g, x) => p = "closed")
  BY <1>2
<1> HIDE DEF w, p
<1>7. c \in ConnType /\ c.stream = w /\ c.peer = p
  BY <1>2, <1>4, <1>6 DEF ConnType
<1> HIDE DEF c
<1>8. /\ conn' \in [Senders -> [Flows -> ConnType]]
      /\ \A s \in Senders : \A f \in Flows : conn'[s][f] = IF s = r /\ f = g THEN c ELSE conn[s][f]
  BY <1>2, <1>3, <1>5, <1>7, UpdateOne
<1>9. ASSUME NEW s \in Senders PROVE WireOk(s, g, tx[s][g], conn'[s][g], x)
  <2>1. CASE s # r
    <3>1. WireOk(s, g, tx[s][g], conn[s][g], rx[g])
      BY DEF TransferInv, WireInv
    <3>2. conn'[s][g] = conn[s][g] /\ rx[g].from # s /\ x.from # s
      BY <1>1, <1>8, <2>1
    <3> QED BY <3>1, <3>2, WireOther
  <2>2. CASE s = r /\ ReadsOn(g, x)
    <3>1. /\ \A b : Follows(r, g, Head(conn[r][g].stream), b) => Expected(r, g, x, b)
          /\ ~ Threads /\ Closing(r, g, Head(conn[r][g].stream)) => ~ Reading(r, x)
      BY <1>1, <1>2, <2>2 DEF ReadsOn
    <3>2. c.stream = Tail(conn[r][g].stream) /\ c.peer = conn[r][g].peer
      BY <1>6, <1>7, <2>2 DEF w
    <3>3. rx[g].at \in Busy /\ rx[g].from = r
      BY <1>1 DEF Busy
    <3>4. WireOk(r, g, tx[r][g], c, x)
      BY <1>2, <3>1, <3>2, <3>3, WireTaken
    <3> QED BY <1>8, <2>2, <3>4
  <2>3. CASE s = r /\ ~ ReadsOn(g, x)
    <3>1. x.at \notin Busy
      BY <2>3 DEF ReadsLast
    <3>2. WireOk(r, g, tx[r][g], c, x)
      BY <1>2, <1>6, <1>7, <2>3, <3>1, WireClosed
    <3> QED BY <1>8, <2>3, <3>2
  <2> QED BY <2>1, <2>2, <2>3
<1> QED BY <1>8, <1>9

\* A header in order says what it should.
LEMMA HeaderRead ==
    ASSUME scenario \in Scenarios, NEW r \in Senders, NEW g \in Flows, NEW h \in ItemType, Opening(r, g, h)
    PROVE  /\ h.kind \in {"magic", "done"} /\ h.id = r /\ h.total = Size(r) /\ h.off \in Nat /\ h.n \in Nat
           /\ h.kind = "magic" /\ ~ Threads /\ Size(r) = NUnits => h.off < NUnits
<1>1. h.kind \in {"magic", "done"} /\ h.id = r /\ h.total = Size(r)
  <2>1. \E k \in {"magic", "done"} : \E o, n : h = Header(k, r, g, o, n)
    BY DEF Opening
  <2>2. PICK k \in {"magic", "done"} : \E o, n : h = Header(k, r, g, o, n)
    BY <2>1
  <2>3. PICK o, n : h = Header(k, r, g, o, n)
    BY <2>2
  <2> QED BY <2>3 DEF Header
<1>2. h.off \in Nat /\ h.n \in Nat
  <2>1. h.kind # "unit"
    BY <1>1
  <2> QED BY <2>1 DEF ItemType
<1>3. ASSUME h.kind = "magic", ~ Threads, Size(r) = NUnits PROVE h.off < NUnits
  <2>1. NUnits \in Nat
    BY FlowAssumption
  <2>2. h # Header("done", r, g, 0, 0)
    BY <1>3 DEF Header
  <2>3. PICK p \in 0..(Size(r) - 1) : h = Header("magic", r, g, p, Min({StripeUnits, Size(r) - p}))
    BY <1>3, <2>2 DEF Opening
  <2>4. h.off = p
    BY <2>3 DEF Header
  <2> QED BY <1>3, <2>1, <2>3, <2>4
<1> QED BY <1>1, <1>2, <1>3

\* A flow that begins with its part, or with a stripe.
LEMMA DataStarts ==
    ASSUME scenario \in Scenarios, NEW r \in Senders, NEW g \in Flows, NEW h \in ItemType, Opening(r, g, h),
           HeaderOk(g, h), h.kind = "magic", NEW d,
           NEW x \in RxType, x.at = "data", x.from = r, x.tid = r, x.part = h.off, x.staged = <<>>,
           x.left = IF Threads THEN h.n * Iterations ELSE h.n
    PROVE  FlowOk(g, x, d) /\ NextUnit(g, x) = h.off
<1>1. /\ h.id = r /\ h.total = Size(r) /\ h.off \in Nat /\ h.n \in Nat
      /\ ~ Threads /\ Size(r) = NUnits => h.off < NUnits
  BY HeaderRead
<1>2. Size(r) = NUnits
  BY <1>1 DEF HeaderOk, StaticHeaderOk, DynamicHeaderOk
<1>3. r # None /\ NUnits \in Nat /\ NFlows <= NUnits /\ Iterations \in Nat \ {0}
  BY FlowAssumption, Sizes DEF Senders
<1>4. CASE Threads
  <2> DEFINE lo == PartStart(NUnits, g)
             n == PartLen(NUnits, g)
             a == n * Iterations
  <2>1. h.off = lo /\ h.n = n
    BY <1>4 DEF HeaderOk, StaticHeaderOk
  <2>2. lo \in Nat /\ n \in Nat \ {0}
    BY <1>3, PartBounds
  <2> HIDE DEF lo, n
  <2>3. a \in Nat \ {0}
    BY <1>3, <2>2
  <2>4. x.left = a
    BY <1>4, <2>1
  <2> HIDE DEF a
  <2>5. x.left \in 1..a /\ a - x.left = 0
    BY <2>3, <2>4
  <2>6. PartOk(g, x, d)
    <3>1. \A i \in 0..(n - 1) : ~ (i < a - x.left)
      BY <2>2, <2>5
    <3> QED BY <2>1, <2>5, <3>1 DEF PartOk, lo, n, a
  <2>7. FlowOk(g, x, d)
    BY <1>2, <1>3, <1>4, <2>6 DEF FlowOk, Early, Busy
  <2>8. NextUnit(g, x) = lo + ((a - x.left) % n)
    BY <1>4, <2>1 DEF NextUnit, n, a
  <2>9. lo + (0 % n) = lo
    BY <2>2
  <2> QED BY <2>1, <2>5, <2>7, <2>8, <2>9
<1>5. CASE ~ Threads
  <2>1. h.off % StripeUnits = 0 /\ h.n = Min({StripeUnits, NUnits - h.off}) /\ h.n > 0
    BY <1>1, <1>2, <1>5 DEF HeaderOk, DynamicHeaderOk
  <2>2. Len(x.staged) = 0
    OBVIOUS
  <2>3. 0 + x.left = Min({StripeUnits, NUnits - h.off})
    BY <1>1, <1>5, <2>1
  <2>4. StagedOk(x)
    BY <1>1, <1>2, <1>5, <2>1, <2>2, <2>3 DEF StagedOk
  <2>5. FlowOk(g, x, d)
    BY <1>2, <1>3, <1>5, <2>4 DEF FlowOk, Early, Busy
  <2>6. NextUnit(g, x) = h.off
    BY <1>1, <1>5, <2>2 DEF NextUnit
  <2> QED BY <2>5, <2>6
<1> QED BY <1>4, <1>5

LEMMA ReadHeaderStep ==
    ASSUME TaskInv, TransferInv, NEW g \in Flows, ReadHeader(g)
    PROVE  TransferInv'
<1>1. /\ conn \in [Senders -> [Flows -> ConnType]] /\ queue \in [Flows -> Seq(Senders)]
      /\ rx \in [Flows -> RxType] /\ rx[g] \in RxType /\ placed \subseteq Nat
      /\ dest \in [0..(NUnits - 1) -> (Senders \X Nat) \cup {None}] /\ scenario \in Scenarios
  BY DEF TransferInv, ReceiverTypes, TaskInv, SenderTypes
<1>2. \A f \in Flows : FlowOk(f, rx[f], dest)
  BY DEF TransferInv, FlowInv
<1> DEFINE r == rx[g].from
           h == Head(Incoming(g))
           good == HeaderOk(g, h)
           more == good /\ h.kind = "magic"
           a == IF more THEN "data" ELSE IF good THEN "done" ELSE "failed"
           d == IF good THEN h.id ELSE rx[g].tid
           l == IF Threads THEN h.n * Iterations ELSE h.n
           x == [rx[g] EXCEPT !.at = a, !.tid = d, !.part = h.off, !.left = l, !.staged = <<>>]
<1>3. /\ rx[g].at = "header" /\ Incoming(g) # <<>> /\ rx' = [rx EXCEPT ![g] = x]
      /\ conn' = (IF more THEN Consumed(g) ELSE ConsumedLast(g))
      /\ UNCHANGED <<scenario, tx, queue, recv, placed, dest, local>>
  BY DEF ReadHeader
<1>4. r = rx[g].from /\ h = Head(Incoming(g))
  OBVIOUS
<1> HIDE DEF r, h
<1>5. r \in Senders /\ h \in ItemType /\ Expected(r, g, rx[g], h)
  BY <1>3, <1>4, ReadHead
<1>6. Opening(r, g, h)
  BY <1>3, <1>5 DEF Expected, Reading
<1>7. h.kind \in {"magic", "done"} /\ h.id = r /\ h.off \in Nat /\ h.n \in Nat
  BY <1>1, <1>5, <1>6, HeaderRead
<1>8. /\ a \in {"data", "done", "failed"} /\ (a = "data" <=> more) /\ (a = "done" => good /\ ~ more)
      /\ (a = "failed" => ~ good)
  OBVIOUS
<1>9. (good => d = r) /\ (~ good => d = rx[g].tid) /\ d \in Senders \cup {None}
  BY <1>1, <1>5, <1>7 DEF RxType
<1>10. l \in Nat /\ l = IF Threads THEN h.n * Iterations ELSE h.n
  <2>1. Iterations \in Nat
    BY <1>1, <1>5, Sizes
  <2>2. h.n * Iterations \in Nat
    BY <1>7, <2>1
  <2> QED BY <1>7, <2>2
<1>11. <<>> \in Seq(Senders \X Nat)
  OBVIOUS
<1> HIDE DEF a, d, l, good, more
<1>12. /\ x \in RxType /\ x.at = a /\ x.from = r /\ x.tid = d /\ x.part = h.off /\ x.left = l /\ x.staged = <<>>
  <2>1. a \in RxPlaces
    BY <1>8 DEF RxPlaces, Ended
  <2> QED BY <1>1, <1>4, <1>7, <1>9, <1>10, <1>11, <2>1 DEF RxType
<1> HIDE DEF x
<1>13. more => FlowOk(g, x, dest) /\ NextUnit(g, x) = h.off
  <2> SUFFICES ASSUME more PROVE FlowOk(g, x, dest) /\ NextUnit(g, x) = h.off
    OBVIOUS
  <2>1. x.at = "data" /\ x.tid = r /\ HeaderOk(g, h) /\ h.kind = "magic"
    BY <1>8, <1>9, <1>12 DEF more, good
  <2> QED BY <1>1, <1>5, <1>6, <1>10, <1>12, <2>1, DataStarts
<1>14. ~ more => FlowOk(g, x, dest)
  <2> SUFFICES ASSUME ~ more PROVE FlowOk(g, x, dest)
    OBVIOUS
  <2>1. rx[g].tid \in {None, r}
    BY <1>2, <1>4 DEF FlowOk
  <2>2. x.at \in {"done", "failed"} /\ x.tid \in {None, r} /\ (x.at = "done" => x.tid = r /\ r # None)
    BY <1>5, <1>8, <1>9, <1>12, <2>1, FlowAssumption DEF Senders
  <2>3. x.at = "done" => ~ Threads
    BY <1>8, <1>12 DEF good, more, HeaderOk, StaticHeaderOk
  <2>4. Threads => PartOk(g, x, dest)
    BY <2>2, <2>3 DEF PartOk
  <2>5. StagedOk(x)
    BY <2>2 DEF StagedOk
  <2> QED BY <1>5, <1>12, <2>2, <2>4, <2>5 DEF FlowOk, Early, Busy
<1>15. more => ReadsOn(g, x)
  <2> SUFFICES ASSUME more PROVE ReadsOn(g, x)
    OBVIOUS
  <2>1. x.at = "data" /\ h.kind = "magic"
    BY <1>8, <1>12 DEF more
  <2>2. ASSUME NEW b, Follows(r, g, h, b) PROVE Expected(r, g, x, b)
    <3>1. b = Unit(r, h.off)
      BY <2>1, <2>2 DEF Follows
    <3> QED BY <1>12, <1>13, <2>1, <3>1 DEF Expected, Reading
  <2>3. ~ Closing(r, g, h)
    BY <2>1 DEF Closing
  <2> QED BY <1>3, <1>4, <2>2, <2>3 DEF ReadsOn
<1>16. ~ more => ReadsLast(g, x)
  BY <1>3, <1>8, <1>12 DEF ReadsLast, Busy
<1>17. /\ conn' \in [Senders -> [Flows -> ConnType]]
       /\ \A s \in Senders : \A f \in Flows : f # g => conn'[s][f] = conn[s][f]
       /\ \A s \in Senders : WireOk(s, g, tx[s][g], conn'[s][g], x)
  <2>1. x.from = rx[g].from /\ (ReadsOn(g, x) \/ ReadsLast(g, x))
    BY <1>4, <1>12, <1>15, <1>16
  <2> QED BY <1>3, <2>1, ReadWires
<1>18. RxTo(g, x)
  BY <1>3, <1>17 DEF RxTo
<1>19. ~ Threads => PlacedInv'
  <2>1. ~ Threads => PlacedInv
    BY DEF TransferInv
  <2>2. rx[g].at # "killed" /\ rx[g].at # "copy"
    BY <1>3
  <2>3. rx[g].tid # None => x.tid = rx[g].tid
    BY <1>2, <1>4, <1>9, <1>12 DEF FlowOk
  <2> QED BY <1>1, <1>3, <1>12, <1>18, <2>1, <2>2, <2>3, PlacedKept
<1>20. rx[g].at \notin Ended \cup {"idle"} /\ x.at \notin Early
  BY <1>3, <1>8, <1>12 DEF Ended, Early
<1>21. dest' = dest /\ placed' = placed /\ queue' = queue
  BY <1>3
<1> QED BY <1>1, <1>2, <1>12, <1>13, <1>14, <1>17, <1>18, <1>19, <1>20, <1>21, RxStep

\* A unit is received into the destination: the next one of the part, also when
\* the part begins again.
Turn(n, a, l, k, i, j) ==
    /\ n \in Nat \ {0} /\ a \in Nat /\ l \in 1..a /\ k = l - 1
    /\ i = (a - l) % n /\ j = (a - k) % n

LEMMA PartStep ==
    ASSUME NEW n, NEW a, NEW l, NEW k, NEW i, NEW j, Turn(n, a, l, k, i, j)
    PROVE  /\ i \in 0..(n - 1) /\ j = (IF i = n - 1 THEN 0 ELSE i + 1)
           /\ \A m \in 0..(n - 1) : m < a - k => m = i \/ m < a - l
<1>0. /\ n \in Nat \ {0} /\ a \in Nat /\ l \in 1..a /\ k = l - 1
      /\ i = (a - l) % n /\ j = (a - k) % n
  BY DEF Turn
<1> DEFINE y == a - l
<1>1. y \in Nat /\ a - k = y + 1
  BY <1>0
<1> HIDE DEF y
<1>2. i = y % n /\ j = (y + 1) % n
  BY <1>0, <1>1 DEF y
<1>3. i \in 0..(n - 1) /\ y = n * (y \div n) + i /\ y \div n \in Nat
  BY <1>0, <1>1, <1>2, DivMod
<1>4. j = IF i = n - 1 THEN 0 ELSE i + 1
  BY <1>0, <1>1, <1>2, ModStep
<1>5. ASSUME NEW m \in 0..(n - 1), m < y + 1 PROVE m = i \/ m < y
  <2> SUFFICES ASSUME m = y PROVE m = i
    BY <1>1, <1>5
  <2> DEFINE q == y \div n
  <2>1. q \in Nat /\ y = n * q + i
    BY <1>3
  <2> HIDE DEF q
  <2>2. q = 0
    <3>1. q >= 1 => n * q >= n
      BY <1>0, <2>1
    <3>2. n * q \in Nat
      BY <1>0, <2>1
    <3> QED BY <1>0, <1>3, <1>5, <2>1, <3>1, <3>2
  <2>3. n * q = 0
    BY <1>0, <2>2
  <2> QED BY <1>3, <2>1, <2>3
<1> QED BY <1>1, <1>3, <1>4, <1>5 DEF y

\* Other flows have other places.
LEMMA OtherParts ==
    ASSUME NEW f \in Flows, NEW g \in Flows, f # g,
           NEW i \in 0..(PartLen(NUnits, f) - 1), NEW j \in 0..(PartLen(NUnits, g) - 1)
    PROVE  PartStart(NUnits, f) + i # PartStart(NUnits, g) + j
<1>1. NUnits \in Nat /\ NFlows <= NUnits
  BY FlowAssumption
<1> DEFINE a == PartStart(NUnits, f)
           m == PartLen(NUnits, f)
           b == PartStart(NUnits, g)
           n == PartLen(NUnits, g)
<1>2. a \in Nat /\ m \in Nat
  BY <1>1, PartBounds
<1>3. b \in Nat /\ n \in Nat
  BY <1>1, PartBounds
<1>4. f \in Int /\ g \in Int
  BY DEF Flows
<1>5. f < g \/ g < f
  BY <1>4
<1>6. f < g => a + m <= b
  BY <1>1, PartsApart
<1>7. g < f => b + n <= a
  BY <1>1, PartsApart
<1> HIDE DEF a, b, m, n
<1>8. i \in 0..(m - 1) /\ j \in 0..(n - 1)
  BY DEF m, n
<1>9. a + i # b + j
  BY <1>2, <1>3, <1>5, <1>6, <1>7, <1>8
<1> QED BY <1>9 DEF a, b

LEMMA ReadStaticStep ==
    ASSUME TaskInv, TransferInv, NEW g \in Flows, ReadStatic(g)
    PROVE  TransferInv'
<1>1. /\ conn \in [Senders -> [Flows -> ConnType]] /\ queue \in [Flows -> Seq(Senders)]
      /\ rx \in [Flows -> RxType] /\ rx[g] \in RxType /\ placed \subseteq Nat
      /\ dest \in [0..(NUnits - 1) -> (Senders \X Nat) \cup {None}] /\ scenario \in Scenarios
  BY DEF TransferInv, ReceiverTypes, TaskInv, SenderTypes
<1>2. \A f \in Flows : FlowOk(f, rx[f], dest)
  BY DEF TransferInv, FlowInv
<1> DEFINE r == rx[g].from
           h == Head(Incoming(g))
           lo == PartStart(NUnits, g)
           n == PartLen(NUnits, g)
           a == n * Iterations
           l == rx[g].left
           i == (a - l) % n
           u == lo + i
           done == l = 1
           at == IF done THEN "done" ELSE "data"
           k == l - 1
           e == rx[g].got + 1
           x == [rx[g] EXCEPT !.at = at, !.left = k, !.got = e]
<1>3. /\ Threads /\ rx[g].at = "data" /\ Incoming(g) # <<>>
      /\ UNCHANGED <<scenario, tx, queue, recv, placed, local>>
  BY DEF ReadStatic
<1>4. rx' = [rx EXCEPT ![g] = x] /\ conn' = (IF done THEN ConsumedLast(g) ELSE Consumed(g))
  <2>1. rx' = [rx EXCEPT ![g].left = k, ![g].got = e, ![g].at = IF done THEN "done" ELSE rx[g].at]
    BY <1>1 DEF ReadStatic
  <2> QED BY <1>1, <1>3, <2>1 DEF ReadStatic
<1>5. r = rx[g].from /\ h = Head(Incoming(g))
  OBVIOUS
<1> HIDE DEF r, h
<1>6. r \in Senders /\ h \in ItemType /\ Expected(r, g, rx[g], h)
  BY <1>3, <1>5, ReadHead
<1>7. FlowOk(g, rx[g], dest)
  BY <1>2
<1>8. /\ rx[g].part = lo /\ l \in 1..a /\ \A m \in 0..(n - 1) : m < a - l => dest[lo + m] = <<rx[g].tid, lo + m>>
      /\ rx[g].tid = r /\ r # None /\ Size(r) = NUnits
  BY <1>3, <1>5, <1>7 DEF FlowOk, PartOk
<1>9. NUnits \in Nat /\ NFlows <= NUnits /\ Iterations \in Nat \ {0}
  BY <1>1, <1>6, FlowAssumption, Sizes
<1>10. lo \in Nat /\ n \in Nat \ {0} /\ lo + n <= NUnits
  BY <1>9, PartBounds
<1>11. rx[g].got \in Nat
  BY <1>1 DEF RxType
<1>12. NextUnit(g, rx[g]) = u
  BY <1>3, <1>8 DEF NextUnit
<1>13. h = Unit(r, u)
  BY <1>3, <1>5, <1>6, <1>12 DEF Expected, Reading
<1>14. dest' = [dest EXCEPT ![u] = <<r, u>>]
  <2>1. dest' = [dest EXCEPT ![u] = <<h.id, h.off>>]
    BY <1>5, <1>8 DEF ReadStatic
  <2>2. h.id = r /\ h.off = u
    BY <1>13 DEF Unit
  <2> QED BY <2>1, <2>2
<1> HIDE DEF lo, n
<1>15. a \in Nat
  BY <1>9, <1>10
<1> DEFINE j == (a - k) % n
<1>16. l \in 1..a /\ i = (a - l) % n /\ j = (a - k) % n /\ k = l - 1
  BY <1>8 DEF a
<1> HIDE DEF i, j, k, a, l
<1>16a. /\ i \in 0..(n - 1) /\ j = (IF i = n - 1 THEN 0 ELSE i + 1)
      /\ \A m \in 0..(n - 1) : m < a - k => m = i \/ m < a - l
  <2>1. Turn(n, a, l, k, i, j)
    BY <1>10, <1>15, <1>16 DEF Turn
  <2> QED BY <2>1, PartStep
<1>17. k \in Nat /\ e \in Nat /\ (~ done => k \in 1..a) /\ (done => k = 0 /\ a - k = a) /\ (~ done <=> k # 0)
  BY <1>11, <1>15, <1>16
<1> HIDE DEF e, done
<1>18. u \in Nat /\ u \in 0..(NUnits - 1) /\ <<r, u>> \in Senders \X Nat
  BY <1>6, <1>9, <1>10, <1>16a
<1>19. at \in {"data", "done"} /\ (at = "done" <=> done)
  OBVIOUS
<1> HIDE DEF at
<1>20. x \in RxType /\ x.at = at /\ x.from = r /\ x.tid = r /\ x.part = lo /\ x.left = k
  <2>1. at \in RxPlaces
    BY <1>19 DEF RxPlaces, Ended
  <2> QED BY <1>1, <1>5, <1>8, <1>17, <2>1 DEF RxType
<1> HIDE DEF x
<1>21. /\ dest' \in [0..(NUnits - 1) -> (Senders \X Nat) \cup {None}]
       /\ \A v \in 0..(NUnits - 1) : dest'[v] = IF v = u THEN <<r, u>> ELSE dest[v]
  BY <1>1, <1>14, <1>18
<1>22. ASSUME NEW m \in 0..(n - 1), m = i \/ m < a - l PROVE dest'[lo + m] = <<r, lo + m>>
  <2>1. lo + m \in 0..(NUnits - 1)
    BY <1>9, <1>10
  <2>2. CASE m = i
    BY <1>21, <2>1, <2>2
  <2>3. CASE m # i
    <3>1. dest[lo + m] = <<r, lo + m>>
      BY <1>8, <1>22, <2>3
    <3>2. lo + m # u
      BY <1>10, <1>16a, <2>3
    <3> QED BY <1>21, <2>1, <3>1, <3>2
  <2> QED BY <2>2, <2>3
<1>23. PartOk(g, x, dest')
  <2>1. ~ done => /\ k \in 1..a
                  /\ \A m \in 0..(n - 1) : m < a - k => dest'[lo + m] = <<r, lo + m>>
    BY <1>17, <1>16a, <1>22
  <2>2. done => \A m \in 0..(n - 1) : dest'[lo + m] = <<r, lo + m>>
    <3>1. n <= a
      BY <1>9, <1>10 DEF a
    <3>2. done => \A m \in 0..(n - 1) : m < a - k
      BY <1>10, <1>15, <1>17, <3>1
    <3> QED BY <1>16a, <1>22, <3>2
  <2> QED BY <1>19, <1>20, <2>1, <2>2 DEF PartOk, lo, n, a
<1>24. FlowOk(g, x, dest')
  BY <1>3, <1>6, <1>8, <1>19, <1>20, <1>23 DEF FlowOk, Early, Busy
<1>25. ASSUME NEW f \in Flows, f # g PROVE FlowOk(f, rx[f], dest')
  <2>1. FlowOk(f, rx[f], dest)
    BY <1>2
  <2>2. ASSUME NEW m \in 0..(PartLen(NUnits, f) - 1)
        PROVE  dest'[PartStart(NUnits, f) + m] = dest[PartStart(NUnits, f) + m]
    <3> DEFINE p == PartStart(NUnits, f)
               q == PartLen(NUnits, f)
    <3>1. p \in Nat /\ q \in Nat /\ p + q <= NUnits
      BY <1>9, PartBounds
    <3>2. p + m # PartStart(NUnits, g) + i
      BY <1>16a, <1>25, OtherParts DEF n
    <3>3. m \in 0..(q - 1)
      OBVIOUS
    <3> HIDE DEF p, q
    <3>4. p + m \in 0..(NUnits - 1) /\ p + m # u
      BY <1>9, <3>1, <3>2, <3>3 DEF lo
    <3>5. dest'[p + m] = dest[p + m]
      BY <1>21, <3>4
    <3> QED BY <3>5 DEF p
  <2>3. PartOk(f, rx[f], dest')
    <3>1. PartOk(f, rx[f], dest)
      BY <1>3, <2>1 DEF FlowOk
    <3> QED BY <2>2, <3>1 DEF PartOk
  <2> QED BY <1>3, <2>1, <2>3 DEF FlowOk
<1>26. ~ done => ReadsOn(g, x)
  <2> SUFFICES ASSUME ~ done PROVE ReadsOn(g, x)
    OBVIOUS
  <2>1. x.at = "data" /\ NextUnit(g, x) = lo + j
    BY <1>3, <1>19, <1>20 DEF NextUnit, j, n, a
  <2>2. ASSUME NEW b, Follows(r, g, h, b) PROVE Expected(r, g, x, b)
    <3>1. h.kind = "unit" /\ h.off = u
      BY <1>13 DEF Unit
    <3>2. LastOf(r, g, u) <=> i = n - 1
      <4>1. LastOf(r, g, u) <=> u + 1 = lo + n
        BY <1>3, <1>8 DEF LastOf, lo, n
      <4>2. u + 1 = lo + n <=> i = n - 1
        BY <1>10, <1>16a
      <4> QED BY <4>1, <4>2
    <3>3. b = Unit(r, IF LastOf(r, g, u) THEN lo ELSE u + 1)
      BY <1>3, <1>8, <2>2, <3>1 DEF Follows, lo
    <3>4. (IF LastOf(r, g, u) THEN lo ELSE u + 1) = lo + j
      BY <1>10, <1>16a, <3>2
    <3>5. b = Unit(r, NextUnit(g, x))
      BY <2>1, <3>3, <3>4
    <3> QED BY <1>20, <2>1, <3>5 DEF Expected, Reading
  <2>3. conn' = Consumed(g)
    BY <1>4
  <2> QED BY <1>3, <1>5, <2>2, <2>3 DEF ReadsOn
<1>27. done => ReadsLast(g, x)
  BY <1>4, <1>19, <1>20 DEF ReadsLast, Busy
<1>28. /\ conn' \in [Senders -> [Flows -> ConnType]]
       /\ \A s \in Senders : \A f \in Flows : f # g => conn'[s][f] = conn[s][f]
       /\ \A s \in Senders : WireOk(s, g, tx[s][g], conn'[s][g], x)
  <2>1. x.from = rx[g].from /\ (ReadsOn(g, x) \/ ReadsLast(g, x))
    BY <1>5, <1>20, <1>26, <1>27
  <2> QED BY <1>3, <2>1, ReadWires
<1>29. RxTo(g, x)
  BY <1>3, <1>4, <1>28 DEF RxTo
<1>30. rx[g].at \notin Ended \cup {"idle"} /\ x.at \notin Early
  BY <1>3, <1>19, <1>20 DEF Ended, Early
<1>31. placed' = placed /\ queue' = queue
  BY <1>3
<1> QED BY <1>1, <1>3, <1>20, <1>21, <1>24, <1>25, <1>28, <1>29, <1>30, <1>31, RxStep

\* A unit is staged: the next one of the stripe.
LEMMA ReadDynamicStep ==
    ASSUME TaskInv, TransferInv, NEW g \in Flows, ReadDynamic(g)
    PROVE  TransferInv'
<1>1. /\ conn \in [Senders -> [Flows -> ConnType]] /\ queue \in [Flows -> Seq(Senders)]
      /\ rx \in [Flows -> RxType] /\ rx[g] \in RxType /\ placed \subseteq Nat
      /\ dest \in [0..(NUnits - 1) -> (Senders \X Nat) \cup {None}] /\ scenario \in Scenarios
  BY DEF TransferInv, ReceiverTypes, TaskInv, SenderTypes
<1>2. \A f \in Flows : FlowOk(f, rx[f], dest)
  BY DEF TransferInv, FlowInv
<1> DEFINE r == rx[g].from
           h == Head(Incoming(g))
           st == rx[g].staged
           w == Append(st, <<h.id, h.off>>)
           n == Len(st)
           l == rx[g].left
           lo == rx[g].part
           done == l = 1
           at == IF ~ done THEN "data" ELSE IF Stripe(g) \in rx[g].seen THEN "header" ELSE "lock"
           k == l - 1
           e == IF done THEN rx[g].got + n + 1 ELSE rx[g].got
           x == [rx[g] EXCEPT !.at = at, !.left = k, !.staged = w, !.got = e]
<1>3. /\ ~ Threads /\ rx[g].at = "data" /\ Incoming(g) # <<>> /\ conn' = Consumed(g)
      /\ UNCHANGED <<scenario, tx, queue, recv, placed, dest, local>>
  BY DEF ReadDynamic
<1>4. rx' = [rx EXCEPT ![g] = x]
  <2>1. rx' = [rx EXCEPT ![g].left = k, ![g].staged = w, ![g].got = e,
                         ![g].at = IF ~ done THEN rx[g].at ELSE IF Stripe(g) \in rx[g].seen THEN "header" ELSE "lock"]
    BY <1>1 DEF ReadDynamic
  <2> QED BY <1>1, <1>3, <2>1
<1>5. r = rx[g].from /\ h = Head(Incoming(g))
  OBVIOUS
<1> HIDE DEF r, h
<1>6. r \in Senders /\ h \in ItemType /\ Expected(r, g, rx[g], h)
  BY <1>3, <1>5, ReadHead
<1>7. FlowOk(g, rx[g], dest)
  BY <1>2
<1> DEFINE m == Min({StripeUnits, NUnits - lo})
<1>8. /\ lo % StripeUnits = 0 /\ lo < NUnits /\ n + l = m /\ l > 0
      /\ \A i \in 1..n : st[i] = <<rx[g].tid, lo + i - 1>>
      /\ rx[g].tid = r /\ r # None /\ Size(r) = NUnits
  BY <1>3, <1>5, <1>7 DEF FlowOk, StagedOk
<1>9. NUnits \in Nat \ {0} /\ StripeUnits \in Nat \ {0}
  BY FlowAssumption
<1>10. /\ lo \in Nat /\ l \in Nat /\ rx[g].got \in Nat /\ st \in Seq(Senders \X Nat) /\ n \in Nat
  BY <1>1, LenProperties DEF RxType
<1>11. NextUnit(g, rx[g]) = lo + n
  BY <1>3 DEF NextUnit
<1>12. h = Unit(r, lo + n)
  BY <1>3, <1>5, <1>6, <1>11 DEF Expected, Reading
<1>13. h.id = r /\ h.off = lo + n /\ h.kind = "unit"
  BY <1>12 DEF Unit
<1>14. at \in {"data", "header", "lock"} /\ (at = "data" <=> ~ done)
  OBVIOUS
<1> HIDE DEF at, lo, l, n, m
<1> DEFINE v == <<r, lo + n>>
<1>15. v \in Senders \X Nat /\ w = Append(st, v)
  BY <1>6, <1>10, <1>13
<1> HIDE DEF v, st
<1>16. w \in Seq(Senders \X Nat) /\ Len(w) = n + 1 /\ \A i \in 1..(n + 1) : w[i] = IF i = n + 1 THEN v ELSE st[i]
  <2>1. Append(st, v) \in Seq(Senders \X Nat) /\ Len(Append(st, v)) = Len(st) + 1
    BY <1>10, <1>15, AppendProperties
  <2>2. \A i \in 1..(Len(st) + 1) : Append(st, v)[i] = IF i = Len(st) + 1 THEN v ELSE st[i]
    BY <1>10, <1>15, AppendProperties
  <2> QED BY <1>15, <2>1, <2>2 DEF n
<1>17. k \in Nat /\ e \in Nat /\ k = l - 1 /\ (done <=> l = 1)
  BY <1>8, <1>10
<1> HIDE DEF w, k, e, done
<1>18. /\ x \in RxType /\ x.at = at /\ x.from = r /\ x.tid = r /\ x.part = lo /\ x.left = k /\ x.staged = w
  <2>1. at \in RxPlaces
    BY <1>14 DEF RxPlaces
  <2> QED BY <1>1, <1>5, <1>8, <1>16, <1>17, <2>1 DEF RxType, lo
<1> HIDE DEF x
<1>19. \A i \in 1..(n + 1) : w[i] = <<r, lo + i - 1>>
  <2>1. ASSUME NEW i \in 1..(n + 1) PROVE w[i] = <<r, lo + i - 1>>
    <3>1. CASE i = n + 1
      <4>1. lo + i - 1 = lo + n
        BY <1>10, <3>1
      <4> QED BY <1>16, <3>1, <4>1 DEF v
    <3>2. CASE i # n + 1
      <4>1. i \in 1..n
        BY <1>10, <3>2
      <4> QED BY <1>8, <1>16, <3>2, <4>1
    <3> QED BY <3>1, <3>2
  <2> QED BY <2>1
<1>20. /\ at = "data" => n + 1 + k = m /\ k > 0
       /\ at # "data" => n + 1 = m
  BY <1>8, <1>10, <1>14, <1>17
<1>21. StagedOk(x)
  <2>1. n + 1 + (IF x.at = "data" THEN x.left ELSE 0) = m
    BY <1>10, <1>18, <1>20
  <2>2. \A i \in 1..(n + 1) : x.staged[i] = <<x.tid, x.part + i - 1>>
    BY <1>18, <1>19
  <2>3. x.at = "data" => x.left > 0
    BY <1>18, <1>20
  <2>4. x.part % StripeUnits = 0 /\ x.part < NUnits /\ m = Min({StripeUnits, NUnits - x.part}) /\ Len(x.staged) = n + 1
    BY <1>8, <1>16, <1>18 DEF m
  <2> DEFINE o == n + 1
  <2> HIDE DEF o
  <2>5. /\ \A i \in 1..o : x.staged[i] = <<x.tid, x.part + i - 1>>
        /\ o + (IF x.at = "data" THEN x.left ELSE 0) = Min({StripeUnits, NUnits - x.part}) /\ Len(x.staged) = o
    BY <2>1, <2>2, <2>4 DEF o
  <2> QED BY <2>3, <2>4, <2>5 DEF StagedOk
<1>22. FlowOk(g, x, dest)
  BY <1>3, <1>6, <1>8, <1>14, <1>18, <1>21 DEF FlowOk, Early, Busy
<1>23. LastOf(r, g, lo + n) <=> done
  <2>1. lo \in 0..(NUnits - 1) /\ NUnits \in Nat /\ m = Min({StripeUnits, NUnits - lo})
    BY <1>8, <1>9, <1>10 DEF m
  <2>2. \A i \in 0..(m - 1) : (lo + i + 1 = NUnits \/ (lo + i + 1) % StripeUnits = 0) <=> i + 1 = m
    BY <1>8, <2>1, StripeEnd
  <2>3. n \in 0..(m - 1) /\ (n + 1 = m <=> done)
    BY <1>8, <1>10, <1>17
  <2>4. (lo + n + 1 = NUnits \/ (lo + n + 1) % StripeUnits = 0) <=> n + 1 = m
    BY <2>2, <2>3
  <2> QED BY <1>3, <1>8, <2>3, <2>4 DEF LastOf
<1>24. ReadsOn(g, x)
  <2>1. Reading(r, x) <=> ~ done
    BY <1>14, <1>18 DEF Reading
  <2>2. NextUnit(g, x) = lo + (n + 1)
    BY <1>3, <1>16, <1>18 DEF NextUnit
  <2>3. ASSUME NEW b, Follows(r, g, h, b) PROVE Expected(r, g, x, b)
    <3>1. IF ~ LastOf(r, g, lo + n) THEN b = Unit(r, lo + n + 1) ELSE Opening(r, g, b)
      BY <1>3, <1>13, <2>3 DEF Follows
    <3>2. CASE done
      BY <1>23, <2>1, <3>1, <3>2 DEF Expected
    <3>3. CASE ~ done
      <4>1. lo + n + 1 = lo + (n + 1)
        BY <1>10
      <4>2. b = Unit(r, NextUnit(g, x))
        BY <1>23, <2>2, <3>1, <3>3, <4>1
      <4> QED BY <2>1, <3>3, <4>2 DEF Expected
    <3> QED BY <3>2, <3>3
  <2>4. Closing(r, g, h) => ~ Reading(r, x)
    BY <1>13, <1>23, <2>1 DEF Closing
  <2> QED BY <1>3, <1>5, <2>3, <2>4 DEF ReadsOn
<1>25. /\ conn' \in [Senders -> [Flows -> ConnType]]
       /\ \A s \in Senders : \A f \in Flows : f # g => conn'[s][f] = conn[s][f]
       /\ \A s \in Senders : WireOk(s, g, tx[s][g], conn'[s][g], x)
  <2>1. x.from = rx[g].from /\ ReadsOn(g, x)
    BY <1>5, <1>18, <1>24
  <2> QED BY <1>3, <2>1, ReadWires
<1>26. RxTo(g, x)
  BY <1>3, <1>4, <1>25 DEF RxTo
<1>27. PlacedInv'
  <2>1. PlacedInv
    BY <1>3 DEF TransferInv
  <2>2. rx[g].at # "killed" /\ rx[g].at # "copy" /\ (rx[g].tid # None => x.tid = rx[g].tid)
    BY <1>3, <1>8, <1>18
  <2> QED BY <1>1, <1>3, <1>18, <1>26, <2>1, <2>2, PlacedKept
<1>28. rx[g].at \notin Ended \cup {"idle"} /\ x.at \notin Early
  BY <1>3, <1>14, <1>18 DEF Ended, Early
<1>29. dest' = dest /\ placed' = placed /\ queue' = queue
  BY <1>3
<1> QED BY <1>1, <1>2, <1>18, <1>22, <1>25, <1>26, <1>27, <1>28, <1>29, RxStep
-----------------------------------------------------------------------------
(* The steps of receive_into and of transfer_tensor_local. *)

\* A step that leaves the flows and the connections alone.
LEMMA TransferRests ==
    ASSUME TransferInv, UNCHANGED <<scenario, tx, conn, queue, rx, placed, dest>>,
           recv' = recv \/ (recv # "ok" /\ recv' = "terminated"), local' = "ok" => recv' = "ok"
    PROVE  TransferInv'
<1>1. ReceiverTypes' /\ QueueInv'
  BY DEF TransferInv, ReceiverTypes, QueueInv
<1>2. WireInv' /\ FlowInv'
  BY SameScene DEF TransferInv, WireInv, FlowInv
<1>3. ~ Threads' => PlacedInv'
  <2>1. PlacedInv' <=> PlacedInv
    BY DEF PlacedInv, Copied, Stripe
  <2>2. Threads' <=> Threads
    BY SameScene
  <2> QED BY <2>1, <2>2 DEF TransferInv
<1>4. \A s : Whole(s)' <=> Whole(s)
  BY DEF Whole
<1>5. recv' = "ok" => (\E s \in Senders : Whole(s)') /\ \A f \in Flows : rx'[f].at = "done"
  BY <1>4 DEF TransferInv
<1>6. recv' = "listen" => \A f \in Flows : rx'[f].at = "idle"
  BY DEF TransferInv
<1> QED BY <1>1, <1>2, <1>3, <1>5, <1>6 DEF TransferInv

\* The flows are started, or their barrier trips.
LEMMA FlowsStart ==
    ASSUME TransferInv, \A f \in Flows : rx[f].at \in Early, NEW a \in {"prepare", "accept"},
           rx' = [f \in Flows |-> [rx[f] EXCEPT !.at = a]],
           UNCHANGED <<scenario, tx, conn, queue, placed, dest, local>>,
           recv # "ok", recv' \notin {"listen", "ok"}
    PROVE  TransferInv'
<1>1. /\ rx \in [Flows -> RxType]
      /\ \A s \in Senders : \A f \in Flows : WireOk(s, f, tx[s][f], conn[s][f], rx[f])
      /\ \A f \in Flows : FlowOk(f, rx[f], dest)
  BY DEF TransferInv, ReceiverTypes, WireInv, FlowInv
<1>2. ASSUME NEW f \in Flows
      PROVE  /\ rx'[f] \in RxType /\ rx'[f].at = a /\ rx'[f].tid = rx[f].tid
             /\ FlowOk(f, rx'[f], dest) /\ rx[f].at \notin Busy /\ rx'[f].at \notin Busy
  <2> DEFINE x == rx[f]
             y == [x EXCEPT !.at = a]
  <2>1. x \in RxType /\ x.at \in Early /\ FlowOk(f, x, dest) /\ rx'[f] = y
    BY <1>1
  <2>2. y \in RxType /\ y.at = a /\ y.from = x.from /\ y.tid = x.tid
    BY <2>1 DEF RxType, RxPlaces
  <2> HIDE DEF x, y
  <2>3. FlowOk(f, y, dest)
    BY <2>1, <2>2 DEF FlowOk, PartOk, StagedOk, Early, Busy
  <2> QED BY <2>1, <2>2, <2>3 DEF Early, Busy, x
<1>3. rx' \in [Flows -> RxType]
  BY <1>2
<1>4. ReceiverTypes'
  BY <1>3 DEF TransferInv, ReceiverTypes
<1>5. WireInv'
  <2>1. ASSUME NEW s \in Senders, NEW f \in Flows PROVE WireOk(s, f, tx[s][f], conn[s][f], rx'[f])
    BY <1>1, <1>2, WireOther
  <2> QED BY <2>1, SameScene DEF WireInv
<1>6. FlowInv'
  BY <1>2, SameScene DEF FlowInv
<1>7. QueueInv'
  BY DEF TransferInv, QueueInv
<1>8. ~ Threads' => PlacedInv'
  <2>1. Threads' <=> Threads
    BY SameScene
  <2>2. ASSUME ~ Threads PROVE placed = {}
    <3>1. \A f \in Flows : rx[f].tid = None /\ rx[f].at # "killed" /\ rx[f].at # "copy"
      BY <1>1 DEF FlowOk, Early
    <3>2. PlacedInv
      BY <2>2 DEF TransferInv
    <3> QED BY <3>1, <3>2 DEF PlacedInv, Copied
  <2> QED BY <2>1, <2>2 DEF PlacedInv
<1>9. local' # "ok"
  BY DEF TransferInv
<1> QED BY <1>4, <1>5, <1>6, <1>7, <1>8, <1>9 DEF TransferInv

\* receive_into returns or raises.
LEMMA EndReceiveStep ==
    ASSUME TaskInv, TransferInv, NEW result \in {"ok", "failed", "terminated"}, EndReceive(result),
           UNCHANGED <<scenario, tx, placed, dest, local>>, recv # "ok",
           result = "ok" => (\E s \in Senders : Whole(s)) /\ \A f \in Flows : rx[f].at = "done"
    PROVE  TransferInv'
<1>1. /\ rx \in [Flows -> RxType] /\ conn \in [Senders -> [Flows -> ConnType]]
      /\ \A s \in Senders : \A f \in Flows : WireOk(s, f, tx[s][f], conn[s][f], rx[f])
      /\ \A f \in Flows : FlowOk(f, rx[f], dest)
  BY DEF TransferInv, ReceiverTypes, WireInv, FlowInv
<1> DEFINE Stopped(f) == rx[f].at \notin Ended \cup {"idle"}
<1>2. /\ recv' = result /\ queue' = [f \in Flows |-> <<>>]
      /\ \A f \in Flows : rx'[f] = [rx[f] EXCEPT !.at = IF Stopped(f) THEN "killed" ELSE rx[f].at]
      /\ rx' = [f \in Flows |-> rx'[f]]
      /\ \A s \in Senders : \A f \in Flows :
            conn'[s][f] = [conn[s][f] EXCEPT !.peer =
                IF conn[s][f].peer = "backlog" \/ (Stopped(f) /\ rx[f].from = s) THEN "closed" ELSE conn[s][f].peer]
      /\ conn' = [s \in Senders |-> [f \in Flows |-> conn'[s][f]]]
  BY DEF EndReceive
<1>3. ASSUME NEW f \in Flows
      PROVE  /\ rx'[f] \in RxType /\ FlowOk(f, rx'[f], dest) /\ rx'[f].at \notin Busy /\ rx'[f].tid = rx[f].tid
             /\ Stopped(f) => rx'[f].at = "killed"
             /\ ~ Stopped(f) => rx'[f] = rx[f]
  <2>1. rx[f] \in RxType /\ FlowOk(f, rx[f], dest)
    BY <1>1
  <2>2. CASE Stopped(f)
    <3> DEFINE y == rx'[f]
    <3>1. y = [rx[f] EXCEPT !.at = "killed"]
      BY <1>2, <2>2
    <3> HIDE DEF y
    <3>2. y \in RxType /\ y.at = "killed" /\ y.tid = rx[f].tid /\ FlowOk(f, y, dest)
      BY <2>1, <3>1, FlowStops DEF Stops
    <3> QED BY <2>2, <3>2 DEF y, Busy
  <2>3. CASE ~ Stopped(f)
    <3>1. rx'[f] = rx[f]
      BY <1>2, <2>1, <2>3 DEF RxType
    <3> QED BY <2>1, <2>3, <3>1 DEF Ended, Busy
  <2> QED BY <2>2, <2>3
<1>4. ASSUME NEW s \in Senders, NEW f \in Flows
      PROVE  conn'[s][f] \in ConnType /\ WireOk(s, f, tx[s][f], conn'[s][f], rx'[f])
  <2>1. conn[s][f] \in ConnType /\ WireOk(s, f, tx[s][f], conn[s][f], rx[f]) /\ rx'[f].at \notin Busy
    BY <1>1, <1>3
  <2>2. TxOk(tx[s][f])
    BY DEF TaskInv, SenderTypes
  <2>3. CASE conn[s][f].peer = "backlog" \/ (Stopped(f) /\ rx[f].from = s)
    <3>1. conn'[s][f] = [conn[s][f] EXCEPT !.peer = "closed"]
      BY <1>2, <2>3
    <3>2. conn'[s][f] \in ConnType /\ conn'[s][f].peer = "closed" /\ conn'[s][f].stream = conn[s][f].stream
      BY <2>1, <3>1 DEF ConnType
    <3>3. conn[s][f].peer # "none"
      <4> SUFFICES ASSUME Stopped(f), rx[f].from = s PROVE conn[s][f].peer = "accepted"
        BY <2>3
      <4>1. rx[f].at \notin Early
        BY <1>1, FlowAssumption DEF FlowOk, Senders
      <4>2. rx[f].at \in Busy
        BY <1>1, <4>1 DEF RxType, RxPlaces, Early, Busy
      <4> QED BY <2>1, <4>2 DEF WireOk
    <3> QED BY <2>1, <2>2, <3>2, <3>3, WireClosed
  <2>4. CASE ~ (conn[s][f].peer = "backlog" \/ (Stopped(f) /\ rx[f].from = s))
    <3>1. conn'[s][f] = [conn[s][f] EXCEPT !.peer = conn[s][f].peer]
      BY <1>2, <2>4
    <3>2. conn'[s][f] = conn[s][f]
      BY <2>1, <3>1 DEF ConnType
    <3>3. rx[f].from # s \/ rx[f].at \notin Busy
      BY <2>4 DEF Busy, Ended
    <3> QED BY <2>1, <3>2, <3>3, WireOther
  <2> QED BY <2>3, <2>4
<1>5. ReceiverTypes'
  <2>1. conn' \in [Senders -> [Flows -> ConnType]]
    BY <1>2, <1>4
  <2>2. rx' \in [Flows -> RxType]
    BY <1>2, <1>3
  <2>3. queue' \in [Flows -> Seq(Senders)]
    BY <1>2
  <2> QED BY <2>1, <2>2, <2>3 DEF TransferInv, ReceiverTypes
<1>6. WireInv'
  BY <1>4, SameScene DEF WireInv
<1>7. FlowInv'
  BY <1>3, SameScene DEF FlowInv
<1>8. QueueInv'
  <2>1. \A f \in Flows : queue'[f] = <<>>
    BY <1>2
  <2>2. Len(<<>>) = 0 /\ 1..0 = {}
    OBVIOUS
  <2> QED BY <2>1, <2>2 DEF QueueInv
<1>9. ~ Threads' => PlacedInv'
  <2>1. Threads' <=> Threads
    BY SameScene
  <2> SUFFICES ASSUME ~ Threads, NEW j \in placed
               PROVE  (\E f \in Flows : rx'[f].at = "killed") \/ Copied(j)'
    BY <2>1 DEF PlacedInv
  <2>2. ASSUME NEW f \in Flows, rx[f].at = "killed" \/ rx[f].at = "copy" PROVE rx'[f].at = "killed"
    BY <1>3, <2>2 DEF Ended
  <2>3. ASSUME Copied(j) PROVE Copied(j)'
    <3>1. PICK f \in Flows : /\ rx[f].tid # None
                             /\ \A u \in DOMAIN dest : u \div StripeUnits = j => dest[u] = <<rx[f].tid, u>>
      BY <2>3 DEF Copied
    <3>2. rx'[f].tid = rx[f].tid
      BY <1>3
    <3> QED BY <3>1, <3>2 DEF Copied
  <2>4. PlacedInv
    BY DEF TransferInv
  <2> QED BY <2>2, <2>3, <2>4 DEF PlacedInv
<1>10. recv' = "ok" => (\E s \in Senders : Whole(s)') /\ \A f \in Flows : rx'[f].at = "done"
  <2>1. \A s : Whole(s)' <=> Whole(s)
    BY DEF Whole
  <2>2. \A f \in Flows : rx[f].at = "done" => rx'[f].at = "done"
    BY <1>3 DEF Ended
  <2> QED BY <1>2, <2>1, <2>2
<1>11. local' # "ok" /\ recv' # "listen"
  BY <1>2 DEF TransferInv
<1> QED BY <1>5, <1>6, <1>7, <1>8, <1>9, <1>10, <1>11 DEF TransferInv

\* Every unit is in a stripe.
LEMMA StripeCounted ==
    ASSUME NEW u \in 0..(NUnits - 1)
    PROVE  u \div StripeUnits \in 0..(StripeCount(NUnits) - 1)
<1>1. NUnits \in Nat /\ StripeUnits \in Nat \ {0}
  BY FlowAssumption
<1> DEFINE c == NUnits + StripeUnits - 1
<1>2. u \in Nat /\ c \in Nat /\ u <= c /\ u + StripeUnits <= c
  BY <1>1
<1> HIDE DEF c
<1>3. (u \div StripeUnits) + 1 <= c \div StripeUnits
  BY <1>1, <1>2, DivMono
<1>4. u \div StripeUnits \in Nat /\ c \div StripeUnits \in Nat
  BY <1>1, <1>2, DivMod
<1>5. StripeCount(NUnits) = c \div StripeUnits
  BY DEF StripeCount, c
<1> QED BY <1>3, <1>4, <1>5

\* What receive_into asks for is enough: the flows are done, the stripes placed,
\* and the transfer is one.
LEMMA ResultWhole ==
    ASSUME TaskInv, TransferInv, ResultOk
    PROVE  \E s \in Senders : Whole(s)
<1>1. /\ rx \in [Flows -> RxType] /\ \A f \in Flows : FlowOk(f, rx[f], dest) /\ rx[f].at = "done"
      /\ dest \in [0..(NUnits - 1) -> (Senders \X Nat) \cup {None}]
  BY DEF TransferInv, ReceiverTypes, FlowInv, ResultOk
<1>2. \A f \in Flows : rx[f].tid \in Senders
  BY <1>1 DEF FlowOk
<1>3. PICK s : \A f \in Flows : rx[f].tid = s
  <2> DEFINE T == {rx[f].tid : f \in Flows}
  <2>1. IsFiniteSet(Flows)
    BY FlowAssumption, FS_Interval DEF Flows
  <2>2. T \in SUBSET Senders
    BY <1>2
  <2>3. IsFiniteSet({"local"}) /\ IsFiniteSet({"local"} \cup {"rival"})
    BY FS_Singleton, FS_Union
  <2>4. {"local"} \cup {"rival"} = Senders
    BY DEF Senders
  <2>5. IsFiniteSet(T)
    BY <2>2, <2>3, <2>4, FS_Subset
  <2>6. Cardinality(T) = 1
    BY DEF ResultOk
  <2>7. \A f \in Flows : rx[f].tid \in T
    OBVIOUS
  <2> HIDE DEF T
  <2>8. PICK s : T = {s}
    BY <2>5, <2>6, FS_Singleton
  <2> QED BY <2>7, <2>8
<1>4. 0 \in Flows /\ NUnits \in Nat /\ NFlows <= NUnits
  BY FlowAssumption DEF Flows
<1>5. s \in Senders
  BY <1>2, <1>3, <1>4
<1>6. ASSUME NEW u \in 0..(NUnits - 1) PROVE dest[u] = <<s, u>>
  <2>1. CASE Threads
    <3>1. PICK f \in Flows : u - PartStart(NUnits, f) \in 0..(PartLen(NUnits, f) - 1)
      BY <1>4, PartsCover
    <3> DEFINE lo == PartStart(NUnits, f)
               i == u - lo
    <3>2. PartOk(f, rx[f], dest)
      BY <1>1, <2>1 DEF FlowOk
    <3>3. dest[lo + i] = <<rx[f].tid, lo + i>>
      BY <1>1, <3>1, <3>2 DEF PartOk
    <3>4. lo \in Nat
      BY <1>4, PartBounds
    <3>5. lo + i = u
      BY <3>4
    <3> QED BY <1>3, <3>3, <3>5
  <2>2. CASE ~ Threads
    <3> DEFINE k == u \div StripeUnits
    <3>1. k \in placed
      BY <2>2, StripeCounted DEF ResultOk
    <3>2. PlacedInv
      BY <2>2 DEF TransferInv
    <3>3. Copied(k)
      BY <1>1, <3>1, <3>2 DEF PlacedInv
    <3>4. PICK f \in Flows : \A v \in DOMAIN dest : v \div StripeUnits = k => dest[v] = <<rx[f].tid, v>>
      BY <3>3 DEF Copied
    <3>5. u \in DOMAIN dest
      BY <1>1
    <3> QED BY <1>3, <3>4, <3>5
  <2> QED BY <2>1, <2>2
<1> QED BY <1>1, <1>5, <1>6 DEF Whole

LEMMA ReceiverFlowStep ==
    ASSUME TaskInv, TransferInv, NEW g \in Flows, ReceiverFlow(g) \/ KillFlow(g)
    PROVE  TransferInv'
<1>1. ASSUME AcceptTimesOut(g) \/ PeerClosed(g) PROVE TransferInv'
  <2>1. rx[g].at \in {"accept", "header", "data"} /\ EndRx(g, "failed", rx[g])
    BY <1>1 DEF AcceptTimesOut, PeerClosed
  <2>2. rx[g].at \notin Ended \cup {"idle"} /\ rx[g].at # "copy"
    BY <2>1 DEF Ended
  <2>3. UNCHANGED <<scenario, tx, queue, recv, placed, dest, local>>
    BY <1>1 DEF AcceptTimesOut, PeerClosed
  <2> QED BY <2>1, <2>2, <2>3, EndRxStep DEF Stops
<1>2. ASSUME KillFlow(g) PROVE TransferInv'
  <2>1. /\ rx[g].at \notin Ended \cup {"idle"}
        /\ UNCHANGED <<scenario, tx, queue, recv, placed, dest, local>>
    BY <1>2 DEF KillFlow
  <2>2. \/ EndRx(g, "killed", rx[g])
        \/ rx[g].at = "prepare" /\ EndRx(g, "asleep", rx[g])
    BY <1>2 DEF KillFlow
  <2>3. CASE EndRx(g, "killed", rx[g])
    BY <2>1, <2>3, EndRxStep DEF Stops
  <2>4. CASE rx[g].at = "prepare" /\ EndRx(g, "asleep", rx[g])
    BY <2>1, <2>4, EndRxStep DEF Stops
  <2> QED BY <2>2, <2>3, <2>4
<1> QED BY <1>1, <1>2, AcceptStep, ReadHeaderStep, ReadStaticStep, ReadDynamicStep, LockPlacedStep,
           PlaceStep, CopyStep DEF ReceiverFlow

LEMMA ReceiverMainStep ==
    ASSUME TaskInv, TransferInv, ReceiverMain
    PROVE  TransferInv'
<1>1. CASE Listen
  <2>1. UNCHANGED <<scenario, tx, conn, queue, rx, placed, dest, recv, local>>
    BY <1>1 DEF Listen, recvVars
  <2>2. local' = "ok" => recv' = "ok"
    BY <2>1 DEF TransferInv
  <2> QED BY <2>1, <2>2, TransferRests
<1>2. CASE StartReceive
  <2> DEFINE a == IF Threads THEN "accept" ELSE "prepare"
  <2>1. /\ recv = "listen" /\ recv' \in {"collect", "prepare"}
        /\ rx' = [f \in Flows |-> [rx[f] EXCEPT !.at = a]]
        /\ UNCHANGED <<scenario, tx, conn, queue, placed, dest, local>>
    BY <1>2 DEF StartReceive, netVars
  <2>2. a \in {"prepare", "accept"}
    OBVIOUS
  <2>3. \A f \in Flows : rx[f].at \in Early
    BY <2>1 DEF TransferInv, Early
  <2> HIDE DEF a
  <2> QED BY <2>1, <2>2, <2>3, FlowsStart
<1>3. CASE PreparedTrips
  <2>1. /\ recv = "prepare" /\ recv' = "collect"
        /\ rx' = [f \in Flows |-> [rx[f] EXCEPT !.at = "accept"]]
        /\ UNCHANGED <<scenario, tx, conn, queue, placed, dest, local>>
    BY <1>3 DEF PreparedTrips, netVars
  <2>2. \A f \in Flows : rx[f].at \in Early
    BY <1>3 DEF PreparedTrips, Early
  <2> QED BY <2>1, <2>2, FlowsStart
<1>4. CASE ReceiveRaises
  <2>1. EndReceive("failed") /\ recv # "ok" /\ UNCHANGED <<scenario, tx, placed, dest, local>>
    BY <1>4 DEF ReceiveRaises
  <2> QED BY <2>1, EndReceiveStep
<1>5. CASE ReceiveReturns
  <2> DEFINE result == IF ResultOk THEN "ok" ELSE "failed"
  <2>1. EndReceive(result) /\ recv # "ok" /\ UNCHANGED <<scenario, tx, placed, dest, local>>
    BY <1>5 DEF ReceiveReturns
  <2>2. result \in {"ok", "failed", "terminated"} /\ (result = "ok" => ResultOk)
    OBVIOUS
  <2> HIDE DEF result
  <2>3. ASSUME result = "ok" PROVE (\E s \in Senders : Whole(s)) /\ \A f \in Flows : rx[f].at = "done"
    <3>1. ResultOk
      BY <2>2, <2>3
    <3>2. \A f \in Flows : rx[f].at = "done"
      BY <3>1 DEF ResultOk
    <3> QED BY <3>1, <3>2, ResultWhole
  <2> QED BY <2>1, <2>2, <2>3, EndReceiveStep
<1>6. CASE ReceiveMessage
  <2>1. recv = "collect" /\ UNCHANGED <<scenario, tx, placed, dest, local>>
    BY <1>6 DEF ReceiveMessage
  <2>2. CASE EndReceive("failed")
    BY <2>1, <2>2, EndReceiveStep
  <2>3. CASE UNCHANGED <<recv, rx, conn, queue>>
    <3>1. local' = "ok" => recv' = "ok"
      BY <2>1, <2>3 DEF TransferInv
    <3> QED BY <2>1, <2>3, <3>1, TransferRests
  <2> QED BY <1>6, <2>2, <2>3 DEF ReceiveMessage, netVars
<1>7. CASE OrphansEnd
  <2>1. EndReceive("terminated") /\ recv # "ok" /\ UNCHANGED <<scenario, tx, placed, dest, local>>
    BY <1>7 DEF OrphansEnd
  <2> QED BY <2>1, EndReceiveStep
<1> QED BY <1>1, <1>2, <1>3, <1>4, <1>5, <1>6, <1>7 DEF ReceiverMain

LEMMA LocalStep ==
    ASSUME TransferInv, LocalStarts \/ LocalReturns \/ LocalGivesUp
    PROVE  TransferInv'
<1>1. UNCHANGED <<scenario, tx, conn, queue, rx, placed, dest>>
  BY DEF LocalStarts, LocalReturns, LocalGivesUp, netVars, recvVars
<1>2. recv' = recv \/ (recv # "ok" /\ recv' = "terminated")
  BY DEF LocalStarts, LocalReturns, LocalGivesUp, recvVars
<1>3. local' = "ok" => recv' = "ok"
  BY DEF LocalStarts, LocalReturns, LocalGivesUp, recvVars
<1> QED BY <1>1, <1>2, <1>3, TransferRests

LEMMA TransferInit == Init => TransferInv
<1> SUFFICES ASSUME Init PROVE TransferInv
  OBVIOUS
<1>1. /\ tx = [s \in Senders |-> [f \in Flows |-> [at |-> "idle", todo |-> <<>>, task |-> 0, took |-> {}]]]
      /\ conn = [s \in Senders |-> [f \in Flows |-> [sock |-> "none", peer |-> "none", stream |-> <<>>]]]
      /\ queue = [f \in Flows |-> <<>>] /\ recv = "listen"
      /\ rx = [f \in Flows |-> [at |-> "idle", from |-> None, tid |-> None, part |-> 0,
                                left |-> 0, staged |-> <<>>, got |-> 0, seen |-> {}]]
      /\ placed = {} /\ dest = [u \in 0..(NUnits - 1) |-> None] /\ local = "wait"
  BY DEF Init, SenderInit, ReceiverInit
<1>2. ReceiverTypes
  <2>1. conn \in [Senders -> [Flows -> ConnType]]
    BY <1>1 DEF ConnType
  <2>2. rx \in [Flows -> RxType]
    BY <1>1 DEF RxType, RxPlaces
  <2>3. queue \in [Flows -> Seq(Senders)]
    BY <1>1
  <2>4. dest \in [0..(NUnits - 1) -> (Senders \X Nat) \cup {None}] /\ placed \subseteq Nat
    BY <1>1
  <2> QED BY <2>1, <2>2, <2>3, <2>4 DEF ReceiverTypes
<1>3. \A f \in Flows : rx[f].at = "idle" /\ rx[f].from = None /\ rx[f].tid = None
  BY <1>1
<1>4. WireInv
  <2>1. ASSUME NEW s \in Senders, NEW f \in Flows PROVE WireOk(s, f, tx[s][f], conn[s][f], rx[f])
    <3>1. tx[s][f].at = "idle" /\ tx[s][f].todo = <<>> /\ conn[s][f].peer = "none" /\ conn[s][f].stream = <<>>
      BY <1>1
    <3>2. <<>> \o <<>> = <<>> /\ Len(<<>>) = 0 /\ 1..0 = {} /\ 1..(0 - 1) = {}
      OBVIOUS
    <3>3. WireGood(s, f, "idle", rx[f], <<>>)
      BY <1>3, <3>2 DEF WireGood, InOrder, Reading
    <3> QED BY <1>3, <3>1, <3>2, <3>3 DEF WireOk, Busy
  <2> QED BY <2>1 DEF WireInv
<1>5. FlowInv
  BY <1>3 DEF FlowInv, FlowOk, PartOk, StagedOk, Early, Busy
<1>6. QueueInv
  <2>1. \A f \in Flows : queue[f] = <<>>
    BY <1>1
  <2>2. Len(<<>>) = 0 /\ 1..0 = {}
    OBVIOUS
  <2> QED BY <2>1, <2>2 DEF QueueInv
<1>7. PlacedInv
  BY <1>1 DEF PlacedInv
<1> QED BY <1>1, <1>2, <1>3, <1>4, <1>5, <1>6, <1>7 DEF TransferInv

LEMMA TransferNext == TaskInv /\ TransferInv /\ [Next]_vars => TransferInv'
<1> SUFFICES ASSUME TaskInv, TransferInv, [Next]_vars PROVE TransferInv'
  OBVIOUS
<1>1. CASE UNCHANGED vars
  <2>1. UNCHANGED <<scenario, tx, conn, queue, rx, placed, dest, recv, local>>
    BY <1>1 DEF vars, netVars, recvVars
  <2>2. local' = "ok" => recv' = "ok"
    BY <2>1 DEF TransferInv
  <2> QED BY <2>1, <2>2, TransferRests
<1>2. 0 \in Flows /\ "local" \in Senders /\ "rival" \in Senders
  BY FlowAssumption DEF Flows, Senders
<1>3. ASSUME NEW s \in Senders, SenderMain(s) \/ StartSend(s) PROVE TransferInv'
  BY <1>2, <1>3, SendersTransfer
<1>4. ASSUME NEW s \in Senders, NEW f \in Flows, SenderFlow(s, f) \/ KillWorker(s, f) PROVE TransferInv'
  BY <1>4, SendersTransfer
<1>5. ASSUME NEW f \in Flows, ReceiverFlow(f) \/ KillFlow(f) PROVE TransferInv'
  BY <1>5, ReceiverFlowStep
<1>6. CASE LocalStarts \/ LocalReturns \/ LocalGivesUp
  BY <1>6, LocalStep
<1>7. CASE ReceiverMain
  BY <1>7, ReceiverMainStep
<1> QED BY <1>1, <1>2, <1>3, <1>4, <1>5, <1>6, <1>7 DEF Next, Progress, LocalMain

\* The wires carry what their receivers expect, whoever connected; what a flow has
\* received of its part, or staged of its stripe, is of the transfer whose header it
\* read; and a stripe that is marked as placed is in the destination, is being
\* copied, or died with its worker.
THEOREM TransferInvHolds == Spec => [](TaskInv /\ TransferInv)
<1>1. TaskInv /\ TransferInv /\ [Next]_vars => (TaskInv /\ TransferInv)'
  BY TaskNext, TransferNext
<1> QED BY <1>1, TaskInit, TransferInit, PTL DEF Spec

\* receive_into that returns, and transfer_tensor_local that returns, have the whole
\* tensor of one transfer, each unit at its place, with any number of flows, any sizes
\* of the tensor, of stripes and of buffers, and for any scenario.
THEOREM ReceivedWholeHolds == Spec => []ReceivedWhole
<1>1. TransferInv => ReceivedWhole
  BY DEF TransferInv, ReceivedWhole
<1> QED BY <1>1, TransferInvHolds, PTL
=============================================================================
