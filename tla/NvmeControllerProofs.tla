------------------------ MODULE NvmeControllerProofs ------------------------
(***************************************************************************)
(* NvmeController for any target, depths and sizes: what a controller      *)
(* leaves behind, the depth of its I/O queue, and its transfers.           *)
(*                                                                         *)
(* None of the three properties is inductive.  What a failed constructor   *)
(* leaves depends on what exists and who refers to it at each of its steps *)
(* (OwnerInv); the depth in use is the one that Set Features chose and the *)
(* connection step accepted (DepthInv); and a transfer is whole when it    *)
(* returns because lba, offset and the rest to do agree with the commands  *)
(* so far, whose end stays within the buffer (Going).                      *)
(***************************************************************************)
EXTENDS NvmeController, FiniteSetTheorems, TLAPS

Resources == {"commands", "responses", "qp", "cq", "pd", "cm"}

CtrlStates ==
    {"none", "makeAdmin", "makeIo", "raising", "up", "failed", "closed"} \cup Commanding

-----------------------------------------------------------------------------
(* Resources *)

\* The references that a controller has: what exists is referred to by the
\* attributes of its queue, and the queue by the controller from the return of
\* its constructor on.
OwnerInv ==
    /\ ctrl \in CtrlStates /\ held \subseteq Queues
    /\ ctrl \notin {"up", "closed"} => live \in [Queues -> SUBSET Resources]
    /\ ctrl # "failed" => attrs = live
    /\ ctrl = "none" => held = {} /\ \A q \in Queues : live[q] = {}
    /\ ctrl \in (Commanding \cup {"makeIo", "up"}) => "admin" \in held
    /\ ctrl \in {"connectIo", "up"} => "io" \in held
    /\ NothingLeftBehind

-----------------------------------------------------------------------------
(* The depth of the I/O queue *)

\* What Set Features chose and the target took, from the step that asks for it
\* on; and no more commands time out than it has room for.
DepthInv ==
    /\ target \in Targets /\ requested \in RequestedDepths
    /\ ctrl \in CtrlStates
    /\ making \in Nat \ {0} /\ depth \in [Queues -> Int] /\ late \in Nat
    /\ MakingQueue = "none" => making = 1
    /\ ctrl \in {"makeIo", "connectIo", "up"} => depth["io"] = IoDepth
    /\ ctrl \in {"connectIo", "up"} \/ (ctrl = "makeIo" /\ making > 5) =>
           AcceptsConnection("io")
    /\ late > 0 => ctrl \in {"up", "closed"}
    /\ ctrl = "up" => late <= depth["io"] - 1
    /\ xfer.at = "running" => ctrl = "up"

-----------------------------------------------------------------------------
(* Transfers *)

Commands == [lba : Nat, count : Nat, off : Nat, length : Nat]
Transfers ==
    [at : {"running", "raised", "returned"}, op : {"read", "write"}, gpu : BOOLEAN,
     slba : Nat, blocks : Nat \ {0}, start : Nat, lba : Nat, off : Nat, remaining : Nat,
     cmds : Seq(Commands), stale : {FALSE}]

\* The commands s are a transfer from slba and start on, in order.
InOrder(s, slba, start) ==
    \A i \in 1..Len(s) :
        /\ s[i].length <= Limit /\ s[i].length = s[i].count * target.lba
        /\ s[i].lba = IF i = 1 THEN slba ELSE s[i - 1].lba + s[i - 1].count
        /\ s[i].off = IF i = 1 THEN start ELSE s[i - 1].off + s[i - 1].length

\* They have moved all before lba and off.
MovedUpTo(s, slba, start, lba, off) ==
    /\ s = <<>> => lba = slba /\ off = start
    /\ s # <<>> => /\ lba = s[Len(s)].lba + s[Len(s)].count
                   /\ off = s[Len(s)].off + s[Len(s)].length

\* A transfer x that goes on with GPU memory in the state mem.
Going(x, mem) ==
    /\ MovedUpTo(x.cmds, x.slba, x.start, x.lba, x.off)
    /\ x.lba + x.remaining = x.slba + x.blocks
    /\ x.off + x.remaining * target.lba <= BufLen
    /\ x.gpu /\ x.op = "write" => mem # "working"

Sane(x, mem) ==
    /\ x \in Transfers
    /\ InOrder(x.cmds, x.slba, x.start)
    /\ x.at = "running" => Going(x, mem) /\ MaxBlocks > 0
    /\ x.at = "returned" =>
          /\ x.cmds # <<>> /\ Last(x.cmds).lba + Last(x.cmds).count = x.slba + x.blocks
          /\ x.gpu /\ x.op = "read" => mem # "unflushed"

TransferInv ==
    /\ target \in Targets
    /\ xfer = [at |-> "none"] \/ Sane(xfer, cuda)

-----------------------------------------------------------------------------
(* Numbers *)

\* The least of two numbers.
LEMMA LeastOfTwo ==
    ASSUME NEW a \in Int, NEW b \in Int
    PROVE  Min({a, b}) \in {a, b} /\ Min({a, b}) <= a /\ Min({a, b}) <= b
BY DEF Min

\* Limits of which the last one is 0 if there is none.
Limits(a, b, c, d) == {a, b, c} \cup ({d} \ {0})

\* The least of the limits.
LEMMA LeastOfLimits ==
    ASSUME NEW a \in Int, NEW b \in Int, NEW c \in Int, NEW d \in Int, NEW m,
           m = Min(Limits(a, b, c, d))
    PROVE  m \in Int /\ m <= a /\ m <= b /\ m <= c /\ (d # 0 => m <= d)
<1>1. CASE d = 0
  <2> DEFINE S == {a, b, c}
  <2>1. S = Limits(a, b, c, d) /\ a \in S /\ b \in S /\ c \in S /\ S \subseteq Int
    BY <1>1 DEF Limits
  <2>2. Min(S) \in S /\ \A x \in S : Min(S) <= x
    BY DEF Min
  <2> QED BY <1>1, <2>1, <2>2
<1>2. CASE d # 0
  <2> DEFINE S == {a, b, c, d}
  <2>1. S = Limits(a, b, c, d) /\ a \in S /\ b \in S /\ c \in S /\ d \in S /\ S \subseteq Int
    BY <1>2 DEF Limits
  <2>2. Min(S) \in S /\ \A x \in S : Min(S) <= x
    BY DEF Min
  <2> QED BY <1>2, <2>1, <2>2
<1> QED BY <1>1, <1>2

\* As many as a set of n elements has subsets.
LEMMA PowerOfTwo ==
    ASSUME NEW n \in Nat
    PROVE  2 ^ n \in Nat
<1>1. IsFiniteSet(1..n) /\ Cardinality(1..n) = n
  BY FS_Interval
<1>2. IsFiniteSet(SUBSET (1..n)) /\ Cardinality(SUBSET (1..n)) = 2 ^ Cardinality(1..n)
  BY <1>1, FS_SUBSET
<1>3. Cardinality(SUBSET (1..n)) \in Nat
  BY <1>2, FS_CardinalityType
<1> QED BY <1>1, <1>2, <1>3

\* What the provers have to be told of products.
LEMMA Products ==
    /\ \A a, b, c \in Nat : a <= b => a * c <= b * c
    /\ \A a, b, c \in Nat : (a + b) * c = a * c + b * c
    /\ \A a, b \in Nat : a * b \in Nat /\ (a > 0 /\ b > 0 => a * b > 0)
OBVIOUS

\* The fields of a target.
LEMMA Target ==
    ASSUME target \in Targets
    PROVE  /\ target.limit \in Nat /\ target.maxcmd \in Nat /\ target.crq \in Nat
           /\ target.mdts \in Nat /\ target.lba \in Nat \ {0}
BY ControllerAssumption DEF TargetType

\* A command of at most max_blocks is within MDTS, the SGL and the block count.
LEMMA Blocks ==
    ASSUME target \in Targets
    PROVE  /\ MaxBlocks \in Nat /\ MaxBlocks <= MaxNlb
           /\ \A n \in Nat : n <= MaxBlocks => n * target.lba <= Limit /\ n * target.lba <= MaxSgl
<1> DEFINE lba == target.lba
           e == PageSize * 2 ^ target.mdts
           t == MaxTransfer
           d == t \div lba
<1>1. lba \in Nat \ {0} /\ MaxSgl \in Nat \ {0} /\ MaxNlb \in Nat \ {0}
  BY Target, ControllerAssumption
<1>2. e \in Nat
  <2>1. PageSize \in Nat /\ 2 ^ target.mdts \in Nat
    BY Target, PowerOfTwo, ControllerAssumption
  <2> QED BY <2>1, Products
<1>3. t \in Nat /\ t <= MaxSgl /\ t <= Limit /\ Limit \in Nat
  <2> HIDE DEF e
  <2>1. Min({MaxSgl, e}) \in Nat /\ Min({MaxSgl, e}) <= MaxSgl /\ Min({MaxSgl, e}) <= e
    <3> DEFINE a == MaxSgl
    <3>1. a \in Int /\ e \in Int /\ a \in Nat /\ e \in Nat
      BY <1>1, <1>2
    <3> HIDE DEF a
    <3>2. Min({a, e}) \in {a, e} /\ Min({a, e}) <= a /\ Min({a, e}) <= e
      BY <3>1, LeastOfTwo
    <3>3. Min({a, e}) \in Nat
      BY <3>1, <3>2
    <3> QED BY <3>2, <3>3 DEF a
  <2>2. /\ t = IF target.mdts = 0 THEN MaxSgl ELSE Min({MaxSgl, e})
        /\ Limit = IF target.mdts = 0 THEN MaxSgl ELSE e
    BY DEF MaxTransfer, Limit, e
  <2> QED BY <1>1, <1>2, <2>1, <2>2
<1> HIDE DEF e, t
<1>4. d \in Nat /\ d * lba <= t
  <2> HIDE DEF lba
  <2> QED BY <1>1, <1>3
<1>5. MaxBlocks = Min({MaxNlb, d})
  BY DEF MaxBlocks, t
<1>6. MaxBlocks \in Nat /\ MaxBlocks <= MaxNlb /\ MaxBlocks <= d
  <2> HIDE DEF d
  <2> DEFINE a == MaxNlb
             m == MaxBlocks
  <2>1. a \in Int /\ d \in Int /\ a \in Nat /\ d \in Nat /\ m = Min({a, d})
    BY <1>1, <1>4, <1>5
  <2> HIDE DEF a, m
  <2>2. m \in {a, d} /\ m <= a /\ m <= d
    BY <2>1, LeastOfTwo
  <2>3. m \in Nat
    BY <2>1, <2>2
  <2> QED BY <2>2, <2>3 DEF a, m
<1>7. ASSUME NEW n \in Nat, n <= MaxBlocks
      PROVE  n * lba <= Limit /\ n * lba <= MaxSgl
  <2> HIDE DEF lba, d
  <2>1. n * lba <= d * lba /\ n * lba \in Nat /\ d * lba \in Nat
    BY <1>1, <1>4, <1>6, <1>7, Products
  <2> QED BY <2>1, <1>1, <1>3, <1>4
<1> QED BY <1>6, <1>7

-----------------------------------------------------------------------------
(* What is left behind *)

\* close() has them all.
LEMMA ClosedResources == Range(CloseOrder) = Resources
BY DEF Range, CloseOrder, Resources

\* At first a controller has nothing.
LEMMA OwnerInit == Init => OwnerInv
<1> SUFFICES ASSUME Init PROVE OwnerInv
  OBVIOUS
<1>1. ctrl = "none" /\ held = {} /\ live = [q \in Queues |-> {}] /\ attrs = live
  BY DEF Init
<1>2. NothingLeftBehind
  BY <1>1 DEF NothingLeftBehind
<1> QED BY <1>1, <1>2 DEF OwnerInv, CtrlStates, Commanding

\* Whoever raises in the constructor: what the collector cannot free is refused or
\* has something refused above it.
LEMMA OwnerRaise ==
    ASSUME OwnerInv, Raise, ctrl \notin {"up", "closed", "failed"}
    PROVE  OwnerInv'
<1>1. live \in [Queues -> SUBSET Resources] /\ held \subseteq Queues
  BY DEF OwnerInv
<1>2. PICK refused \in [Queues -> UNION {Refusable(live[q]) : q \in Queues}] :
          /\ live' = [q \in Queues |-> IF q \in Queues THEN Collected(live[q], refused[q])
                                                       ELSE live[q]]
          /\ stuck' = [q \in Queues |-> stuck[q] \cup refused[q]]
          /\ held' = held \ Queues
  BY Zenon DEF Raise, Abandon
<1>3. ctrl' = "failed" /\ held' = {}
  BY <1>1, <1>2 DEF Raise
<1>4. ASSUME NEW q \in Queues
      PROVE  live'[q] \subseteq Resources /\ live'[q] \subseteq Explained(q)'
  <2>1. live'[q] = Collected(live[q], refused[q]) /\ stuck'[q] = stuck[q] \cup refused[q]
    BY <1>2
  <2>2. live[q] \subseteq Resources
    BY <1>1
  <2>3. SUFFICES ASSUME NEW r \in live'[q]
                 PROVE  r \in Resources /\ r \in Explained(q)'
    OBVIOUS
  <2>4. r \in Resources
    BY <2>1, <2>2, <2>3 DEF Collected
  <2>5. r \in refused[q] \/ Above(r) \cap refused[q] # {}
    BY <2>1, <2>3 DEF Collected
  <2>6. r \in stuck'[q] \/ Above(r) \cap stuck'[q] # {}
    BY <2>1, <2>5
  <2> QED BY <2>4, <2>6, ClosedResources DEF Explained
<1>5. live' \in [Queues -> SUBSET Resources]
  <2>1. live' = [q \in Queues |-> Collected(live[q], refused[q])]
    BY <1>2
  <2> QED BY <2>1, <1>4
<1>6. NothingLeftBehind'
  BY <1>3, <1>4 DEF NothingLeftBehind
<1> QED BY <1>3, <1>5, <1>6 DEF OwnerInv, CtrlStates, Commanding

\* A step that frees nothing and does not raise.
LEMMA OwnerKept ==
    ASSUME OwnerInv, UNCHANGED <<held, live, attrs, stuck>>,
           ctrl' = ctrl
             \/ /\ ctrl \notin {"none", "failed", "up", "closed"}
                /\ ctrl' \in CtrlStates \ {"none", "failed", "closed"}
                /\ ctrl' \in (Commanding \cup {"makeIo", "up"}) => ctrl \in Commanding
                /\ ctrl' \in {"connectIo", "up"} => ctrl = "connectIo"
    PROVE  OwnerInv'
<1>1. CASE ctrl' = ctrl
  <2>1. NothingLeftBehind'
    BY <1>1 DEF OwnerInv, NothingLeftBehind, Explained
  <2> QED BY <1>1, <2>1 DEF OwnerInv
<1>2. CASE ctrl' # ctrl
  <2>1. ctrl' = "up" => "admin" \in held /\ "io" \in held /\ attrs = live
    BY <1>2 DEF OwnerInv
  <2>2. NothingLeftBehind'
    BY <1>2, <2>1 DEF NothingLeftBehind, Queues
  <2> QED BY <1>2, <2>2 DEF OwnerInv, Commanding
<1> QED BY <1>1, <1>2

\* RDMAQueue.__init__ makes a resource and refers to it.
LEMMA OwnerMake ==
    ASSUME OwnerInv, DepthInv, MakeStep
    PROVE  OwnerInv'
<1> DEFINE q == MakingQueue
           r == MakeOrder[making]
           new == IF r \in {"CONNECT", "POST"} THEN live[q] ELSE live[q] \cup {r}
<1>1. q \in Queues /\ ctrl \in {"makeAdmin", "makeIo"}
  BY DEF MakeStep, MakingQueue, Queues
<1>2. making \in 1..8 /\ r \in Resources \cup {"CONNECT", "POST"}
  <2>1. making \in Nat /\ making <= Len(MakeOrder)
    BY DEF MakeStep, DepthInv
  <2>2. making # 0
    BY DEF DepthInv
  <2> QED BY <2>1, <2>2 DEF MakeOrder, Resources
<1>3. live \in [Queues -> SUBSET Resources] /\ attrs = live
  BY <1>1 DEF OwnerInv
<1>4. live' = [live EXCEPT ![q] = new] /\ attrs' = live' /\ UNCHANGED <<ctrl, held>>
  BY <1>3 DEF MakeStep
<1>5. new \in SUBSET Resources
  BY <1>1, <1>2, <1>3
<1> HIDE DEF new, q
<1>6. live' \in [Queues -> SUBSET Resources]
  BY <1>1, <1>3, <1>4, <1>5
<1>7. NothingLeftBehind'
  BY <1>1, <1>4 DEF NothingLeftBehind
<1> QED BY <1>1, <1>4, <1>6, <1>7 DEF OwnerInv

\* Controller.close: what is left is what the queues refer to, and a queue with
\* something left stays with the controller.
LEMMA OwnerClose ==
    ASSUME OwnerInv, Close
    PROVE  OwnerInv'
<1>1. ctrl \in {"up", "closed"} /\ ctrl' = "closed"
  BY DEF Close, Up
<1>2. attrs = live /\ held \subseteq Queues /\ \A q \in Queues : live[q] # {} => q \in held
  BY <1>1 DEF OwnerInv, NothingLeftBehind
<1>3. PICK left :
          /\ left = [q \in Queues |-> left[q]]
          /\ \A q \in Queues : q \notin held => left[q] = live[q]
          /\ live' = left
          /\ attrs' = [q \in Queues |-> IF q \in held THEN left[q] ELSE attrs[q]]
          /\ held' = held \ {q \in held : left[q] = {}}
  <2>1. PICK refused \in [Queues -> UNION {Refusable(live[q]) : q \in Queues}] :
            LET left == [q \in Queues |-> IF q \in held THEN Freed(q, attrs[q], refused[q])
                                                        ELSE live[q]]
            IN  /\ live' = left
                /\ attrs' = [q \in Queues |-> IF q \in held THEN AttrsAfter(left[q])
                                                            ELSE attrs[q]]
                /\ held' = held \ {q \in held : left[q] = {}}
    BY Zenon DEF Close, CloseQueues
  <2> DEFINE left == [q \in Queues |-> IF q \in held THEN Freed(q, attrs[q], refused[q])
                                                     ELSE live[q]]
  <2>2. left = [q \in Queues |-> left[q]] /\ \A q \in Queues : q \notin held => left[q] = live[q]
    BY Zenon
  <2>3. /\ live' = left /\ held' = held \ {q \in held : left[q] = {}}
        /\ attrs' = [q \in Queues |-> IF q \in held THEN left[q] ELSE attrs[q]]
    BY <2>1, Zenon DEF AttrsAfter
  <2> HIDE DEF left
  <2> QED BY <2>2, <2>3
<1>4. \A q \in Queues : left[q] = IF q \in held THEN left[q] ELSE attrs[q]
  BY <1>2, <1>3
<1>5. attrs' = live'
  <2>1. attrs' = [q \in Queues |-> left[q]]
    BY <1>3, <1>4
  <2> QED BY <2>1, <1>3
<1>6. \A q \in Queues : live'[q] # {} => q \in held'
  BY <1>2, <1>3
<1>7. NothingLeftBehind'
  BY <1>1, <1>5, <1>6 DEF NothingLeftBehind
<1> QED BY <1>1, <1>2, <1>3, <1>5, <1>7 DEF OwnerInv, CtrlStates, Commanding

\* Every step keeps the references.
LEMMA OwnerStep ==
    ASSUME OwnerInv, DepthInv, [Next]_vars
    PROVE  OwnerInv'
<1>1. CASE Construct
  <2>1. ctrl = "none" /\ ctrl' \in {"makeAdmin", "failed"} /\ UNCHANGED <<held, live, attrs, stuck>>
    BY <1>1 DEF Construct
  <2>2. held = {} /\ live \in [Queues -> SUBSET Resources] /\ \A q \in Queues : live[q] = {}
    BY <2>1 DEF OwnerInv
  <2>3. NothingLeftBehind'
    BY <2>1, <2>2 DEF NothingLeftBehind
  <2> QED BY <2>1, <2>2, <2>3 DEF OwnerInv, CtrlStates, Commanding
<1>2. CASE MakeStep
  BY <1>2, OwnerMake
<1>3. CASE MakeFails \/ CommandRaises \/ BufferStayed
  <2>1. Raise /\ ctrl \notin {"up", "closed", "failed"}
    BY <1>3 DEF MakeFails, CommandRaises, BufferStayed, MakingQueue, Commanding
  <2> QED BY <2>1, OwnerRaise
<1>4. CASE MakeReturns
  <2>1. /\ \/ ctrl = "makeAdmin" /\ ctrl' = "connectAdmin" /\ held' = held \cup {"admin"}
           \/ ctrl = "makeIo" /\ ctrl' = "connectIo" /\ held' = held \cup {"io"}
        /\ UNCHANGED <<live, attrs, stuck>>
    BY <1>4 DEF MakeReturns, MakingQueue
  <2>2. NothingLeftBehind'
    BY <2>1 DEF NothingLeftBehind
  <2> QED BY <2>1, <2>2 DEF OwnerInv, CtrlStates, Commanding, Queues
<1>5. CASE \/ ConnectAdmin \/ GetCap \/ Enable \/ WaitReady \/ Identify \/ ConnectIo
           \/ SetFeatures \/ BufferStays
  <2>1. UNCHANGED <<held, live, attrs, stuck>>
    BY <1>5 DEF ConnectAdmin, GetCap, Enable, WaitReady, Identify, ConnectIo, SetFeatures,
                BufferStays, Step, queueVars
  <2>2. \/ /\ ctrl \in Commanding \ {"connectIo"}
           /\ ctrl' \in {"getCap", "enable", "waitReady", "identify", "features", "makeIo"}
        \/ ctrl = "connectIo" /\ ctrl' = "up"
        \/ ctrl \in Commanding /\ ctrl' = "raising"
    BY <1>5 DEF ConnectAdmin, GetCap, Enable, WaitReady, Identify, ConnectIo, SetFeatures,
                BufferStays, Step, Commanding
  <2>3. /\ ctrl \notin {"none", "failed", "up", "closed"}
        /\ ctrl' \in CtrlStates \ {"none", "failed", "closed"}
        /\ ctrl' \in (Commanding \cup {"makeIo", "up"}) => ctrl \in Commanding
        /\ ctrl' \in {"connectIo", "up"} => ctrl = "connectIo"
    BY <2>2 DEF CtrlStates, Commanding
  <2> QED BY <2>1, <2>3, OwnerKept
<1>6. CASE Close
  BY <1>6, OwnerClose
<1>7. CASE \/ Transfer \/ FlushTimesOut \/ LateAnswer
           \/ IdentifyNamespace \/ Allocate \/ CloseBuffer \/ LaunchKernel
           \/ UNCHANGED vars
  <2>1. UNCHANGED <<ctrl, queueVars>>
    BY <1>7 DEF Transfer, Begin, BeginWhole, Execute, ExecuteRaises, ExecuteTimesOut, Return,
                FlushTimesOut, LateAnswer, IdentifyNamespace, Allocate, CloseBuffer,
                LaunchKernel, vars
  <2> QED BY <2>1, OwnerKept DEF queueVars
<1> QED BY <1>1, <1>2, <1>3, <1>4, <1>5, <1>6, <1>7 DEF Next, BringUp

-----------------------------------------------------------------------------
(* The depth *)

\* The depth that Set Features asks for.
LEMMA GrantedDepth ==
    ASSUME target \in Targets, requested \in RequestedDepths
    PROVE  /\ IoDepth \in Int /\ IoDepth <= requested /\ IoDepth <= target.limit
           /\ IoDepth <= MaxQueueDepth /\ (target.maxcmd # 0 => IoDepth <= target.maxcmd)
<1> DEFINE a == requested
           b == target.limit
           c == MaxQueueDepth
           d == target.maxcmd
           m == IoDepth
<1>1. a \in Int /\ b \in Int /\ c \in Int /\ d \in Int /\ m = Min(Limits(a, b, c, d))
  BY Target, ControllerAssumption DEF IoDepth, Limits
<1> HIDE DEF a, b, c, d, m
<1>2. m \in Int /\ m <= a /\ m <= b /\ m <= c /\ (d # 0 => m <= d)
  BY <1>1, LeastOfLimits
<1> QED BY <1>2 DEF a, b, c, d, m

\* At first there is no queue.
LEMMA DepthInit == Init => DepthInv
BY DEF Init, DepthInv, CtrlStates, MakingQueue

\* Nothing that the depth depends on changes.
LEMMA DepthKept ==
    ASSUME DepthInv,
           UNCHANGED <<target, requested, ctrl, making, depth>>,
           late' \in Nat, late' > late => ctrl = "up" /\ late' <= depth["io"] - 1,
           xfer'.at = "running" => ctrl = "up"
    PROVE  DepthInv'
<1>1. /\ MakingQueue' = MakingQueue /\ IoDepth' = IoDepth
      /\ AcceptsConnection("io")' = AcceptsConnection("io")
  BY DEF MakingQueue, IoDepth, AcceptsConnection, DepthAllowed, ReceiveDepth
<1>2. late \in Nat /\ depth["io"] \in Int
  BY DEF DepthInv, Queues
<1>3. late' > 0 => ctrl \in {"up", "closed"}
  BY <1>2 DEF DepthInv
<1>4. ctrl = "up" => late' <= depth["io"] - 1
  BY <1>2 DEF DepthInv
<1> QED BY <1>1, <1>3, <1>4 DEF DepthInv

\* Every step keeps the depth that was granted.
LEMMA DepthStep ==
    ASSUME DepthInv, [Next]_vars
    PROVE  DepthInv'
<1>1. CASE Construct
  <2>1. /\ ctrl = "none" /\ ctrl' \in {"makeAdmin", "failed"}
        /\ depth' = [depth EXCEPT !["admin"] = AdminDepth] \/ depth' = depth
        /\ UNCHANGED <<target, requested, making, late, xfer>>
    BY <1>1 DEF Construct
  <2>2. making = 1 /\ late = 0 /\ xfer.at # "running"
    BY <2>1 DEF DepthInv, MakingQueue
  <2>3. depth' \in [Queues -> Int]
    BY <2>1, ControllerAssumption DEF DepthInv
  <2> QED BY <2>1, <2>2, <2>3 DEF DepthInv, CtrlStates, MakingQueue
<1>2. CASE MakeStep
  <2>1. /\ ctrl \in {"makeAdmin", "makeIo"} /\ making' = making + 1
        /\ UNCHANGED <<target, requested, ctrl, depth, late, xfer>>
    BY <1>2 DEF MakeStep, MakingQueue
  <2>2. making \in Nat \ {0} /\ late = 0 /\ xfer.at # "running"
    BY <2>1 DEF DepthInv
  <2>3. IoDepth' = IoDepth /\ AcceptsConnection("io")' = AcceptsConnection("io")
    BY <2>1 DEF IoDepth, AcceptsConnection, DepthAllowed, ReceiveDepth
  <2>4. ctrl = "makeIo" /\ making' > 5 => AcceptsConnection("io")
    <3>1. ctrl = "makeIo" /\ making = 5 => AcceptsConnection("io")
      BY <1>2 DEF MakeStep, MakingQueue, MakeOrder
    <3>2. ctrl = "makeIo" /\ making > 5 => AcceptsConnection("io")
      BY DEF DepthInv
    <3> QED BY <2>1, <2>2, <3>1, <3>2
  <2> QED BY <2>1, <2>2, <2>3, <2>4 DEF DepthInv, MakingQueue
<1>3. CASE MakeFails \/ CommandRaises \/ BufferStayed
  <2>1. Raise /\ ctrl \notin {"up", "closed", "failed"}
    BY <1>3 DEF MakeFails, CommandRaises, BufferStayed, MakingQueue, Commanding
  <2>2. ctrl' = "failed" /\ making' = 1 /\ UNCHANGED <<target, requested, depth, late, xfer>>
    BY <2>1 DEF Raise
  <2>3. late = 0 /\ xfer.at # "running"
    BY <2>1 DEF DepthInv
  <2> QED BY <2>2, <2>3 DEF DepthInv, CtrlStates, MakingQueue
<1>4. CASE MakeReturns
  <2>1. /\ \/ ctrl = "makeAdmin" /\ ctrl' = "connectAdmin"
           \/ ctrl = "makeIo" /\ ctrl' = "connectIo"
        /\ making = Len(MakeOrder) + 1 /\ making' = 1
        /\ UNCHANGED <<target, requested, depth, late, xfer>>
    BY <1>4 DEF MakeReturns, MakingQueue
  <2>2. making > 5
    BY <2>1 DEF MakeOrder
  <2>3. IoDepth' = IoDepth /\ AcceptsConnection("io")' = AcceptsConnection("io")
    BY <2>1 DEF IoDepth, AcceptsConnection, DepthAllowed, ReceiveDepth
  <2>4. late = 0 /\ xfer.at # "running"
    BY <2>1 DEF DepthInv
  <2> QED BY <2>1, <2>2, <2>3, <2>4 DEF DepthInv, CtrlStates, MakingQueue, Commanding
<1>5. CASE SetFeatures
  <2>1. /\ ctrl = "features" /\ ctrl' = "makeIo" /\ depth' = [depth EXCEPT !["io"] = IoDepth]
        /\ UNCHANGED <<target, requested, making, late, xfer>>
    BY <1>5 DEF SetFeatures
  <2>2. making = 1 /\ late = 0 /\ xfer.at # "running"
    BY <2>1 DEF DepthInv, MakingQueue
  <2>3. IoDepth' = IoDepth /\ IoDepth \in Int
    BY <2>1, GrantedDepth DEF IoDepth, DepthInv
  <2>4. depth' \in [Queues -> Int] /\ depth'["io"] = IoDepth
    BY <2>1, <2>3 DEF DepthInv, Queues
  <2> QED BY <2>1, <2>2, <2>3, <2>4 DEF DepthInv, CtrlStates, MakingQueue
<1>6. CASE \/ ConnectAdmin \/ GetCap \/ Enable \/ WaitReady \/ Identify \/ BufferStays
  <2>1. /\ ctrl \in Commanding
        /\ ctrl' \in {"getCap", "enable", "waitReady", "identify", "features", "raising"}
        /\ UNCHANGED <<target, requested, making, depth, late, xfer>>
    BY <1>6 DEF ConnectAdmin, GetCap, Enable, WaitReady, Identify, BufferStays, Step, queueVars,
                Commanding
  <2>2. making = 1 /\ late = 0 /\ xfer.at # "running"
    BY <2>1 DEF DepthInv, MakingQueue, Commanding
  <2> QED BY <2>1, <2>2 DEF DepthInv, CtrlStates, MakingQueue, Commanding
<1>7. CASE ConnectIo
  <2>1. /\ ctrl = "connectIo" /\ ctrl' = "up"
        /\ UNCHANGED <<target, requested, making, depth, late, xfer>>
    BY <1>7 DEF ConnectIo, Step, queueVars
  <2>2. making = 1 /\ late = 0 /\ depth["io"] \in 2..MaxQueueDepth
    BY <2>1 DEF DepthInv, MakingQueue, AcceptsConnection, DepthAllowed
  <2>3. IoDepth' = IoDepth /\ AcceptsConnection("io")' = AcceptsConnection("io")
    BY <2>1 DEF IoDepth, AcceptsConnection, DepthAllowed, ReceiveDepth
  <2> QED BY <2>1, <2>2, <2>3, ControllerAssumption DEF DepthInv, CtrlStates, MakingQueue
<1>8. CASE Close
  <2>1. /\ ctrl \in {"up", "closed"} /\ ctrl' = "closed" /\ xfer' = [at |-> "none"]
        /\ UNCHANGED <<target, requested, depth, making, late>>
    BY <1>8 DEF Close, Up
  <2>2. making = 1
    BY <2>1 DEF DepthInv, MakingQueue
  <2> QED BY <2>1, <2>2 DEF DepthInv, CtrlStates, MakingQueue
<1>9. CASE Transfer \/ FlushTimesOut \/ LateAnswer
  <2>1. UNCHANGED <<target, requested, ctrl, making, depth>>
    BY <1>9 DEF Transfer, Begin, BeginWhole, Execute, ExecuteRaises, ExecuteTimesOut, Return,
                FlushTimesOut, LateAnswer, queueVars
  <2>2. late \in Nat /\ depth["io"] \in Int
    BY DEF DepthInv, Queues
  <2>3. CASE late' = late
    <3>1. xfer'.at = "running" => ctrl = "up"
      <4>1. ASSUME NEW op, NEW gpu, NEW slba, NEW n, NEW off, Begin(op, gpu, slba, n, off)
            PROVE  ctrl = "up"
        BY <4>1 DEF Begin
      <4>2. xfer.at = "running" => ctrl = "up"
        BY DEF DepthInv
      <4>3. CASE Execute \/ ExecuteRaises \/ ExecuteTimesOut \/ Return
        BY <4>2, <4>3 DEF Execute, ExecuteRaises, ExecuteTimesOut, Return
      <4>4. CASE FlushTimesOut \/ LateAnswer
        BY <4>2, <4>4 DEF FlushTimesOut, LateAnswer
      <4> QED BY <1>9, <4>1, <4>3, <4>4 DEF Transfer, BeginWhole
    <3> QED BY <2>1, <2>2, <2>3, <3>1, DepthKept
  <2>4. CASE ExecuteTimesOut \/ FlushTimesOut
    <3>1. ctrl = "up" /\ late' = late + 1 /\ late < depth["io"] - 1
      BY <2>4 DEF ExecuteTimesOut, FlushTimesOut, CanSubmit, DepthInv
    <3> QED BY <2>1, <2>2, <3>1, DepthKept
  <2>5. CASE LateAnswer
    <3>1. ctrl = "up" /\ late > 0 /\ late' = late - 1
      BY <2>5 DEF LateAnswer
    <3> QED BY <2>1, <2>2, <3>1, DepthKept
  <2>6. late' = late \/ ExecuteTimesOut \/ FlushTimesOut \/ LateAnswer
    BY <1>9 DEF Transfer, Begin, BeginWhole, Execute, ExecuteRaises, Return
  <2> QED BY <2>3, <2>4, <2>5, <2>6
<1>10. CASE IdentifyNamespace \/ Allocate \/ CloseBuffer \/ LaunchKernel \/ UNCHANGED vars
  <2>1. UNCHANGED <<target, requested, ctrl, making, depth, late, xfer>>
    BY <1>10 DEF IdentifyNamespace, Allocate, CloseBuffer, LaunchKernel, vars, queueVars
  <2>2. late' \in Nat /\ ~ (late' > late) /\ (xfer'.at = "running" => ctrl = "up")
    BY <2>1 DEF DepthInv
  <2> QED BY <2>1, <2>2, DepthKept
<1> QED BY <1>1, <1>2, <1>3, <1>4, <1>5, <1>6, <1>7, <1>8, <1>9, <1>10 DEF Next, BringUp

\* The I/O queue: Set Features, the connection and the commands that timed out.
LEMMA GrantedFromInv == DepthInv => DepthGranted
<1> SUFFICES ASSUME DepthInv, ctrl \in {"connectIo", "up"}
             PROVE  /\ depth["io"] \in 2..requested
                    /\ depth["io"] <= target.limit
                    /\ target.maxcmd # 0 => depth["io"] <= target.maxcmd
                    /\ late <= target.crq
  BY DEF DepthGranted
<1>1. target \in Targets /\ requested \in RequestedDepths /\ requested \in Nat /\ late \in Nat
  BY ControllerAssumption DEF DepthInv
<1>2. depth["io"] = IoDepth /\ AcceptsConnection("io")
  BY DEF DepthInv
<1>3. /\ depth["io"] \in Int /\ depth["io"] <= requested /\ depth["io"] <= target.limit
      /\ target.maxcmd # 0 => depth["io"] <= target.maxcmd
  BY <1>1, <1>2, GrantedDepth
<1>4. depth["io"] >= 2 /\ target.crq >= depth["io"] - 1
  BY <1>2, ControllerAssumption DEF AcceptsConnection, DepthAllowed, ReceiveDepth
<1>5. late <= depth["io"] - 1
  BY <1>1, <1>3, <1>4 DEF DepthInv
<1>6. target.crq \in Nat
  BY <1>1, Target
<1> QED BY <1>1, <1>3, <1>4, <1>5, <1>6

-----------------------------------------------------------------------------
(* Transfers *)

\* A transfer that begins.
LEMMA Begins ==
    ASSUME target \in Targets, NEW op \in {"read", "write"}, NEW gpu \in BOOLEAN,
           NEW slba \in Nat, NEW n \in Int, NEW off \in Int, Begin(op, gpu, slba, n, off)
    PROVE  Sane(xfer', cuda')
<1> DEFINE x == xfer'
           e == <<>>
<1>1. /\ n \in Nat \ {0} /\ off \in Nat /\ n * target.lba <= BufLen - off /\ MaxBlocks > 0
      /\ cuda' = IF gpu /\ op = "write" THEN "idle" ELSE cuda
  BY DEF Begin
<1>2. x = [at |-> "running", op |-> op, gpu |-> gpu, slba |-> slba, blocks |-> n,
           start |-> off, lba |-> slba, off |-> off, remaining |-> n,
           cmds |-> e, stale |-> FALSE]
  BY DEF Begin
<1>3. e \in Seq(Commands) /\ e = <<>> /\ Len(e) = 0
  OBVIOUS
<1>4. target.lba \in Nat /\ BufLen \in Nat
  BY Target, ControllerAssumption
<1> HIDE DEF e
<1>5. x \in Transfers
  BY <1>1, <1>2, <1>3 DEF Transfers
<1>6. InOrder(x.cmds, x.slba, x.start)
  BY <1>2, <1>3 DEF InOrder
<1>7. MovedUpTo(x.cmds, x.slba, x.start, x.lba, x.off)
  BY <1>2, <1>3 DEF MovedUpTo
<1>8. off + n * target.lba <= BufLen
  <2>1. n * target.lba \in Nat
    BY <1>1, <1>4, Products
  <2> QED BY <1>1, <1>4, <2>1
<1>9. Going(x, cuda')
  BY <1>1, <1>2, <1>7, <1>8 DEF Going
<1> HIDE DEF x
<1> QED BY <1>1, <1>2, <1>5, <1>6, <1>9 DEF Sane, x

\* A command continues a transfer.
LEMMA OneMore ==
    ASSUME target \in Targets, NEW s \in Seq(Commands), NEW c \in Commands, NEW slba, NEW start,
           InOrder(s, slba, start), MovedUpTo(s, slba, start, c.lba, c.off),
           c.length <= Limit, c.length = c.count * target.lba, NEW s2, s2 = Append(s, c)
    PROVE  /\ s2 \in Seq(Commands) /\ InOrder(s2, slba, start)
           /\ MovedUpTo(s2, slba, start, c.lba + c.count, c.off + c.length)
<1> DEFINE n == Len(s)
<1>1. /\ n \in Nat /\ s2 \in Seq(Commands) /\ Len(s2) = n + 1 /\ s2[n + 1] = c
      /\ \A i \in 1..n : s2[i] = s[i]
  OBVIOUS
<1>2. (s = <<>> <=> n = 0) /\ s2 # <<>>
  BY <1>1
<1>3. InOrder(s2, slba, start)
  <2> SUFFICES ASSUME NEW i \in 1..(n + 1)
               PROVE  /\ s2[i].length <= Limit /\ s2[i].length = s2[i].count * target.lba
                      /\ s2[i].lba = IF i = 1 THEN slba ELSE s2[i - 1].lba + s2[i - 1].count
                      /\ s2[i].off = IF i = 1 THEN start ELSE s2[i - 1].off + s2[i - 1].length
    BY <1>1 DEF InOrder
  <2> HIDE DEF n
  <2>1. CASE i \in 1..n
    <3>1. /\ s[i].length <= Limit /\ s[i].length = s[i].count * target.lba
          /\ s[i].lba = IF i = 1 THEN slba ELSE s[i - 1].lba + s[i - 1].count
          /\ s[i].off = IF i = 1 THEN start ELSE s[i - 1].off + s[i - 1].length
      BY <2>1 DEF InOrder, n
    <3>2. s2[i] = s[i] /\ (i # 1 => s2[i - 1] = s[i - 1])
      BY <1>1, <2>1
    <3> QED BY <3>1, <3>2
  <2>2. CASE i = n + 1
    <3>1. s2[i] = c /\ (i = 1 <=> n = 0) /\ (i # 1 => i - 1 = n /\ s2[i - 1] = s[n])
      BY <1>1, <2>2
    <3>2. /\ n = 0 => c.lba = slba /\ c.off = start
          /\ n # 0 => c.lba = s[n].lba + s[n].count /\ c.off = s[n].off + s[n].length
      BY <1>2 DEF MovedUpTo, n
    <3> QED BY <3>1, <3>2
  <2> QED BY <1>1, <2>1, <2>2
<1>4. MovedUpTo(s2, slba, start, c.lba + c.count, c.off + c.length)
  BY <1>1, <1>2 DEF MovedUpTo
<1> QED BY <1>1, <1>3, <1>4

\* The next command of a transfer is one that the builders take, within MDTS.
LEMMA NextCommand ==
    ASSUME target \in Targets, Sane(xfer, cuda), xfer.at = "running", xfer.remaining > 0
    PROVE  /\ Command \in Commands /\ Command.lba = xfer.lba /\ Command.off = xfer.off
           /\ Command.count = Count /\ Command.length = Count * target.lba
           /\ Count \in Nat /\ Count <= xfer.remaining /\ Count * target.lba \in Nat
           /\ Command.length <= Limit /\ Buildable(Command)
           /\ (xfer.off + Count * target.lba) + (xfer.remaining - Count) * target.lba <= BufLen
<1> DEFINE c == Count
           lba == target.lba
           r == xfer.remaining
           m == MaxBlocks
<1>1. /\ r \in Nat \ {0} /\ xfer.lba \in Nat /\ xfer.off \in Nat
      /\ xfer.off + r * lba <= BufLen /\ m > 0
  BY DEF Sane, Transfers, Going
<1>2. lba \in Nat \ {0} /\ BufLen \in Nat /\ MaxNlb \in Nat /\ MaxSgl \in Nat
  BY Target, ControllerAssumption
<1>3. m \in Nat /\ m <= MaxNlb
  BY Blocks
<1>4. c \in Nat \ {0} /\ c <= r /\ c <= m
  <2>1. c = Min({r, m})
    BY DEF Count
  <2> HIDE DEF c, r, m
  <2>2. r \in Int /\ m \in Int
    BY <1>1, <1>3
  <2>3. c \in {r, m} /\ c <= r /\ c <= m
    BY <2>1, <2>2, LeastOfTwo
  <2> QED BY <2>3, <1>1, <1>3
<1>5. c * lba <= Limit /\ c * lba <= MaxSgl
  <2> HIDE DEF c
  <2> QED BY <1>4, Blocks
<1>6. /\ c * lba \in Nat \ {0} /\ (r - c) * lba \in Nat /\ r * lba = c * lba + (r - c) * lba
  <2> HIDE DEF c, r, lba
  <2>1. c * lba \in Nat /\ c * lba > 0
    BY <1>2, <1>4, Products
  <2>2. r - c \in Nat /\ c + (r - c) = r
    BY <1>1, <1>4
  <2>3. (r - c) * lba \in Nat /\ (c + (r - c)) * lba = c * lba + (r - c) * lba
    BY <1>2, <1>4, <2>2, Products
  <2> QED BY <2>1, <2>2, <2>3
<1> DEFINE k == c * lba
           rest == (r - c) * lba
           o == xfer.off
<1>7. (o + k) + rest <= BufLen
  <2>1. /\ k \in Nat /\ rest \in Nat /\ o \in Nat /\ r * lba = k + rest /\ o + r * lba <= BufLen
    BY <1>1, <1>6
  <2> HIDE DEF k, rest, o, r, lba
  <2> QED BY <2>1, <1>2
<1>8. o \in 0..BufLen /\ k \in 1..(BufLen - o)
  <2>1. k \in Nat \ {0} /\ rest \in Nat /\ o \in Nat
    BY <1>1, <1>6
  <2> HIDE DEF k, rest, o
  <2> QED BY <2>1, <1>2, <1>7
<1>9. /\ Command = [lba |-> xfer.lba, count |-> c, off |-> o, length |-> k]
  BY DEF Command
<1>10. Buildable(Command)
  <2>1. c \in 1..MaxNlb
    <3> HIDE DEF c, m
    <3> QED BY <1>2, <1>3, <1>4
  <2>2. Command.count = c /\ Command.off = o /\ Command.length = k
    BY <1>9
  <2> HIDE DEF c, k, o
  <2> QED BY <2>1, <2>2, <1>5, <1>8 DEF Buildable, SglFits, k
<1>11. /\ Command \in Commands /\ Command.lba = xfer.lba /\ Command.off = xfer.off
       /\ Command.count = Count /\ Command.length = Count * target.lba
  <2>1. xfer.lba \in Nat /\ c \in Nat /\ o \in Nat /\ k \in Nat
    BY <1>1, <1>4, <1>6
  <2>2. Command.lba = xfer.lba /\ Command.off = o /\ Command.count = c /\ Command.length = k
    BY <1>9
  <2>3. Command \in Commands
    <3> HIDE DEF c, o, k
    <3> QED BY <1>9, <2>1 DEF Commands
  <2> QED BY <2>2, <2>3
<1> QED BY <1>4, <1>5, <1>6, <1>7, <1>10, <1>11

\* The limits are those of the target, which stays.
LEMMA SameTarget ==
    ASSUME target' = target, Sane(xfer', cuda')
    PROVE  Sane(xfer, cuda)'
<1>1. MaxBlocks' = MaxBlocks /\ Limit' = Limit
  BY DEF MaxBlocks, MaxTransfer, Limit
<1> QED BY <1>1 DEF Sane, InOrder, Going, MovedUpTo

\* At first there is no transfer.
LEMMA TransferInit == Init => TransferInv
BY DEF Init, TransferInv

\* GPU memory or the end of the transfer change, and no commands.
LEMMA SaneEnds ==
    ASSUME NEW x, NEW mem, Sane(x, mem), NEW y, NEW mem2, NEW at \in {"running", "raised", "returned"},
           y = [x EXCEPT !.at = at],
           at = "running" => x.at = "running" /\ (x.gpu /\ x.op = "write" => mem2 # "working"),
           at = "returned" =>
              /\ x.at = "returned" \/ (x.at = "running" /\ x.remaining = 0)
              /\ x.gpu /\ x.op = "read" => mem2 # "unflushed"
    PROVE  Sane(y, mem2)
<1>1. x \in Transfers /\ InOrder(x.cmds, x.slba, x.start)
  BY DEF Sane
<1>2. /\ y \in Transfers /\ y.at = at /\ y.op = x.op /\ y.gpu = x.gpu /\ y.slba = x.slba
      /\ y.blocks = x.blocks /\ y.start = x.start /\ y.lba = x.lba /\ y.off = x.off
      /\ y.remaining = x.remaining /\ y.cmds = x.cmds
  BY <1>1 DEF Transfers
<1>3. at = "running" => Going(y, mem2) /\ MaxBlocks > 0
  BY <1>2 DEF Sane, Going
<1>4. at = "returned" =>
          y.cmds # <<>> /\ Last(y.cmds).lba + Last(y.cmds).count = y.slba + y.blocks
  <2>1. CASE x.at = "returned"
    BY <2>1, <1>2 DEF Sane
  <2>2. CASE x.at = "running" /\ x.remaining = 0
    <3>1. MovedUpTo(x.cmds, x.slba, x.start, x.lba, x.off) /\ x.lba + 0 = x.slba + x.blocks
      BY <2>2 DEF Sane, Going
    <3>2. x.lba \in Nat /\ x.slba \in Nat /\ x.blocks \in Nat \ {0}
      BY <1>1 DEF Transfers
    <3>3. x.lba = x.slba + x.blocks /\ x.lba # x.slba
      BY <3>1, <3>2
    <3> QED BY <3>1, <3>3, <1>2 DEF MovedUpTo, Last
  <2> QED BY <2>1, <2>2
<1> QED BY <1>1, <1>2, <1>3, <1>4 DEF Sane

\* A command succeeds.
LEMMA TransferExecute ==
    ASSUME TransferInv, Execute
    PROVE  TransferInv'
<1> DEFINE x == xfer
           y == xfer'
           c == Command
           n == Count
           k == n * target.lba
<1>1. target \in Targets /\ x.at = "running" /\ x.remaining > 0 /\ target' = target
  BY DEF TransferInv, Execute
<1>2. Sane(xfer, cuda)
  BY <1>1 DEF TransferInv
<1>3. x \in Transfers /\ InOrder(x.cmds, x.slba, x.start) /\ Going(x, cuda) /\ MaxBlocks > 0
  BY <1>1, <1>2 DEF Sane
<1>4. /\ c \in Commands /\ c.lba = x.lba /\ c.off = x.off /\ c.count = n /\ c.length = k
      /\ n \in Nat /\ n <= x.remaining /\ k \in Nat
      /\ c.length <= Limit
      /\ (x.off + k) + (x.remaining - n) * target.lba <= BufLen
  BY <1>1, <1>2, NextCommand
<1>5. /\ y = [x EXCEPT !.cmds = Append(@, c), !.lba = @ + n, !.off = @ + k, !.remaining = @ - n,
                       !.stale = @ \/ (x.gpu /\ x.op = "write" /\ cuda = "working")]
      /\ cuda' = IF x.gpu /\ x.op = "read" THEN "unflushed" ELSE cuda
  BY DEF Execute
<1> DEFINE s == Append(x.cmds, c)
<1>6. /\ s \in Seq(Commands) /\ InOrder(s, x.slba, x.start)
      /\ MovedUpTo(s, x.slba, x.start, c.lba + c.count, c.off + c.length)
  <2>1. x.cmds \in Seq(Commands)
    BY <1>3 DEF Transfers
  <2>2. MovedUpTo(x.cmds, x.slba, x.start, c.lba, c.off)
    BY <1>3, <1>4 DEF Going
  <2> DEFINE a == x.cmds
             b == x.slba
             d == x.start
  <2>3. /\ a \in Seq(Commands) /\ InOrder(a, b, d) /\ MovedUpTo(a, b, d, c.lba, c.off)
        /\ s = Append(a, c) /\ c \in Commands /\ c.length <= Limit
        /\ c.length = c.count * target.lba
    BY <2>1, <2>2, <1>3, <1>4
  <2> HIDE DEF a, b, d, c, s
  <2>4. /\ s \in Seq(Commands) /\ InOrder(s, b, d)
        /\ MovedUpTo(s, b, d, c.lba + c.count, c.off + c.length)
    BY <1>1, <2>3, OneMore
  <2> QED BY <2>4 DEF b, d
<1>7. ~ (x.gpu /\ x.op = "write" /\ cuda = "working") /\ x.stale = FALSE
  BY <1>3 DEF Going, Transfers
<1> HIDE DEF c, n, k, s
<1>8. /\ y.at = x.at /\ y.op = x.op /\ y.gpu = x.gpu /\ y.slba = x.slba
      /\ y.blocks = x.blocks /\ y.start = x.start /\ y.lba = x.lba + n /\ y.off = x.off + k
      /\ y.remaining = x.remaining - n /\ y.cmds = s /\ y.stale = FALSE
  BY <1>3, <1>5, <1>7 DEF Transfers, s
<1>9. y \in Transfers
  <2>1. x.lba + n \in Nat /\ x.off + k \in Nat /\ x.remaining - n \in Nat
    BY <1>3, <1>4 DEF Transfers
  <2>2. \A b : b = FALSE => b \in {FALSE}
    OBVIOUS
  <2>3. y = [x EXCEPT !.cmds = s, !.lba = x.lba + n, !.off = x.off + k,
                      !.remaining = x.remaining - n, !.stale = FALSE]
    BY <1>3, <1>5, <1>7 DEF Transfers, s
  <2> HIDE DEF y
  <2> QED BY <2>1, <2>3, <1>3, <1>6 DEF Transfers
<1>10. Going(y, cuda')
  <2>1. MovedUpTo(y.cmds, y.slba, y.start, y.lba, y.off)
    BY <1>4, <1>6, <1>8
  <2>2. y.lba + y.remaining = y.slba + y.blocks
    <3>1. /\ x.lba + x.remaining = x.slba + x.blocks /\ x.lba \in Nat /\ x.remaining \in Nat
          /\ n \in Nat
      BY <1>3, <1>4 DEF Going, Transfers
    <3>2. (x.lba + n) + (x.remaining - n) = x.lba + x.remaining
      BY <3>1
    <3> QED BY <3>1, <3>2, <1>8
  <2>3. y.off + y.remaining * target.lba <= BufLen
    BY <1>4, <1>8
  <2>4. y.gpu /\ y.op = "write" => cuda' # "working"
    BY <1>5, <1>7, <1>8
  <2> QED BY <2>1, <2>2, <2>3, <2>4 DEF Going
<1>11. Sane(y, cuda')
  <2> HIDE DEF y
  <2> QED BY <1>1, <1>3, <1>6, <1>8, <1>9, <1>10 DEF Sane
<1> QED BY <1>1, <1>11, SameTarget DEF TransferInv

\* A command times out: it may have been carried out, and is the last one.
LEMMA TransferTimesOut ==
    ASSUME TransferInv, ExecuteTimesOut
    PROVE  TransferInv'
<1> DEFINE x == xfer
           y == xfer'
           c == Command
           s == Append(x.cmds, c)
<1>1. target \in Targets /\ x.at = "running" /\ x.remaining > 0 /\ target' = target /\ cuda' = cuda
  BY DEF TransferInv, ExecuteTimesOut
<1>2. Sane(xfer, cuda)
  BY <1>1 DEF TransferInv
<1>3. x \in Transfers /\ InOrder(x.cmds, x.slba, x.start) /\ Going(x, cuda)
  BY <1>1, <1>2 DEF Sane
<1>4. /\ c \in Commands /\ c.lba = x.lba /\ c.off = x.off
      /\ c.length = c.count * target.lba /\ c.length <= Limit
  BY <1>1, <1>2, NextCommand
<1>5. s \in Seq(Commands) /\ InOrder(s, x.slba, x.start)
  <2>1. x.cmds \in Seq(Commands)
    BY <1>3 DEF Transfers
  <2>2. MovedUpTo(x.cmds, x.slba, x.start, c.lba, c.off)
    BY <1>3, <1>4 DEF Going
  <2> DEFINE a == x.cmds
             b == x.slba
             d == x.start
  <2>3. /\ a \in Seq(Commands) /\ InOrder(a, b, d) /\ MovedUpTo(a, b, d, c.lba, c.off)
        /\ s = Append(a, c) /\ c \in Commands /\ c.length <= Limit
        /\ c.length = c.count * target.lba
    BY <2>1, <2>2, <1>3, <1>4
  <2> HIDE DEF a, b, d, c, s
  <2>4. s \in Seq(Commands) /\ InOrder(s, b, d)
    BY <1>1, <2>3, OneMore
  <2> QED BY <2>4 DEF b, d
<1>6. y = [x EXCEPT !.at = "raised", !.cmds = s]
  BY <1>3 DEF ExecuteTimesOut, Transfers
<1> HIDE DEF c, s
<1>7. y \in Transfers /\ y.at = "raised" /\ y.cmds = s /\ y.slba = x.slba /\ y.start = x.start
  BY <1>3, <1>5, <1>6 DEF Transfers
<1>8. Sane(y, cuda')
  <2> HIDE DEF y
  <2> QED BY <1>5, <1>7 DEF Sane
<1> QED BY <1>1, <1>8, SameTarget DEF TransferInv

\* Every step keeps the transfer.
LEMMA TransferStep ==
    ASSUME TransferInv, [Next]_vars
    PROVE  TransferInv'
<1>1. target \in Targets /\ target' = target
  BY DEF TransferInv, Next, BringUp, Construct, MakeStep, MakeFails, MakeReturns, ConnectAdmin,
         GetCap, Enable, WaitReady, Identify, SetFeatures, ConnectIo, CommandRaises, BufferStays,
         BufferStayed, Raise, Step, Transfer, Begin, BeginWhole, Execute, ExecuteRaises,
         ExecuteTimesOut, Return, FlushTimesOut, LateAnswer, IdentifyNamespace, Allocate,
         CloseBuffer, LaunchKernel, Close, vars
<1>2. ASSUME NEW op \in {"read", "write"}, NEW gpu \in BOOLEAN, NEW slba \in 0..NsBlocks,
             NEW n \in Int, NEW off \in Offsets, Begin(op, gpu, slba, n, off)
      PROVE  TransferInv'
  <2>1. slba \in Nat /\ off \in Int
    BY ControllerAssumption
  <2>2. Sane(xfer', cuda')
    BY <1>1, <1>2, <2>1, Begins
  <2> QED BY <1>1, <2>2, SameTarget DEF TransferInv
<1>3. ASSUME NEW off \in Offsets PROVE DefaultBlocks(off) \in Int
  <2> DEFINE a == BufLen - off
             b == target.lba
  <2>1. a \in Int /\ b \in Nat \ {0}
    BY <1>1, Target, ControllerAssumption
  <2> HIDE DEF a, b
  <2>2. a \div b \in Int
    BY <2>1
  <2> QED BY <2>2 DEF DefaultBlocks, a, b
<1>4. CASE Execute
  BY <1>4, TransferExecute
<1>5. CASE ExecuteTimesOut
  BY <1>5, TransferTimesOut
<1>6. ASSUME xfer.at # "none", NEW at \in {"running", "raised", "returned"},
             xfer' = [xfer EXCEPT !.at = at],
             at = "running" => xfer.at = "running" /\ (xfer.gpu /\ xfer.op = "write" => cuda' # "working"),
             at = "returned" =>
                /\ xfer.at = "returned" \/ (xfer.at = "running" /\ xfer.remaining = 0)
                /\ xfer.gpu /\ xfer.op = "read" => cuda' # "unflushed"
      PROVE  TransferInv'
  <2> DEFINE x == xfer
             m == cuda
             y == xfer'
             m2 == cuda'
  <2>1. Sane(x, m)
    BY <1>6 DEF TransferInv
  <2>2. /\ y = [x EXCEPT !.at = at]
        /\ at = "running" => x.at = "running" /\ (x.gpu /\ x.op = "write" => m2 # "working")
        /\ at = "returned" =>
              /\ x.at = "returned" \/ (x.at = "running" /\ x.remaining = 0)
              /\ x.gpu /\ x.op = "read" => m2 # "unflushed"
    BY <1>6
  <2> HIDE DEF x, m, y, m2
  <2>3. Sane(y, m2)
    BY <2>1, <2>2, SaneEnds
  <2>4. Sane(xfer', cuda')
    BY <2>3 DEF y, m2
  <2> QED BY <1>1, <2>4, SameTarget DEF TransferInv
<1>7. CASE ExecuteRaises
  <2>1. xfer.at = "running" /\ xfer.remaining > 0 /\ cuda' = cuda
    BY <1>7 DEF ExecuteRaises
  <2>2. Sane(xfer, cuda)
    BY <2>1 DEF TransferInv
  <2>3. Buildable(Command)
    BY <1>1, <2>1, <2>2, NextCommand
  <2>4. xfer' = [xfer EXCEPT !.at = "raised"]
    BY <1>7, <2>3 DEF ExecuteRaises
  <2> QED BY <1>6, <2>1, <2>4
<1>8. CASE Return
  <2>1. /\ xfer.at = "running" /\ xfer.remaining = 0 /\ xfer' = [xfer EXCEPT !.at = "returned"]
        /\ cuda' = IF xfer.gpu /\ xfer.op = "read" THEN "idle" ELSE cuda
    BY <1>8 DEF Return
  <2> QED BY <1>6, <2>1
<1>9. CASE /\ xfer' = xfer
           /\ xfer.at = "running" => cuda' = cuda
           /\ cuda' = "unflushed" => cuda = "unflushed"
  <2>1. CASE xfer = [at |-> "none"]
    BY <1>1, <1>9, <2>1 DEF TransferInv
  <2>2. CASE Sane(xfer, cuda)
    <3>1. xfer \in Transfers
      BY <2>2 DEF Sane
    <3>2. xfer.at \in {"running", "raised", "returned"} /\ xfer' = [xfer EXCEPT !.at = xfer.at]
      BY <3>1, <1>9 DEF Transfers
    <3>3. xfer.at = "running" => (xfer.gpu /\ xfer.op = "write" => cuda' # "working")
      BY <2>2, <1>9 DEF Sane, Going
    <3>4. xfer.at = "returned" => (xfer.gpu /\ xfer.op = "read" => cuda' # "unflushed")
      BY <2>2, <1>9 DEF Sane
    <3> DEFINE at == xfer.at
    <3>5. /\ at \in {"running", "raised", "returned"} /\ xfer' = [xfer EXCEPT !.at = at]
          /\ at = "running" =>
                xfer.at = "running" /\ (xfer.gpu /\ xfer.op = "write" => cuda' # "working")
          /\ at = "returned" =>
                /\ xfer.at = "returned" \/ (xfer.at = "running" /\ xfer.remaining = 0)
                /\ xfer.gpu /\ xfer.op = "read" => cuda' # "unflushed"
          /\ xfer.at # "none"
      BY <3>2, <3>3, <3>4
    <3> HIDE DEF at
    <3> QED BY <1>6, <3>5
  <2> QED BY <2>1, <2>2 DEF TransferInv
<1>10. CASE Transfer
  BY <1>2, <1>3, <1>4, <1>5, <1>7, <1>8, <1>10 DEF Transfer, BeginWhole
<1>11. CASE Close
  BY <1>1, <1>11 DEF Close, TransferInv
<1>12. CASE CloseBuffer \/ LaunchKernel
  <2>1. /\ xfer' = xfer /\ xfer.at # "running" /\ cuda' \in {"idle", "working"}
    BY <1>12 DEF CloseBuffer, LaunchKernel, Up, Idle
  <2> QED BY <2>1, <1>9
<1>13. CASE \/ BringUp \/ FlushTimesOut \/ LateAnswer \/ IdentifyNamespace \/ Allocate
            \/ UNCHANGED vars
  <2>1. xfer' = xfer /\ cuda' = cuda
    BY <1>13 DEF BringUp, Construct, MakeStep, MakeFails, MakeReturns, ConnectAdmin,
         GetCap, Enable, WaitReady, Identify, SetFeatures, ConnectIo, CommandRaises, BufferStays,
         BufferStayed, Raise, Step, FlushTimesOut, LateAnswer, IdentifyNamespace, Allocate, vars
  <2> QED BY <2>1, <1>9
<1> QED BY <1>10, <1>11, <1>12, <1>13 DEF Next

\* What the property says of the commands is in the invariant.
LEMMA ExactFromInv == TransferInv => TransferExact
<1> SUFFICES ASSUME TransferInv, xfer.at # "none"
             PROVE  LET c == xfer.cmds IN
                    /\ xfer.at # "refused"
                    /\ \A i \in DOMAIN c :
                          /\ c[i].length <= Limit /\ c[i].length = c[i].count * target.lba
                          /\ c[i].lba = IF i = 1 THEN xfer.slba ELSE c[i - 1].lba + c[i - 1].count
                          /\ c[i].off = IF i = 1 THEN xfer.start
                                                 ELSE c[i - 1].off + c[i - 1].length
                    /\ xfer.at = "returned" =>
                          c # <<>> /\ Last(c).lba + Last(c).count = xfer.slba + xfer.blocks
                    /\ ~ xfer.stale
                    /\ xfer.at = "returned" /\ xfer.gpu /\ xfer.op = "read" => cuda # "unflushed"
  BY DEF TransferExact
<1>1. Sane(xfer, cuda)
  BY DEF TransferInv
<1>2. xfer \in Transfers /\ InOrder(xfer.cmds, xfer.slba, xfer.start)
  BY <1>1 DEF Sane
<1>3. /\ xfer.at # "refused" /\ ~ xfer.stale /\ xfer.cmds \in Seq(Commands)
  BY <1>2 DEF Transfers
<1>4. DOMAIN xfer.cmds = 1..Len(xfer.cmds)
  BY <1>3
<1> QED BY <1>1, <1>2, <1>3, <1>4 DEF Sane, InOrder

-----------------------------------------------------------------------------
\* What a controller owns, how deep its I/O queue is and where its transfer is,
\* in every state of the bring-up, of use and of closing.
THEOREM ControllerInvHolds == Spec => [](OwnerInv /\ DepthInv /\ TransferInv)
<1>1. Init => OwnerInv /\ DepthInv /\ TransferInv
  BY OwnerInit, DepthInit, TransferInit
<1>2. OwnerInv /\ DepthInv /\ TransferInv /\ [Next]_vars => (OwnerInv /\ DepthInv /\ TransferInv)'
  BY OwnerStep, DepthStep, TransferStep
<1> QED BY <1>1, <1>2, PTL DEF Spec

\* Controller.__init__ and close: a constructor that raises at any of its steps
\* leaves only what the provider refused to free and what that is built on, and a
\* controller refers to all that a close() has left.
THEOREM NothingLeftBehindHolds == Spec => []NothingLeftBehind
BY ControllerInvHolds, PTL DEF OwnerInv

\* Controller._connect: the depth of the I/O queue is within the request, MQES and
\* MAXCMD, and the commands in flight, late ones included, fit the target's
\* receive queue.
THEOREM DepthGrantedHolds == Spec => []DepthGranted
BY ControllerInvHolds, GrantedFromInv, PTL

\* Namespace._transfer: for any MDTS, block size, buffer and range the commands of
\* a transfer are contiguous, in order and within the limits, those of one that
\* returned cover its range, and GPU memory is synchronized.
THEOREM TransferExactHolds == Spec => []TransferExact
BY ControllerInvHolds, ExactFromInv, PTL
=============================================================================
