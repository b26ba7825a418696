-------------------------- MODULE MCRingAllReduce --------------------------
(***************************************************************************)
(* RingAllReduce for TLC, and with it the layouts of all small tensors.    *)
(***************************************************************************)
EXTENDS RingAllReduce

CONSTANTS MaxCount, ItemSizes, MaxSms, MaxWorld

ASSUME TensorsAssumption ==
    {MaxCount, MaxSms, MaxWorld} \subseteq Nat /\ ItemSizes \subseteq Nat \ {0}

Tensors == [count : 1..MaxCount, itemsize : ItemSizes, sms : 1..MaxSms, world : 2..MaxWorld]

\* There are enough bytes for n channels.
Enough(t, n) == n = 1 \/ t.count * t.itemsize >= n * ChannelBytes

Elements(p) == p.start..(p.start + p.len - 1)

\* Every element of a tensor lies in exactly one piece, and no piece reaches
\* outside the tensor: no element is summed twice or forgotten at the boundary
\* of a channel, of a stride or of an uneven last stride.  This holds of the
\* tensors that Fit below 2^31; it fails for some that are closer to it and that
\* _allreduce_tensor accepts (ElementsAddressed of MCRingLayout).  And the kernel
\* runs on as many channels as the comment in _nccl_channel_layout says: all of
\* them, less those for which there are not enough bytes.  A layout depends on
\* no variable, so looking at all of them before the first call is enough.
EveryElementOnce ==
    (\A r \in Ranks : coll[r] = 0) => \A t \in Tensors : Fits(t.count, t.sms, t.world) =>
        LET l == Layout(t.count, t.itemsize, t.sms)
            pieces == Pieces(l, t.world)
        IN  /\ \A e \in 0..(t.count - 1) : Cardinality({p \in pieces : e \in Elements(p)}) = 1
            /\ \A p \in pieces : Elements(p) \subseteq 0..(t.count - 1)
            /\ l.active \in 1..t.sms /\ Enough(t, l.active)
            /\ \A n \in (l.active + 1)..t.sms : ~Enough(t, n)
=============================================================================
