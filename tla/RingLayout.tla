---------------------------- MODULE RingLayout ----------------------------
(***************************************************************************)
(* How the ring all-reduce of                                              *)
(* experiments/fault_tolerant_allreduce/allreduce.py cuts a tensor up:     *)
(* _nccl_channel_layout gives every channel a run of whole cells, and the  *)
(* kernel walks through a channel in strides of world chunks, one for each *)
(* owner.  A piece is what one put transfers; it may be empty.  The host   *)
(* calculates with Python's integers, the kernel with Int32.               *)
(***************************************************************************)
EXTENDS Integers, FiniteSets

CONSTANTS
    CellBytes,     \* _NCCL_CELL_BYTES
    ChannelBytes,  \* _NCCL_SIMPLE_CHANNEL_BYTES
    ChunkBytes,    \* _NCCL_SIMPLE_CHUNK_BYTES
    AlignBytes,    \* 16
    IntSpan        \* 2^32, the values of the kernel's Int32

ASSUME LayoutAssumption ==
    /\ \A c \in {CellBytes, ChannelBytes, ChunkBytes, AlignBytes} : c \in Nat \ {0}
    /\ IntSpan \in Nat /\ IntSpan % 2 = 0

Smaller(a, b) == IF a < b THEN a ELSE b
Larger(a, b) == IF a < b THEN b ELSE a
CeilDiv(a, b) == (a + b - 1) \div b

\* Two's complement: what is left of n in an Int32.
Int32(n) == ((n + IntSpan \div 2) % IntSpan) - IntSpan \div 2

\* CeilDiv of the kernel.
CeilDiv32(a, b) == Int32(a + b - 1) \div b

ActiveChannels(count, itemsize, sms) ==
    Smaller(sms, Larger(1, (count * itemsize) \div ChannelBytes))

\* _nccl_channel_layout, the two sizes that the launch adds to it, and the
\* kernel's product cells_per_channel * cell_elements.
Layout(count, itemsize, sms) ==
    LET cell == Larger(1, CellBytes \div itemsize)
        active == ActiveChannels(count, itemsize, sms)
    IN  [count |-> count, itemsize |-> itemsize, active |-> active,
         perChannel |-> Int32(CeilDiv(CeilDiv(count, cell), active) * cell),
         base |-> Larger(1, ChunkBytes \div itemsize),
         align |-> Larger(1, AlignBytes \div itemsize)]

ChannelStart(l, ch) == Int32(ch * l.perChannel)

\* Not positive for a channel behind the last cell: it has nothing to do.
ChannelCount(l, ch) == Smaller(Int32(l.count - ChannelStart(l, ch)), l.perChannel)

LoopCount(l, world) == Int32(world * l.base)

\* The values of elem_offset in a channel: the loop adds loop_count, in an Int32,
\* as long as the sum is below channel_count.
Offsets(l, ch, world) ==
    LET elemOffset(k) == Int32(k * LoopCount(l, world))
        reached == {k \in 0..IntSpan : \A j \in 0..k : elemOffset(j) < ChannelCount(l, ch)}
    IN  {elemOffset(k) : k \in reached}

\* mutant: the division rounds down and the rest of the tensor is forgotten.
ChunkDown(l, remaining, world) ==
    IF remaining < LoopCount(l, world)
    THEN Int32(((remaining \div world) \div l.align) * l.align)
    ELSE l.base

\* The chunk of one stride; the last stride is divided evenly and aligned.
Chunk(l, remaining, world) ==
    IF remaining < LoopCount(l, world)
    THEN Int32(CeilDiv32(CeilDiv32(remaining, world), l.align) * l.align)
    ELSE l.base

\* send_element/send_length, and recv_element/recv_length, of an owner.
Piece(l, ch, off, world, owner) ==
    LET remaining == Int32(ChannelCount(l, ch) - off)
        chunk == Chunk(l, remaining, world)
        local == Int32(owner * chunk)
    IN  [start |-> Int32(ChannelStart(l, ch) + off + local),
         len |-> Smaller(chunk, Larger(0, Int32(remaining - local)))]

\* All pieces of a tensor, over the channels, strides and owners of a kernel.
Pieces(l, world) ==
    UNION {{[channel |-> ch, off |-> off, owner |-> owner,
             start |-> Piece(l, ch, off, world, owner).start,
             len |-> Piece(l, ch, off, world, owner).len] :
                off \in Offsets(l, ch, world), owner \in 0..(world - 1)} :
           ch \in 0..(l.active - 1)}

\* The offset that a put adds to its 64-bit addresses is an Int32 product.
ByteOffset(l, piece) == Int32(piece.start * l.itemsize)

\* The tensor ends so far below 2^31 that a cell more for every channel, and a
\* stride more, still end below it.
Fits(count, sms, world) ==
    /\ count + sms * CellBytes <= IntSpan \div 2
    /\ count + world * (ChunkBytes + AlignBytes) < IntSpan \div 2
=============================================================================
