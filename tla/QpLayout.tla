-------------------------------- MODULE QpLayout --------------------------------
(***************************************************************************)
(* Where a queue pair's rings lie in the user memory registered for them:  *)
(* calc_qp_umem_layout and max_inline_from_wqesz (rdma_objects.h, 463-527) *)
(* size the memory for the connector from max_recv_wr and max_send_wr;     *)
(* queue_pair::initialize derives the ring it walks from rq_size and       *)
(* sq_size, which are parameters of their own; the device derives its ring *)
(* from their logarithms; and post_wqe writes.  Addresses are byte offsets *)
(* in the memory.                                                          *)
(***************************************************************************)
EXTENDS Integers

CONSTANTS
    U32,        \* the masks of align16 and align64 are 32 bits wide: 2^32
    U16,        \* _sq_size has 16 bits: 2^16
    Requests,   \* what the connector is asked for, and the device's limits:
                \* [maxRecv, maxSend, rq, sq] WQEs, [sge] SGEs per WQE,
                \* [wqesz] bytes per WQE
    Setups      \* what a caller without the connector sets up: [umem, rq, sq]

ASSUME LayoutAssumption ==
    /\ U32 \in Nat \ {0}
    /\ U32 % 64 = 0
    /\ U16 \in Nat \ {0}
    /\ Requests \subseteq [maxRecv : Nat, maxSend : Nat, rq : Nat, sq : Nat,
                           sge : Nat \ {0}, wqesz : Nat]
    /\ \A r \in Requests : r.maxRecv + r.maxSend > 0
    /\ Setups \subseteq [umem : Nat \ {0}, rq : Nat, sq : Nat]

VARIABLES
    umem,       \* bytes of _umem_sq, 0 before it is registered
    reserved,   \* bytes the layout reserves per WQE
    sges,       \* SGEs the caller may put into one WQE
    sizedFor,   \* the WQEs the connector sized the memory for: not kept in the code,
                \* for the properties; both 0 if the caller sized it
    asked,      \* params.rq_size and params.sq_size of queue_pair::initialize
    sqSize,     \* _sq_size
    sqOffset,   \* _sq_buf_offset
    pi,         \* _sq_pi, not wrapped: at most two rings and one
    wrote       \* the offset post_wqe wrote last, -1 before

layoutVars == <<umem, reserved, sges, sizedFor, asked, sqSize, sqOffset, pi, wrote>>

--------------------------------------------------------------------------------
(***************************************************************************)
(* The helpers.                                                            *)
(***************************************************************************)

WqeBb == 64                             \* RDMA_WQE_SEG_SIZE, MLX5_SEND_WQE_BB
CtrlSeg == 16
RaddrSeg == 16
DataSeg == 16
InlineSeg == 4

\* (n + a - 1) & ~(a - 1), the mask an unsigned int: the upper half is lost.
Align(n, a) ==
    LET m == (n + a - 1) % U32
    IN  m - (m % a)

\* Faults for the mutation runs: a second SGE taken off the inline space; the
\* receive queue left out of the total; the stride of a receive WQE forgotten.
MaxInlineShort(maxWqeSz, maxSge) == (maxSge - 2) * DataSeg
CalcQpUmemLayoutSqOnly(rqWr, sqWr, maxSge, maxInline) ==
    [sqOffsetBytes |-> Align(rqWr * 64, WqeBb), totalBytes |-> sqWr * WqeBb]
SqBufOffsetUnscaled(rq) == rq * 16

\* room & ~15U
RoundDown16(room) == room - (room % 16)

\* The inline space the connector asks for.  Only without SGEs does the device's
\* limit count, and then the subtraction wraps at 32 bits; sge_bytes is never
\* below inline_hdr, so the third branch of the code is not reachable.
MaxInlineFromWqesz(maxWqeSz, maxSge) ==
    IF maxSge = 0
    THEN RoundDown16((maxWqeSz - (CtrlSeg + RaddrSeg + 16)) % U32)
    ELSE RoundDown16(maxSge * DataSeg - 16)

RqStride == 64                          \* 16 << MLX5_RQ_STRIDE

WqeBytes(maxSge, maxInline) ==
    Align(CtrlSeg + RaddrSeg
              + (IF maxInline > 0 THEN InlineSeg + Align(maxInline, 16)
                                  ELSE maxSge * DataSeg),
          WqeBb)

CalcQpUmemLayout(rqWr, sqWr, maxSge, maxInline) ==
    LET off == Align(rqWr * RqStride, WqeBb)
    IN  [sqOffsetBytes |-> off,
         totalBytes |-> off + sqWr * WqeBytes(maxSge, maxInline)]

\* queue_pair::initialize rounds with an int mask, which keeps every bit, and
\* stores the result in 32 bits.
SqBufOffset(rq) ==
    LET m == rq * RqStride + WqeBb - 1
    IN  (m - (m % WqeBb)) % U32

\* 1 << n
Pow2[n \in Nat] == IF n = 0 THEN 1 ELSE 2 * Pow2[n - 1]

\* ilog2 counts up to the first power that is not below x: it rounds up, and is 0
\* for 0.
Ilog2(x) == CHOOSE n \in 0 .. x : Pow2[n] >= x /\ \A m \in 0 .. n - 1 : Pow2[m] < x

\* The device's ring: after 2^log_rq_size receive WQEs, 2^log_sq_size of its own.
HwSqOffset == Pow2[Ilog2(asked.rq)] * RqStride
HwSqSize == Pow2[Ilog2(asked.sq)]

--------------------------------------------------------------------------------
LayoutInit ==
    /\ umem = 0
    /\ reserved = 0
    /\ sges = 0
    /\ sizedFor = [rq |-> 0, sq |-> 0]
    /\ asked = [rq |-> 0, sq |-> 0]
    /\ sqSize = 0
    /\ sqOffset = 0
    /\ pi = 0
    /\ wrote = -1

\* queue_pair::initialize: a queue pair is created once.
Initialize(rq, sq) ==
    /\ asked' = [rq |-> rq, sq |-> sq]
    /\ sqSize' = sq % U16
    /\ sqOffset' = SqBufOffset(rq)
    /\ UNCHANGED <<pi, wrote>>

\* create_resources: the memory by the layout helpers, then the queue pair by the
\* sizes its caller has put into the parameters.
CreateResources(r) ==
    LET inl == MaxInlineFromWqesz(r.wqesz, r.sge)
    IN  /\ umem = 0
        /\ umem' = CalcQpUmemLayout(r.maxRecv, r.maxSend, r.sge, inl).totalBytes
        /\ sizedFor' = [rq |-> r.maxRecv, sq |-> r.maxSend]
        /\ reserved' = WqeBytes(r.sge, inl)
        /\ sges' = r.sge
        /\ Initialize(r.rq, r.sq)

\* A caller that sizes the memory itself, as test.cpp does; post_wqe then puts
\* one SGE into each WQE.
CreateDirectly(s) ==
    /\ umem = 0
    /\ umem' = s.umem
    /\ UNCHANGED sizedFor
    /\ reserved' = WqeBb
    /\ sges' = 1
    /\ Initialize(s.rq, s.sq)

\* post_wqe: the slot of the producer index.  A ring of size 0 divides by zero, which
\* ends the program.  A lap beyond the ring shows the wrap.
PostWqe ==
    /\ umem > 0
    /\ sqSize > 0
    /\ pi <= 2 * sqSize
    /\ wrote' = sqOffset + (pi % sqSize) * WqeBb
    /\ pi' = pi + 1
    /\ UNCHANGED <<umem, reserved, sges, sizedFor, asked, sqSize, sqOffset>>

LayoutNext ==
    \/ \E r \in Requests : CreateResources(r)
    \/ \E s \in Setups : CreateDirectly(s)
    \/ PostWqe

LayoutSpec == LayoutInit /\ [][LayoutNext]_layoutVars

--------------------------------------------------------------------------------
(***************************************************************************)
(* Properties.                                                             *)
(***************************************************************************)

LayoutTypeOK ==
    /\ umem \in Nat /\ reserved \in Nat /\ sges \in Nat
    /\ sizedFor \in [rq : Nat, sq : Nat] /\ asked \in [rq : Nat, sq : Nat]
    /\ sqSize \in 0 .. U16 - 1
    /\ sqOffset \in Nat /\ sqOffset % WqeBb = 0  \* post_send refuses a WQE elsewhere
    /\ pi \in Nat
    /\ wrote \in Nat \cup {-1}

\* The rings asked of queue_pair::initialize are no larger than those the connector
\* sized the memory for: nothing in create_resources makes them so.
AsksWhatItSized == asked.rq <= sizedFor.rq /\ asked.sq <= sizedFor.sq

\* A caller that sized the memory itself counted both rings.
CountedBothRings == asked.rq * RqStride + asked.sq * WqeBb <= umem

\* Every WQE post_wqe writes lies in the memory registered for the queue pair, on
\* every lap, if the caller asks for rings within those the memory is for: the
\* helpers of the connector and the offset of queue_pair::initialize then agree,
\* "RQ area + padding + SQ area" to the last slot.
WqeInsideUmem ==
    wrote # -1 /\ (AsksWhatItSized \/ CountedBothRings) => wrote + WqeBb <= umem

\* The same without the condition on the caller: the comment on total_bytes (RQ area
\* + padding + SQ area) of the layout, and the test's sq_size, take it for granted.
NoWriteOutside == wrote # -1 => wrote + WqeBb <= umem

IsPow2(x) == \E n \in 0 .. x : x = Pow2[n]

\* The device looks for the WQE where post_wqe wrote it, behind its own receive
\* queue and on its own ring: three separate computations of the same place.  They
\* agree if the logarithm of rq_size is exact and _sq_size kept all of sq_size: on
\* every lap if the logarithm of sq_size is exact too, on the first lap if not.
DeviceFindsWqe ==
    /\ wrote # -1
    /\ IsPow2(asked.rq)
    /\ asked.sq < U16
    /\ IsPow2(asked.sq) \/ pi <= asked.sq
    => wrote = HwSqOffset + ((pi - 1) % HwSqSize) * WqeBb

\* What the layout reserves for a WQE with inline data also holds the WQE with
\* the SGEs it was computed from, though the two have different headers.
SgesFit == reserved >= CtrlSeg + RaddrSeg + sges * DataSeg \/ umem = 0
=================================================================================
