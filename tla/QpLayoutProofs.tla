----------------------------- MODULE QpLayoutProofs -----------------------------
(***************************************************************************)
(* Theorems of QpLayout, for every request and setup whose sizes fit.      *)
(***************************************************************************)
EXTENDS QpLayout, Arithmetic

\* No size reaches the width of the masks.
Sized ==
    /\ \A r \in Requests : r.maxRecv * 64 + 63 < U32 /\ r.rq * 64 + 63 < U32 /\ r.sge * 16 + 200 < U32
    /\ \A s \in Setups : s.rq * 64 + 63 < U32

\* Rounding up does not lose bytes as long as the mask is wide enough.
LEMMA AlignRoundsUp ==
    ASSUME NEW n \in Nat, NEW a \in Nat \ {0}, n + a - 1 < U32
    PROVE  Align(n, a) \in Nat /\ n <= Align(n, a) /\ Align(n, a) < n + a
<1>1. n + a - 1 \in 0 .. U32 - 1 /\ U32 \in Nat \ {0}
  BY LayoutAssumption
<1>2. (n + a - 1) % U32 = n + a - 1
  BY <1>1, FirstPass
<1>3. (n + a - 1) % a \in 0 .. a - 1
  BY <1>1, DivMod
<1> QED BY <1>2, <1>3 DEF Align

\* Receive WQEs of 64 bytes leave no gap before the send ring: neither rounding
\* changes anything.
LEMMA OffsetExact ==
    ASSUME NEW q \in Nat, q * 64 + 63 < U32
    PROVE  /\ SqBufOffset(q) = q * 64
           /\ Align(q * RqStride, WqeBb) = q * 64
<1>1. q * 64 + 63 \in 0 .. U32 - 1 /\ q * 64 \in 0 .. U32 - 1 /\ U32 \in Nat \ {0}
  BY LayoutAssumption
<1>2. (q * 64 + 63) % U32 = q * 64 + 63 /\ (q * 64) % U32 = q * 64
  BY <1>1, FirstPass
<1>3. q * RqStride + WqeBb - 1 = q * 64 + 63 /\ WqeBb = 64
  BY DEF RqStride, WqeBb
<1>4. (q * 64 + 63) - ((q * 64 + 63) % 64) = q * 64
  OBVIOUS
<1> QED BY <1>2, <1>3, <1>4 DEF SqBufOffset, Align

\* A WQE of the layout takes a block at least, and holds the SGEs asked for.
LEMMA WqeBytesSuffice ==
    ASSUME NEW s \in Nat \ {0}, NEW w \in Nat, s * 16 + 200 < U32
    PROVE  /\ WqeBytes(s, MaxInlineFromWqesz(w, s)) \in Nat
           /\ WqeBytes(s, MaxInlineFromWqesz(w, s)) >= WqeBb
           /\ WqeBytes(s, MaxInlineFromWqesz(w, s)) >= CtrlSeg + RaddrSeg + s * DataSeg
<1> DEFINE inl == (s - 1) * 16
<1>1. U32 \in Nat \ {0} /\ inl \in Nat
  BY LayoutAssumption
<1>2. CASE s = 1
  <2>1. (48 + 64 - 1) % U32 = 111
    BY <1>1, <1>2, FirstPass
  <2> QED BY <1>2, <2>1
        DEF WqeBytes, Align, MaxInlineFromWqesz, RoundDown16, CtrlSeg, RaddrSeg, DataSeg, WqeBb
<1>3. CASE s > 1
  <2>1. (inl + 16 - 1) % U32 = inl + 15
    BY <1>1, FirstPass
  <2>2. Align(inl, 16) = inl
    BY <2>1, <1>1 DEF Align
  <2> DEFINE n == CtrlSeg + RaddrSeg + (InlineSeg + inl)
  <2>3. n = s * 16 + 20 /\ inl > 0
    BY <1>3 DEF CtrlSeg, RaddrSeg, InlineSeg
  <2>4. WqeBytes(s, MaxInlineFromWqesz(w, s)) = Align(n, WqeBb)
    BY <1>3, <2>2, <2>3 DEF WqeBytes, MaxInlineFromWqesz, RoundDown16, DataSeg
  <2>5. (s * 16 + 83) % U32 = s * 16 + 83
    BY <1>1, FirstPass
  <2>6. Align(n, WqeBb) = (s * 16 + 83) - ((s * 16 + 83) % 64)
    <3>1. n + WqeBb - 1 = s * 16 + 83
      BY <2>3 DEF WqeBb
    <3> QED BY <3>1, <2>5 DEF Align, WqeBb
  <2> HIDE DEF n
  <2> QED BY <2>4, <2>6, <1>3 DEF CtrlSeg, RaddrSeg, DataSeg, WqeBb
<1> QED BY <1>2, <1>3

--------------------------------------------------------------------------------
(***************************************************************************)
(* The logarithms.                                                         *)
(***************************************************************************)

\* The powers of two grow, each above the number it belongs to.
LEMMA Powers ==
    /\ \A i \in Nat : Pow2[i] \in Nat \ {0} /\ i < Pow2[i]
    /\ \A i, j \in Nat : i < j => Pow2[i] < Pow2[j]
<1>1. Pow2[0] = 1 /\ \A i \in Nat : Pow2[i + 1] = 2 * Pow2[i]
  <2>1. Pow2 = CHOOSE f : Doubling(f)
    BY DEF Pow2, Doubling
  <2> QED BY <2>1, DoublingChosen
<1> QED BY <1>1, DoublingType, DoublingGrows

\* The loop of ilog2 stops at the first power that is not below its argument.
LEMMA LogStops ==
    ASSUME NEW x \in Nat
    PROVE  /\ Ilog2(x) \in 0 .. x
           /\ Pow2[Ilog2(x)] >= x
           /\ \A m \in 0 .. Ilog2(x) - 1 : Pow2[m] < x
<1> DEFINE Enough == {n \in Nat : Pow2[n] >= x}
           Stop(n) == Pow2[n] >= x /\ \A m \in 0 .. n - 1 : Pow2[m] < x
<1>1. x \in Enough
  BY Powers
<1>2. PICK n \in Enough : \A m \in Enough : n <= m
  <2>1. Enough \in SUBSET Nat /\ Enough # {}
    BY <1>1
  <2> HIDE DEF Enough
  <2> QED BY <2>1, LeastNumber
<1>3. n \in 0 .. x /\ Stop(n)
  <2>1. n \in Nat /\ n <= x /\ Pow2[n] >= x
    BY <1>1, <1>2
  <2>2. ASSUME NEW m \in 0 .. n - 1 PROVE Pow2[m] < x
    <3>1. m \notin Enough /\ m \in Nat
      BY <1>2, <2>1
    <3>2. Pow2[m] \in Nat
      BY <3>1, Powers
    <3> QED BY <3>1, <3>2
  <2> QED BY <2>1, <2>2
<1>4. Ilog2(x) = CHOOSE k \in 0 .. x : Stop(k)
  BY DEF Ilog2
<1> HIDE DEF Stop
<1>5. Ilog2(x) \in 0 .. x /\ Stop(Ilog2(x))
  BY <1>3, <1>4
<1> QED BY <1>5 DEF Stop

\* ilog2 is exact on powers of two.
LEMMA LogIsExact ==
    ASSUME NEW k \in Nat
    PROVE  Pow2[Ilog2(Pow2[k])] = Pow2[k]
<1> DEFINE n == Ilog2(Pow2[k])
<1>1. Pow2[k] \in Nat
  BY Powers
<1>2. n \in Nat /\ Pow2[n] >= Pow2[k] /\ \A m \in 0 .. n - 1 : Pow2[m] < Pow2[k]
  BY <1>1, LogStops
<1> HIDE DEF n
<1>3. Pow2[n] \in Nat
  BY <1>2, Powers
<1>4. ~ (n < k)
  BY <1>1, <1>2, <1>3, Powers
<1>5. ~ (k < n)
  <2> SUFFICES ASSUME k < n PROVE FALSE
    OBVIOUS
  <2>1. k \in 0 .. n - 1
    BY <1>2
  <2> QED BY <1>1, <1>2, <2>1
<1>6. n = k
  BY <1>2, <1>4, <1>5
<1> QED BY <1>6 DEF n

--------------------------------------------------------------------------------
(***************************************************************************)
(* The invariant.                                                          *)
(***************************************************************************)

\* The send ring starts right behind the receive ring, and the memory the connector
\* made has room for what it was sized for.
RoomInv ==
    umem > 0 =>
        /\ sqOffset = asked.rq * 64
        /\ sqSize = asked.sq % U16
        /\ reserved >= CtrlSeg + RaddrSeg + sges * DataSeg
        /\ AsksWhatItSized => CountedBothRings

\* The last WQE was written into the slot of the index before the present one.
PlaceInv ==
    wrote # -1 =>
        /\ umem > 0 /\ sqSize > 0 /\ pi > 0
        /\ wrote = sqOffset + ((pi - 1) % sqSize) * 64

\* Nothing is sized for before there is memory.
UntilCreated == umem = 0 => sizedFor = [rq |-> 0, sq |-> 0]

LInv == Sized /\ LayoutTypeOK /\ RoomInv /\ PlaceInv /\ UntilCreated

\* _sq_size is what is left of sq_size in 16 bits.
LEMMA CutSize ==
    ASSUME NEW q \in Nat
    PROVE  q % U16 \in 0 .. U16 - 1 /\ q % U16 <= q /\ (q < U16 => q % U16 = q)
<1>1. U16 \in Nat \ {0}
  BY LayoutAssumption
<1>2. q % U16 \in 0 .. U16 - 1
  BY <1>1, DivMod
<1>3. q < U16 => q % U16 = q
  <2> SUFFICES ASSUME q < U16 PROVE q % U16 = q
    OBVIOUS
  <2>1. q \in 0 .. U16 - 1
    BY <1>1
  <2> QED BY <1>1, <2>1, FirstPass
<1> QED BY <1>1, <1>2, <1>3

\* A queue pair created by the connector.
LEMMA ConnectorKeepsLInv ==
    ASSUME LInv, NEW r \in Requests, CreateResources(r)
    PROVE  LInv'
<1> DEFINE inl == MaxInlineFromWqesz(r.wqesz, r.sge)
           bytes == WqeBytes(r.sge, inl)
<1>1. /\ r.maxRecv \in Nat /\ r.maxSend \in Nat /\ r.rq \in Nat /\ r.sq \in Nat
      /\ r.sge \in Nat \ {0} /\ r.wqesz \in Nat
  BY LayoutAssumption
<1>2. r.maxRecv * 64 + 63 < U32 /\ r.rq * 64 + 63 < U32 /\ r.sge * 16 + 200 < U32
  BY DEF LInv, Sized
<1>3. bytes \in Nat /\ bytes >= 64 /\ bytes >= CtrlSeg + RaddrSeg + r.sge * DataSeg
  BY <1>1, <1>2, WqeBytesSuffice DEF WqeBb
<1>4. /\ umem' = r.maxRecv * 64 + r.maxSend * bytes /\ reserved' = bytes /\ sges' = r.sge
      /\ sizedFor' = [rq |-> r.maxRecv, sq |-> r.maxSend]
      /\ asked' = [rq |-> r.rq, sq |-> r.sq]
      /\ sqSize' = r.sq % U16 /\ sqOffset' = r.rq * 64
      /\ pi' = pi /\ wrote' = wrote /\ umem = 0
  BY <1>1, <1>2, OffsetExact DEF CreateResources, Initialize, CalcQpUmemLayout
<1> HIDE DEF bytes, inl
\* The ring of maxSend blocks fits into maxSend reservations.
<1>5. r.maxSend * bytes \in Nat /\ r.maxSend * 64 <= r.maxSend * bytes
  <2>1. PICK d \in Nat : bytes = 64 + d
    BY <1>3, bytes = 64 + (bytes - 64)
  <2>2. r.maxSend * bytes = r.maxSend * 64 + r.maxSend * d /\ r.maxSend * d \in Nat
    BY <1>1, <2>1
  <2> QED BY <1>1, <2>2
<1>6. wrote = -1
  BY <1>4 DEF LInv, PlaceInv
<1>7. LayoutTypeOK'
  <2>1. umem' \in Nat /\ (r.rq * 64) % 64 = 0
    BY <1>1, <1>4, <1>5
  <2> QED BY <1>1, <1>3, <1>4, <2>1, CutSize DEF LInv, LayoutTypeOK, WqeBb
<1>8. RoomInv'
  <2>1. (AsksWhatItSized => CountedBothRings)'
    BY <1>1, <1>4, <1>5 DEF AsksWhatItSized, CountedBothRings, RqStride, WqeBb
  <2> QED BY <1>3, <1>4, <2>1 DEF RoomInv
<1>9. Sized' /\ PlaceInv' /\ UntilCreated'
  <2>1. umem' # 0
    <3>1. r.maxSend > 0 => r.maxSend * bytes > 0
      BY <1>1, <1>5
    <3>2. r.maxRecv + r.maxSend > 0
      BY LayoutAssumption
    <3> QED BY <1>1, <1>4, <1>5, <3>1, <3>2
  <2> QED BY <1>4, <1>6, <2>1 DEF LInv, Sized, PlaceInv, UntilCreated
<1> QED BY <1>7, <1>8, <1>9 DEF LInv

\* A queue pair on memory of the caller's own.
LEMMA DirectKeepsLInv ==
    ASSUME LInv, NEW s \in Setups, CreateDirectly(s)
    PROVE  LInv'
<1>1. s.umem \in Nat \ {0} /\ s.rq \in Nat /\ s.sq \in Nat /\ s.rq * 64 + 63 < U32
  BY LayoutAssumption DEF LInv, Sized
<1>2. /\ umem' = s.umem /\ reserved' = 64 /\ sges' = 1 /\ sizedFor' = sizedFor
      /\ asked' = [rq |-> s.rq, sq |-> s.sq]
      /\ sqSize' = s.sq % U16 /\ sqOffset' = s.rq * 64
      /\ pi' = pi /\ wrote' = wrote /\ umem = 0
  BY <1>1, OffsetExact DEF CreateDirectly, Initialize, WqeBb
<1>3. LayoutTypeOK'
  <2>1. (s.rq * 64) % 64 = 0
    BY <1>1
  <2> QED BY <1>1, <1>2, <2>1, CutSize DEF LInv, LayoutTypeOK, WqeBb
<1>4. RoomInv'
  <2>1. sizedFor = [rq |-> 0, sq |-> 0]
    BY <1>2 DEF LInv, UntilCreated
  <2>2. (AsksWhatItSized => CountedBothRings)'
    BY <1>1, <1>2, <2>1 DEF AsksWhatItSized, CountedBothRings, RqStride, WqeBb
  <2> QED BY <1>2, <2>2 DEF RoomInv, CtrlSeg, RaddrSeg, DataSeg
<1>5. Sized' /\ PlaceInv' /\ UntilCreated'
  BY <1>1, <1>2 DEF LInv, Sized, PlaceInv, UntilCreated
<1> QED BY <1>3, <1>4, <1>5 DEF LInv

\* A post writes a slot of the ring, whatever the producer index.
LEMMA PostKeepsLInv ==
    ASSUME LInv, PostWqe
    PROVE  LInv'
<1>1. /\ sqSize \in Nat \ {0} /\ sqOffset \in Nat /\ pi \in Nat
      /\ umem > 0
      /\ UNCHANGED <<umem, reserved, sges, sizedFor, asked, sqSize, sqOffset>>
      /\ pi' = pi + 1 /\ wrote' = sqOffset + (pi % sqSize) * 64
  BY DEF LInv, LayoutTypeOK, PostWqe, WqeBb
<1>2. pi % sqSize \in 0 .. sqSize - 1
  BY <1>1, DivMod
<1>3. wrote' \in Nat /\ pi' - 1 = pi /\ pi' > 0
  BY <1>1, <1>2
<1>4. LayoutTypeOK'
  BY <1>1, <1>3 DEF LInv, LayoutTypeOK
<1>5. Sized' /\ RoomInv' /\ UntilCreated'
  BY <1>1 DEF LInv, Sized, RoomInv, UntilCreated, AsksWhatItSized, CountedBothRings
<1>6. PlaceInv'
  BY <1>1, <1>3 DEF PlaceInv
<1> QED BY <1>4, <1>5, <1>6 DEF LInv

\* The invariant of every reachable layout.
LEMMA LayoutInductive == Sized /\ LayoutSpec => []LInv
<1>1. Sized /\ LayoutInit => LInv
  <2> SUFFICES ASSUME Sized, LayoutInit PROVE LInv
    OBVIOUS
  <2>1. 0 \in 0 .. U16 - 1
    BY LayoutAssumption
  <2> QED BY <2>1 DEF LayoutInit, LInv, LayoutTypeOK, RoomInv, PlaceInv, UntilCreated, WqeBb
<1>2. LInv /\ [LayoutNext]_layoutVars => LInv'
  <2>1. CASE UNCHANGED layoutVars
    BY <2>1 DEF layoutVars, LInv, Sized, LayoutTypeOK, RoomInv, PlaceInv, UntilCreated,
       AsksWhatItSized, CountedBothRings
  <2> QED BY <2>1, ConnectorKeepsLInv, DirectKeepsLInv, PostKeepsLInv DEF LayoutNext
<1> QED BY <1>1, <1>2, PTL DEF LayoutSpec

--------------------------------------------------------------------------------
(***************************************************************************)
(* What follows.                                                           *)
(***************************************************************************)

\* The send ring starts at a whole block, so post_send never refuses a WQE for its
\* alignment, and every size is a number (queue_pair::initialize, post_send).
THEOREM LayoutTypesHold == Sized /\ LayoutSpec => []LayoutTypeOK
<1>1. LInv => LayoutTypeOK
  BY DEF LInv
<1> QED BY <1>1, LayoutInductive, PTL

\* Host and device compute the same place for every WQE of every lap on rings of
\* powers of two of any size, and for every WQE of the first lap on a send ring of any
\* size (queue_pair::initialize, post_wqe).
THEOREM DeviceFindsEveryWqe == Sized /\ LayoutSpec => []DeviceFindsWqe
<1>1. LInv => DeviceFindsWqe
  <2> SUFFICES ASSUME LInv, wrote # -1, IsPow2(asked.rq), asked.sq < U16,
                      IsPow2(asked.sq) \/ pi <= asked.sq
               PROVE  wrote = HwSqOffset + ((pi - 1) % HwSqSize) * WqeBb
    BY DEF DeviceFindsWqe
  <2>1. /\ asked.rq \in Nat /\ asked.sq \in Nat /\ pi \in Nat /\ pi > 0
        /\ sqOffset = asked.rq * 64 /\ sqSize = asked.sq % U16 /\ sqSize > 0
        /\ wrote = sqOffset + ((pi - 1) % sqSize) * 64
    BY DEF LInv, LayoutTypeOK, RoomInv, PlaceInv
  <2>2. sqSize = asked.sq
    BY <2>1, CutSize
  <2>3. HwSqOffset = asked.rq * 64
    BY LogIsExact DEF IsPow2, HwSqOffset, RqStride
  <2>4. CASE IsPow2(asked.sq)
    <3>1. HwSqSize = asked.sq
      BY <2>4, LogIsExact DEF IsPow2, HwSqSize
    <3> QED BY <2>1, <2>2, <2>3, <3>1 DEF WqeBb
  <2>5. CASE pi <= asked.sq
    <3>1. HwSqSize \in Nat /\ HwSqSize >= asked.sq
      BY <2>1, LogStops, Powers DEF HwSqSize
    <3>2. pi - 1 \in 0 .. asked.sq - 1 /\ pi - 1 \in 0 .. HwSqSize - 1
      BY <2>1, <2>5, <3>1
    <3>3. (pi - 1) % asked.sq = pi - 1 /\ (pi - 1) % HwSqSize = pi - 1
      BY <2>1, <2>2, <3>1, <3>2, FirstPass
    <3> QED BY <2>1, <2>2, <2>3, <3>3 DEF WqeBb
  <2> QED BY <2>4, <2>5
<1> QED BY <1>1, LayoutInductive, PTL

\* No WQE is ever written beyond the memory registered for the queue pair by a caller
\* that asks for rings within those the memory is for, whether the connector or the
\* caller made it, for every number of WQEs and SGEs whose sizes stay within 32 bits.
THEOREM WritesStayInUmem == Sized /\ LayoutSpec => []WqeInsideUmem
<1>1. LInv => WqeInsideUmem
  <2> SUFFICES ASSUME LInv, wrote # -1, AsksWhatItSized \/ CountedBothRings
               PROVE  wrote + WqeBb <= umem
    BY DEF WqeInsideUmem
  <2>1. /\ asked.rq \in Nat /\ asked.sq \in Nat /\ pi \in Nat /\ pi > 0 /\ umem \in Nat
        /\ sqOffset = asked.rq * 64 /\ sqSize = asked.sq % U16 /\ sqSize > 0
        /\ wrote = sqOffset + ((pi - 1) % sqSize) * 64
        /\ asked.rq * 64 + asked.sq * 64 <= umem
    BY DEF LInv, LayoutTypeOK, RoomInv, PlaceInv, CountedBothRings, RqStride, WqeBb
  <2>2. sqSize \in Nat \ {0} /\ sqSize <= asked.sq
    BY <2>1, CutSize
  <2>3. (pi - 1) % sqSize \in 0 .. sqSize - 1
    <3>1. pi - 1 \in Nat
      BY <2>1
    <3> QED BY <2>2, <3>1, DivMod
  <2> QED BY <2>1, <2>2, <2>3 DEF WqeBb
<1> QED BY <1>1, LayoutInductive, PTL

\* The inline reservation of the connector is never too small for its SGEs.
THEOREM InlineReservationHoldsSges == Sized /\ LayoutSpec => []SgesFit
<1>1. LInv => SgesFit
  BY DEF LInv, LayoutTypeOK, RoomInv, SgesFit
<1> QED BY <1>1, LayoutInductive, PTL
=================================================================================
