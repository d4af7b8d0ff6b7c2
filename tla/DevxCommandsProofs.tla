---------------------------- MODULE DevxCommandsProofs ----------------------------
(***************************************************************************)
(* Theorems of DevxCommands: what the program and the device tell each     *)
(* other in bit fields arrives as it was meant, for numbers of every       *)
(* width, every device's identifiers and capabilities, and all parameters  *)
(* that fit their fields.                                                  *)
(*                                                                         *)
(* First the fields: those of a layout never overlap.  Then the macros:    *)
(* what DEVX_SET puts into a field DEVX_GET takes out, whatever else the   *)
(* buffer holds.  Then the commands, and an invariant of the contexts that *)
(* the steps of a connection keep, field by field.                         *)
(***************************************************************************)
EXTENDS DevxCommands, Arithmetic, SequenceTheorems

------------------------------------------------------------------------------
(***************************************************************************)
(* The fields of a layout.                                                 *)
(***************************************************************************)

\* Offsets begin at zero and grow by the widths.
LEMMA OffsetsDef ==
    ASSUME NEW layout \in Seq(STRING \X Nat)
    PROVE  \A i \in 1 .. Len(layout) + 1 :
               Offsets(layout)[i] =
                   IF i = 1 THEN 0 ELSE Offsets(layout)[i - 1] + layout[i - 1][2]
<1> DEFINE Upto(n, f) == f = [i \in 1 .. n + 1 |->
                                IF i = 1 THEN 0 ELSE f[i - 1] + layout[i - 1][2]]
           Defined == {n \in Nat : \E f : Upto(n, f)}
<1>1. 0 \in Defined
  <2>1. Upto(0, [i \in 1 .. 1 |-> 0])
    OBVIOUS
  <2> QED BY <2>1
<1>2. ASSUME NEW n \in Nat, n \in Defined PROVE n + 1 \in Defined
  <2>1. PICK f : Upto(n, f)
    BY <1>2
  <2> DEFINE g == [i \in 1 .. n + 2 |-> IF i = 1 THEN 0 ELSE f[i - 1] + layout[i - 1][2]]
  <2>2. \A i \in 1 .. n + 1 : g[i] = f[i]
    BY <2>1
  <2>3. Upto(n + 1, g)
    <3>1. \A i \in 1 .. n + 2 : i # 1 => i - 1 \in 1 .. n + 1
      OBVIOUS
    <3>2. \A i \in 1 .. n + 2 : g[i] = IF i = 1 THEN 0 ELSE g[i - 1] + layout[i - 1][2]
      BY <2>2, <3>1
    <3>3. g = [i \in 1 .. n + 2 |-> g[i]] /\ (n + 1) + 1 = n + 2
      OBVIOUS
    <3> HIDE DEF g
    <3> QED BY <3>2, <3>3
  <2>4. n + 1 \in Nat /\ \E ff : Upto(n + 1, ff)
    <3> HIDE DEF g, Upto
    <3> QED BY <2>3
  <2> HIDE DEF g, Upto
  <2> QED BY <2>4
<1>3. Len(layout) \in Defined
  <2>1. Nat \subseteq Defined
    <3> HIDE DEF Defined
    <3> QED BY <1>1, <1>2, Induction
  <2> HIDE DEF Defined
  <2> QED BY <2>1
<1>4. Upto(Len(layout), Offsets(layout))
  <2>1. Offsets(layout) = CHOOSE f : Upto(Len(layout), f)
    BY DEF Offsets
  <2>2. \E f : Upto(Len(layout), f)
    BY <1>3
  <2> HIDE DEF Upto
  <2> QED BY <2>1, <2>2
<1> QED BY <1>4

\* Every field begins behind those before it.
LEMMA OffsetsGrow ==
    ASSUME NEW layout \in Seq(STRING \X Nat)
    PROVE  /\ \A i \in 1 .. Len(layout) + 1 : Offsets(layout)[i] \in Nat
           /\ \A j \in 1 .. Len(layout) + 1 : \A i \in 1 .. j - 1 :
                  /\ layout[i][2] \in Nat
                  /\ Offsets(layout)[i] + layout[i][2] <= Offsets(layout)[j]
<1> DEFINE off == Offsets(layout)
           Grown == {n \in Nat : n + 1 <= Len(layout) + 1 =>
                       /\ off[n + 1] \in Nat
                       /\ \A i \in 1 .. n : off[i] \in Nat /\ off[i] + layout[i][2] <= off[n + 1]}
<1>1. \A i \in 1 .. Len(layout) : layout[i][2] \in Nat
  OBVIOUS
<1>2. 0 \in Grown
  BY OffsetsDef
<1>3. ASSUME NEW n \in Nat, n \in Grown PROVE n + 1 \in Grown
  <2> SUFFICES ASSUME n + 2 <= Len(layout) + 1
               PROVE  /\ off[n + 2] \in Nat
                      /\ \A i \in 1 .. n + 1 : off[i] \in Nat /\ off[i] + layout[i][2] <= off[n + 2]
    OBVIOUS
  <2>1. off[n + 2] = off[n + 1] + layout[n + 1][2]
    BY OffsetsDef
  <2>2. /\ off[n + 1] \in Nat
        /\ \A i \in 1 .. n : off[i] \in Nat /\ off[i] + layout[i][2] <= off[n + 1]
    BY <1>3
  <2>3. layout[n + 1][2] \in Nat
    BY <1>1
  <2>4. ASSUME NEW i \in 1 .. n + 1
        PROVE  off[i] \in Nat /\ off[i] + layout[i][2] <= off[n + 2]
    <3> HIDE DEF off
    <3>1. CASE i = n + 1
      BY <3>1, <2>1, <2>2, <2>3
    <3>2. CASE i # n + 1
      <4>1. i \in 1 .. n /\ layout[i][2] \in Nat
        BY <3>2, <1>1
      <4>2. off[i] \in Nat /\ off[i] + layout[i][2] <= off[n + 1]
        BY <4>1, <2>2
      <4> QED BY <4>1, <4>2, <2>1, <2>2, <2>3
    <3> QED BY <3>1, <3>2
  <2> HIDE DEF off
  <2> QED BY <2>1, <2>2, <2>3, <2>4
<1>4. Nat \subseteq Grown
  <2> HIDE DEF Grown
  <2> QED BY <1>2, <1>3, Induction
<1>5. \A j \in 1 .. Len(layout) + 1 : j - 1 \in Grown /\ (j - 1) + 1 = j
  <2> HIDE DEF Grown
  <2> QED BY <1>4
<1> HIDE DEF off
<1> QED BY <1>1, <1>5 DEF off

\* A structure as it should be: fields have a place within it and share no bit.
WellLaid(fields) ==
    /\ "end" \in DOMAIN fields
    /\ Size(fields) \in Nat
    /\ \A n \in DOMAIN fields :
        /\ fields[n].off \in Nat
        /\ fields[n].size \in Nat
        /\ fields[n].off + fields[n].size <= Size(fields)
    /\ \A m, n \in DOMAIN fields : m # n => Span(fields[m]) \cap Span(fields[n]) = {}

\* No two fields of a layout overlap, whatever their widths (__devx_bit_off).
THEOREM FieldsApart ==
    ASSUME NEW layout \in Seq(STRING \X Nat)
    PROVE  WellLaid(Fields(layout))
<1> DEFINE off == Offsets(layout)
           last == Len(layout) + 1
           F == Fields(layout)
           at(n) == CHOOSE j \in Named(layout) : layout[j][1] = n
<1>1. /\ last \in Nat
      /\ \A i \in 1 .. last : off[i] \in Nat
      /\ \A j \in 1 .. last : \A i \in 1 .. j - 1 :
             layout[i][2] \in Nat /\ off[i] + layout[i][2] <= off[j]
  BY OffsetsGrow
<1>2. DOMAIN F = {layout[i][1] : i \in Named(layout)} \cup {"end"}
  BY DEF Fields
<1>3. F["end"].off = off[last] /\ F["end"].size = 0
  BY DEF Fields
<1>4. ASSUME NEW n \in DOMAIN F, n # "end"
      PROVE  /\ at(n) \in 1 .. last - 1
             /\ layout[at(n)][1] = n
             /\ F[n].off = off[at(n)]
             /\ F[n].size = layout[at(n)][2]
  <2>1. \E j \in Named(layout) : layout[j][1] = n
    BY <1>2, <1>4
  <2>2. at(n) \in Named(layout) /\ layout[at(n)][1] = n
    BY <2>1
  <2>3. F[n] = [off |-> off[at(n)], size |-> layout[at(n)][2]]
    BY <1>4 DEF Fields
  <2>4. Named(layout) \subseteq 1 .. last - 1
    <3>1. DOMAIN layout = 1 .. Len(layout) /\ Len(layout) \in Nat
      OBVIOUS
    <3>2. Named(layout) \subseteq DOMAIN layout
      BY DEF Named
    <3> QED BY <3>1, <3>2
  <2> HIDE DEF at, F, off, last
  <2> QED BY <2>2, <2>3, <2>4
<1> HIDE DEF F, at, off, last
<1>5. ASSUME NEW n \in DOMAIN F
      PROVE  F[n].off \in Nat /\ F[n].size \in Nat /\ F[n].off + F[n].size <= off[last]
  <2>1. CASE n = "end"
    BY <2>1, <1>1, <1>3 DEF last
  <2>2. CASE n # "end"
    BY <2>2, <1>1, <1>4 DEF last
  <2> QED BY <2>1, <2>2
<1>6. ASSUME NEW m \in DOMAIN F, NEW n \in DOMAIN F, m # n
      PROVE  Span(F[m]) \cap Span(F[n]) = {}
  <2>1. CASE m = "end"
    BY <2>1, <1>1, <1>3 DEF Span, last
  <2>2. CASE n = "end"
    BY <2>2, <1>1, <1>3 DEF Span, last
  <2>3. CASE m # "end" /\ n # "end"
    <3>1. at(m) # at(n) /\ at(m) \in 1 .. last - 1 /\ at(n) \in 1 .. last - 1
      BY <2>3, <1>4, <1>6
    <3>2. F[m].off + F[m].size <= F[n].off \/ F[n].off + F[n].size <= F[m].off
      <4>1. CASE at(m) < at(n)
        BY <4>1, <3>1, <2>3, <1>4, <1>1
      <4>2. CASE at(n) < at(m)
        BY <4>2, <3>1, <2>3, <1>4, <1>1
      <4> QED BY <4>1, <4>2, <3>1, <1>1
    <3> QED BY <3>2, <1>5 DEF Span
  <2> QED BY <2>1, <2>2, <2>3
<1>7. Size(F) = off[last] /\ off[last] \in Nat
  BY <1>1, <1>3 DEF Size, last
<1>8. "end" \in DOMAIN F
  BY <1>2
<1>9. WellLaid(F)
  BY <1>5, <1>6, <1>7, <1>8 DEF WellLaid
<1> QED BY <1>9 DEF F

------------------------------------------------------------------------------
(***************************************************************************)
(* The digits of a number.                                                 *)
(***************************************************************************)

\* The weights of the digits double from one to the next.
LEMMA WeightDef ==
    /\ Weight[0] = 1
    /\ \A i \in Nat : Weight[i + 1] = 2 * Weight[i]
<1>1. Weight = CHOOSE f : Doubling(f)
  BY DEF Weight, Doubling
<1> QED BY <1>1, DoublingChosen

\* They are numbers, and none is zero.
LEMMA WeightType == \A i \in Nat : Weight[i] \in Nat \ {0}
BY WeightDef, DoublingType

\* One digit more of a number.
LEMMA DigitStep ==
    ASSUME NEW w \in Nat \ {0}, NEW v \in Nat
    PROVE  v % (2 * w) = (v % w) + ((v \div w) % 2) * w
<1> DEFINE q == v \div w
           r == v % w
<1>1. q \in Nat /\ r \in 0 .. w - 1 /\ v = w * q + r
  BY DivMod
<1> DEFINE d == q % 2
           h == q \div 2
<1>2. d \in 0 .. 1 /\ h \in Nat /\ q = 2 * h + d
  BY <1>1, DivMod
<1> HIDE DEF q, r, d, h
<1>3. v = (2 * w) * h + (r + d * w)
  <2>1. w * q = w * (2 * h) + w * d
    BY <1>1, <1>2
  <2>2. w * (2 * h) = (2 * w) * h
    BY <1>2
  <2>3. w * d = d * w
    BY <1>2
  <2> QED BY <1>1, <2>1, <2>2, <2>3, <1>2
<1>4. r + d * w \in 0 .. 2 * w - 1
  <2>1. CASE d = 0
    BY <2>1, <1>1
  <2>2. CASE d = 1
    BY <2>2, <1>1
  <2> QED BY <2>1, <2>2, <1>2
<1>5. v % (2 * w) = r + d * w
  <2> DEFINE u == 2 * w
             s == r + d * w
  <2>1. u \in Nat \ {0} /\ s \in 0 .. u - 1 /\ v = u * h + s
    BY <1>3, <1>4
  <2> HIDE DEF u, s
  <2>2. (u * h + s) % u = s
    BY <2>1, <1>2, ModOfMultiplePlus
  <2> QED BY <2>1, <2>2 DEF u, s
<1> QED BY <1>5 DEF r, d, q

\* The more digits, the larger the numbers.
LEMMA WeightGrows ==
    ASSUME NEW i \in Nat, NEW j \in Nat, i <= j
    PROVE  Weight[i] <= Weight[j]
<1>1. i < j => Weight[i] < Weight[j]
  BY WeightDef, DoublingGrows
<1>2. i < j \/ i = j
  OBVIOUS
<1> QED BY <1>1, <1>2, WeightType

\* A field takes no more digits than it has.
LEMMA WidthIs ==
    ASSUME NEW f, f.size \in Nat
    PROVE  /\ Width(f) \in Nat
           /\ Width(f) <= f.size
           /\ Width(f) <= NumberBits
           /\ \A k \in Nat : k <= f.size /\ k <= NumberBits => k <= Width(f)
<1>1. \E x \in {f.size, NumberBits} : \A y \in {f.size, NumberBits} : x <= y
  BY NumberAssumption
<1>2. /\ Width(f) \in {f.size, NumberBits}
      /\ \A y \in {f.size, NumberBits} : Width(f) <= y
  BY <1>1 DEF Width, Min
<1> QED BY <1>2, NumberAssumption

\* A number of few digits fits a field that has as many.
LEMMA FitsFew ==
    ASSUME NEW f, f.size \in Nat, NEW k \in Nat, k <= f.size, k <= 16,
           NEW v \in Nat, v < Weight[k]
    PROVE  Fits(f, v)
<1>1. k <= Width(f) /\ Width(f) \in Nat
  BY WidthIs, NumberAssumption
<1>2. Weight[k] <= Weight[Width(f)]
  BY <1>1, WeightGrows
<1> QED BY <1>1, <1>2, WeightType DEF Fits

\* The weights that occur.
LEMMA FirstWeights ==
    /\ Weight[1] = 2 /\ Weight[2] = 4 /\ Weight[4] = 16 /\ Weight[5] = 32
    /\ Weight[8] = 256 /\ Weight[16] = 65536
<1>1. Weight[1] = 2 /\ Weight[2] = 4 /\ Weight[3] = 8 /\ Weight[4] = 16
  BY WeightDef
<1>2. Weight[5] = 32 /\ Weight[6] = 64 /\ Weight[7] = 128 /\ Weight[8] = 256
  BY <1>1, WeightDef
<1>3. Weight[9] = 512 /\ Weight[10] = 1024 /\ Weight[11] = 2048 /\ Weight[12] = 4096
  BY <1>2, WeightDef
<1>4. Weight[13] = 8192 /\ Weight[14] = 16384 /\ Weight[15] = 32768 /\ Weight[16] = 65536
  BY <1>3, WeightDef
<1> QED BY <1>1, <1>2, <1>4

------------------------------------------------------------------------------
(***************************************************************************)
(* DEVX_SET and DEVX_GET.                                                  *)
(***************************************************************************)

\* What DEVX_GET sums up.
Total(f, S) == MapThenSumSet(LAMBDA bit : Weight[f.off + f.size - 1 - bit], S)

\* The library's sum over a set of bits is a sum.
LEMMA GetSums ==
    ASSUME NEW f, NEW S, IsFiniteSet(S)
    PROVE  \E it : /\ Sums(it, [b \in S |-> Weight[f.off + f.size - 1 - b]], S)
                   /\ Total(f, S) = it[S]
<1> DEFINE value(b) == Weight[f.off + f.size - 1 - b]
           w == [b \in S |-> value(b)]
           Iter(it) == it = [s \in SUBSET S |->
                                IF s = {} THEN 0
                                ELSE value(CHOOSE x \in s : TRUE) + it[s \ {CHOOSE x \in s : TRUE}]]
<1>1. Total(f, S) = (CHOOSE it : Iter(it))[S]
  BY DEF Total, MapThenSumSet, MapThenFoldSet
<1>2. ASSUME NEW it
      PROVE  [s \in SUBSET S |-> IF s = {} THEN 0 ELSE w[First(s)] + it[s \ {First(s)}]]
             = [s \in SUBSET S |->
                   IF s = {} THEN 0
                   ELSE value(CHOOSE x \in s : TRUE) + it[s \ {CHOOSE x \in s : TRUE}]]
  <2>1. \A s \in SUBSET S : s # {} => w[First(s)] = value(CHOOSE x \in s : TRUE)
    BY FirstIn DEF First
  <2> HIDE DEF w, value
  <2> QED BY <2>1 DEF First
<1>3. \A it : Sums(it, w, S) <=> Iter(it)
  <2> HIDE DEF w, value
  <2> QED BY <1>2 DEF Sums
<1>4. \E it : Sums(it, w, S)
  BY SumsExist
<1> HIDE DEF Iter, w
<1>5. Iter(CHOOSE it : Iter(it))
  BY <1>3, <1>4
<1>6. \E it : Sums(it, w, S) /\ (CHOOSE jt : Iter(jt))[S] = it[S]
  BY <1>3, <1>5
<1> QED BY <1>1, <1>6 DEF w

\* DEVX_SET writes to its field only.
LEMMA SetInSpan ==
    ASSUME NEW f, f.off \in Nat, f.size \in Nat, NEW v
    PROVE  DevxSet(f, v) \subseteq Span(f)
BY WidthIs DEF DevxSet, Span, Digits, BitOf

\* DEVX_GET reads its field only.
LEMMA GetFrame ==
    ASSUME NEW f, f.off \in Nat, f.size \in Nat,
           NEW B, NEW C, B \cap Span(f) = C \cap Span(f)
    PROVE  DevxGet(f, B) = DevxGet(f, C)
<1> DEFINE bits == {BitOf(f, i) : i \in Digits(f)}
<1>1. bits \subseteq Span(f)
  BY WidthIs DEF Span, Digits, BitOf
<1>2. B \cap bits = C \cap bits
  <2> HIDE DEF bits
  <2> QED BY <1>1
<1> QED BY <1>2 DEF DevxGet

\* What DEVX_SET puts into a field is what DEVX_GET takes out, cut to the width of
\* the field, whatever else the buffer holds.
THEOREM GetOfSet ==
    ASSUME NEW f, f.off \in Nat, f.size \in Nat, NEW v \in Nat,
           NEW B, B \cap Span(f) = DevxSet(f, v)
    PROVE  DevxGet(f, B) = v % Weight[Width(f)]
<1> DEFINE bits == {BitOf(f, i) : i \in Digits(f)}
           S == B \cap bits
           w == [b \in S |-> Weight[f.off + f.size - 1 - b]]
           ones(k) == {i \in 0 .. k - 1 : (v \div Weight[i]) % 2 = 1}
           One(k) == {BitOf(f, i) : i \in ones(k)}
<1>1. /\ Width(f) \in Nat
      /\ Width(f) <= f.size
  BY WidthIs
<1>2. S = One(Width(f))
  <2>1. bits \subseteq Span(f)
    BY <1>1 DEF Span, Digits, BitOf
  <2>2. DevxSet(f, v) = One(Width(f)) /\ One(Width(f)) \subseteq bits
    BY DEF DevxSet, Digits
  <2> HIDE DEF bits, One
  <2> QED BY <2>1, <2>2
<1>3. IsFiniteSet(S)
  <2>1. IsFiniteSet(Span(f))
    <3>1. f.off \in Int /\ f.off + f.size - 1 \in Int
      OBVIOUS
    <3>2. IsFiniteSet(f.off .. f.off + f.size - 1)
      BY ONLY <3>1, FS_Interval
    <3> QED BY <3>2 DEF Span
  <2>2. S \subseteq Span(f)
    BY <1>1 DEF Span, Digits, BitOf
  <2> QED BY <2>1, <2>2, FS_Subset
<1>4. PICK it : /\ Sums(it, w, S)
                /\ DevxGet(f, B) = it[S]
  <2>1. \E it : Sums(it, w, S) /\ Total(f, S) = it[S]
    <3> HIDE DEF S
    <3> QED BY <1>3, GetSums
  <2>2. DevxGet(f, B) = Total(f, S)
    BY DEF DevxGet, Total
  <2> HIDE DEF S, w
  <2> QED BY <2>1, <2>2
<1>5. \A i \in 0 .. Width(f) - 1 : BitOf(f, i) \in S => w[BitOf(f, i)] = Weight[i]
  <2> SUFFICES ASSUME NEW i \in 0 .. Width(f) - 1, BitOf(f, i) \in S
               PROVE  w[BitOf(f, i)] = Weight[i]
    OBVIOUS
  <2>1. f.off + f.size - 1 - BitOf(f, i) = i
    BY <1>1 DEF BitOf
  <2>2. w[BitOf(f, i)] = Weight[f.off + f.size - 1 - BitOf(f, i)]
    OBVIOUS
  <2> QED BY <2>1, <2>2
<1>6. \A b \in S : w[b] \in Nat
  <2> SUFFICES ASSUME NEW b \in S PROVE w[b] \in Nat
    OBVIOUS
  <2>1. PICK i \in 0 .. Width(f) - 1 : b = BitOf(f, i)
    BY DEF Digits
  <2>2. w[b] = Weight[i]
    BY <2>1, <1>5
  <2> QED BY <2>2, WeightType, <1>1
<1> HIDE DEF w
<1> DEFINE Summed == {k \in Nat : k <= Width(f) => it[One(k)] = v % Weight[k]}
<1>7. \A k \in 0 .. Width(f) : One(k) \in SUBSET S
  BY <1>2, <1>1
<1>8. 0 \in Summed
  <2>1. One(0) = {}
    OBVIOUS
  <2>2. it[{}] = 0
    BY <1>4 DEF Sums
  <2>3. v % Weight[0] = 0
    BY WeightDef
  <2> QED BY <2>1, <2>2, <2>3
<1>9. ASSUME NEW k \in Nat, k \in Summed PROVE k + 1 \in Summed
  <2> SUFFICES ASSUME k + 1 <= Width(f) PROVE it[One(k + 1)] = v % Weight[k + 1]
    OBVIOUS
  <2> DEFINE b == BitOf(f, k)
  <2>1. it[One(k)] = v % Weight[k]
    <3>1. k <= Width(f)
      BY <1>1
    <3> HIDE DEF One
    <3> QED BY <3>1, <1>9
  <2>2. v % Weight[k + 1] = (v % Weight[k]) + ((v \div Weight[k]) % 2) * Weight[k]
    <3>1. Weight[k + 1] = 2 * Weight[k] /\ Weight[k] \in Nat \ {0}
      BY WeightDef, WeightType
    <3> QED BY <3>1, DigitStep
  <2>3. (v \div Weight[k]) % 2 \in 0 .. 1 /\ v % Weight[k] \in Nat /\ Weight[k] \in Nat
    <3> DEFINE m == Weight[k]
    <3>1. m \in Nat \ {0}
      BY WeightType
    <3> HIDE DEF m
    <3>2. v \div m \in Nat /\ v % m \in Nat
      BY ONLY v \in Nat, <3>1, DivMod
    <3>3. (v \div m) % 2 \in 0 .. 1
      BY <3>2
    <3> QED BY <3>1, <3>2, <3>3 DEF m
  <2>4. CASE (v \div Weight[k]) % 2 = 0
    <3>1. ones(k + 1) = ones(k)
      BY <2>4
    <3> HIDE DEF ones
    <3>2. One(k + 1) = One(k)
      BY <3>1
    <3> HIDE DEF One
    <3> QED BY <3>2, <2>1, <2>2, <2>3, <2>4
  <2>5. CASE (v \div Weight[k]) % 2 = 1
    <3>1. ones(k + 1) = ones(k) \cup {k} /\ k \notin ones(k)
      BY <2>5
    <3>2. b \in One(k + 1)
      BY <3>1
    <3>3. One(k + 1) \ {b} = One(k)
      BY <3>1, <1>1 DEF BitOf
    <3>4. One(k + 1) \in SUBSET S
      BY <1>7
    <3>5. it[One(k + 1)] = w[b] + it[One(k)]
      <4> HIDE DEF One, S, b
      <4> QED BY <3>2, <3>3, <3>4, <1>3, <1>4, <1>6, SumsSplit
    <3>6. w[b] = Weight[k]
      <4> HIDE DEF S, One
      <4>1. k \in 0 .. Width(f) - 1 /\ b \in S
        BY <1>1, <3>2, <3>4
      <4> QED BY <1>5, <4>1
    <3> QED BY <3>5, <3>6, <2>1, <2>2, <2>3, <2>5
  <2> QED BY <2>3, <2>4, <2>5
<1>10. Width(f) \in Summed
  <2>1. Nat \subseteq Summed
    <3> HIDE DEF Summed
    <3> QED BY <1>8, <1>9, Induction
  <2> QED BY <2>1, <1>1
<1>11. it[One(Width(f))] = v % Weight[Width(f)]
  BY <1>10
<1> HIDE DEF One, S
<1> QED BY <1>2, <1>4, <1>11

\* A value that fits comes out as it went in.
LEMMA GetFitting ==
    ASSUME NEW f, f.off \in Nat, f.size \in Nat, NEW v, Fits(f, v),
           NEW B, B \cap Span(f) = DevxSet(f, v)
    PROVE  DevxGet(f, B) = v
<1> DEFINE m == Weight[Width(f)]
<1>1. m \in Nat \ {0}
  BY WidthIs, WeightType
<1>2. v \in 0 .. m - 1
  BY DEF Fits
<1>3. DevxGet(f, B) = v % m
  BY <1>2, <1>1, GetOfSet
<1> HIDE DEF m
<1> QED BY <1>1, <1>2, <1>3, FirstPass

\* Zero is an empty field.
LEMMA SetZero ==
    ASSUME NEW f, f.size \in Nat
    PROVE  DevxSet(f, 0) = {} /\ Fits(f, 0)
<1>1. Width(f) \in Nat
  BY WidthIs
<1>2. \A i \in Nat : (0 \div Weight[i]) % 2 = 0
  <2> SUFFICES ASSUME NEW i \in Nat PROVE (0 \div Weight[i]) % 2 = 0
    OBVIOUS
  <2>1. Weight[i] \in Nat \ {0}
    BY WeightType
  <2>2. 0 \div Weight[i] = 0
    BY <2>1, FirstPass
  <2> QED BY <2>2
<1>3. DevxSet(f, 0) = {}
  BY <1>1, <1>2 DEF DevxSet, Digits
<1> QED BY <1>1, <1>3, WeightType DEF Fits

\* And reads as zero.
LEMMA GetNothing ==
    ASSUME NEW f, f.off \in Nat, f.size \in Nat, NEW B, B \cap Span(f) = {}
    PROVE  DevxGet(f, B) = 0
BY SetZero, GetFitting

------------------------------------------------------------------------------
(***************************************************************************)
(* Buffers of several fields, and structures within structures.            *)
(***************************************************************************)

\* Of several DEVX_SETs into different fields each finds its own field as it left it.
LEMMA SetAllHolds ==
    ASSUME NEW F, NEW values, NEW n, F[n].off \in Nat, F[n].size \in Nat,
           \A m \in DOMAIN values :
               /\ F[m].off \in Nat
               /\ F[m].size \in Nat
               /\ m # n => Span(F[m]) \cap Span(F[n]) = {}
    PROVE  DevxSetAll(F, values) \cap Span(F[n]) =
               IF n \in DOMAIN values THEN DevxSet(F[n], values[n]) ELSE {}
<1>1. \A m \in DOMAIN values : DevxSet(F[m], values[m]) \subseteq Span(F[m])
  BY SetInSpan
<1>2. n \in DOMAIN values => DevxSet(F[n], values[n]) \subseteq Span(F[n])
  BY SetInSpan
<1> QED BY <1>1, <1>2 DEF DevxSetAll

\* They stay within the structure.
LEMMA SetAllInside ==
    ASSUME NEW F, Size(F) \in Nat, NEW values,
           \A m \in DOMAIN values :
               /\ F[m].off \in Nat
               /\ F[m].size \in Nat
               /\ F[m].off + F[m].size <= Size(F)
    PROVE  DevxSetAll(F, values) \subseteq 0 .. Size(F) - 1
<1>1. ASSUME NEW m \in DOMAIN values
      PROVE  DevxSet(F[m], values[m]) \subseteq 0 .. Size(F) - 1
  <2>1. DevxSet(F[m], values[m]) \subseteq Span(F[m])
    BY SetInSpan
  <2>2. Span(F[m]) \subseteq 0 .. Size(F) - 1
    BY DEF Span
  <2> QED BY <2>1, <2>2
<1> QED BY <1>1 DEF DevxSetAll

\* A structure put into a buffer is found there again, if nothing else is in its place.
LEMMA ExtractEmbedded ==
    ASSUME NEW f, f.off \in Nat, f.size \in Nat, NEW A \in SUBSET Int, A \cap Span(f) = {},
           NEW C, C \subseteq 0 .. f.size - 1
    PROVE  Extract(f, A \cup Embed(f, C)) = C
<1> DEFINE within(B) == {x \in B : f.off <= x /\ x < f.off + f.size}
<1>1. within(A) = {}
  <2> SUFFICES ASSUME NEW x \in A, f.off <= x, x < f.off + f.size PROVE FALSE
    OBVIOUS
  <2>1. x \in Span(f)
    BY DEF Span
  <2> QED BY <2>1
<1>2. within(Embed(f, C)) = Embed(f, C)
  BY DEF Embed
<1>3. within(A \cup Embed(f, C)) = Embed(f, C)
  BY <1>1, <1>2
<1>4. Extract(f, A \cup Embed(f, C)) = {b - f.off : b \in Embed(f, C)}
  BY <1>3 DEF Extract
<1>5. {b - f.off : b \in Embed(f, C)} = C
  <2>1. \A c \in C : (c + f.off) - f.off = c
    OBVIOUS
  <2>2. \A b \in Embed(f, C) : \E c \in C : b = c + f.off
    BY DEF Embed
  <2>3. \A c \in C : c + f.off \in Embed(f, C)
    BY DEF Embed
  <2>4. C \subseteq Int /\ f.off \in Int
    OBVIOUS
  <2>5. \A b \in Embed(f, C) : b - f.off \in C
    BY <2>1, <2>2
  <2>6. \A c \in C : \E b \in Embed(f, C) : c = b - f.off
    BY <2>1, <2>3
  <2> QED BY <2>5, <2>6
<1> QED BY <1>4, <1>5

\* The structures of the interface are as they should be.
LEMMA StructuresLaid ==
    /\ WellLaid(Ads) /\ WellLaid(QpcOwn) /\ WellLaid(Mkc) /\ WellLaid(Cqc) /\ WellLaid(HcaCap)
    /\ WellLaid(CreateCqIn) /\ WellLaid(CreateMkeyIn) /\ WellLaid(CreateMkeyOut)
    /\ WellLaid(CreateQpIn) /\ WellLaid(Rst2InitQpIn) /\ WellLaid(Init2RtrQpIn)
    /\ WellLaid(Rtr2RtsQpIn) /\ WellLaid(QueryQpOut) /\ WellLaid(QueryHcaCapOut)
<1>1. \A layout \in Layouts : WellLaid(Fields(layout))
  BY LayoutAssumption, FieldsApart
<1>2. Layouts = {
    AdsLayout, QpcLayout, MkcLayout, CqcLayout, HcaCapLayout, CreateCqInLayout,
    CreateMkeyInLayout, CreateMkeyOutLayout, CreateQpInLayout, Rst2InitQpInLayout,
    Init2RtrQpInLayout, Rtr2RtsQpInLayout, QueryQpOutLayout, QueryHcaCapOutLayout}
  BY DEF Layouts
<1> QED BY <1>1, <1>2 DEF Ads, QpcOwn, Mkc, Cqc, HcaCap, CreateCqIn, CreateMkeyIn, CreateMkeyOut,
     CreateQpIn, Rst2InitQpIn, Init2RtrQpIn, Rtr2RtsQpIn, QueryQpOut, QueryHcaCapOut

\* The fields of a queue pair context that hold values, and those of them that are
\* fields of its primary path.
Leaves == DOMAIN Qpc \ {"primary_address_path"}
InPath == DOMAIN Ads \ {"end"}

\* In a queue pair context, too, no two of them overlap, nor does the primary path with
\* what is not in it.
LEMMA QpcLaid ==
    /\ Size(Qpc) \in Nat
    /\ \A n \in DOMAIN Qpc :
        /\ Qpc[n].off \in Nat
        /\ Qpc[n].size \in Nat
        /\ Qpc[n].off + Qpc[n].size <= Size(Qpc)
    /\ \A m, n \in Leaves : m # n => Span(Qpc[m]) \cap Span(Qpc[n]) = {}
    /\ \A n \in InPath : Span(Qpc[n]) \subseteq Span(Qpc.primary_address_path)
    /\ \A n \in Leaves \ InPath : Span(Qpc[n]) \cap Span(Qpc.primary_address_path) = {}
    /\ "primary_address_path" \in DOMAIN Qpc
    /\ DOMAIN Qpc = DOMAIN QpcOwn \cup InPath
    /\ \A n \in DOMAIN QpcOwn : Qpc[n] = QpcOwn[n]
    /\ \A n \in InPath :
        /\ Qpc[n].off = Ads[n].off + QpcOwn.primary_address_path.off
        /\ Qpc[n].size = Ads[n].size
<1> DEFINE path == QpcOwn.primary_address_path
<1>1. /\ "end" \in DOMAIN QpcOwn
      /\ Size(QpcOwn) \in Nat
      /\ \A n \in DOMAIN QpcOwn :
          /\ QpcOwn[n].off \in Nat
          /\ QpcOwn[n].size \in Nat
          /\ QpcOwn[n].off + QpcOwn[n].size <= Size(QpcOwn)
      /\ \A m, n \in DOMAIN QpcOwn : m # n => Span(QpcOwn[m]) \cap Span(QpcOwn[n]) = {}
  BY StructuresLaid DEF WellLaid
<1>2. /\ "end" \in DOMAIN Ads
      /\ \A n \in DOMAIN Ads :
          /\ Ads[n].off \in Nat
          /\ Ads[n].size \in Nat
          /\ Ads[n].off + Ads[n].size <= Size(Ads)
      /\ \A m, n \in DOMAIN Ads : m # n => Span(Ads[m]) \cap Span(Ads[n]) = {}
  BY StructuresLaid DEF WellLaid
<1>3. DOMAIN QpcOwn \cap DOMAIN Ads = {"end"} /\ path.size = Size(Ads)
  BY LayoutAssumption
<1>4. "primary_address_path" \in DOMAIN QpcOwn
  BY ContextAssumption DEF Has
<1>5. DOMAIN Qpc = DOMAIN QpcOwn \cup InPath
  BY <1>1 DEF Qpc, Joined, Within, InPath
<1>6. \A n \in DOMAIN QpcOwn : Qpc[n] = QpcOwn[n]
  BY DEF Qpc, Joined
<1>7. ASSUME NEW n \in InPath
      PROVE  Qpc[n].off = Ads[n].off + path.off /\ Qpc[n].size = Ads[n].size
  <2>1. n \notin DOMAIN QpcOwn /\ n \in DOMAIN Ads
    BY <1>3 DEF InPath
  <2>2. Qpc[n] = [Ads[n] EXCEPT !.off = @ + path.off]
    BY <2>1 DEF Qpc, Joined, Within
  <2>3. Ads[n] = [off |-> Ads[n].off, size |-> Ads[n].size]
    BY <2>1 DEF Ads, Fields, InPath
  <2> QED BY <2>2, <2>3
<1>8. Size(Qpc) = Size(QpcOwn)
  BY <1>1, <1>6 DEF Size
<1>9. ASSUME NEW n \in InPath
      PROVE  /\ Qpc[n].off \in Nat
             /\ Qpc[n].size \in Nat
             /\ path.off <= Qpc[n].off
             /\ Qpc[n].off + Qpc[n].size <= path.off + path.size
  <2>1. n \in DOMAIN Ads
    BY DEF InPath
  <2>2. path.off \in Nat
    BY <1>1, <1>4
  <2>3. Ads[n].off \in Nat /\ Ads[n].size \in Nat /\ Ads[n].off + Ads[n].size <= path.size
    BY <2>1, <1>2, <1>3
  <2>4. Qpc[n].off = Ads[n].off + path.off /\ Qpc[n].size = Ads[n].size
    BY <1>7
  <2>5. path.size \in Nat /\ Qpc[n].off >= path.off
    BY <1>1, <1>4, <2>2, <2>3, <2>4
  <2> HIDE DEF path
  <2> QED BY <2>2, <2>3, <2>4, <2>5
<1>10. ASSUME NEW n \in InPath PROVE Span(Qpc[n]) \subseteq Span(path)
  <2>1. path.off \in Nat /\ path.size \in Nat
    BY <1>1, <1>4
  <2> HIDE DEF path
  <2> QED BY <2>1, <1>9 DEF Span
<1>11. \A n \in DOMAIN Qpc :
        /\ Qpc[n].off \in Nat
        /\ Qpc[n].size \in Nat
        /\ Qpc[n].off + Qpc[n].size <= Size(Qpc)
  <2>1. path.off + path.size <= Size(Qpc) /\ path.off \in Nat /\ path.size \in Nat
    BY <1>1, <1>4, <1>8
  <2>2. Size(Qpc) \in Nat
    BY <1>1, <1>8
  <2> HIDE DEF path
  <2> QED BY <2>1, <2>2, <1>1, <1>5, <1>6, <1>8, <1>9
<1>12. \A n \in Leaves \ InPath : n \in DOMAIN QpcOwn /\ n # "primary_address_path"
  BY <1>5 DEF Leaves
<1>13. \A n \in Leaves \ InPath : Span(Qpc[n]) \cap Span(path) = {}
  BY <1>12, <1>1, <1>4, <1>6
<1>14. Qpc.primary_address_path = path
  BY <1>4, <1>6
<1>15. ASSUME NEW m \in Leaves, NEW n \in Leaves, m # n
       PROVE  Span(Qpc[m]) \cap Span(Qpc[n]) = {}
  <2>1. CASE m \in InPath /\ n \in InPath
    <3>1. Span(Ads[m]) \cap Span(Ads[n]) = {}
      BY <2>1, <1>2, <1>15 DEF InPath
    <3>2. /\ Ads[m].off \in Nat /\ Ads[m].size \in Nat
          /\ Ads[n].off \in Nat /\ Ads[n].size \in Nat
          /\ path.off \in Nat
      BY <2>1, <1>2, <1>1, <1>4 DEF InPath
    <3>3. /\ Qpc[m].off = Ads[m].off + path.off /\ Qpc[m].size = Ads[m].size
          /\ Qpc[n].off = Ads[n].off + path.off /\ Qpc[n].size = Ads[n].size
      BY <2>1, <1>7
    <3>4. ASSUME NEW x \in Span(Qpc[m]), x \in Span(Qpc[n]) PROVE FALSE
      <4>1. x - path.off \in Span(Ads[m]) /\ x - path.off \in Span(Ads[n])
        BY <3>2, <3>3, <3>4 DEF Span
      <4> QED BY <4>1, <3>1
    <3> QED BY <3>4
  <2>2. CASE m \in InPath /\ n \notin InPath
    BY <2>2, <1>10, <1>13
  <2>3. CASE m \notin InPath /\ n \in InPath
    BY <2>3, <1>10, <1>13
  <2>4. CASE m \notin InPath /\ n \notin InPath
    BY <2>4, <1>12, <1>1, <1>6, <1>15
  <2> QED BY <2>1, <2>2, <2>3, <2>4
<1>16. Size(Qpc) \in Nat /\ "primary_address_path" \in DOMAIN Qpc
  BY <1>1, <1>4, <1>5, <1>8
<1> HIDE DEF path
<1> QED BY <1>5, <1>6, <1>7, <1>10, <1>11, <1>13, <1>14, <1>15, <1>16 DEF path

\* The fields the commands fill are such.
OwnNames == {
    "state", "st", "pm_state", "pd", "cqn_snd", "cqn_rcv", "log_sq_size", "log_rq_size",
    "log_rq_stride", "no_sq", "wq_signature", "uar_page", "dbr_umem_id", "dbr_umem_valid",
    "dbr_addr", "log_page_size", "page_offset", "log_rra_max", "ts_format", "rae", "rwe",
    "rre", "atomic_mode", "mtu", "remote_qpn", "log_ack_req_freq", "retry_count",
    "rnr_retry", "next_send_psn", "hw_sq_wqebb_counter", "sw_sq_wqebb_counter",
    "log_msg_max"}

PathNames == {
    "pkey_index", "vhca_port_num", "hop_limit", "src_addr_index", "eth_prio", "dscp",
    "udp_sport", "grh", "rlid", "mlid", "sl", "tclass", "rgid_rip", "rmac_47_32",
    "rmac_31_0"}

\* What connect_qp names of a context is a field of it, inside the path or outside it.
LEMMA LeafNames ==
    /\ OwnNames \subseteq Leaves \ InPath
    /\ PathNames \subseteq Leaves \cap InPath
    /\ InPath \subseteq Leaves
<1>1. OwnNames \cup {"primary_address_path"} \subseteq DOMAIN QpcOwn
  BY ContextAssumption DEF Has, OwnNames
<1>2. PathNames \subseteq DOMAIN Ads
  BY ContextAssumption DEF Has, PathNames
<1>3. DOMAIN QpcOwn \cap DOMAIN Ads = {"end"}
  BY LayoutAssumption
<1>4. \A n \in OwnNames : n # "end" /\ n # "primary_address_path"
  BY DEF OwnNames
<1>5. \A n \in PathNames : n # "end" /\ n # "primary_address_path"
  BY DEF PathNames
<1>6. DOMAIN Qpc = DOMAIN QpcOwn \cup InPath
  BY QpcLaid
<1>7. InPath \subseteq Leaves
  BY <1>1, <1>3, <1>6 DEF InPath, Leaves
<1>8. OwnNames \subseteq Leaves \ InPath
  BY <1>1, <1>3, <1>4, <1>6 DEF InPath, Leaves
<1>9. PathNames \subseteq InPath
  BY <1>2, <1>5 DEF InPath
<1> QED BY <1>7, <1>8, <1>9

\* Each of them is found as it was set.
LEMMA ContextHolds ==
    ASSUME NEW values, DOMAIN values \subseteq Leaves
    PROVE  /\ DevxSetAll(Qpc, values) \subseteq 0 .. Size(Qpc) - 1
           /\ \A n \in Leaves : DevxSetAll(Qpc, values) \cap Span(Qpc[n]) =
                  IF n \in DOMAIN values THEN DevxSet(Qpc[n], values[n]) ELSE {}
<1>1. Leaves \subseteq DOMAIN Qpc
  BY DEF Leaves
<1>2. \A m \in DOMAIN values : /\ Qpc[m].off \in Nat
                               /\ Qpc[m].size \in Nat
                               /\ Qpc[m].off + Qpc[m].size <= Size(Qpc)
  BY <1>1, QpcLaid
<1>3. DevxSetAll(Qpc, values) \subseteq 0 .. Size(Qpc) - 1
  BY <1>2, QpcLaid, SetAllInside
<1>4. ASSUME NEW n \in Leaves
      PROVE  DevxSetAll(Qpc, values) \cap Span(Qpc[n]) =
                 IF n \in DOMAIN values THEN DevxSet(Qpc[n], values[n]) ELSE {}
  <2>1. Qpc[n].off \in Nat /\ Qpc[n].size \in Nat
    BY <1>1, QpcLaid
  <2>2. \A m \in DOMAIN values : m # n => Span(Qpc[m]) \cap Span(Qpc[n]) = {}
    BY QpcLaid
  <2> QED BY <1>2, <2>1, <2>2, SetAllHolds
<1> QED BY <1>3, <1>4

\* The same of the values DEVX_GET reads: what was set if it fits, otherwise zero.
LEMMA ContextReads ==
    ASSUME NEW values, DOMAIN values \subseteq Leaves,
           NEW n \in Leaves,
           NEW B, B \cap Span(Qpc[n]) = DevxSetAll(Qpc, values) \cap Span(Qpc[n])
    PROVE  /\ n \in DOMAIN values /\ Fits(Qpc[n], values[n]) => DevxGet(Qpc[n], B) = values[n]
           /\ n \notin DOMAIN values => B \cap Span(Qpc[n]) = {} /\ DevxGet(Qpc[n], B) = 0
<1>1. Qpc[n].off \in Nat /\ Qpc[n].size \in Nat
  BY QpcLaid DEF Leaves
<1> QED BY <1>1, ContextHolds, GetFitting, GetNothing

------------------------------------------------------------------------------
(***************************************************************************)
(* Commands.                                                               *)
(***************************************************************************)

\* Contents put at one place of a buffer are within that place.
LEMMA EmbedInSpan ==
    ASSUME NEW f, f.off \in Nat, f.size \in Nat, NEW C, C \subseteq 0 .. f.size - 1
    PROVE  Embed(f, C) \subseteq Span(f)
<1>1. \A c \in C : c + f.off \in Span(f)
  BY DEF Span
<1> QED BY <1>1 DEF Embed

\* Embedding a context into a command is done bit by bit.
LEMMA EmbedUnion ==
    ASSUME NEW f, NEW C, NEW D
    PROVE  Embed(f, C) \cup Embed(f, D) = Embed(f, C \cup D)
BY DEF Embed

\* The fields before a structure leave its place alone.
LEMMA HeadApart ==
    ASSUME NEW F, WellLaid(F), NEW n \in DOMAIN F,
           NEW values, DOMAIN values \subseteq DOMAIN F \ {n}
    PROVE  /\ F[n].off \in Nat
           /\ F[n].size \in Nat
           /\ DevxSetAll(F, values) \in SUBSET Int
           /\ DevxSetAll(F, values) \cap Span(F[n]) = {}
<1>1. /\ Size(F) \in Nat
      /\ \A m \in DOMAIN F : /\ F[m].off \in Nat
                             /\ F[m].size \in Nat
                             /\ F[m].off + F[m].size <= Size(F)
      /\ \A m \in DOMAIN F : m # n => Span(F[m]) \cap Span(F[n]) = {}
  BY DEF WellLaid
<1>2. DevxSetAll(F, values) \subseteq 0 .. Size(F) - 1
  BY <1>1, SetAllInside
<1>3. DevxSetAll(F, values) \cap Span(F[n]) = {}
  BY <1>1, SetAllHolds
<1> QED BY <1>1, <1>2, <1>3

\* What a command says behind its head reaches the device.
LEMMA ContentsArrive ==
    ASSUME NEW F, WellLaid(F), NEW n \in DOMAIN F, NEW C, NEW size \in Nat,
           C \subseteq 0 .. size - 1, F[n].size >= size,
           NEW values, DOMAIN values \subseteq DOMAIN F \ {n}
    PROVE  Extract(F[n], DevxSetAll(F, values) \cup Embed(F[n], C)) = C
<1>1. F[n].off \in Nat /\ F[n].size \in Nat
  BY HeadApart
<1>2. C \subseteq 0 .. F[n].size - 1
  BY <1>1
<1> QED BY <1>1, <1>2, HeadApart, ExtractEmbedded

\* Two sets of fields are set as one.
LEMMA SetTogether ==
    ASSUME NEW F, NEW u, NEW v, DOMAIN u \cap DOMAIN v = {}
    PROVE  DevxSetAll(F, u) \cup DevxSetAll(F, v) = DevxSetAll(F, Joined(u, v))
<1> DEFINE j == Joined(u, v)
<1>1. /\ DOMAIN j = DOMAIN u \cup DOMAIN v
      /\ \A n \in DOMAIN u : j[n] = u[n]
      /\ \A n \in DOMAIN v : j[n] = v[n]
  BY DEF Joined
<1> HIDE DEF j
<1>2. DevxSetAll(F, u) \cup DevxSetAll(F, v) = DevxSetAll(F, j)
  BY <1>1 DEF DevxSetAll
<1> QED BY <1>2 DEF j

\* A command with a queue pair context in it: the layout, its head, and all of it.
CommandLaid(F) ==
    /\ WellLaid(F)
    /\ {"opcode", "qpn", "qpc"} \subseteq DOMAIN F
    /\ F["opcode"] = CreateQpIn.opcode
    /\ F["opcode"].size >= 16
    /\ F["qpc"].size >= Size(Qpc)

HeadOf(F, values) ==
    /\ DOMAIN values \subseteq DOMAIN F \ {"qpc"}
    /\ "opcode" \in DOMAIN values
    /\ values["opcode"] \in Nat
    /\ values["opcode"] < 65536

CommandOf(F, values, C) == DevxSetAll(F, values) \cup Embed(F.qpc, C)

ContextBits == 0 .. Size(Qpc) - 1

\* The device knows a command by its opcode, and reads the context in it.
LEMMA CommandRead ==
    ASSUME NEW F, CommandLaid(F), NEW values, HeadOf(F, values), NEW C \in SUBSET ContextBits
    PROVE  /\ DevxGet(CreateQpIn.opcode, CommandOf(F, values, C)) = values["opcode"]
           /\ Extract(F.qpc, CommandOf(F, values, C)) = C
<1> DEFINE head == DevxSetAll(F, values)
           op == values["opcode"]
           o == F["opcode"]
           x == F["qpc"]
<1>1. /\ x.off \in Nat
      /\ x.size \in Nat
      /\ head \in SUBSET Int
      /\ head \cap Span(x) = {}
  BY HeadApart DEF CommandLaid, HeadOf
<1>2. C \subseteq 0 .. x.size - 1
  BY <1>1, QpcLaid DEF CommandLaid, ContextBits
<1>3. Extract(x, head \cup Embed(x, C)) = C
  <2> HIDE DEF head, x
  <2> QED BY ONLY <1>1, <1>2, ExtractEmbedded
<1>4. /\ \A m \in DOMAIN values : /\ F[m].off \in Nat
                                  /\ F[m].size \in Nat
                                  /\ m # "opcode" => Span(F[m]) \cap Span(o) = {}
      /\ o.off \in Nat
      /\ o.size \in Nat
      /\ Span(o) \cap Span(x) = {}
  BY DEF WellLaid, CommandLaid, HeadOf
<1>5. head \cap Span(o) = DevxSet(o, op)
  BY <1>4, SetAllHolds DEF HeadOf
<1>6. Embed(x, C) \subseteq Span(x)
  <2> HIDE DEF x
  <2> QED BY ONLY <1>1, <1>2, EmbedInSpan
<1>7. (head \cup Embed(x, C)) \cap Span(o) = DevxSet(o, op)
  <2> HIDE DEF head, x, o, op
  <2> QED BY <1>4, <1>5, <1>6
<1>8. op \in Nat /\ op < Weight[16] /\ o.size >= 16
  BY FirstWeights DEF CommandLaid, HeadOf
<1>9. Fits(o, op)
  <2> HIDE DEF o, op
  <2> QED BY <1>4, <1>8, FitsFew
<1>10. DevxGet(o, head \cup Embed(x, C)) = op
  <2> HIDE DEF head, x, o, op
  <2> QED BY <1>4, <1>7, <1>9, GetFitting
<1> QED BY <1>3, <1>10 DEF CommandOf, CommandLaid

\* Whether a step of a connection takes a field from the context in the command.
Taken(op, n) ==
    \/ n \in TakenBy(op)
    \/ n \in InPath /\ "primary_address_path" \in TakenBy(op)

StepOps == {Rst2InitQpOp, Init2RtrQpOp, Rtr2RtsQpOp}

\* The fields each modify command brings over, and where its context lies.
LEMMA TakenNames ==
    /\ TakenBy(Rst2InitQpOp) = {"pm_state", "rre", "rwe", "rae", "atomic_mode", "pkey_index",
                                "vhca_port_num"}
    /\ TakenBy(Init2RtrQpOp) = {"mtu", "log_msg_max", "remote_qpn", "primary_address_path"}
    /\ TakenBy(Rtr2RtsQpOp) = {"log_ack_req_freq", "retry_count", "rnr_retry", "next_send_psn"}
    /\ \A op \in StepOps : TakenBy(op) \subseteq (Leaves \ {"state"}) \cup {"primary_address_path"}
    /\ CommandLayout(Rst2InitQpOp) = Rst2InitQpIn
    /\ CommandLayout(Init2RtrQpOp) = Init2RtrQpIn
    /\ CommandLayout(Rtr2RtsQpOp) = Rtr2RtsQpIn
<1>1. TakenBy(Rst2InitQpOp) = {"pm_state", "rre", "rwe", "rae", "atomic_mode", "pkey_index",
                               "vhca_port_num"}
  BY DEF TakenBy, Rst2InitQpOp, Init2RtrQpOp, Rtr2RtsQpOp
<1>2. TakenBy(Init2RtrQpOp) = {"mtu", "log_msg_max", "remote_qpn", "primary_address_path"}
  BY DEF TakenBy, Rst2InitQpOp, Init2RtrQpOp, Rtr2RtsQpOp
<1>3. TakenBy(Rtr2RtsQpOp) = {"log_ack_req_freq", "retry_count", "rnr_retry", "next_send_psn"}
  BY DEF TakenBy, Rst2InitQpOp, Init2RtrQpOp, Rtr2RtsQpOp
<1>4. TakenBy(Rst2InitQpOp) \subseteq Leaves \ {"state"}
  BY <1>1, LeafNames DEF OwnNames, PathNames
<1>5. TakenBy(Init2RtrQpOp) \subseteq (Leaves \ {"state"}) \cup {"primary_address_path"}
  BY <1>2, LeafNames DEF OwnNames
<1>6. TakenBy(Rtr2RtsQpOp) \subseteq Leaves \ {"state"}
  BY <1>3, LeafNames DEF OwnNames
<1>7. /\ CommandLayout(Rst2InitQpOp) = Rst2InitQpIn
      /\ CommandLayout(Init2RtrQpOp) = Init2RtrQpIn
      /\ CommandLayout(Rtr2RtsQpOp) = Rtr2RtsQpIn
  BY DEF CommandLayout, CreateQpOp, Rst2InitQpOp, Init2RtrQpOp, Rtr2RtsQpOp
<1> QED BY <1>1, <1>2, <1>3, <1>4, <1>5, <1>6, <1>7 DEF StepOps

\* A step of a connection, field by field: the state is the new one, what the step takes
\* is from the command, and the rest stays.
LEMMA ModifiedHolds ==
    ASSUME NEW q, NEW to, NEW op \in StepOps, NEW cmd, NEW ctx,
           DevxGet(CreateQpIn.opcode, cmd) = op,
           Extract(CommandLayout(op).qpc, cmd) = ctx
    PROVE  /\ \A n \in Leaves :
               Modified(q, cmd, to) \cap Span(Qpc[n]) =
                   IF n = "state" THEN DevxSet(Qpc["state"], to)
                   ELSE IF Taken(op, n) THEN ctx \cap Span(Qpc[n])
                   ELSE qpctx[q] \cap Span(Qpc[n])
           /\ Modified(q, cmd, to) \subseteq qpctx[q] \cup ctx \cup Span(Qpc["state"])
<1> DEFINE taken == UNION {Span(Qpc[n]) : n \in TakenBy(op)}
           state == Span(Qpc["state"])
           new == DevxSet(Qpc["state"], to)
           M == ((qpctx[q] \ taken) \ state) \cup (ctx \cap taken) \cup new
<1>1. Modified(q, cmd, to) = M
  BY DEF Modified
<1>2. new \subseteq state
  <2>1. "state" \in Leaves
    BY LeafNames DEF OwnNames
  <2> QED BY <2>1, QpcLaid, SetInSpan DEF Leaves
<1>3. "state" \in Leaves /\ "state" \notin InPath
  BY LeafNames DEF OwnNames
<1>4. /\ \A m, n \in Leaves : m # n => Span(Qpc[m]) \cap Span(Qpc[n]) = {}
      /\ \A n \in InPath : Span(Qpc[n]) \subseteq Span(Qpc["primary_address_path"])
      /\ \A n \in Leaves \ InPath : Span(Qpc[n]) \cap Span(Qpc["primary_address_path"]) = {}
  BY QpcLaid
<1>5. TakenBy(op) \subseteq (Leaves \ {"state"}) \cup {"primary_address_path"}
  BY TakenNames
<1>6. ASSUME NEW n \in Leaves, Taken(op, n) PROVE Span(Qpc[n]) \subseteq taken
  <2>1. CASE n \in TakenBy(op)
    BY <2>1
  <2>2. CASE n \in InPath /\ "primary_address_path" \in TakenBy(op)
    BY <2>2, <1>4
  <2> QED BY <1>6, <2>1, <2>2 DEF Taken
<1>7. ASSUME NEW n \in Leaves, ~Taken(op, n) PROVE Span(Qpc[n]) \cap taken = {}
  <2> SUFFICES ASSUME NEW m \in TakenBy(op) PROVE Span(Qpc[n]) \cap Span(Qpc[m]) = {}
    OBVIOUS
  <2>1. CASE m = "primary_address_path"
    BY <2>1, <1>4, <1>7 DEF Taken
  <2>2. CASE m # "primary_address_path"
    BY <2>2, <1>4, <1>5, <1>7 DEF Taken
  <2> QED BY <2>1, <2>2
<1>8. ~Taken(op, "state")
  <2>1. "state" \notin TakenBy(op)
    <3>1. "state" # "primary_address_path"
      OBVIOUS
    <3> QED BY <3>1, <1>5
  <2> QED BY <2>1, <1>3 DEF Taken
<1>9. state \cap taken = {}
  BY <1>3, <1>7, <1>8
<1>10. ASSUME NEW n \in Leaves
       PROVE  M \cap Span(Qpc[n]) =
                  IF n = "state" THEN new
                  ELSE IF Taken(op, n) THEN ctx \cap Span(Qpc[n])
                  ELSE qpctx[q] \cap Span(Qpc[n])
  <2>1. CASE n = "state"
    <3> HIDE DEF taken, new
    <3> QED BY <2>1, <1>2, <1>9
  <2>2. CASE n # "state"
    <3>1. Span(Qpc[n]) \cap state = {}
      BY <2>2, <1>3, <1>4
    <3>2. CASE Taken(op, n)
      <4>1. Span(Qpc[n]) \subseteq taken
        BY <3>2, <1>6
      <4> HIDE DEF taken, new, state
      <4> QED BY <2>2, <3>1, <3>2, <4>1, <1>2
    <3>3. CASE ~Taken(op, n)
      <4>1. Span(Qpc[n]) \cap taken = {}
        BY <3>3, <1>7
      <4> HIDE DEF taken, new, state
      <4> QED BY <2>2, <3>1, <3>3, <4>1, <1>2
    <3> QED BY <3>2, <3>3
  <2> QED BY <2>1, <2>2
<1> HIDE DEF taken, new, state
<1>11. M \subseteq qpctx[q] \cup ctx \cup state
  BY <1>2
<1> QED BY <1>1, <1>10, <1>11 DEF new, state

\* What the three commands say.
InitValues(p) ==
    [rae |-> 1, rwe |-> 1, rre |-> 1, atomic_mode |-> 1, pkey_index |-> 0,
     vhca_port_num |-> p.port_num, pm_state |-> PmStateMigrated]

RtsValues(p) ==
    [log_ack_req_freq |-> 0, retry_count |-> p.retry_count,
     rnr_retry |-> p.rnr_retry, next_send_psn |-> 0]

\* Each modify command has room for the opcode, the number and the context.
LEMMA StepLayouts ==
    CommandLaid(Rst2InitQpIn) /\ CommandLaid(Init2RtrQpIn) /\ CommandLaid(Rtr2RtsQpIn)
<1>1. ASSUME NEW F, WellLaid(F), Has(F, [opcode |-> 16, qpn |-> 24, qpc |-> Size(Qpc)]),
             F.opcode = CreateQpIn.opcode
      PROVE  CommandLaid(F)
  BY <1>1 DEF Has, CommandLaid
<1>2. \A F \in {Rst2InitQpIn, Init2RtrQpIn, Rtr2RtsQpIn} :
        /\ Has(F, [opcode |-> 16, qpn |-> 24, qpc |-> Size(Qpc)])
        /\ F.opcode = CreateQpIn.opcode
  BY CommandLayoutAssumption
<1>3. WellLaid(Rst2InitQpIn) /\ WellLaid(Init2RtrQpIn) /\ WellLaid(Rtr2RtsQpIn)
  BY StructuresLaid
<1> QED BY <1>1, <1>2, <1>3

\* The device reads from a modify command the opcode and the context that were put in.
LEMMA ModifyRead ==
    ASSUME NEW F, CommandLaid(F), NEW op \in Nat, op < 65536,
           NEW q, NEW values, DOMAIN values \subseteq Leaves
    PROVE  /\ DevxGet(CreateQpIn.opcode, ModifyCommand(op, F, q, values)) = op
           /\ Extract(F.qpc, ModifyCommand(op, F, q, values)) = DevxSetAll(Qpc, values)
<1> DEFINE head == [opcode |-> op, qpn |-> q]
           C == DevxSetAll(Qpc, values)
<1>1. HeadOf(F, head) /\ head["opcode"] = op
  BY DEF HeadOf, CommandLaid
<1>2. C \in SUBSET ContextBits
  BY ContextHolds DEF ContextBits
<1>3. ModifyCommand(op, F, q, values) = CommandOf(F, head, C)
  BY DEF ModifyCommand, CommandOf
<1> HIDE DEF head, C
<1>4. /\ DevxGet(CreateQpIn.opcode, CommandOf(F, head, C)) = head["opcode"]
      /\ Extract(F.qpc, CommandOf(F, head, C)) = C
  BY <1>1, <1>2, CommandRead
<1> QED BY <1>1, <1>3, <1>4 DEF C

\* What RST2INIT_QP says, once the device has read it.
LEMMA InitRead ==
    ASSUME NEW q, NEW p
    PROVE  /\ DevxGet(CreateQpIn.opcode, Rst2InitCommand(q, p)) = Rst2InitQpOp
           /\ Extract(CommandLayout(Rst2InitQpOp).qpc, Rst2InitCommand(q, p)) =
                  DevxSetAll(Qpc, InitValues(p))
           /\ DOMAIN InitValues(p) = {"rae", "rwe", "rre", "atomic_mode", "pkey_index",
                                      "vhca_port_num", "pm_state"}
           /\ DOMAIN InitValues(p) \subseteq Leaves
<1>1. DOMAIN InitValues(p) = {"rae", "rwe", "rre", "atomic_mode", "pkey_index",
                              "vhca_port_num", "pm_state"}
  BY DEF InitValues
<1>2. DOMAIN InitValues(p) \subseteq Leaves
  BY <1>1, LeafNames DEF OwnNames, PathNames
<1>3. Rst2InitCommand(q, p) = ModifyCommand(Rst2InitQpOp, Rst2InitQpIn, q, InitValues(p))
  BY DEF Rst2InitCommand, InitValues
<1>4. Rst2InitQpOp \in Nat /\ Rst2InitQpOp < 65536
  BY DEF Rst2InitQpOp
<1> QED BY <1>1, <1>2, <1>3, <1>4, ModifyRead, StepLayouts, TakenNames

\* What RTR2RTS_QP says, once the device has read it.
LEMMA RtsRead ==
    ASSUME NEW q, NEW p
    PROVE  /\ DevxGet(CreateQpIn.opcode, Rtr2RtsCommand(q, p)) = Rtr2RtsQpOp
           /\ Extract(CommandLayout(Rtr2RtsQpOp).qpc, Rtr2RtsCommand(q, p)) =
                  DevxSetAll(Qpc, RtsValues(p))
           /\ DOMAIN RtsValues(p) = {"log_ack_req_freq", "retry_count", "rnr_retry",
                                     "next_send_psn"}
           /\ DOMAIN RtsValues(p) \subseteq Leaves
<1>1. DOMAIN RtsValues(p) = {"log_ack_req_freq", "retry_count", "rnr_retry", "next_send_psn"}
  BY DEF RtsValues
<1>2. DOMAIN RtsValues(p) \subseteq Leaves
  BY <1>1, LeafNames DEF OwnNames
<1>3. Rtr2RtsCommand(q, p) = ModifyCommand(Rtr2RtsQpOp, Rtr2RtsQpIn, q, RtsValues(p))
  BY DEF Rtr2RtsCommand, RtsValues
<1>4. Rtr2RtsQpOp \in Nat /\ Rtr2RtsQpOp < 65536
  BY DEF Rtr2RtsQpOp
<1> QED BY <1>1, <1>2, <1>3, <1>4, ModifyRead, StepLayouts, TakenNames

------------------------------------------------------------------------------
(***************************************************************************)
(* Parts of a number: a field within another one, and the words and bytes  *)
(* read of it.                                                             *)
(***************************************************************************)

\* The weight of a sum is the product of the weights.
LEMMA WeightSum == \A i, j \in Nat : Weight[i + j] = Weight[i] * Weight[j]
<1> SUFFICES ASSUME NEW i \in Nat
             PROVE  \A j \in Nat : Weight[i + j] = Weight[i] * Weight[j]
  OBVIOUS
<1> DEFINE Holds == {j \in Nat : Weight[i + j] = Weight[i] * Weight[j]}
<1>1. 0 \in Holds
  BY WeightDef, WeightType
<1>2. ASSUME NEW j \in Nat, j \in Holds PROVE j + 1 \in Holds
  <2>1. Weight[i + (j + 1)] = 2 * Weight[i + j]
    <3>1. i + (j + 1) = (i + j) + 1 /\ i + j \in Nat
      OBVIOUS
    <3> QED BY <3>1, WeightDef
  <2>2. Weight[j + 1] = 2 * Weight[j]
    BY WeightDef
  <2>3. Weight[i + j] = Weight[i] * Weight[j]
    BY <1>2
  <2>4. Weight[i] \in Nat /\ Weight[j] \in Nat
    BY WeightType
  <2>5. 2 * (Weight[i] * Weight[j]) = Weight[i] * (2 * Weight[j])
    BY <2>4
  <2>6. Weight[i + (j + 1)] = Weight[i] * Weight[j + 1]
    BY <2>1, <2>2, <2>3, <2>5
  <2> QED BY <2>6
<1>3. Nat \subseteq Holds
  <2> HIDE DEF Holds
  <2> QED BY <1>1, <1>2, Induction
<1> QED BY <1>3

\* A field g that lies within a field f, above its k lowest bits, holds that part of
\* what is written into f.
LEMMA SubField ==
    ASSUME NEW f, f.off \in Nat, f.size \in Nat, NEW g, g.off \in Nat, g.size \in Nat,
           NEW k \in Nat, f.off <= g.off, g.off + g.size + k = f.off + f.size,
           NEW v, Fits(f, v)
    PROVE  DevxSet(f, v) \cap Span(g) = DevxSet(g, v \div Weight[k])
<1> DEFINE w == v \div Weight[k]
<1>1. /\ v \in Nat
      /\ v < Weight[Width(f)]
  <2>1. Weight[Width(f)] \in Nat
    BY WidthIs, WeightType
  <2> QED BY <2>1 DEF Fits
<1>2. \A j \in Nat : w \div Weight[j] = v \div Weight[j + k]
  <2> SUFFICES ASSUME NEW j \in Nat PROVE w \div Weight[j] = v \div Weight[j + k]
    OBVIOUS
  <2>1. Weight[k] \in Nat \ {0} /\ Weight[j] \in Nat \ {0}
    BY WeightType
  <2>2. Weight[k + j] = Weight[k] * Weight[j]
    BY WeightSum
  <2>3. k + j = j + k
    OBVIOUS
  <2> QED BY <1>1, <2>1, <2>2, <2>3, DivDiv
<1>3. \A i \in Nat : i >= Width(f) => v \div Weight[i] = 0
  <2> SUFFICES ASSUME NEW i \in Nat, i >= Width(f) PROVE v \div Weight[i] = 0
    OBVIOUS
  <2>1. Weight[Width(f)] <= Weight[i] /\ Weight[i] \in Nat \ {0} /\ Weight[Width(f)] \in Nat
    BY WidthIs, WeightGrows, WeightType
  <2>2. v \in 0 .. Weight[i] - 1
    BY <1>1, <2>1
  <2> QED BY <2>1, <2>2, FirstPass
<1> HIDE DEF w
<1>4. ASSUME NEW b \in DevxSet(f, v), b \in Span(g) PROVE b \in DevxSet(g, w)
  <2>1. PICK i \in Digits(f) : b = BitOf(f, i) /\ (v \div Weight[i]) % 2 = 1
    BY DEF DevxSet
  <2>2. i \in Nat /\ i < Width(f) /\ b = f.off + f.size - 1 - i
    BY <2>1, WidthIs DEF Digits, BitOf
  <2>3. g.off <= b /\ b <= g.off + g.size - 1
    BY <1>4, <2>2 DEF Span
  <2>4. i - k \in Nat /\ i - k < g.size /\ b = BitOf(g, i - k)
    BY <2>2, <2>3 DEF BitOf
  <2>5. i - k < Width(g)
    <3>1. Width(f) \in Nat /\ Width(f) <= NumberBits
      BY WidthIs
    <3>2. (i - k) + 1 <= g.size /\ (i - k) + 1 <= NumberBits /\ (i - k) + 1 \in Nat
      BY <2>2, <2>4, <3>1, NumberAssumption
    <3>3. (i - k) + 1 <= Width(g) /\ Width(g) \in Nat
      BY <3>2, WidthIs
    <3> QED BY <2>4, <3>3
  <2>6. i - k \in Digits(g)
    BY <2>4, <2>5, WidthIs DEF Digits
  <2>7. (w \div Weight[i - k]) % 2 = 1
    <3>1. (i - k) + k = i
      BY <2>2
    <3> QED BY <2>1, <2>4, <3>1, <1>2
  <2> QED BY <2>4, <2>6, <2>7 DEF DevxSet
<1>5. ASSUME NEW b \in DevxSet(g, w) PROVE b \in DevxSet(f, v) /\ b \in Span(g)
  <2>1. PICK j \in Digits(g) : b = BitOf(g, j) /\ (w \div Weight[j]) % 2 = 1
    BY DEF DevxSet
  <2>2. j \in Nat /\ j < Width(g) /\ b = g.off + g.size - 1 - j
    BY <2>1, WidthIs DEF Digits, BitOf
  <2>3. b = BitOf(f, j + k) /\ j + k \in Nat
    BY <2>2 DEF BitOf
  <2>4. (v \div Weight[j + k]) % 2 = 1
    BY <2>1, <2>2, <1>2
  <2>5. j + k < Width(f)
    <3>1. Width(f) \in Nat
      BY WidthIs
    <3>2. ~(j + k >= Width(f))
      BY <1>3, <2>3, <2>4
    <3> QED BY <2>3, <3>1, <3>2
  <2>6. j + k \in Digits(f)
    BY <2>3, <2>5, WidthIs DEF Digits
  <2>7. b \in DevxSet(f, v)
    BY <2>3, <2>4, <2>6 DEF DevxSet
  <2> QED BY <2>7, <1>5, SetInSpan
<1> QED BY <1>4, <1>5 DEF w

\* So much of it DEVX_GET reads there.
LEMMA GetSubField ==
    ASSUME NEW f, f.off \in Nat, f.size \in Nat, NEW g, g.off \in Nat, g.size \in Nat,
           NEW k \in Nat, f.off <= g.off, g.off + g.size + k = f.off + f.size,
           NEW v, Fits(f, v), NEW B, B \cap Span(f) = DevxSet(f, v)
    PROVE  DevxGet(g, B) = (v \div Weight[k]) % Weight[Width(g)]
<1>1. DevxSet(f, v) \cap Span(g) = DevxSet(g, v \div Weight[k])
  BY SubField
<1>2. Span(g) \subseteq Span(f)
  BY DEF Span
<1>3. B \cap Span(g) = DevxSet(g, v \div Weight[k])
  BY <1>1, <1>2
<1>4. v \div Weight[k] \in Nat
  <2>1. v \in Nat
    BY WidthIs, WeightType DEF Fits
  <2>2. Weight[k] \in Nat \ {0}
    BY WeightType
  <2> QED BY <2>1, <2>2, DivMod
<1> QED BY <1>3, <1>4, GetOfSet

------------------------------------------------------------------------------
(***************************************************************************)
(* The first three commands.                                               *)
(***************************************************************************)

\* What is written into a structure field by field is read from it, if it fits.
LEMMA StructureHolds ==
    ASSUME NEW F, WellLaid(F), NEW values, DOMAIN values \subseteq DOMAIN F
    PROVE  /\ DevxSetAll(F, values) \subseteq 0 .. Size(F) - 1
           /\ \A n \in DOMAIN values :
                  Fits(F[n], values[n]) => DevxGet(F[n], DevxSetAll(F, values)) = values[n]
<1>1. \A m \in DOMAIN F : /\ F[m].off \in Nat
                          /\ F[m].size \in Nat
                          /\ F[m].off + F[m].size <= Size(F)
  BY DEF WellLaid
<1>2. DevxSetAll(F, values) \subseteq 0 .. Size(F) - 1
  BY <1>1, SetAllInside DEF WellLaid
<1>3. ASSUME NEW n \in DOMAIN values, Fits(F[n], values[n])
      PROVE  DevxGet(F[n], DevxSetAll(F, values)) = values[n]
  <2>1. n \in DOMAIN F
    OBVIOUS
  <2>2. \A m \in DOMAIN values : m # n => Span(F[m]) \cap Span(F[n]) = {}
    BY <2>1 DEF WellLaid
  <2>3. DevxSetAll(F, values) \cap Span(F[n]) = DevxSet(F[n], values[n])
    BY <1>1, <2>1, <2>2, SetAllHolds
  <2> QED BY <1>1, <1>3, <2>1, <2>3, GetFitting
<1> QED BY <1>2, <1>3

\* The capabilities come out of the answer as the device has them, but for their width.
LEMMA CapsRead ==
    ASSUME page \in CapPages
    PROVE  CapsFrom(QueryHcaCapAnswer) = [n \in CapNames |-> page[n] % 256]
<1> DEFINE C == DevxSetAll(HcaCap, page)
           x == QueryHcaCapOut.capability
<1>1. DOMAIN page = CapNames /\ (\A n \in CapNames : Fits(HcaCap[n], page[n]))
  BY CommandAssumption DEF AllFit
<1>2. CapNames \subseteq DOMAIN HcaCap
  BY ContextAssumption
<1>3. /\ C \subseteq 0 .. Size(HcaCap) - 1
      /\ \A n \in CapNames : DevxGet(HcaCap[n], C) = page[n]
  BY <1>1, <1>2, StructuresLaid, StructureHolds
<1>4. x.off \in Nat /\ x.size \in Nat /\ x.size >= Size(HcaCap) /\ Size(HcaCap) \in Nat
  BY CommandLayoutAssumption, StructuresLaid DEF Has, WellLaid
<1>5. Extract(x, {} \cup Embed(x, C)) = C
  <2>1. C \subseteq 0 .. x.size - 1 /\ {} \in SUBSET Int /\ {} \cap Span(x) = {}
    BY <1>3, <1>4
  <2> HIDE DEF C, x
  <2> QED BY ONLY <1>4, <2>1, ExtractEmbedded
<1>6. Extract(x, QueryHcaCapAnswer) = C
  BY <1>5 DEF QueryHcaCapAnswer
<1>7. CapsFrom(QueryHcaCapAnswer) = [n \in CapNames |-> DevxGet(HcaCap[n], C) % 256]
  BY <1>6 DEF CapsFrom
<1> HIDE DEF C
<1> QED BY <1>3, <1>7

\* A completion queue.
LEMMA CqRead ==
    ASSUME NEW p, NEW log
    PROVE  Extract(CreateCqIn.cqc, CreateCqCommand(p, log)) = DevxSetAll(Cqc, CqValues(p, log))
<1> DEFINE head == [opcode |-> CreateCqOp, cq_umem_valid |-> 1,
                    cq_umem_id |-> Ids.umem, cq_umem_offset |-> 0]
           C == DevxSetAll(Cqc, CqValues(p, log))
           names == {"c_eqn", "uar_page", "log_cq_size", "cqe_sz", "cqe_comp_en",
                     "cq_period_mode", "cq_period", "dbr_umem_valid", "dbr_umem_id"}
<1>1. DOMAIN CqValues(p, log) = names
  BY DEF CqValues
<1>2. names \subseteq DOMAIN Cqc
  BY ContextAssumption DEF Has
<1>3. C \subseteq 0 .. Size(Cqc) - 1
  BY <1>1, <1>2, StructuresLaid, StructureHolds
<1>4. DOMAIN head = {"opcode", "cq_umem_valid", "cq_umem_id", "cq_umem_offset"}
  OBVIOUS
<1>5. {"opcode", "cq_umem_valid", "cq_umem_id", "cq_umem_offset", "cqc"} \subseteq DOMAIN CreateCqIn
  BY CommandLayoutAssumption DEF Has
<1>6. CreateCqIn["cqc"].size >= Size(Cqc) /\ Size(Cqc) \in Nat
  BY CommandLayoutAssumption, StructuresLaid DEF Has, WellLaid
<1>7. CreateCqCommand(p, log) = DevxSetAll(CreateCqIn, head) \cup Embed(CreateCqIn["cqc"], C)
  BY DEF CreateCqCommand
<1> HIDE DEF head, C
<1>8. "cqc" \in DOMAIN CreateCqIn /\ DOMAIN head \subseteq DOMAIN CreateCqIn \ {"cqc"}
  BY <1>4, <1>5
<1>9. Extract(CreateCqIn["cqc"], DevxSetAll(CreateCqIn, head) \cup Embed(CreateCqIn["cqc"], C)) = C
  BY <1>3, <1>6, <1>8, StructuresLaid, ContentsArrive
<1> QED BY <1>7, <1>9 DEF C

\* A memory key.
LEMMA MkeyRead ==
    ASSUME NEW length
    PROVE  Extract(CreateMkeyIn.memory_key_mkey_entry, CreateMkeyCommand(length)) =
               DevxSetAll(Mkc, MkeyValues(length))
<1> DEFINE head == [opcode |-> CreateMkeyOp, mkey_umem_valid |-> 1,
                    mkey_umem_id |-> Ids.umem, mkey_umem_offset |-> 0,
                    translations_octword_actual_size |-> 8]
           C == DevxSetAll(Mkc, MkeyValues(length))
           names == {"access_mode_1_0", "a", "rw", "rr", "lw", "lr", "pd", "qpn", "mkey_7_0",
                     "start_addr", "len", "translations_octword_size", "log_page_size"}
           place == "memory_key_mkey_entry"
<1>1. DOMAIN MkeyValues(length) = names
  BY DEF MkeyValues
<1>2. names \subseteq DOMAIN Mkc
  BY ContextAssumption DEF Has
<1>3. C \subseteq 0 .. Size(Mkc) - 1
  BY <1>1, <1>2, StructuresLaid, StructureHolds
<1>4. DOMAIN head = {"opcode", "mkey_umem_valid", "mkey_umem_id", "mkey_umem_offset",
                     "translations_octword_actual_size"}
  OBVIOUS
<1>5. {"opcode", "mkey_umem_valid", "mkey_umem_id", "mkey_umem_offset",
       "translations_octword_actual_size", place} \subseteq DOMAIN CreateMkeyIn
  BY CommandLayoutAssumption DEF Has
<1>6. CreateMkeyIn[place].size >= Size(Mkc) /\ Size(Mkc) \in Nat
  BY CommandLayoutAssumption, StructuresLaid DEF Has, WellLaid
<1>7. CreateMkeyCommand(length) =
          DevxSetAll(CreateMkeyIn, head) \cup Embed(CreateMkeyIn[place], C)
  BY DEF CreateMkeyCommand
<1> HIDE DEF head, C
<1>8. place \in DOMAIN CreateMkeyIn /\ DOMAIN head \subseteq DOMAIN CreateMkeyIn \ {place}
  BY <1>4, <1>5
<1>9. Extract(CreateMkeyIn[place], DevxSetAll(CreateMkeyIn, head) \cup Embed(CreateMkeyIn[place], C))
          = C
  BY <1>3, <1>6, <1>8, StructuresLaid, ContentsArrive
<1> QED BY <1>7, <1>9 DEF C

\* A queue pair.
LEMMA QpRead ==
    ASSUME NEW p
    PROVE  /\ Extract(CreateQpIn.qpc, CreateQpCommand(p)) = DevxSetAll(Qpc, QpValues(p))
           /\ DOMAIN QpValues(p) = {
                  "st", "pm_state", "pd", "cqn_snd", "cqn_rcv", "log_sq_size", "log_rq_size",
                  "log_rq_stride", "no_sq", "wq_signature", "uar_page", "dbr_umem_id",
                  "dbr_umem_valid", "dbr_addr", "log_msg_max", "log_page_size",
                  "page_offset", "log_rra_max", "ts_format"}
           /\ DOMAIN QpValues(p) \subseteq Leaves
<1> DEFINE head == [opcode |-> CreateQpOp, wq_umem_id |-> Ids.umem, wq_umem_valid |-> 1]
           C == DevxSetAll(Qpc, QpValues(p))
<1>1. DOMAIN QpValues(p) = {
          "st", "pm_state", "pd", "cqn_snd", "cqn_rcv", "log_sq_size", "log_rq_size",
          "log_rq_stride", "no_sq", "wq_signature", "uar_page", "dbr_umem_id",
          "dbr_umem_valid", "dbr_addr", "log_msg_max", "log_page_size",
          "page_offset", "log_rra_max", "ts_format"}
  BY DEF QpValues
<1>2. DOMAIN QpValues(p) \subseteq OwnNames
  BY <1>1 DEF OwnNames
<1>3. DOMAIN QpValues(p) \subseteq Leaves
  BY <1>2, LeafNames
<1>4. C \subseteq 0 .. Size(Qpc) - 1
  BY <1>3, ContextHolds
<1>5. DOMAIN head = {"opcode", "wq_umem_id", "wq_umem_valid"}
  OBVIOUS
<1>6. {"opcode", "wq_umem_id", "wq_umem_valid", "qpc"} \subseteq DOMAIN CreateQpIn
  BY CommandLayoutAssumption DEF Has
<1>7. CreateQpIn["qpc"].size >= Size(Qpc) /\ Size(Qpc) \in Nat
  BY CommandLayoutAssumption, QpcLaid DEF Has
<1>8. CreateQpCommand(p) = DevxSetAll(CreateQpIn, head) \cup Embed(CreateQpIn["qpc"], C)
  BY DEF CreateQpCommand
<1> HIDE DEF head, C
<1>9. "qpc" \in DOMAIN CreateQpIn /\ DOMAIN head \subseteq DOMAIN CreateQpIn \ {"qpc"}
  BY <1>5, <1>6
<1>10. Extract(CreateQpIn["qpc"], DevxSetAll(CreateQpIn, head) \cup Embed(CreateQpIn["qpc"], C)) = C
  BY <1>4, <1>7, <1>9, StructuresLaid, ContentsArrive
<1> QED BY <1>1, <1>3, <1>8, <1>10 DEF C

------------------------------------------------------------------------------
(***************************************************************************)
(* The command that makes a queue pair ready to receive: fields set one by *)
(* one, and an address copied over several of them.                        *)
(***************************************************************************)

\* Where the addresses of a path are.
MacField == From(Qpc.rmac_47_32, 48)
GidField == From(Qpc.rgid_rip, 128)

\* Where the peer's addresses lie in the address path.
LEMMA PathPlaces ==
    /\ MacField.off = Qpc.rmac_47_32.off /\ MacField.size = 48
    /\ GidField.off = Qpc.rgid_rip.off /\ GidField.size = 128
    /\ Qpc.rmac_47_32.size = 16 /\ Qpc.rmac_31_0.size = 32 /\ Qpc.rgid_rip.size = 128
    /\ Qpc.rmac_31_0.off = Qpc.rmac_47_32.off + 16
    /\ Qpc.rmac_47_32.off \in Nat /\ Qpc.rgid_rip.off \in Nat
<1>1. {"rmac_47_32", "rmac_31_0", "rgid_rip"} \subseteq InPath
  BY LeafNames DEF PathNames
<1>2. \A n \in InPath : DOMAIN Qpc[n] = {"off", "size"}
  <2> SUFFICES ASSUME NEW n \in InPath PROVE DOMAIN Qpc[n] = {"off", "size"}
    OBVIOUS
  <2>1. n \notin DOMAIN QpcOwn /\ n \in DOMAIN Ads
    BY LayoutAssumption DEF InPath
  <2>2. Qpc[n] = [Ads[n] EXCEPT !.off = @ + QpcOwn.primary_address_path.off]
    BY <2>1 DEF Qpc, Joined, Within
  <2>3. DOMAIN Ads[n] = {"off", "size"}
    BY <2>1 DEF Ads, Fields, InPath
  <2> QED BY <2>2, <2>3
<1>3. /\ Qpc["rmac_47_32"].size = 16
      /\ Qpc["rmac_31_0"].size = 32
      /\ Qpc["rgid_rip"].size = 128
      /\ Qpc["rmac_31_0"].off = Qpc["rmac_47_32"].off + 16
      /\ Qpc["rmac_47_32"].off \in Nat
      /\ Qpc["rgid_rip"].off \in Nat
  <2>1. "primary_address_path" \in DOMAIN QpcOwn
    BY ContextAssumption DEF Has
  <2>2. QpcOwn["primary_address_path"].off \in Nat
    BY <2>1, StructuresLaid DEF WellLaid
  <2>3. \A n \in InPath : Ads[n].off \in Nat
    BY StructuresLaid DEF WellLaid, InPath
  <2>4. \A n \in InPath : /\ Qpc[n].off = Ads[n].off + QpcOwn["primary_address_path"].off
                          /\ Qpc[n].size = Ads[n].size
    BY QpcLaid
  <2> QED BY <1>1, <2>2, <2>3, <2>4, ContextAssumption
<1>4. ASSUME NEW f, DOMAIN f = {"off", "size"}, NEW bits
      PROVE  From(f, bits).off = f.off /\ From(f, bits).size = bits
  BY <1>4 DEF From
<1> QED BY <1>1, <1>2, <1>3, <1>4 DEF MacField, GidField

\* The two parts of a MAC address are its field and no others' .
LEMMA PathSpans ==
    /\ Span(MacField) = Span(Qpc.rmac_47_32) \cup Span(Qpc.rmac_31_0)
    /\ Span(GidField) = Span(Qpc.rgid_rip)
    /\ \A n \in Leaves \ {"rmac_47_32", "rmac_31_0"} : Span(MacField) \cap Span(Qpc[n]) = {}
    /\ \A v : DevxSet(GidField, v) = DevxSet(Qpc.rgid_rip, v)
<1>1. Span(MacField) = Span(Qpc.rmac_47_32) \cup Span(Qpc.rmac_31_0)
  BY PathPlaces DEF Span
<1>2. Span(GidField) = Span(Qpc.rgid_rip)
  BY PathPlaces DEF Span
<1>3. ASSUME NEW n \in Leaves \ {"rmac_47_32", "rmac_31_0"}
      PROVE  Span(MacField) \cap Span(Qpc[n]) = {}
  <2>1. {"rmac_47_32", "rmac_31_0"} \subseteq Leaves
    BY LeafNames DEF PathNames
  <2>2. \A m \in {"rmac_47_32", "rmac_31_0"} : Span(Qpc[m]) \cap Span(Qpc[n]) = {}
    BY <2>1, QpcLaid
  <2> QED BY <2>2, <1>1
<1>4. \A v : DevxSet(GidField, v) = DevxSet(Qpc.rgid_rip, v)
  BY PathPlaces DEF DevxSet, Digits, Width, BitOf
<1> QED BY <1>1, <1>2, <1>3, <1>4

\* Names that the command sets field by field.
LEMMA RtrNames ==
    ASSUME NEW q, NEW p
    PROVE  /\ DOMAIN RtrValues(q, p) \subseteq Leaves
           /\ DOMAIN RtrValues(q, p) \cap {"rmac_47_32", "rmac_31_0", "rgid_rip"} = {}
           /\ \A n \in DOMAIN RtrValues(q, p) : n \in {"mtu", "remote_qpn", "log_msg_max"} \cup InPath
           /\ LET values == RtrValues(q, p)
              IN  /\ {"mtu", "remote_qpn", "vhca_port_num", "log_msg_max"} \subseteq DOMAIN values
                  /\ values["mtu"] = p.mtu
                  /\ values["remote_qpn"] = Peer(q)
                  /\ values["vhca_port_num"] = p.ah_port_num
                  /\ values["log_msg_max"] = caps.log_max_msg
                  /\ link = "ETHERNET" =>
                      /\ {"hop_limit", "src_addr_index", "eth_prio", "dscp", "udp_sport"}
                             \subseteq DOMAIN values
                      /\ values["hop_limit"] = p.hop_limit
                      /\ values["src_addr_index"] = p.sgid_index
                      /\ values["eth_prio"] = p.sl
                      /\ values["dscp"] = p.dscp
                      /\ values["udp_sport"] = p.udp_sport
                  /\ link # "ETHERNET" =>
                      /\ {"rlid", "sl", "grh"} \subseteq DOMAIN values
                      /\ values["rlid"] = PortOf[Peer(q)].lid
                      /\ values["sl"] = p.sl
                      /\ values["grh"] = p.is_global
                  /\ link # "ETHERNET" /\ p.is_global = 1 =>
                      /\ {"hop_limit", "src_addr_index", "tclass"} \subseteq DOMAIN values
                      /\ values["hop_limit"] = p.hop_limit
                      /\ values["src_addr_index"] = p.sgid_index
                      /\ values["tclass"] = p.traffic_class
<1> DEFINE
    port == PortOf[Peer(q)]
    always == [mtu |-> p.mtu, remote_qpn |-> Peer(q), vhca_port_num |-> p.ah_port_num,
               log_msg_max |-> caps.log_max_msg]
    ethernet == [hop_limit |-> p.hop_limit, src_addr_index |-> p.sgid_index,
                 eth_prio |-> p.sl, dscp |-> p.dscp, udp_sport |-> p.udp_sport]
    infiniband == [grh |-> p.is_global, rlid |-> port.lid,
                   mlid |-> p.src_path_bits % 128, sl |-> p.sl]
    global == [src_addr_index |-> p.sgid_index, hop_limit |-> p.hop_limit,
               tclass |-> p.traffic_class]
    both == Joined(infiniband, global)
    V == RtrValues(q, p)
<1>1. /\ DOMAIN always = {"mtu", "remote_qpn", "vhca_port_num", "log_msg_max"}
      /\ always["mtu"] = p.mtu
      /\ always["remote_qpn"] = Peer(q)
      /\ always["vhca_port_num"] = p.ah_port_num
      /\ always["log_msg_max"] = caps.log_max_msg
  OBVIOUS
<1>2. /\ DOMAIN ethernet = {"hop_limit", "src_addr_index", "eth_prio", "dscp", "udp_sport"}
      /\ ethernet["hop_limit"] = p.hop_limit
      /\ ethernet["src_addr_index"] = p.sgid_index
      /\ ethernet["eth_prio"] = p.sl
      /\ ethernet["dscp"] = p.dscp
      /\ ethernet["udp_sport"] = p.udp_sport
  OBVIOUS
<1>3. /\ DOMAIN infiniband = {"grh", "rlid", "mlid", "sl"}
      /\ infiniband["rlid"] = port.lid
      /\ infiniband["sl"] = p.sl
      /\ infiniband["grh"] = p.is_global
  OBVIOUS
<1>4. /\ DOMAIN global = {"src_addr_index", "hop_limit", "tclass"}
      /\ global["hop_limit"] = p.hop_limit
      /\ global["src_addr_index"] = p.sgid_index
      /\ global["tclass"] = p.traffic_class
  OBVIOUS
<1>5. V = Joined(always, IF link = "ETHERNET" THEN ethernet
                         ELSE IF p.is_global = 1 THEN both ELSE infiniband)
  BY DEF RtrValues, AddressVector
<1>6. /\ DOMAIN infiniband \cap DOMAIN global = {}
      /\ DOMAIN always \cap DOMAIN ethernet = {}
      /\ DOMAIN always \cap DOMAIN infiniband = {}
      /\ DOMAIN always \cap (DOMAIN infiniband \cup DOMAIN global) = {}
  BY <1>1, <1>2, <1>3, <1>4
<1> HIDE DEF always, ethernet, infiniband, global
<1>7. /\ DOMAIN both = DOMAIN infiniband \cup DOMAIN global
      /\ \A n \in DOMAIN infiniband : both[n] = infiniband[n]
      /\ \A n \in DOMAIN global : both[n] = global[n]
  BY <1>6 DEF both, Joined
<1> HIDE DEF both, V
<1> DEFINE Own == {"mtu", "remote_qpn", "log_msg_max"}
           Path == {"hop_limit", "src_addr_index", "eth_prio", "dscp", "udp_sport", "grh",
                    "rlid", "mlid", "sl", "tclass", "vhca_port_num"}
           Addresses == {"rmac_47_32", "rmac_31_0", "rgid_rip"}
<1>8. Own \subseteq Leaves /\ Path \subseteq InPath /\ Path \subseteq Leaves
  BY LeafNames DEF OwnNames, PathNames
<1>9. (Own \cup Path) \cap Addresses = {}
  OBVIOUS
<1>10. /\ DOMAIN always \subseteq Own \cup Path
       /\ DOMAIN ethernet \subseteq Own \cup Path
       /\ DOMAIN infiniband \subseteq Own \cup Path
       /\ DOMAIN global \subseteq Own \cup Path
  BY <1>1, <1>2, <1>3, <1>4
<1> HIDE DEF Own, Path, Addresses
\* What the last case adds, whichever it is.
<1>11. ASSUME NEW g, DOMAIN always \cap DOMAIN g = {}, DOMAIN g \subseteq Own \cup Path,
              V = Joined(always, g)
       PROVE  /\ DOMAIN V \subseteq Leaves
              /\ DOMAIN V \cap Addresses = {}
              /\ \A n \in DOMAIN V : n \in Own \cup InPath
              /\ DOMAIN always \subseteq DOMAIN V
              /\ DOMAIN g \subseteq DOMAIN V
              /\ \A n \in DOMAIN always : V[n] = always[n]
              /\ \A n \in DOMAIN g : V[n] = g[n]
  <2>1. /\ DOMAIN V = DOMAIN always \cup DOMAIN g
        /\ \A n \in DOMAIN always : V[n] = always[n]
        /\ \A n \in DOMAIN g : V[n] = g[n]
    BY <1>11 DEF Joined
  <2>2. DOMAIN V \subseteq Own \cup Path
    BY <2>1, <1>10, <1>11
  <2> QED BY <2>1, <2>2, <1>8, <1>9
<1>12. CASE link = "ETHERNET"
  <2>1. V = Joined(always, ethernet)
    BY <1>5, <1>12
  <2>2. /\ DOMAIN V \subseteq Leaves
        /\ DOMAIN V \cap Addresses = {}
        /\ \A n \in DOMAIN V : n \in Own \cup InPath
        /\ DOMAIN always \subseteq DOMAIN V
        /\ DOMAIN ethernet \subseteq DOMAIN V
        /\ \A n \in DOMAIN always : V[n] = always[n]
        /\ \A n \in DOMAIN ethernet : V[n] = ethernet[n]
    BY ONLY <1>6, <1>10, <1>11, <2>1
  <2> QED BY <1>12, <1>1, <1>2, <2>2 DEF V, Own, Addresses
<1>13. CASE link # "ETHERNET" /\ p.is_global = 1
  <2>1. V = Joined(always, both)
    BY <1>5, <1>13
  <2>2. DOMAIN both \subseteq Own \cup Path /\ DOMAIN always \cap DOMAIN both = {}
    BY <1>6, <1>7, <1>10
  <2>3. /\ DOMAIN V \subseteq Leaves
        /\ DOMAIN V \cap Addresses = {}
        /\ \A n \in DOMAIN V : n \in Own \cup InPath
        /\ DOMAIN always \subseteq DOMAIN V
        /\ DOMAIN both \subseteq DOMAIN V
        /\ \A n \in DOMAIN always : V[n] = always[n]
        /\ \A n \in DOMAIN both : V[n] = both[n]
    BY ONLY <1>11, <2>1, <2>2
  <2> QED BY <1>13, <1>1, <1>3, <1>4, <1>7, <2>3 DEF V, Own, Addresses
<1>14. CASE link # "ETHERNET" /\ p.is_global # 1
  <2>1. V = Joined(always, infiniband)
    BY <1>5, <1>14
  <2>2. /\ DOMAIN V \subseteq Leaves
        /\ DOMAIN V \cap Addresses = {}
        /\ \A n \in DOMAIN V : n \in Own \cup InPath
        /\ DOMAIN always \subseteq DOMAIN V
        /\ DOMAIN infiniband \subseteq DOMAIN V
        /\ \A n \in DOMAIN always : V[n] = always[n]
        /\ \A n \in DOMAIN infiniband : V[n] = infiniband[n]
    BY ONLY <1>6, <1>10, <1>11, <2>1
  <2> QED BY <1>14, <1>1, <1>3, <2>2 DEF V, Own, Addresses
<1> QED BY <1>12, <1>13, <1>14

\* What the command says, and the bits copied.
RtrContext(q, p) == DevxSetAll(Qpc, RtrValues(q, p)) \cup RtrCopied(q, p)

\* The addresses are copied over their own bits, and only for the links that use them.
LEMMA CopiedInPath ==
    ASSUME NEW q, NEW p
    PROVE  /\ RtrCopied(q, p) \subseteq Span(MacField) \cup Span(GidField)
           /\ RtrCopied(q, p) \cap Span(MacField) =
                  IF link = "ETHERNET" THEN DevxSet(MacField, PortOf[Peer(q)].mac) ELSE {}
           /\ RtrCopied(q, p) \cap Span(GidField) =
                  IF link = "ETHERNET" \/ p.is_global = 1
                  THEN DevxSet(GidField, PortOf[Peer(q)].gid) ELSE {}
           /\ RtrCopied(q, p) \subseteq ContextBits
<1> DEFINE port == PortOf[Peer(q)]
           mac == DevxSet(MacField, port.mac)
           gid == DevxSet(GidField, port.gid)
<1>1. RtrCopied(q, p) = IF link = "ETHERNET" THEN mac \cup gid
                        ELSE IF p.is_global = 1 THEN gid ELSE {}
  <2>1. gid = DevxSet(Qpc.rgid_rip, port.gid)
    BY PathSpans
  <2>2. EthernetPath(Qpc, AddressVector(port, p)) = mac \cup gid
    BY DEF EthernetPath, AddressVector, MacField, GidField
  <2> QED BY <2>1, <2>2 DEF RtrCopied
<1>2. mac \subseteq Span(MacField) /\ gid \subseteq Span(GidField)
  <2>1. /\ MacField.off \in Nat /\ MacField.size \in Nat
        /\ GidField.off \in Nat /\ GidField.size \in Nat
    BY PathPlaces
  <2> QED BY <2>1, SetInSpan
<1>3. {"rmac_47_32", "rmac_31_0", "rgid_rip"} \subseteq Leaves
  BY LeafNames DEF PathNames
<1>4. Span(MacField) \cap Span(GidField) = {}
  <2>1. "rgid_rip" \in Leaves \ {"rmac_47_32", "rmac_31_0"}
    BY <1>3
  <2> QED BY <2>1, PathSpans
<1>5. Span(MacField) \cup Span(GidField) \subseteq ContextBits
  <2>1. \A n \in Leaves : Span(Qpc[n]) \subseteq ContextBits
    <3> SUFFICES ASSUME NEW n \in Leaves PROVE Span(Qpc[n]) \subseteq ContextBits
      OBVIOUS
    <3>1. /\ Qpc[n].off \in Nat /\ Qpc[n].size \in Nat /\ Size(Qpc) \in Nat
          /\ Qpc[n].off + Qpc[n].size <= Size(Qpc)
      BY QpcLaid DEF Leaves
    <3> QED BY <3>1 DEF Span, ContextBits
  <2> QED BY <2>1, <1>3, PathSpans
<1> HIDE DEF mac, gid
<1>6. /\ RtrCopied(q, p) \subseteq Span(MacField) \cup Span(GidField)
      /\ RtrCopied(q, p) \cap Span(MacField) = IF link = "ETHERNET" THEN mac ELSE {}
      /\ RtrCopied(q, p) \cap Span(GidField) =
             IF link = "ETHERNET" \/ p.is_global = 1 THEN gid ELSE {}
  BY <1>1, <1>2, <1>4
<1> QED BY <1>5, <1>6 DEF mac, gid

\* Both are in the context the device reads, and do not touch each other.
LEMMA RtrContextHolds ==
    ASSUME NEW q, NEW p
    PROVE  /\ RtrContext(q, p) \subseteq ContextBits
           /\ \A n \in DOMAIN RtrValues(q, p) :
                  RtrContext(q, p) \cap Span(Qpc[n]) = DevxSet(Qpc[n], RtrValues(q, p)[n])
           /\ link = "ETHERNET" =>
                  RtrContext(q, p) \cap Span(MacField) = DevxSet(MacField, PortOf[Peer(q)].mac)
           /\ link = "ETHERNET" \/ p.is_global = 1 =>
                  RtrContext(q, p) \cap Span(GidField) = DevxSet(GidField, PortOf[Peer(q)].gid)
<1> DEFINE V == RtrValues(q, p)
           A == DevxSetAll(Qpc, V)
           copied == RtrCopied(q, p)
           Addresses == {"rmac_47_32", "rmac_31_0", "rgid_rip"}
<1>1. DOMAIN V \subseteq Leaves /\ DOMAIN V \cap Addresses = {} /\ Addresses \subseteq Leaves
  BY RtrNames, LeafNames DEF PathNames
<1> HIDE DEF V
<1>2. /\ A \subseteq ContextBits
      /\ \A n \in Leaves : A \cap Span(Qpc[n]) =
             IF n \in DOMAIN V THEN DevxSet(Qpc[n], V[n]) ELSE {}
  BY <1>1, ContextHolds DEF ContextBits
<1>3. A \cap Span(MacField) = {} /\ A \cap Span(GidField) = {}
  BY <1>1, <1>2, PathSpans
<1>4. ASSUME NEW n \in DOMAIN V
      PROVE  copied \cap Span(Qpc[n]) = {}
  <2>1. n \in Leaves \ Addresses
    BY <1>1
  <2>2. Span(MacField) \cap Span(Qpc[n]) = {}
    BY <2>1, PathSpans
  <2>3. Span(Qpc["rgid_rip"]) \cap Span(Qpc[n]) = {}
    BY <2>1, <1>1, QpcLaid
  <2>4. Span(GidField) \cap Span(Qpc[n]) = {}
    BY <2>3, PathSpans
  <2> QED BY <2>2, <2>4, CopiedInPath
<1>5. RtrContext(q, p) = A \cup copied
  BY DEF RtrContext, V
<1> HIDE DEF A, Addresses
<1>6. ASSUME NEW n \in DOMAIN V PROVE RtrContext(q, p) \cap Span(Qpc[n]) = DevxSet(Qpc[n], V[n])
  <2>1. n \in Leaves
    BY <1>1
  <2>2. A \cap Span(Qpc[n]) = DevxSet(Qpc[n], V[n])
    BY <2>1, <1>2
  <2> HIDE DEF copied
  <2> QED BY <2>2, <1>4, <1>5
<1>7. RtrContext(q, p) \subseteq ContextBits
  BY <1>2, <1>5, CopiedInPath
<1>8. link = "ETHERNET" =>
          RtrContext(q, p) \cap Span(MacField) = DevxSet(MacField, PortOf[Peer(q)].mac)
  BY <1>3, <1>5, CopiedInPath
<1>9. link = "ETHERNET" \/ p.is_global = 1 =>
          RtrContext(q, p) \cap Span(GidField) = DevxSet(GidField, PortOf[Peer(q)].gid)
  BY <1>3, <1>5, CopiedInPath
<1> QED BY <1>6, <1>7, <1>8, <1>9 DEF V

\* What INIT2RTR_QP says, once the device has read it.
LEMMA RtrRead ==
    ASSUME NEW q, NEW p
    PROVE  /\ DevxGet(CreateQpIn.opcode, Init2RtrCommand(q, p)) = Init2RtrQpOp
           /\ Extract(CommandLayout(Init2RtrQpOp).qpc, Init2RtrCommand(q, p)) = RtrContext(q, p)
<1> DEFINE F == Init2RtrQpIn
           u == [ece |-> p.ece]
           v == [opcode |-> Init2RtrQpOp, qpn |-> q]
           head == Joined(u, v)
           A == DevxSetAll(Qpc, RtrValues(q, p))
           copied == RtrCopied(q, p)
<1>1. Init2RtrCommand(q, p) =
          (DevxSetAll(F, u) \cup DevxSetAll(F, v)) \cup (Embed(F.qpc, A) \cup Embed(F.qpc, copied))
  BY DEF Init2RtrCommand, ModifyCommand
<1>2. DOMAIN u = {"ece"} /\ DOMAIN v = {"opcode", "qpn"} /\ v["opcode"] = Init2RtrQpOp
  OBVIOUS
<1> HIDE DEF u, v, A, copied
<1>3. DevxSetAll(F, u) \cup DevxSetAll(F, v) = DevxSetAll(F, head)
  <2>1. DOMAIN u \cap DOMAIN v = {}
    BY <1>2
  <2> HIDE DEF F
  <2> QED BY <2>1, SetTogether
<1>4. Embed(F.qpc, A) \cup Embed(F.qpc, copied) = Embed(F.qpc, RtrContext(q, p))
  BY EmbedUnion DEF RtrContext, A, copied
<1>5. Init2RtrCommand(q, p) = CommandOf(F, head, RtrContext(q, p))
  BY <1>1, <1>3, <1>4 DEF CommandOf
<1>6. /\ DOMAIN head = {"ece", "opcode", "qpn"}
      /\ head["opcode"] = Init2RtrQpOp
  BY <1>2 DEF Joined
<1>7. HeadOf(F, head)
  <2>1. {"ece", "opcode", "qpn"} \subseteq DOMAIN F \ {"qpc"}
    BY CommandLayoutAssumption DEF Has
  <2>2. Init2RtrQpOp \in Nat /\ Init2RtrQpOp < 65536
    BY DEF Init2RtrQpOp
  <2> HIDE DEF F, head
  <2> QED BY <2>1, <2>2, <1>6 DEF HeadOf
<1> HIDE DEF F, head
<1>8. CommandLaid(F) /\ F = CommandLayout(Init2RtrQpOp)
  BY StepLayouts, TakenNames DEF F
<1>9. RtrContext(q, p) \in SUBSET ContextBits
  BY RtrContextHolds
<1> QED BY <1>5, <1>6, <1>7, <1>8, <1>9, CommandRead

------------------------------------------------------------------------------
(***************************************************************************)
(* What is read of an address.                                             *)
(***************************************************************************)

\* The weights that part an address into words.
LEMMA MoreWeights ==
    /\ Weight[0] = 1 /\ Weight[24] = 16777216 /\ Weight[32] = 4294967296
<1>1. Weight[0] = 1
  BY WeightDef
<1>2. Weight[16 + 8] = Weight[16] * Weight[8]
  BY WeightSum
<1>3. Weight[16 + 16] = Weight[16] * Weight[16]
  BY WeightSum
<1>4. Weight[24] = 65536 * 256
  <2>1. 16 + 8 = 24
    OBVIOUS
  <2> QED BY <1>2, <2>1, FirstWeights
<1>5. Weight[32] = 65536 * 65536
  <2>1. 16 + 16 = 32
    OBVIOUS
  <2> QED BY <1>3, <2>1, FirstWeights
<1> QED BY <1>1, <1>4, <1>5

\* The two words of an address are its quotient and its rest at 2^32.
LEMMA WordsOf ==
    ASSUME NEW n \in Nat
    PROVE  HighPart(n) = n \div Weight[32] /\ LowWord(n) = n % Weight[32]
<1>1. HighPart(n) = n \div 4294967296
  <2>1. (n \div 65536) \div 65536 = n \div (65536 * 65536)
    BY DivDiv
  <2> QED BY <2>1 DEF HighPart
<1>2. LowWord(n) = n % 4294967296
  <2> DEFINE q == n \div 65536
             r == n % 65536
             s == q \div 65536
             t == q % 65536
             low == t * 65536 + r
             all == 4294967296
  <2>1. q \in Nat /\ r \in Nat /\ r < 65536 /\ n = 65536 * q + r
    BY DivMod
  <2>2. s \in Nat /\ t \in Nat /\ t < 65536 /\ q = 65536 * s + t
    BY <2>1, DivMod
  <2>3. LowWord(n) = low
    BY DEF LowWord
  <2> HIDE DEF q, r, s, t
  <2>4. n = all * s + low /\ low \in Nat /\ low < all /\ all \in Nat \ {0}
    BY <2>1, <2>2
  <2> HIDE DEF low, all
  <2>5. (all * s + low) % all = low
    BY <2>2, <2>4, ModOfMultiplePlus
  <2> QED BY <2>3, <2>4, <2>5 DEF all
<1> QED BY <1>1, <1>2, MoreWeights

\* Four bytes are a word.
LEMMA TwoBytes ==
    ASSUME NEW n \in Nat
    PROVE  n % 65536 = ((n \div 256) % 256) * 256 + (n % 256)
<1> DEFINE a == n \div 256
           b == a \div 256
           r == (a % 256) * 256 + (n % 256)
           m == 65536
<1>1. a \in Nat /\ n % 256 \in Nat /\ n % 256 < 256 /\ n = 256 * a + (n % 256)
  BY DivMod
<1>2. b \in Nat /\ a % 256 \in Nat /\ a % 256 < 256 /\ a = 256 * b + (a % 256)
  BY <1>1, DivMod
<1> HIDE DEF a, b
<1>3. n = m * b + r /\ r \in Nat /\ r < m /\ m \in Nat \ {0}
  BY <1>1, <1>2
<1> HIDE DEF r, m
<1>4. b \in Nat /\ m \in Nat \ {0} /\ r \in 0 .. m - 1
  BY <1>2, <1>3
<1>5. (m * b + r) % m = r
  BY ONLY <1>4, ModOfMultiplePlus
<1> QED BY <1>3, <1>5 DEF r, m, a

\* A word is the sum of its four bytes, each at its place.
LEMMA BytesOf ==
    ASSUME NEW n \in Nat
    PROVE  LowWord(n) = ((n \div 16777216) % 256) * 16777216 + ((n \div 65536) % 256) * 65536
                        + ((n \div 256) % 256) * 256 + (n % 256)
<1> DEFINE b == n \div 65536
<1>1. b \in Nat
  BY DivMod
<1>2. b \div 256 = n \div 16777216
  <2>1. (n \div 65536) \div 256 = n \div (65536 * 256)
    BY DivDiv
  <2> QED BY <2>1
<1>3. n % 65536 = ((n \div 256) % 256) * 256 + (n % 256)
  BY TwoBytes
<1>4. b % 65536 = ((b \div 256) % 256) * 256 + (b % 256)
  <2> HIDE DEF b
  <2> QED BY <1>1, TwoBytes
<1>5. LowWord(n) = (b % 65536) * 65536 + (n % 65536)
  BY DEF LowWord
<1>6. /\ (b \div 256) % 256 \in Nat /\ b % 256 \in Nat
      /\ (n \div 256) % 256 \in Nat /\ n % 256 \in Nat
  <2>1. \A k \in Nat : k % 256 \in Nat /\ k \div 256 \in Nat
    BY DivMod
  <2> HIDE DEF b
  <2> QED BY <2>1, <1>1
<1> DEFINE x == (b \div 256) % 256
           y == b % 256
           z == (n \div 256) % 256
           w == n % 256
<1>7. LowWord(n) = (x * 256 + y) * 65536 + (z * 256 + w)
  BY <1>3, <1>4, <1>5
<1>8. x = (n \div 16777216) % 256
  BY <1>2
<1>9. x \in Nat /\ y \in Nat /\ z \in Nat /\ w \in Nat
  BY <1>6
<1>10. LowWord(n) = x * 16777216 + y * 65536 + z * 256 + w
  <2> HIDE DEF x, y, z, w
  <2> QED BY <1>7, <1>9
<1> QED BY <1>8, <1>10

\* The two fields of a MAC address hold its parts.
LEMMA MacReads ==
    ASSUME NEW v, Fits(MacField, v), NEW B, B \cap Span(MacField) = DevxSet(MacField, v)
    PROVE  /\ DevxGet(Qpc.rmac_47_32, B) = HighPart(v)
           /\ DevxGet(Qpc.rmac_31_0, B) = LowWord(v)
<1> DEFINE f == MacField
           hi == Qpc["rmac_47_32"]
           lo == Qpc["rmac_31_0"]
<1>1. /\ f.off \in Nat /\ f.size = 48
      /\ hi.off = f.off /\ hi.size = 16
      /\ lo.off = f.off + 16 /\ lo.size = 32
  BY PathPlaces
<1> HIDE DEF f, hi, lo
<1>2. v \in Nat /\ v < Weight[Width(f)] /\ Width(f) \in Nat /\ Width(f) <= 48
      /\ Width(f) <= NumberBits /\ Weight[Width(f)] \in Nat
  <2>1. Weight[Width(f)] \in Nat /\ Width(f) \in Nat /\ Width(f) <= 48 /\ Width(f) <= NumberBits
    BY <1>1, WidthIs, WeightType
  <2> QED BY <2>1 DEF Fits, f
<1>3. Fits(f, v) /\ B \cap Span(f) = DevxSet(f, v)
  BY DEF f
<1>4. DevxGet(hi, B) = (v \div Weight[32]) % Weight[Width(hi)]
  <2>1. hi.off + hi.size + 32 = f.off + f.size /\ f.off <= hi.off /\ hi.off \in Nat
        /\ hi.size \in Nat /\ f.size \in Nat /\ 32 \in Nat
    BY <1>1
  <2> QED BY <2>1, <1>1, <1>3, GetSubField
<1>5. DevxGet(lo, B) = (v \div Weight[0]) % Weight[Width(lo)]
  <2>1. lo.off + lo.size + 0 = f.off + f.size /\ f.off <= lo.off /\ lo.off \in Nat
        /\ lo.size \in Nat /\ f.size \in Nat /\ 0 \in Nat
    BY <1>1
  <2> QED BY <2>1, <1>1, <1>3, GetSubField
<1>6. (v \div Weight[32]) % Weight[Width(hi)] = v \div Weight[32]
  <2>1. Width(hi) = 16
    <3>1. 16 <= Width(hi) /\ Width(hi) <= 16 /\ Width(hi) \in Nat
      BY <1>1, WidthIs, NumberAssumption
    <3> QED BY <3>1
  <2>2. v < Weight[32] * Weight[16] /\ Weight[32] \in Nat \ {0} /\ Weight[16] \in Nat \ {0}
    <3>1. Weight[32 + 16] = Weight[32] * Weight[16] /\ Weight[32 + 16] \in Nat
      BY WeightSum, WeightType
    <3>2. Weight[Width(f)] <= Weight[32 + 16]
      BY <1>2, WeightGrows
    <3>3. Weight[32] \in Nat \ {0} /\ Weight[16] \in Nat \ {0}
      BY WeightType
    <3> QED BY <1>2, <3>1, <3>2, <3>3
  <2>3. v \div Weight[32] \in 0 .. Weight[16] - 1
    BY <1>2, <2>2, QuotientBelow
  <2> QED BY <2>1, <2>2, <2>3, FirstPass
<1>7. (v \div Weight[0]) % Weight[Width(lo)] = v % Weight[32]
  <2>1. v \div Weight[0] = v
    BY <1>2, WeightDef
  <2>2. Width(lo) \in Nat /\ Width(lo) <= 32 /\ (NumberBits >= 32 => Width(lo) >= 32)
        /\ (NumberBits <= 32 => Width(lo) >= NumberBits)
    BY <1>1, WidthIs, NumberAssumption
  <2>3. CASE Width(lo) = 32
    BY <2>1, <2>3
  <2>4. CASE Width(lo) # 32
    <3>1. Width(f) <= Width(lo)
      BY <2>2, <2>4, <1>2, NumberAssumption
    <3>2. /\ Weight[Width(f)] <= Weight[Width(lo)]
          /\ Weight[Width(lo)] <= Weight[32]
          /\ Weight[Width(lo)] \in Nat \ {0}
          /\ Weight[32] \in Nat \ {0}
      BY <1>2, <2>2, <3>1, WeightGrows, WeightType
    <3>3. v \in 0 .. Weight[Width(lo)] - 1 /\ v \in 0 .. Weight[32] - 1
      BY <1>2, <3>2
    <3>4. v % Weight[Width(lo)] = v /\ v % Weight[32] = v
      BY <3>2, <3>3, FirstPass
    <3> QED BY <2>1, <3>4
  <2> QED BY <2>3, <2>4
<1> QED BY <1>2, <1>4, <1>5, <1>6, <1>7, WordsOf DEF hi, lo

\* The last four bytes of a GID are its low word.
LEMMA IpReads ==
    ASSUME NEW v, Fits(Qpc.rgid_rip, v),
           NEW B, B \cap Span(Qpc.rgid_rip) = DevxSet(Qpc.rgid_rip, v)
    PROVE  LET byte(i) == DevxGet([off |-> Qpc.rgid_rip.off + 8 * i, size |-> 8], B)
           IN  byte(12) * 2^24 + byte(13) * 2^16 + byte(14) * 2^8 + byte(15) = LowWord(v)
<1> DEFINE f == Qpc["rgid_rip"]
           g(i) == [off |-> f.off + 8 * i, size |-> 8]
<1>1. f.off \in Nat /\ f.size = 128
  BY PathPlaces
<1>2. Fits(f, v) /\ B \cap Span(f) = DevxSet(f, v)
  OBVIOUS
<1> HIDE DEF f
<1>3. v \in Nat
  BY <1>1, <1>2, WidthIs, WeightType DEF Fits
<1>4. ASSUME NEW i \in Nat, NEW k \in Nat, 8 * i + k = 120
      PROVE  DevxGet(g(i), B) = (v \div Weight[k]) % 256
  <2> DEFINE h == g(i)
  <2>1. h.off = f.off + 8 * i /\ h.size = 8
    OBVIOUS
  <2> HIDE DEF h
  <2>2. h.off \in Nat /\ h.size \in Nat /\ f.off <= h.off /\ h.off + h.size + k = f.off + f.size
        /\ f.size \in Nat
    BY <1>1, <1>4, <2>1
  <2>3. DevxGet(h, B) = (v \div Weight[k]) % Weight[Width(h)]
    BY <1>1, <1>2, <2>2, GetSubField
  <2>4. Width(h) = 8
    <3>1. 8 <= Width(h) /\ Width(h) <= 8 /\ Width(h) \in Nat
      BY <2>1, WidthIs, NumberAssumption
    <3> QED BY <3>1
  <2>5. DevxGet(h, B) = (v \div Weight[k]) % 256
    BY <2>3, <2>4, FirstWeights
  <2> QED BY <2>5 DEF h
<1> HIDE DEF g
<1>5. /\ DevxGet(g(12), B) = (v \div Weight[24]) % 256
      /\ DevxGet(g(13), B) = (v \div Weight[16]) % 256
      /\ DevxGet(g(14), B) = (v \div Weight[8]) % 256
      /\ DevxGet(g(15), B) = (v \div Weight[0]) % 256
  BY <1>4
<1>6. v \div Weight[0] = v
  BY <1>3, WeightDef
<1> DEFINE b12 == DevxGet(g(12), B)
           b13 == DevxGet(g(13), B)
           b14 == DevxGet(g(14), B)
           b15 == DevxGet(g(15), B)
<1>7. /\ b12 = (v \div 16777216) % 256
      /\ b13 = (v \div 65536) % 256
      /\ b14 = (v \div 256) % 256
      /\ b15 = v % 256
  BY <1>5, <1>6, FirstWeights, MoreWeights, SMT
<1> HIDE DEF b12, b13, b14, b15
<1>8. LowWord(v) = ((v \div 16777216) % 256) * 16777216 + ((v \div 65536) % 256) * 65536
                   + ((v \div 256) % 256) * 256 + (v % 256)
  BY ONLY <1>3, BytesOf, SMT
<1>9. 2^24 = 16777216 /\ 2^16 = 65536 /\ 2^8 = 256
  BY ONLY SMT
<1>10. b12 * 2^24 + b13 * 2^16 + b14 * 2^8 + b15 = LowWord(v)
  BY ONLY <1>7, <1>8, <1>9, SMT
<1> QED BY ONLY <1>10, SMT DEF g, f, b12, b13, b14, b15

------------------------------------------------------------------------------
(***************************************************************************)
(* The inductive invariant.  It speaks of bits, where the properties speak *)
(* of the numbers read from them: what a field holds is then untouched by  *)
(* a step that leaves its bits alone, and parts of it can be read, too.    *)
(***************************************************************************)

\* Fields of a queue pair context as DEVX_SET left them.
Kept(B, values) == \A n \in DOMAIN values : B \cap Span(Qpc[n]) = DevxSet(Qpc[n], values[n])

\* The address the path was given, of the link layer and of the network.
PathKept(B, q, p) ==
    /\ link = "ETHERNET" =>
        B \cap Span(From(Qpc.rmac_47_32, 48)) =
            DevxSet(From(Qpc.rmac_47_32, 48), PortOf[Peer(q)].mac)
    /\ link = "ETHERNET" \/ p.is_global = 1 =>
        B \cap Span(Qpc.rgid_rip) = DevxSet(Qpc.rgid_rip, PortOf[Peer(q)].gid)

CountersAtZero == [hw_sq_wqebb_counter |-> 0, sw_sq_wqebb_counter |-> 0]

RightsGiven == [rae |-> 1, rwe |-> 1, rre |-> 1, atomic_mode |-> 1]

\* The calls behind a queue pair in a state.
CallsUpTo(s) ==
    {"create"} \cup (IF s >= InitState THEN {"init"} ELSE {})
               \cup (IF s >= RtrState THEN {"rtr"} ELSE {})
               \cup (IF s >= RtsState THEN {"rts"} ELSE {})

\* One created: its context holds what each call that succeeded put there.
QpInv(q) ==
    LET calls == DOMAIN asked[q]
        B == qpctx[q]
    IN  /\ cq # None
        /\ B \subseteq ContextBits
        /\ \E s \in 0 .. 3 : calls = CallsUpTo(s) /\ Kept(B, [state |-> s])
        /\ asked[q].create \in CreateParams
        /\ sqSize[q] = StoredSize(asked[q].create.sq_size)
        /\ Kept(B, QpValues(asked[q].create))
        /\ Kept(B, CountersAtZero)
        /\ "init" \in calls =>
            /\ \E p \in ConnParams : asked[q].init = [port_num |-> p.port_num]
            /\ Kept(B, RightsGiven)
        /\ "init" \in calls /\ "rtr" \notin calls =>
            Kept(B, [vhca_port_num |-> asked[q].init.port_num])
        /\ "rtr" \in calls =>
            /\ asked[q].rtr \in ConnParams
            /\ Kept(B, RtrValues(q, asked[q].rtr))
            /\ PathKept(B, q, asked[q].rtr)
            /\ Created(Peer(q))
        /\ "rts" \in calls =>
            /\ asked[q].rts = asked[q].rtr
            /\ Kept(B, RtsValues(asked[q].rts))

\* One not created.
NoQpInv(q) ==
    /\ asked[q] = None
    /\ sqSize[q] = 0
    /\ posts[q] = 0

\* What the five post calls ask for.
RequestOf(r) ==
    /\ r.opcode \in {SendOp, SendImmOp, RdmaWriteOp, RdmaWriteImmOp, RdmaReadOp}
    /\ r = [opcode |-> r.opcode, laddr |-> mr.addr, lkey |-> mr.lkey,
            raddr |-> IF NeedRaddr(r.opcode) THEN mr.addr + mr.length \div 2 ELSE 0,
            rkey |-> mr.rkey, length |-> mr.length \div 2,
            imm |-> IF HasImm(r.opcode) THEN 7 ELSE 0]

PostInv(q) ==
    /\ posts[q] \in 0 .. MaxPosts
    /\ posts[q] > 0 =>
        /\ "rts" \in DOMAIN asked[q]
        /\ mr # None
        /\ RequestOf(request[q])
        /\ slot[q] = Slot(WqeSegments(q, posts[q] - 1, request[q]))

CapsInv ==
    /\ page \in CapPages
    /\ caps # None => caps = [n \in CapNames |-> page[n] % 256]

CqInv ==
    cq # None =>
        /\ caps # None
        /\ cqctx \subseteq 0 .. Size(Cqc) - 1
        /\ \E log \in 0 .. 31 :
            /\ log <= page.log_max_cq_sz \/ (log = 9 /\ page.log_max_cq_sz < 9)
            /\ cq = [entries |-> Weight[log], bytes |-> 64 * Weight[log]]
            /\ DevxGet(Cqc.log_cq_size, cqctx) = log
            /\ \E p \in CqParams : returned = LeftByInitialize(p, log)
            /\ DevxGet(Cqc.cqe_sz, cqctx) = returned.cqe_sz

MrInv ==
    mr # None =>
        /\ mr = [lkey |-> KeyOf(Ids.mkey_index), rkey |-> KeyOf(Ids.mkey_index),
                 addr |-> Ids.addr, length |-> mr.length]
        /\ mr.length \in Lengths
        /\ mkctx \subseteq 0 .. Size(Mkc) - 1
        /\ \A n \in {"mkey_7_0", "pd", "start_addr", "len", "lr", "lw", "rr", "rw"} :
            DevxGet(Mkc[n], mkctx) = MkeyValues(mr.length)[n]

CmdInv ==
    /\ CapsInv
    /\ cq = None => cqctx = NoContext
    /\ CqInv
    /\ mr = None => mkctx = NoContext
    /\ MrInv
    /\ DOMAIN qpctx = Qps /\ DOMAIN sqSize = Qps /\ DOMAIN asked = Qps
    /\ DOMAIN posts = Qps /\ DOMAIN slot = Qps /\ DOMAIN request = Qps
    /\ \A q \in Qps :
        /\ IF Created(q) THEN QpInv(q) ELSE NoQpInv(q)
        /\ PostInv(q)

------------------------------------------------------------------------------
(***************************************************************************)
(* Lemmas about its parts.                                                 *)
(***************************************************************************)

\* A queue pair is connected to another one.
LEMMA PeerIs == \A q \in Qps : Peer(q) \in Qps /\ Peer(q) # q
<1> SUFFICES ASSUME NEW q \in Qps PROVE Peer(q) \in Qps /\ Peer(q) # q
  OBVIOUS
<1>1. \E p \in Qps : p # q
  <2> SUFFICES ASSUME \A p \in Qps : p = q PROVE FALSE
    OBVIOUS
  <2>1. Qps = {q}
    OBVIOUS
  <2>2. Cardinality({q}) = 1
    BY FS_Singleton
  <2>3. Cardinality(Qps) = 2
    BY CommandAssumption
  <2> QED BY <2>1, <2>2, <2>3
<1> QED BY <1>1 DEF Peer

\* What was kept is read, if it fits.
LEMMA KeptReads ==
    ASSUME NEW values, NEW B, Kept(B, values), NEW n \in DOMAIN values, n \in Leaves,
           Fits(Qpc[n], values[n])
    PROVE  DevxGet(Qpc[n], B) = values[n]
<1>1. Qpc[n].off \in Nat /\ Qpc[n].size \in Nat
  BY QpcLaid DEF Leaves
<1>2. B \cap Span(Qpc[n]) = DevxSet(Qpc[n], values[n])
  BY DEF Kept
<1> QED BY <1>1, <1>2, GetFitting

\* The states of a queue pair fit their field of the context.
LEMMA SmallFits ==
    /\ \A s \in 0 .. 3 : Fits(Qpc["state"], s)
    /\ Fits(Qpc["dbr_umem_valid"], 1)
<1>1. Qpc["state"].size \in Nat /\ Qpc["dbr_umem_valid"].size \in Nat
  BY LeafNames, QpcLaid DEF OwnNames, Leaves
<1>2. {"state", "dbr_umem_valid"} \subseteq DOMAIN QpcOwn
      /\ QpcOwn["state"].size >= 2 /\ QpcOwn["dbr_umem_valid"].size >= 1
  BY ContextAssumption DEF Has
<1>3. Qpc["state"].size >= 2 /\ Qpc["dbr_umem_valid"].size >= 1
  BY <1>2, QpcLaid
<1>4. ASSUME NEW s \in 0 .. 3 PROVE Fits(Qpc["state"], s)
  <2>1. s \in Nat /\ s < Weight[2]
    BY FirstWeights
  <2> QED BY <1>1, <1>3, <2>1, FitsFew
<1>5. Fits(Qpc["dbr_umem_valid"], 1)
  <2>1. 1 \in Nat /\ 1 < Weight[1]
    BY FirstWeights
  <2> QED BY <1>1, <1>3, <2>1, FitsFew
<1> QED BY <1>4, <1>5

\* A context that keeps a state reads as that state.
LEMMA StateRead ==
    ASSUME NEW s \in 0 .. 3, NEW B, Kept(B, [state |-> s])
    PROVE  DevxGet(Qpc.state, B) = s
<1> DEFINE values == [state |-> s]
<1>1. DOMAIN values = {"state"} /\ values["state"] = s
  OBVIOUS
<1>2. Kept(B, values)
  OBVIOUS
<1> HIDE DEF values
<1>3. "state" \in Leaves
  BY LeafNames DEF OwnNames
<1>4. DevxGet(Qpc["state"], B) = values["state"]
  BY <1>1, <1>2, <1>3, SmallFits, KeptReads
<1> QED BY <1>1, <1>4

\* A context that holds what a queue pair was created with is not empty.
LEMMA HasContext ==
    ASSUME NEW p, NEW B, Kept(B, QpValues(p))
    PROVE  B # NoContext
<1> DEFINE values == QpValues(p)
           f == Qpc["dbr_umem_valid"]
<1>1. "dbr_umem_valid" \in DOMAIN values /\ values["dbr_umem_valid"] = 1
  BY DEF QpValues
<1>2. "dbr_umem_valid" \in Leaves /\ Kept(B, values)
  BY LeafNames DEF OwnNames
<1> HIDE DEF values
<1>3. DevxGet(f, B) = 1
  <2>1. Fits(f, values["dbr_umem_valid"])
    BY <1>1, SmallFits
  <2> QED BY <1>1, <1>2, <2>1, KeptReads
<1> SUFFICES ASSUME B = {} PROVE FALSE
  BY DEF NoContext
<1>4. f.off \in Nat /\ f.size \in Nat
  BY <1>2, QpcLaid DEF Leaves
<1> HIDE DEF f
<1>5. DevxGet(f, B) = 0
  BY <1>4, GetNothing
<1> QED BY <1>3, <1>5

\* The calls of a state.
LEMMA CallsOf ==
    ASSUME NEW s \in 0 .. 3
    PROVE  /\ "create" \in CallsUpTo(s)
           /\ "init" \in CallsUpTo(s) <=> s >= 1
           /\ "rtr" \in CallsUpTo(s) <=> s >= 2
           /\ "rts" \in CallsUpTo(s) <=> s = 3
           /\ CallsUpTo(0) = {"create"}
           /\ CallsUpTo(1) = {"init"} \cup CallsUpTo(0)
           /\ CallsUpTo(2) = {"rtr"} \cup CallsUpTo(1)
           /\ CallsUpTo(3) = {"rts"} \cup CallsUpTo(2)
BY DEF CallsUpTo, InitState, RtrState, RtsState

\* What the values of a command depend on does not change once queue pairs are there.
LEMMA ValuesStay ==
    ASSUME UNCHANGED <<link, caps>>
    PROVE  /\ \A p : QpValues(p)' = QpValues(p)
           /\ \A q, p : RtrValues(q, p)' = RtrValues(q, p)
           /\ \A B, q, p : PathKept(B, q, p)' = PathKept(B, q, p)
<1>1. \A p : QpValues(p)' = QpValues(p)
  BY DEF QpValues
<1>2. \A q, p : RtrValues(q, p)' = RtrValues(q, p)
  BY DEF RtrValues
<1>3. \A B, q, p : PathKept(B, q, p)' = PathKept(B, q, p)
  BY DEF PathKept
<1> QED BY <1>1, <1>2, <1>3

\* A queue pair the step is not about.
LEMMA QpFrame ==
    ASSUME NEW q \in Qps, UNCHANGED <<link, caps>>, cq # None => cq' # None,
           qpctx'[q] = qpctx[q], asked'[q] = asked[q], sqSize'[q] = sqSize[q],
           Created(Peer(q)) => Created(Peer(q))',
           QpInv(q)
    PROVE  QpInv(q)'
BY ValuesStay DEF QpInv

\* The last request of a queue pair stays as it is while others are posted.
LEMMA PostFrame ==
    ASSUME NEW q \in Qps, posts'[q] = posts[q], slot'[q] = slot[q], request'[q] = request[q],
           mr # None => mr' = mr,
           "rts" \in DOMAIN asked[q] => "rts" \in DOMAIN asked'[q],
           PostInv(q)
    PROVE  PostInv(q)'
BY DEF PostInv, RequestOf

------------------------------------------------------------------------------
(***************************************************************************)
(* It holds in the beginning, and every step preserves it.                 *)
(***************************************************************************)

\* Nothing has been asked, so nothing has been lost.
LEMMA CmdInvInit == CmdInit => CmdInv
<1> SUFFICES ASSUME CmdInit PROVE CmdInv
  OBVIOUS
<1>1. CapsInv /\ CqInv /\ MrInv
  BY DEF CmdInit, CapsInv, CqInv, MrInv
<1>2. ASSUME NEW q \in Qps PROVE ~Created(q) /\ NoQpInv(q)
  BY DEF CmdInit, Created, NoQpInv
<1>3. ASSUME NEW q \in Qps PROVE PostInv(q)
  BY CommandAssumption DEF CmdInit, PostInv
<1> QED BY <1>1, <1>2, <1>3 DEF CmdInit, CmdInv

\* Before there is a completion queue, there is no queue pair.
LEMMA NoneCreated ==
    ASSUME CmdInv, cq = None
    PROVE  \A q \in Qps : ~Created(q) /\ NoQpInv(q)
BY DEF CmdInv, QpInv

\* Reading the device's capabilities keeps the invariant.
LEMMA QueryKeeps == CmdInv /\ QueryHcaCapabilities => CmdInv'
<1> SUFFICES ASSUME CmdInv, QueryHcaCapabilities PROVE CmdInv'
  OBVIOUS
<1>1. /\ caps = None
      /\ caps' = CapsFrom(QueryHcaCapAnswer)
      /\ UNCHANGED <<link, page, cqctx, cq, returned, cqHwParams, mkctx, mr, qpctx, sqSize, asked, posts, slot, request>>
  BY DEF QueryHcaCapabilities, qpVars, wqeVars, cqVars
<1>2. cq = None
  BY <1>1 DEF CmdInv, CqInv
<1>3. CapsInv'
  BY <1>1, CapsRead DEF CmdInv, CapsInv
<1>4. CqInv' /\ MrInv'
  BY <1>1, <1>2 DEF CmdInv, CqInv, MrInv
<1>5. ASSUME NEW q \in Qps PROVE ~Created(q)' /\ NoQpInv(q)'
  BY <1>1, <1>2, NoneCreated DEF Created, NoQpInv
<1>6. ASSUME NEW q \in Qps PROVE PostInv(q)'
  BY <1>1, PostFrame DEF CmdInv
<1> QED BY <1>1, <1>3, <1>4, <1>5, <1>6 DEF CmdInv

\* What the code makes of the size asked for the device can do.
LEMMA ClampedFits ==
    ASSUME CapsInv, caps # None, NEW p \in CqParams
    PROVE  /\ ClampedLogSize(p.log_cq_size) \in 0 .. 31
           /\ \/ ClampedLogSize(p.log_cq_size) <= page.log_max_cq_sz
              \/ ClampedLogSize(p.log_cq_size) = 9 /\ page.log_max_cq_sz < 9
           /\ Fits(Cqc.log_cq_size, ClampedLogSize(p.log_cq_size))
<1> DEFINE f == Cqc["log_cq_size"]
           n == "log_max_cq_sz"
           most == page[n]
<1>1. f.size = 5 /\ Fits(f, p.log_cq_size)
  BY ContextAssumption, CommandAssumption
<1>2. Width(f) = 5
  <2>1. 5 \in Nat /\ f.size \in Nat
    BY <1>1
  <2>2. 5 <= Width(f) /\ Width(f) <= 5 /\ Width(f) \in Nat
    <3> HIDE DEF f
    <3> QED BY <1>1, <2>1, WidthIs, NumberAssumption
  <2> QED BY <2>2
<1>3. \A v : Fits(f, v) <=> v \in 0 .. 31
  BY <1>2, FirstWeights DEF Fits
<1>4. n \in CapNames /\ page \in CapPages
  BY DEF CapNames, CapsInv
<1>5. most \in Nat
  <2>1. Fits(HcaCap[n], most)
    BY <1>4, CommandAssumption DEF AllFit
  <2>2. HcaCap[n].size \in Nat
    BY <1>4, ContextAssumption, StructuresLaid DEF WellLaid
  <2>3. Weight[Width(HcaCap[n])] \in Nat
    BY <2>2, WidthIs, WeightType
  <2>4. most \in Nat
    <3> HIDE DEF most
    <3> QED BY <2>1, <2>3 DEF Fits
  <2> QED BY <2>4
<1>6. caps[n] = most % 256
  BY <1>4 DEF CapsInv
<1>7. caps[n] \in Nat /\ caps[n] <= most
  <2> HIDE DEF most
  <2>1. most \div 256 \in Nat /\ most % 256 \in Nat /\ most = 256 * (most \div 256) + (most % 256)
    BY <1>5, DivMod
  <2> QED BY <1>6, <2>1
<1>8. p.log_cq_size \in 0 .. 31
  BY <1>1, <1>3
<1>9. ClampedLogSize(p.log_cq_size) =
          IF p.log_cq_size = 0 \/ p.log_cq_size > caps[n] THEN 9 ELSE p.log_cq_size
  BY DEF ClampedLogSize
<1> HIDE DEF f, most
<1>10. /\ ClampedLogSize(p.log_cq_size) \in 0 .. 31
       /\ ClampedLogSize(p.log_cq_size) <= most \/ (ClampedLogSize(p.log_cq_size) = 9 /\ most < 9)
  BY <1>5, <1>7, <1>8, <1>9
<1> QED BY <1>3, <1>10 DEF f, most

\* Creating the completion queue keeps the invariant.
LEMMA CqKeeps == ASSUME NEW p \in CqParams PROVE CmdInv /\ InitializeCq(p) => CmdInv'
<1> SUFFICES ASSUME CmdInv, InitializeCq(p) PROVE CmdInv'
  OBVIOUS
<1> DEFINE log == ClampedLogSize(p.log_cq_size)
           values == CqValues(p, log)
           C == DevxSetAll(Cqc, values)
<1>1. /\ caps # None /\ cq = None
      /\ cqctx' = C
      /\ cq' = [entries |-> Weight[log], bytes |-> 64 * Weight[log]]
      /\ returned' = LeftByInitialize(p, log)
      /\ UNCHANGED <<link, page, caps, cqHwParams, mkctx, mr, qpctx, sqSize, asked, posts, slot, request>>
  BY CqRead DEF InitializeCq, qpVars, wqeVars
<1>2. CapsInv
  BY DEF CmdInv
<1>3. /\ log \in 0 .. 31 /\ Fits(Cqc["log_cq_size"], log)
      /\ log <= page.log_max_cq_sz \/ (log = 9 /\ page.log_max_cq_sz < 9)
  BY <1>1, <1>2, ClampedFits
<1>4. /\ DOMAIN values = {"c_eqn", "uar_page", "log_cq_size", "cqe_sz", "cqe_comp_en",
                          "cq_period_mode", "cq_period", "dbr_umem_valid", "dbr_umem_id"}
      /\ values["log_cq_size"] = log /\ values["cqe_sz"] = p.cqe_sz
  <2> HIDE DEF log
  <2> QED BY DEF CqValues
<1>5. {"c_eqn", "uar_page", "log_cq_size", "cqe_sz", "cqe_comp_en",
       "cq_period_mode", "cq_period", "dbr_umem_valid", "dbr_umem_id"} \subseteq DOMAIN Cqc
  BY ContextAssumption DEF Has
<1>6. WellLaid(Cqc)
  BY StructuresLaid
<1> HIDE DEF values, log
<1>7. /\ C \subseteq 0 .. Size(Cqc) - 1
      /\ DevxGet(Cqc["log_cq_size"], C) = log
  BY <1>3, <1>4, <1>5, <1>6, StructureHolds
<1>13. DevxGet(Cqc["cqe_sz"], C) = p.cqe_sz
  <2>1. Fits(Cqc["cqe_sz"], p.cqe_sz)
    BY CommandAssumption
  <2> QED BY <2>1, <1>4, <1>5, <1>6, StructureHolds
<1>14. returned'.cqe_sz = p.cqe_sz
  BY <1>1, CommandAssumption DEF LeftByInitialize, DefaultCqParams
<1> HIDE DEF C
<1>8. CqInv'
  BY <1>1, <1>3, <1>7, <1>13, <1>14 DEF CqInv
<1>9. CapsInv' /\ MrInv'
  BY <1>1 DEF CmdInv, CapsInv, MrInv
<1>10. ASSUME NEW q \in Qps PROVE ~Created(q)' /\ NoQpInv(q)'
  BY <1>1, NoneCreated DEF Created, NoQpInv
<1>11. ASSUME NEW q \in Qps PROVE PostInv(q)'
  BY <1>1, PostFrame DEF CmdInv
<1>12. cq' # None
  BY <1>1 DEF None
<1> QED BY <1>1, <1>8, <1>9, <1>10, <1>11, <1>12 DEF CmdInv

\* A step that leaves everything but the member poll_cq goes by as it is.
LEMMA OthersKeep ==
    ASSUME CmdInv, UNCHANGED <<link, page, caps, cqctx, cq, returned, mkctx, mr, qpctx, sqSize,
                               asked, posts, slot, request>>
    PROVE  CmdInv'
<1>2. CapsInv' /\ CqInv' /\ MrInv'
  BY DEF CmdInv, CapsInv, CqInv, MrInv
<1>3. ASSUME NEW q \in Qps PROVE IF Created(q)' THEN QpInv(q)' ELSE NoQpInv(q)'
  <2>1. Created(q)' = Created(q) /\ Created(Peer(q))' = Created(Peer(q))
    BY DEF Created
  <2>2. Created(q) => QpInv(q)'
    BY <2>1, QpFrame DEF CmdInv
  <2> QED BY <2>1, <2>2 DEF CmdInv, NoQpInv
<1>4. ASSUME NEW q \in Qps PROVE PostInv(q)'
  BY PostFrame DEF CmdInv
<1> QED BY <1>2, <1>3, <1>4 DEF CmdInv

\* Neither the queues nor the device know what set_cq_hw_params was given.
LEMMA SetKeeps == ASSUME NEW p PROVE CmdInv /\ SetCqHwParams(p) => CmdInv'
<1> SUFFICES ASSUME CmdInv, SetCqHwParams(p) PROVE CmdInv'
  OBVIOUS
<1>1. UNCHANGED <<link, page, caps, cqctx, cq, returned, mkctx, mr, qpctx, sqSize, asked,
                  posts, slot, request>>
  BY DEF SetCqHwParams, qpVars, wqeVars
<1> QED BY <1>1, OthersKeep

\* Registering the memory region keeps the invariant.
LEMMA MrKeeps == ASSUME NEW length \in Lengths PROVE CmdInv /\ InitializeMr(length) => CmdInv'
<1> SUFFICES ASSUME CmdInv, InitializeMr(length) PROVE CmdInv'
  OBVIOUS
<1> DEFINE values == MkeyValues(length)
           C == DevxSetAll(Mkc, values)
           out == [mkey_index |-> Ids.mkey_index]
           index == DevxGet(CreateMkeyOut["mkey_index"], DevxSetAll(CreateMkeyOut, out))
           Read == {"mkey_7_0", "pd", "start_addr", "len", "lr", "lw", "rr", "rw"}
<1>1. /\ mr = None
      /\ mkctx' = C
      /\ mr' = [lkey |-> KeyOf(index), rkey |-> KeyOf(index), addr |-> Ids.addr, length |-> length]
      /\ UNCHANGED <<link, page, caps, cqctx, cq, returned, cqHwParams, qpctx, sqSize, asked, posts, slot, request>>
  BY MkeyRead DEF InitializeMr, qpVars, wqeVars, cqVars
<1>2. index = Ids.mkey_index
  <2>1. DOMAIN out = {"mkey_index"} /\ out["mkey_index"] = Ids.mkey_index
    OBVIOUS
  <2>2. "mkey_index" \in DOMAIN CreateMkeyOut /\ WellLaid(CreateMkeyOut)
    BY CommandLayoutAssumption, StructuresLaid DEF Has
  <2>3. Fits(CreateMkeyOut["mkey_index"], Ids.mkey_index)
    BY CommandAssumption
  <2> HIDE DEF out
  <2> QED BY <2>1, <2>2, <2>3, StructureHolds
<1>3. /\ DOMAIN values = {"access_mode_1_0", "a", "rw", "rr", "lw", "lr", "pd", "qpn", "mkey_7_0",
                          "start_addr", "len", "translations_octword_size", "log_page_size"}
      /\ values["mkey_7_0"] = 239 /\ values["pd"] = Ids.pdn
      /\ values["start_addr"] = Ids.addr /\ values["len"] = length
      /\ values["lr"] = 1 /\ values["lw"] = 1 /\ values["rr"] = 1 /\ values["rw"] = 1
  BY DEF MkeyValues, KeyByte
<1>4. /\ {"access_mode_1_0", "a", "rw", "rr", "lw", "lr", "pd", "qpn", "mkey_7_0",
          "start_addr", "len", "translations_octword_size", "log_page_size"} \subseteq DOMAIN Mkc
      /\ Mkc["mkey_7_0"].size >= 8 /\ Mkc["lr"].size >= 1 /\ Mkc["lw"].size >= 1
      /\ Mkc["rr"].size >= 1 /\ Mkc["rw"].size >= 1
  BY ContextAssumption DEF Has
<1>5. WellLaid(Mkc)
  BY StructuresLaid
<1>6. \A n \in DOMAIN Mkc : Mkc[n].size \in Nat
  BY <1>5 DEF WellLaid
<1>7. /\ Fits(Mkc["pd"], Ids.pdn) /\ Fits(Mkc["start_addr"], Ids.addr) /\ Fits(Mkc["len"], length)
  BY CommandAssumption DEF AllFit
<1>8. /\ Fits(Mkc["mkey_7_0"], 239) /\ Fits(Mkc["lr"], 1) /\ Fits(Mkc["lw"], 1)
      /\ Fits(Mkc["rr"], 1) /\ Fits(Mkc["rw"], 1)
  <2>1. 239 \in Nat /\ 239 < Weight[8] /\ 1 \in Nat /\ 1 < Weight[1]
    BY FirstWeights
  <2> QED BY <1>4, <1>6, <2>1, FitsFew
<1> HIDE DEF values
<1>9. \A n \in Read : n \in DOMAIN values /\ Fits(Mkc[n], values[n])
  BY <1>3, <1>7, <1>8
<1>10. /\ C \subseteq 0 .. Size(Mkc) - 1
       /\ \A n \in Read : DevxGet(Mkc[n], C) = values[n]
  <2>1. DOMAIN values \subseteq DOMAIN Mkc
    BY <1>3, <1>4
  <2> HIDE DEF Read
  <2> QED BY <1>5, <1>9, <2>1, StructureHolds
<1> HIDE DEF C, index
<1>11. MrInv'
  <2>1. mr'.length = length
    BY <1>1
  <2>2. mr' = [lkey |-> KeyOf(Ids.mkey_index), rkey |-> KeyOf(Ids.mkey_index),
               addr |-> Ids.addr, length |-> length]
    BY <1>1, <1>2
  <2>3. \A n \in Read : DevxGet(Mkc[n], mkctx') = MkeyValues(mr'.length)[n]
    BY <1>1, <1>10, <2>1 DEF values
  <2>4. mkctx' \subseteq 0 .. Size(Mkc) - 1
    BY <1>1, <1>10
  <2> QED BY <2>1, <2>2, <2>3, <2>4 DEF MrInv
<1>12. CapsInv' /\ CqInv'
  BY <1>1 DEF CmdInv, CapsInv, CqInv
<1>13. ASSUME NEW q \in Qps PROVE Created(q)' = Created(q) /\ (Created(q) => QpInv(q)')
                                  /\ (~Created(q) => NoQpInv(q)')
  <2>1. Created(q)' = Created(q) /\ Created(Peer(q))' = Created(Peer(q))
    BY <1>1 DEF Created
  <2>2. Created(q) => QpInv(q)'
    BY <1>1, <2>1, QpFrame DEF CmdInv
  <2>3. ~Created(q) => NoQpInv(q)'
    BY <1>1 DEF CmdInv, NoQpInv
  <2> QED BY <2>1, <2>2, <2>3
<1>14. ASSUME NEW q \in Qps PROVE PostInv(q)'
  BY <1>1, PostFrame DEF CmdInv
<1>15. mr' # None
  BY <1>1 DEF None
<1> QED BY <1>1, <1>11, <1>12, <1>13, <1>14, <1>15 DEF CmdInv

\* What has to be shown of the queue pair a step is about.
LEMMA QpInvAfter ==
    ASSUME NEW q \in Qps, UNCHANGED <<link, caps>>, cq' # None,
           NEW B, B = qpctx'[q], NEW a, a = asked'[q], NEW s \in 0 .. 3,
           B \subseteq ContextBits, DOMAIN a = CallsUpTo(s), Kept(B, [state |-> s]),
           a.create \in CreateParams, sqSize'[q] = StoredSize(a.create.sq_size),
           Kept(B, QpValues(a.create)), Kept(B, CountersAtZero),
           s >= 1 => /\ \E p \in ConnParams : a.init = [port_num |-> p.port_num]
                     /\ Kept(B, RightsGiven),
           s = 1 => Kept(B, [vhca_port_num |-> a.init.port_num]),
           s >= 2 => /\ a.rtr \in ConnParams
                     /\ Kept(B, RtrValues(q, a.rtr))
                     /\ PathKept(B, q, a.rtr)
                     /\ Created(Peer(q))',
           s = 3 => a.rts = a.rtr /\ Kept(B, RtsValues(a.rts))
    PROVE  QpInv(q)'
<1>1. /\ "init" \in DOMAIN a <=> s >= 1
      /\ "rtr" \in DOMAIN a <=> s >= 2
      /\ "rts" \in DOMAIN a <=> s = 3
  BY CallsOf
<1>2. "init" \in DOMAIN a /\ "rtr" \notin DOMAIN a => s = 1
  BY <1>1
<1> QED BY <1>1, <1>2, ValuesStay DEF QpInv

\* A new queue pair.
LEMMA CreateKeeps ==
    ASSUME NEW q \in Qps, NEW p \in CreateParams
    PROVE  CmdInv /\ InitializeQp(q, p) => CmdInv'
<1> SUFFICES ASSUME CmdInv, InitializeQp(q, p) PROVE CmdInv'
  OBVIOUS
<1> DEFINE values == QpValues(p)
           C == DevxSetAll(Qpc, values)
<1>0. Extract(CreateQpIn.qpc, CreateQpCommand(p)) = C
  BY QpRead
<1> HIDE DEF C
<1>1. /\ cq # None /\ ~Created(q)
      /\ qpctx' = [qpctx EXCEPT ![q] = C]
      /\ sqSize' = [sqSize EXCEPT ![q] = StoredSize(p.sq_size)]
      /\ asked' = [asked EXCEPT ![q] = [create |-> p]]
      /\ UNCHANGED <<link, page, caps, cqctx, cq, returned, cqHwParams, mkctx, mr, posts, slot, request>>
  BY <1>0 DEF InitializeQp, wqeVars, cqVars
<1>2. DOMAIN qpctx = Qps /\ DOMAIN sqSize = Qps /\ DOMAIN asked = Qps
  BY DEF CmdInv
<1>4. DOMAIN values \subseteq Leaves /\ DOMAIN values \cap {"state", "hw_sq_wqebb_counter",
                                                           "sw_sq_wqebb_counter"} = {}
  BY QpRead
<1>5. {"state", "hw_sq_wqebb_counter", "sw_sq_wqebb_counter"} \subseteq Leaves
  BY LeafNames DEF OwnNames
<1> HIDE DEF values
<1>6. /\ C \subseteq ContextBits
      /\ \A n \in Leaves : C \cap Span(Qpc[n]) =
             IF n \in DOMAIN values THEN DevxSet(Qpc[n], values[n]) ELSE {}
  BY <1>4, ContextHolds DEF ContextBits, C
<1>7. Kept(C, values)
  BY <1>4, <1>6 DEF Kept
<1>8. \A n \in {"state", "hw_sq_wqebb_counter", "sw_sq_wqebb_counter"} :
        C \cap Span(Qpc[n]) = DevxSet(Qpc[n], 0)
  <2> SUFFICES ASSUME NEW n \in Leaves, n \notin DOMAIN values
               PROVE  C \cap Span(Qpc[n]) = DevxSet(Qpc[n], 0)
    BY <1>4, <1>5
  <2>1. Qpc[n].size \in Nat
    BY QpcLaid DEF Leaves
  <2> QED BY <2>1, <1>6, SetZero
<1>9. Kept(C, [state |-> 0]) /\ Kept(C, CountersAtZero)
  BY <1>8 DEF Kept, CountersAtZero
<1>10. Created(q)'
  <2>1. C # NoContext
    BY <1>7, HasContext DEF values
  <2> QED BY <1>1, <1>2, <2>1 DEF Created
<1> HIDE DEF C
<1>11. QpInv(q)'
  <2>1. qpctx'[q] = C /\ sqSize'[q] = StoredSize(p.sq_size) /\ asked'[q] = [create |-> p]
    BY <1>1, <1>2
  <2>2. DOMAIN asked'[q] = CallsUpTo(0) /\ asked'[q].create = p
    BY <2>1, CallsOf
  <2>3. UNCHANGED <<link, caps>> /\ cq' # None
    BY <1>1
  <2>4. Kept(C, QpValues(asked'[q].create))
    BY <1>7, <2>2 DEF values
  <2>5. \A B : B = C =>
            /\ B \subseteq ContextBits /\ Kept(B, [state |-> 0])
            /\ Kept(B, QpValues(asked'[q].create)) /\ Kept(B, CountersAtZero)
    BY <1>6, <1>9, <2>4
  <2>6. 0 \in 0 .. 3 /\ ~(0 >= 1) /\ ~(0 >= 2) /\ 0 # 1 /\ 0 # 3
    OBVIOUS
  <2>7. /\ qpctx'[q] = C /\ asked'[q].create \in CreateParams
        /\ sqSize'[q] = StoredSize(asked'[q].create.sq_size)
    BY <2>1, <2>2
  <2> QED BY ONLY <2>2, <2>3, <2>5, <2>6, <2>7, QpInvAfter, Zenon
<1>12. ASSUME NEW r \in Qps, r # q
       PROVE  Created(r)' = Created(r) /\ (Created(r) => QpInv(r)') /\ (~Created(r) => NoQpInv(r)')
  <2>1. qpctx'[r] = qpctx[r] /\ sqSize'[r] = sqSize[r] /\ asked'[r] = asked[r] /\ posts' = posts
    BY <1>1, <1>2, <1>12
  <2>2. Created(r)' = Created(r)
    BY <2>1 DEF Created
  <2>3. Created(Peer(r)) => Created(Peer(r))'
    <3>1. CASE Peer(r) = q
      BY <3>1, <1>1
    <3>2. CASE Peer(r) # q
      <4>1. qpctx'[Peer(r)] = qpctx[Peer(r)]
        BY <3>2, <1>1, <1>2, PeerIs
      <4> QED BY <4>1 DEF Created
    <3> QED BY <3>1, <3>2
  <2>4. Created(r) => QpInv(r)'
    BY <1>1, <2>1, <2>3, QpFrame DEF CmdInv
  <2>5. ~Created(r) => NoQpInv(r)'
    BY <2>1 DEF CmdInv, NoQpInv
  <2> QED BY <2>2, <2>4, <2>5
<1>13. ASSUME NEW r \in Qps PROVE PostInv(r)'
  <2>1. PostInv(r)
    BY DEF CmdInv
  <2>2. CASE r = q
    <3>1. posts[q] = 0
      BY <1>1 DEF CmdInv, NoQpInv
    <3> QED BY <1>1, <2>1, <2>2, <3>1 DEF PostInv
  <2>3. CASE r # q
    <3>1. asked'[r] = asked[r]
      BY <1>1, <1>2, <2>3
    <3> QED BY <1>1, <2>1, <3>1, PostFrame
  <2> QED BY <2>2, <2>3
<1>14. CapsInv' /\ CqInv' /\ MrInv'
  BY <1>1 DEF CmdInv, CapsInv, CqInv, MrInv
<1>15. ASSUME NEW r \in Qps PROVE IF Created(r)' THEN QpInv(r)' ELSE NoQpInv(r)'
  BY <1>10, <1>11, <1>12, <1>15 DEF CmdInv
<1>16. DOMAIN qpctx' = Qps /\ DOMAIN sqSize' = Qps /\ DOMAIN asked' = Qps
  BY <1>1, <1>2
<1> QED BY <1>1, <1>13, <1>14, <1>15, <1>16 DEF CmdInv

\* A step of a connection, as the device takes it: what changes of the queue pair.
LEMMA StepTaken ==
    ASSUME CmdInv, NEW q \in Qps, QpInv(q), NEW op \in StepOps, NEW cmd, NEW ctx,
           ctx \in SUBSET ContextBits,
           DevxGet(CreateQpIn.opcode, cmd) = op,
           Extract(CommandLayout(op).qpc, cmd) = ctx,
           NEW from \in 0 .. 3, NEW to \in 0 .. 3, NEW step, step \notin CallsUpTo(from), NEW p,
           Modify(q, cmd, from, to, step, p)
    PROVE  /\ qpctx'[q] \subseteq ContextBits
           /\ Kept(qpctx'[q], [state |-> to])
           /\ \A n \in Leaves \ {"state"} :
                  qpctx'[q] \cap Span(Qpc[n]) = IF Taken(op, n) THEN ctx \cap Span(Qpc[n])
                                                ELSE qpctx[q] \cap Span(Qpc[n])
           /\ DOMAIN asked[q] = CallsUpTo(from)
           /\ DOMAIN asked'[q] = {step} \cup CallsUpTo(from)
           /\ asked'[q][step] = p
           /\ \A n \in CallsUpTo(from) : asked'[q][n] = asked[q][n]
<1>1. /\ MayModify(q, cmd, from)
      /\ qpctx' = [qpctx EXCEPT ![q] = Modified(q, cmd, to)]
      /\ asked' = [asked EXCEPT ![q] = Joined([s \in {step} |-> p], asked[q])]
  BY DEF Modify
<1>2. qpctx'[q] = Modified(q, cmd, to) /\ asked'[q] = Joined([s \in {step} |-> p], asked[q])
  BY <1>1 DEF CmdInv
<1>3. /\ \A n \in Leaves :
           Modified(q, cmd, to) \cap Span(Qpc[n]) =
               IF n = "state" THEN DevxSet(Qpc["state"], to)
               ELSE IF Taken(op, n) THEN ctx \cap Span(Qpc[n])
               ELSE qpctx[q] \cap Span(Qpc[n])
      /\ Modified(q, cmd, to) \subseteq qpctx[q] \cup ctx \cup Span(Qpc["state"])
  BY ModifiedHolds
<1>4. "state" \in Leaves /\ Span(Qpc["state"]) \subseteq ContextBits
  <2>1. "state" \in Leaves
    BY LeafNames DEF OwnNames
  <2>2. /\ Qpc["state"].off \in Nat /\ Qpc["state"].size \in Nat /\ Size(Qpc) \in Nat
        /\ Qpc["state"].off + Qpc["state"].size <= Size(Qpc)
    BY <2>1, QpcLaid DEF Leaves
  <2> QED BY <2>1, <2>2 DEF Span, ContextBits
<1>5. qpctx'[q] \subseteq ContextBits
  BY <1>2, <1>3, <1>4 DEF QpInv
<1>6. Kept(qpctx'[q], [state |-> to])
  BY <1>2, <1>3, <1>4 DEF Kept
<1>7. DOMAIN asked[q] = CallsUpTo(from)
  <2>1. PICK s \in 0 .. 3 : DOMAIN asked[q] = CallsUpTo(s) /\ Kept(qpctx[q], [state |-> s])
    BY DEF QpInv
  <2>2. DevxGet(Qpc.state, qpctx[q]) = s
    BY <2>1, StateRead
  <2>3. s = from
    BY <1>1, <2>2 DEF MayModify, StateOf
  <2> QED BY <2>1, <2>3
<1>8. /\ DOMAIN asked'[q] = {step} \cup CallsUpTo(from)
      /\ asked'[q][step] = p
      /\ \A n \in CallsUpTo(from) : asked'[q][n] = asked[q][n]
  BY <1>2, <1>7 DEF Joined
<1> QED BY <1>2, <1>3, <1>5, <1>6, <1>7, <1>8

\* The rest of the program is as it was.
LEMMA ModifyKeeps ==
    ASSUME CmdInv, NEW q \in Qps, Created(q), NEW cmd, NEW from, NEW to, NEW step, NEW p,
           Modify(q, cmd, from, to, step, p), QpInv(q)', DOMAIN asked[q] \subseteq DOMAIN asked'[q]
    PROVE  CmdInv'
<1>1. /\ qpctx' = [qpctx EXCEPT ![q] = Modified(q, cmd, to)]
      /\ asked' = [asked EXCEPT ![q] = Joined([s \in {step} |-> p], asked[q])]
      /\ UNCHANGED <<link, page, caps, cqctx, cq, returned, cqHwParams, mkctx, mr, sqSize, posts, slot, request>>
  BY DEF Modify, wqeVars, cqVars
<1>2. DOMAIN qpctx = Qps /\ DOMAIN sqSize = Qps /\ DOMAIN asked = Qps
  BY DEF CmdInv
<1>3. Created(q)'
  <2>1. \A r : QpValues(r)' = QpValues(r)
    BY <1>1, ValuesStay
  <2>2. Kept(qpctx[q], QpValues(asked[q].create))'
    BY DEF QpInv
  <2>3. Kept(qpctx'[q], QpValues(asked'[q].create))
    BY <2>1, <2>2
  <2>4. qpctx'[q] # NoContext
    BY <2>3, HasContext
  <2> QED BY <2>4 DEF Created
<1>4. ASSUME NEW r \in Qps, r # q
      PROVE  Created(r)' = Created(r) /\ (Created(r) => QpInv(r)') /\ (~Created(r) => NoQpInv(r)')
  <2>1. qpctx'[r] = qpctx[r] /\ sqSize'[r] = sqSize[r] /\ asked'[r] = asked[r] /\ posts' = posts
    BY <1>1, <1>2, <1>4
  <2>2. Created(r)' = Created(r)
    BY <2>1 DEF Created
  <2>3. Created(Peer(r)) => Created(Peer(r))'
    <3>1. CASE Peer(r) = q
      BY <3>1, <1>3
    <3>2. CASE Peer(r) # q
      <4>1. qpctx'[Peer(r)] = qpctx[Peer(r)]
        BY <3>2, <1>1, <1>2, PeerIs
      <4> QED BY <4>1 DEF Created
    <3> QED BY <3>1, <3>2
  <2>4. Created(r) => QpInv(r)'
    BY <1>1, <2>1, <2>3, QpFrame DEF CmdInv
  <2>5. ~Created(r) => NoQpInv(r)'
    BY <2>1 DEF CmdInv, NoQpInv
  <2> QED BY <2>2, <2>4, <2>5
<1>5. ASSUME NEW r \in Qps PROVE PostInv(r)'
  <2>1. PostInv(r)
    BY DEF CmdInv
  <2>2. "rts" \in DOMAIN asked[r] => "rts" \in DOMAIN asked'[r]
    <3>1. CASE r = q
      BY <3>1
    <3>2. CASE r # q
      BY <3>2, <1>1, <1>2
    <3> QED BY <3>1, <3>2
  <2> QED BY <1>1, <2>1, <2>2, PostFrame
<1>6. CapsInv' /\ CqInv' /\ MrInv'
  BY <1>1 DEF CmdInv, CapsInv, CqInv, MrInv
<1>7. ASSUME NEW r \in Qps PROVE IF Created(r)' THEN QpInv(r)' ELSE NoQpInv(r)'
  BY <1>3, <1>4, <1>7 DEF CmdInv
<1>8. DOMAIN qpctx' = Qps /\ DOMAIN sqSize' = Qps /\ DOMAIN asked' = Qps
  BY <1>1, <1>2
<1> QED BY <1>1, <1>5, <1>6, <1>7, <1>8 DEF CmdInv

\* The fields each step takes.
LEMMA TakenIs ==
    /\ \A n : Taken(Rst2InitQpOp, n) <=>
           n \in {"pm_state", "rre", "rwe", "rae", "atomic_mode", "pkey_index", "vhca_port_num"}
    /\ \A n : Taken(Init2RtrQpOp, n) <=>
           n \in {"mtu", "log_msg_max", "remote_qpn", "primary_address_path"} \cup InPath
    /\ \A n : Taken(Rtr2RtsQpOp, n) <=>
           n \in {"log_ack_req_freq", "retry_count", "rnr_retry", "next_send_psn"}
BY TakenNames DEF Taken

\* What a step does not take it leaves, and what it takes again may say the same.
LEMMA KeptThrough ==
    ASSUME NEW op, NEW ctx, NEW old, NEW B,
           \A n \in Leaves \ {"state"} :
               B \cap Span(Qpc[n]) = IF Taken(op, n) THEN ctx \cap Span(Qpc[n])
                                     ELSE old \cap Span(Qpc[n]),
           NEW values, DOMAIN values \subseteq Leaves \ {"state"}, Kept(old, values),
           \A n \in DOMAIN values : Taken(op, n) =>
               ctx \cap Span(Qpc[n]) = DevxSet(Qpc[n], values[n])
    PROVE  Kept(B, values)
BY DEF Kept

\* The names of what the calls keep.
LEMMA KeptNames ==
    /\ \A p : DOMAIN QpValues(p) \subseteq Leaves \ {"state"}
    /\ DOMAIN CountersAtZero = {"hw_sq_wqebb_counter", "sw_sq_wqebb_counter"}
    /\ DOMAIN RightsGiven = {"rae", "rwe", "rre", "atomic_mode"}
    /\ DOMAIN CountersAtZero \cup DOMAIN RightsGiven \subseteq Leaves \ {"state"}
    /\ \A q, p : DOMAIN RtrValues(q, p) \subseteq Leaves \ {"state"}
    /\ \A p : DOMAIN RtsValues(p) \subseteq Leaves \ {"state"}
<1>1. DOMAIN CountersAtZero = {"hw_sq_wqebb_counter", "sw_sq_wqebb_counter"}
  BY DEF CountersAtZero
<1>2. DOMAIN RightsGiven = {"rae", "rwe", "rre", "atomic_mode"}
  BY DEF RightsGiven
<1>3. DOMAIN CountersAtZero \cup DOMAIN RightsGiven \subseteq Leaves \ {"state"}
  BY <1>1, <1>2, LeafNames DEF OwnNames
<1>4. ASSUME NEW p PROVE DOMAIN QpValues(p) \subseteq Leaves \ {"state"}
  BY QpRead
<1>5. ASSUME NEW p PROVE DOMAIN RtsValues(p) \subseteq Leaves \ {"state"}
  BY RtsRead
<1>6. ASSUME NEW q, NEW p PROVE DOMAIN RtrValues(q, p) \subseteq Leaves \ {"state"}
  <2>1. "state" \notin {"mtu", "remote_qpn", "log_msg_max"} \cup InPath
    BY LeafNames DEF OwnNames
  <2> QED BY <2>1, RtrNames
<1> QED BY <1>1, <1>2, <1>3, <1>4, <1>5, <1>6

\* Moving a queue pair to INIT keeps the invariant: the fields it brings are outside the path.
LEMMA InitKeeps ==
    ASSUME NEW q \in Qps, NEW p \in ConnParams
    PROVE  CmdInv /\ ResetToInit(q, p) => CmdInv'
<1> SUFFICES ASSUME CmdInv, ResetToInit(q, p) PROVE CmdInv'
  OBVIOUS
<1> DEFINE op == Rst2InitQpOp
           cmd == Rst2InitCommand(q, p)
           V == InitValues(p)
           ctx == DevxSetAll(Qpc, V)
           r == [port_num |-> p.port_num]
           B == qpctx'[q]
           a == asked'[q]
<1>1. Created(q) /\ Modify(q, cmd, 0, 1, "init", r)
  BY DEF ResetToInit, ResetState, InitState
<1>2. QpInv(q)
  BY <1>1 DEF CmdInv
<1>3. /\ ctx \in SUBSET ContextBits
      /\ \A n \in DOMAIN V : ctx \cap Span(Qpc[n]) = DevxSet(Qpc[n], V[n])
  <2>1. DOMAIN V \subseteq Leaves
    BY InitRead
  <2> HIDE DEF V
  <2> QED BY <2>1, ContextHolds DEF ContextBits
<1>4. /\ DevxGet(CreateQpIn.opcode, cmd) = op
      /\ Extract(CommandLayout(op).qpc, cmd) = ctx
      /\ op \in StepOps
  BY InitRead DEF StepOps
<1>5. /\ 0 \in 0 .. 3 /\ 1 \in 0 .. 3
      /\ "init" \notin CallsUpTo(0)
      /\ CallsUpTo(1) = {"init"} \cup CallsUpTo(0)
      /\ "create" \in CallsUpTo(0) /\ "rtr" \notin CallsUpTo(1)
  BY CallsOf
<1>6. /\ \A n \in DOMAIN V : Taken(op, n)
      /\ \A n : Taken(op, n) => n \in DOMAIN V
      /\ V["pm_state"] = PmStateMigrated /\ V["vhca_port_num"] = p.port_num
      /\ V["rae"] = 1 /\ V["rwe"] = 1 /\ V["rre"] = 1 /\ V["atomic_mode"] = 1
      /\ DOMAIN V = {"rae", "rwe", "rre", "atomic_mode", "pkey_index", "vhca_port_num",
                     "pm_state"}
      /\ DOMAIN V \subseteq Leaves
  BY TakenIs, InitRead DEF InitValues
<1>7. r = [port_num |-> p.port_num] /\ r.port_num = p.port_num
  OBVIOUS
<1> HIDE DEF op, cmd, V, ctx, r
<1>8. /\ B \subseteq ContextBits
      /\ Kept(B, [state |-> 1])
      /\ \A n \in Leaves \ {"state"} :
             B \cap Span(Qpc[n]) = IF Taken(op, n) THEN ctx \cap Span(Qpc[n])
                                   ELSE qpctx[q] \cap Span(Qpc[n])
      /\ DOMAIN asked[q] = CallsUpTo(0)
      /\ DOMAIN a = {"init"} \cup CallsUpTo(0)
      /\ a["init"] = r
      /\ \A n \in CallsUpTo(0) : a[n] = asked[q][n]
  BY <1>1, <1>2, <1>3, <1>4, <1>5, StepTaken
<1> HIDE DEF B, a
<1>9. Kept(B, QpValues(asked[q].create))
  <2> DEFINE values == QpValues(asked[q].create)
  <2>1. /\ DOMAIN values \subseteq Leaves \ {"state"}
        /\ DOMAIN values \cap DOMAIN V = {"pm_state"}
        /\ values["pm_state"] = V["pm_state"]
    <3>1. values["pm_state"] = PmStateMigrated
      BY DEF QpValues
    <3> QED BY <3>1, <1>6, KeptNames, QpRead
  <2>2. Kept(qpctx[q], values)
    BY <1>2 DEF QpInv
  <2> HIDE DEF values
  <2>3. \A n \in DOMAIN values : Taken(op, n) =>
            ctx \cap Span(Qpc[n]) = DevxSet(Qpc[n], values[n])
    BY <2>1, <1>3, <1>6
  <2>4. Kept(B, values)
    BY <2>1, <2>2, <2>3, <1>8, KeptThrough
  <2> QED BY <2>4 DEF values
<1>10. Kept(B, CountersAtZero)
  <2>1. Kept(qpctx[q], CountersAtZero)
    BY <1>2 DEF QpInv
  <2>2. DOMAIN CountersAtZero \subseteq Leaves \ {"state"}
        /\ \A n \in DOMAIN CountersAtZero : ~Taken(op, n)
    BY <1>6, KeptNames
  <2> QED BY <2>1, <2>2, <1>8, KeptThrough
<1>11. \A n \in DOMAIN V : B \cap Span(Qpc[n]) = DevxSet(Qpc[n], V[n])
  <2>1. DOMAIN V \subseteq Leaves \ {"state"}
    BY <1>6
  <2> QED BY <2>1, <1>3, <1>6, <1>8
<1>12. Kept(B, RightsGiven)
  BY <1>6, <1>11, KeptNames DEF Kept, RightsGiven
<1>13. Kept(B, [vhca_port_num |-> p.port_num])
  BY <1>6, <1>11 DEF Kept
<1>14. /\ UNCHANGED <<link, caps, cq, sqSize>>
       /\ cq # None /\ sqSize[q] = StoredSize(asked[q].create.sq_size) /\ asked[q].create \in CreateParams
  BY <1>1, <1>2 DEF Modify, QpInv, cqVars
<1>15. QpInv(q)'
  <2>1. DOMAIN a = CallsUpTo(1) /\ a.create = asked[q].create /\ a.init = [port_num |-> p.port_num]
    BY <1>5, <1>7, <1>8
  <2>2. /\ B \subseteq ContextBits /\ Kept(B, [state |-> 1])
        /\ a.create \in CreateParams /\ sqSize'[q] = StoredSize(a.create.sq_size)
        /\ Kept(B, QpValues(a.create)) /\ Kept(B, CountersAtZero)
    BY <1>8, <1>9, <1>10, <1>14, <2>1
  <2>3. (\E s \in ConnParams : a.init = [port_num |-> s.port_num]) /\ Kept(B, RightsGiven)
    BY <1>12, <2>1
  <2>4. Kept(B, [vhca_port_num |-> a.init.port_num])
    BY <1>7, <1>8, <1>13
  <2>5. 1 \in 0 .. 3 /\ ~(1 >= 2) /\ 1 # 3
    OBVIOUS
  <2>6. B = qpctx'[q] /\ a = asked'[q] /\ UNCHANGED <<link, caps>> /\ cq' # None
    BY <1>14 DEF B, a
  <2> QED BY ONLY <2>1, <2>2, <2>3, <2>4, <2>5, <2>6, QpInvAfter, Zenon
<1>16. DOMAIN asked[q] \subseteq DOMAIN asked'[q]
  BY <1>8 DEF a
<1> QED BY <1>1, <1>15, <1>16, ModifyKeeps

\* Moving a queue pair to RTR keeps the invariant: the path is replaced as a whole.
LEMMA RtrKeeps ==
    ASSUME NEW q \in Qps, NEW p \in ConnParams
    PROVE  CmdInv /\ InitToRtr(q, p) => CmdInv'
<1> SUFFICES ASSUME CmdInv, InitToRtr(q, p) PROVE CmdInv'
  OBVIOUS
<1> DEFINE op == Init2RtrQpOp
           cmd == Init2RtrCommand(q, p)
           V == RtrValues(q, p)
           ctx == RtrContext(q, p)
           B == qpctx'[q]
           a == asked'[q]
<1>1. Created(q) /\ Created(Peer(q)) /\ Modify(q, cmd, 1, 2, "rtr", p)
  BY DEF InitToRtr, RtrState, InitState
<1>2. QpInv(q)
  BY <1>1 DEF CmdInv
<1>3. /\ ctx \in SUBSET ContextBits
      /\ \A n \in DOMAIN V : ctx \cap Span(Qpc[n]) = DevxSet(Qpc[n], V[n])
      /\ link = "ETHERNET" =>
             ctx \cap Span(MacField) = DevxSet(MacField, PortOf[Peer(q)].mac)
      /\ link = "ETHERNET" \/ p.is_global = 1 =>
             ctx \cap Span(GidField) = DevxSet(GidField, PortOf[Peer(q)].gid)
  BY RtrContextHolds
<1>4. /\ DevxGet(CreateQpIn.opcode, cmd) = op
      /\ Extract(CommandLayout(op).qpc, cmd) = ctx
      /\ op \in StepOps
  BY RtrRead DEF StepOps
<1>5. /\ 1 \in 0 .. 3 /\ 2 \in 0 .. 3
      /\ "rtr" \notin CallsUpTo(1)
      /\ CallsUpTo(2) = {"rtr"} \cup CallsUpTo(1)
      /\ "create" \in CallsUpTo(1) /\ "init" \in CallsUpTo(1)
  BY CallsOf
<1>6. /\ \A n \in DOMAIN V : Taken(op, n)
      /\ \A n : Taken(op, n) <=>
             n \in {"mtu", "log_msg_max", "remote_qpn", "primary_address_path"} \cup InPath
      /\ V["log_msg_max"] = caps.log_max_msg /\ "log_msg_max" \in DOMAIN V
      /\ DOMAIN V \subseteq Leaves \ {"state"}
  BY TakenIs, RtrNames, KeptNames
<1>7. /\ \A n \in OwnNames : n \in Leaves \ InPath
      /\ {"rmac_47_32", "rmac_31_0", "rgid_rip"} \subseteq InPath
      /\ {"rmac_47_32", "rmac_31_0", "rgid_rip"} \subseteq Leaves \ {"state"}
  BY LeafNames DEF PathNames
<1> HIDE DEF op, cmd, V, ctx
<1>8. /\ B \subseteq ContextBits
      /\ Kept(B, [state |-> 2])
      /\ \A n \in Leaves \ {"state"} :
             B \cap Span(Qpc[n]) = IF Taken(op, n) THEN ctx \cap Span(Qpc[n])
                                   ELSE qpctx[q] \cap Span(Qpc[n])
      /\ DOMAIN asked[q] = CallsUpTo(1)
      /\ DOMAIN a = {"rtr"} \cup CallsUpTo(1)
      /\ a["rtr"] = p
      /\ \A n \in CallsUpTo(1) : a[n] = asked[q][n]
  BY <1>1, <1>2, <1>3, <1>4, <1>5, StepTaken
<1> HIDE DEF B, a
<1>9. Kept(B, QpValues(asked[q].create))
  <2> DEFINE values == QpValues(asked[q].create)
  <2>1. DOMAIN values \subseteq Leaves \ {"state"} /\ values["log_msg_max"] = V["log_msg_max"]
    BY <1>6, KeptNames DEF QpValues
  <2>2. Kept(qpctx[q], values)
    BY <1>2 DEF QpInv
  <2>3. DOMAIN values \subseteq OwnNames
        /\ DOMAIN values \cap {"mtu", "log_msg_max", "remote_qpn", "primary_address_path"} =
               {"log_msg_max"}
    BY QpRead DEF OwnNames
  <2> HIDE DEF values
  <2>4. \A n \in DOMAIN values : Taken(op, n) => n = "log_msg_max"
    BY <2>3, <1>6, <1>7
  <2>5. \A n \in DOMAIN values : Taken(op, n) =>
            ctx \cap Span(Qpc[n]) = DevxSet(Qpc[n], values[n])
    BY <2>1, <2>4, <1>3, <1>6
  <2>6. Kept(B, values)
    BY <2>1, <2>2, <2>5, <1>8, KeptThrough
  <2> QED BY <2>6 DEF values
<1>10. Kept(B, CountersAtZero) /\ Kept(B, RightsGiven)
  <2>1. Kept(qpctx[q], CountersAtZero) /\ Kept(qpctx[q], RightsGiven)
    BY <1>2, <1>5, <1>8 DEF QpInv
  <2>2. /\ DOMAIN CountersAtZero \subseteq Leaves \ {"state"}
        /\ DOMAIN RightsGiven \subseteq Leaves \ {"state"}
    BY KeptNames
  <2>3. \A n \in DOMAIN CountersAtZero \cup DOMAIN RightsGiven : ~Taken(op, n)
    <3>1. DOMAIN CountersAtZero \cup DOMAIN RightsGiven \subseteq
              OwnNames \ {"mtu", "log_msg_max", "remote_qpn", "primary_address_path"}
      BY KeptNames DEF OwnNames
    <3> QED BY <3>1, <1>6, <1>7
  <2>4. Kept(B, CountersAtZero)
    BY <2>1, <2>2, <2>3, <1>8, KeptThrough
  <2>5. Kept(B, RightsGiven)
    BY <2>1, <2>2, <2>3, <1>8, KeptThrough
  <2> QED BY <2>4, <2>5
<1>11. Kept(B, V)
  BY <1>3, <1>6, <1>8 DEF Kept
<1>12. PathKept(B, q, p)
  <2>1. \A n \in {"rmac_47_32", "rmac_31_0", "rgid_rip"} :
            B \cap Span(Qpc[n]) = ctx \cap Span(Qpc[n])
    BY <1>6, <1>7, <1>8
  <2>2. B \cap Span(MacField) = ctx \cap Span(MacField)
    BY <2>1, PathSpans
  <2>3. B \cap Span(GidField) = ctx \cap Span(GidField)
    BY <2>1, PathSpans
  <2>4. Span(GidField) = Span(Qpc.rgid_rip)
        /\ DevxSet(GidField, PortOf[Peer(q)].gid) = DevxSet(Qpc.rgid_rip, PortOf[Peer(q)].gid)
    BY PathSpans
  <2> QED BY <2>2, <2>3, <2>4, <1>3 DEF PathKept, MacField
<1>13. /\ UNCHANGED <<link, caps, cq, sqSize>>
       /\ cq # None /\ sqSize[q] = StoredSize(asked[q].create.sq_size) /\ asked[q].create \in CreateParams
       /\ \E s \in ConnParams : asked[q].init = [port_num |-> s.port_num]
  BY <1>1, <1>2, <1>5, <1>8 DEF Modify, QpInv, cqVars
<1>14. Created(Peer(q))'
  <2>1. Peer(q) # q /\ Peer(q) \in Qps
    BY PeerIs
  <2>2. qpctx' = [qpctx EXCEPT ![q] = Modified(q, cmd, 2)] /\ DOMAIN qpctx = Qps
    BY <1>1 DEF Modify, CmdInv
  <2> QED BY <1>1, <2>1, <2>2 DEF Created
<1>15. QpInv(q)'
  <2>1. /\ DOMAIN a = CallsUpTo(2) /\ a.create = asked[q].create /\ a.init = asked[q].init
        /\ a.rtr = p
    BY <1>5, <1>8
  <2>2. /\ B \subseteq ContextBits /\ Kept(B, [state |-> 2])
        /\ a.create \in CreateParams /\ sqSize'[q] = StoredSize(a.create.sq_size)
        /\ Kept(B, QpValues(a.create)) /\ Kept(B, CountersAtZero)
    BY <1>8, <1>9, <1>10, <1>13, <2>1
  <2>3. (\E s \in ConnParams : a.init = [port_num |-> s.port_num]) /\ Kept(B, RightsGiven)
    BY <1>10, <1>13, <2>1
  <2>4. /\ a.rtr \in ConnParams /\ Kept(B, RtrValues(q, a.rtr)) /\ PathKept(B, q, a.rtr)
        /\ Created(Peer(q))'
    BY <1>11, <1>12, <1>14, <2>1 DEF V
  <2>5. 2 \in 0 .. 3 /\ 2 # 1 /\ 2 # 3
    OBVIOUS
  <2>6. B = qpctx'[q] /\ a = asked'[q] /\ UNCHANGED <<link, caps>> /\ cq' # None
    BY <1>13 DEF B, a
  <2> QED BY ONLY <2>1, <2>2, <2>3, <2>4, <2>5, <2>6, QpInvAfter, Zenon
<1>16. DOMAIN asked[q] \subseteq DOMAIN asked'[q]
  BY <1>8 DEF a
<1> QED BY <1>1, <1>15, <1>16, ModifyKeeps

\* Moving a queue pair to RTS keeps the invariant.
LEMMA RtsKeeps ==
    ASSUME NEW q \in Qps, NEW p \in ConnParams
    PROVE  CmdInv /\ RtrToRts(q, p) => CmdInv'
<1> SUFFICES ASSUME CmdInv, RtrToRts(q, p) PROVE CmdInv'
  OBVIOUS
<1> DEFINE op == Rtr2RtsQpOp
           cmd == Rtr2RtsCommand(q, p)
           V == RtsValues(p)
           ctx == DevxSetAll(Qpc, V)
           B == qpctx'[q]
           a == asked'[q]
           T == {"log_ack_req_freq", "retry_count", "rnr_retry", "next_send_psn"}
<1>1. Created(q) /\ Modify(q, cmd, 2, 3, "rts", p) /\ ("rtr" \in DOMAIN asked[q] => p = asked[q].rtr)
  BY DEF RtrToRts, RtrState, RtsState
<1>2. QpInv(q)
  BY <1>1 DEF CmdInv
<1>3. /\ ctx \in SUBSET ContextBits
      /\ \A n \in DOMAIN V : ctx \cap Span(Qpc[n]) = DevxSet(Qpc[n], V[n])
  <2>1. DOMAIN V \subseteq Leaves
    BY RtsRead
  <2> HIDE DEF V
  <2> QED BY <2>1, ContextHolds DEF ContextBits
<1>4. /\ DevxGet(CreateQpIn.opcode, cmd) = op
      /\ Extract(CommandLayout(op).qpc, cmd) = ctx
      /\ op \in StepOps
  BY RtsRead DEF StepOps
<1>5. /\ 2 \in 0 .. 3 /\ 3 \in 0 .. 3
      /\ "rts" \notin CallsUpTo(2)
      /\ CallsUpTo(3) = {"rts"} \cup CallsUpTo(2)
      /\ {"create", "init", "rtr"} \subseteq CallsUpTo(2)
  BY CallsOf
<1>6. /\ \A n : Taken(op, n) <=> n \in T
      /\ DOMAIN V = T /\ T \subseteq OwnNames
      /\ DOMAIN V \subseteq Leaves \ {"state"}
  BY TakenIs, RtsRead, KeptNames DEF OwnNames
<1>7. \A n \in OwnNames : n \in Leaves \ InPath
  BY LeafNames
<1> HIDE DEF op, cmd, V, ctx
<1>8. /\ B \subseteq ContextBits
      /\ Kept(B, [state |-> 3])
      /\ \A n \in Leaves \ {"state"} :
             B \cap Span(Qpc[n]) = IF Taken(op, n) THEN ctx \cap Span(Qpc[n])
                                   ELSE qpctx[q] \cap Span(Qpc[n])
      /\ DOMAIN asked[q] = CallsUpTo(2)
      /\ DOMAIN a = {"rts"} \cup CallsUpTo(2)
      /\ a["rts"] = p
      /\ \A n \in CallsUpTo(2) : a[n] = asked[q][n]
  BY <1>1, <1>2, <1>3, <1>4, <1>5, StepTaken
<1> HIDE DEF B, a
\* None of what the earlier calls left is in a field this one takes.
<1>9. ASSUME NEW values, Kept(qpctx[q], values), DOMAIN values \subseteq Leaves \ {"state"},
             DOMAIN values \cap T = {}
      PROVE  Kept(B, values)
  <2>1. \A n \in DOMAIN values : ~Taken(op, n)
    BY <1>6, <1>9
  <2> QED BY <2>1, <1>8, <1>9, KeptThrough
<1>10. p = asked[q].rtr
  BY <1>1, <1>5, <1>8
<1>11. /\ Kept(qpctx[q], QpValues(asked[q].create))
       /\ Kept(qpctx[q], CountersAtZero) /\ Kept(qpctx[q], RightsGiven)
       /\ asked[q].rtr \in ConnParams /\ Kept(qpctx[q], RtrValues(q, asked[q].rtr))
       /\ PathKept(qpctx[q], q, asked[q].rtr) /\ Created(Peer(q))
       /\ cq # None /\ sqSize[q] = StoredSize(asked[q].create.sq_size) /\ asked[q].create \in CreateParams
       /\ \E s \in ConnParams : asked[q].init = [port_num |-> s.port_num]
  BY <1>2, <1>5, <1>8 DEF QpInv
<1>12. /\ DOMAIN CountersAtZero \cap T = {} /\ DOMAIN RightsGiven \cap T = {}
       /\ DOMAIN QpValues(asked[q].create) \cap T = {}
       /\ DOMAIN RtrValues(q, asked[q].rtr) \cap T = {}
  <2>1. DOMAIN CountersAtZero \cap T = {} /\ DOMAIN RightsGiven \cap T = {}
    BY KeptNames
  <2>2. DOMAIN QpValues(asked[q].create) \cap T = {}
    BY QpRead
  <2>3. T \cap InPath = {} /\ T \cap {"mtu", "remote_qpn", "log_msg_max"} = {}
    BY <1>6, <1>7
  <2> HIDE DEF T
  <2>4. DOMAIN RtrValues(q, asked[q].rtr) \cap T = {}
    BY <2>3, RtrNames
  <2> QED BY <2>1, <2>2, <2>4
<1>13. /\ Kept(B, QpValues(asked[q].create)) /\ Kept(B, CountersAtZero) /\ Kept(B, RightsGiven)
       /\ Kept(B, RtrValues(q, asked[q].rtr))
  BY <1>9, <1>11, <1>12, KeptNames
<1>14. PathKept(B, q, asked[q].rtr)
  <2>1. {"rmac_47_32", "rmac_31_0", "rgid_rip"} \subseteq Leaves \ {"state"}
        /\ {"rmac_47_32", "rmac_31_0", "rgid_rip"} \cap T = {}
    BY LeafNames DEF PathNames
  <2>2. \A n \in {"rmac_47_32", "rmac_31_0", "rgid_rip"} :
            B \cap Span(Qpc[n]) = qpctx[q] \cap Span(Qpc[n])
    BY <1>6, <1>8, <2>1
  <2>3. B \cap Span(MacField) = qpctx[q] \cap Span(MacField)
    BY <2>2, PathSpans
  <2> QED BY <2>2, <2>3, <1>11 DEF PathKept, MacField
<1>15. Kept(B, V)
  BY <1>3, <1>6, <1>8 DEF Kept
<1>16. UNCHANGED <<link, caps, cq, sqSize>>
  BY <1>1 DEF Modify, cqVars
<1>17. Created(Peer(q))'
  <2>1. Peer(q) # q /\ Peer(q) \in Qps
    BY PeerIs
  <2>2. qpctx' = [qpctx EXCEPT ![q] = Modified(q, cmd, 3)] /\ DOMAIN qpctx = Qps
    BY <1>1 DEF Modify, CmdInv
  <2> QED BY <1>11, <2>1, <2>2 DEF Created
<1>18. QpInv(q)'
  <2>1. /\ DOMAIN a = CallsUpTo(3) /\ a.create = asked[q].create /\ a.init = asked[q].init
        /\ a.rtr = asked[q].rtr /\ a.rts = p
    BY <1>5, <1>8
  <2>2. /\ B \subseteq ContextBits /\ Kept(B, [state |-> 3])
        /\ a.create \in CreateParams /\ sqSize'[q] = StoredSize(a.create.sq_size)
        /\ Kept(B, QpValues(a.create)) /\ Kept(B, CountersAtZero)
    BY <1>8, <1>11, <1>13, <1>16, <2>1
  <2>3. (\E s \in ConnParams : a.init = [port_num |-> s.port_num]) /\ Kept(B, RightsGiven)
    BY <1>11, <1>13, <2>1
  <2>4. /\ a.rtr \in ConnParams /\ Kept(B, RtrValues(q, a.rtr)) /\ PathKept(B, q, a.rtr)
        /\ Created(Peer(q))'
    BY <1>11, <1>13, <1>14, <1>17, <2>1
  <2>5. a.rts = a.rtr /\ Kept(B, RtsValues(a.rts))
    BY <1>10, <1>15, <2>1 DEF V
  <2>6. 3 \in 0 .. 3 /\ 3 # 1
    OBVIOUS
  <2>7. B = qpctx'[q] /\ a = asked'[q] /\ UNCHANGED <<link, caps>> /\ cq' # None
    BY <1>11, <1>16 DEF B, a
  <2> QED BY ONLY <2>1, <2>2, <2>3, <2>4, <2>5, <2>6, <2>7, QpInvAfter, Zenon
<1>19. DOMAIN asked[q] \subseteq DOMAIN asked'[q]
  BY <1>8 DEF a
<1> QED BY <1>1, <1>18, <1>19, ModifyKeeps

\* A new work queue entry.
LEMMA PostKeeps ==
    ASSUME NEW q \in Qps
    PROVE  CmdInv /\ Post(q) => CmdInv'
<1> SUFFICES ASSUME CmdInv, Post(q) PROVE CmdInv'
  OBVIOUS
<1> DEFINE half == mr.length \div 2
           far == mr.addr + half
<1>1. /\ Created(q) /\ StateOf(q) = 3 /\ mr # None /\ posts[q] < MaxPosts
  BY DEF Post, RtsState
\* Whichever call it is.
<1>2. PICK opcode, raddr, imm :
        /\ opcode \in {SendOp, SendImmOp, RdmaWriteOp, RdmaWriteImmOp, RdmaReadOp}
        /\ raddr = (IF NeedRaddr(opcode) THEN far ELSE 0)
        /\ imm = (IF HasImm(opcode) THEN 7 ELSE 0)
        /\ PostWqe(q, opcode, mr.addr, raddr, half, imm)
  <2>1. /\ SendOp = 0 /\ SendImmOp = 1 /\ RdmaWriteOp = 8 /\ RdmaWriteImmOp = 9
        /\ RdmaReadOp = 12
    BY DEF SendOp, SendImmOp, RdmaWriteOp, RdmaWriteImmOp, RdmaReadOp
  <2>2. /\ NeedRaddr(RdmaWriteOp) /\ NeedRaddr(RdmaReadOp) /\ NeedRaddr(RdmaWriteImmOp)
        /\ ~NeedRaddr(SendOp) /\ ~NeedRaddr(SendImmOp)
        /\ HasImm(SendImmOp) /\ HasImm(RdmaWriteImmOp)
        /\ ~HasImm(RdmaWriteOp) /\ ~HasImm(RdmaReadOp) /\ ~HasImm(SendOp)
    BY <2>1 DEF NeedRaddr, HasImm
  <2>3. \/ PostWqe(q, RdmaWriteOp, mr.addr, far, half, 0)
        \/ PostWqe(q, RdmaReadOp, mr.addr, far, half, 0)
        \/ PostWqe(q, SendOp, mr.addr, 0, half, 0)
        \/ PostWqe(q, SendImmOp, mr.addr, 0, half, 7)
        \/ PostWqe(q, RdmaWriteImmOp, mr.addr, far, half, 7)
    BY DEF Post
  <2> HIDE DEF half, far
  <2> QED BY <2>2, <2>3
<1>3. PICK r : r = [opcode |-> opcode, laddr |-> mr.addr, lkey |-> mr.lkey,
                    raddr |-> raddr, rkey |-> mr.rkey, length |-> half, imm |-> imm]
  OBVIOUS
<1>4. /\ slot' = [slot EXCEPT ![q] = Slot(WqeSegments(q, posts[q], r))]
      /\ request' = [request EXCEPT ![q] = r]
      /\ posts' = [posts EXCEPT ![q] = @ + 1]
      /\ UNCHANGED <<link, page, caps, cqctx, cq, returned, cqHwParams, mkctx, mr, qpctx, sqSize, asked>>
  BY <1>2, <1>3 DEF PostWqe, qpVars, cqVars
<1>5. DOMAIN posts = Qps /\ DOMAIN slot = Qps /\ DOMAIN request = Qps
  BY DEF CmdInv
<1>6. RequestOf(r)'
  <2>1. r.opcode = opcode
    BY <1>3
  <2>2. r = [opcode |-> r.opcode, laddr |-> mr.addr, lkey |-> mr.lkey,
             raddr |-> IF NeedRaddr(r.opcode) THEN far ELSE 0,
             rkey |-> mr.rkey, length |-> half,
             imm |-> IF HasImm(r.opcode) THEN 7 ELSE 0]
    BY <1>2, <1>3
  <2>3. RequestOf(r)
    BY <2>1, <2>2, <1>2 DEF RequestOf
  <2>4. mr' = mr
    BY <1>4
  <2> QED BY <2>3, <2>4 DEF RequestOf
<1>7. "rts" \in DOMAIN asked[q]
  <2>1. PICK s \in 0 .. 3 : DOMAIN asked[q] = CallsUpTo(s) /\ Kept(qpctx[q], [state |-> s])
    BY <1>1 DEF CmdInv, QpInv
  <2>2. s = 3
    BY <2>1, <1>1, StateRead DEF StateOf
  <2> QED BY <2>1, <2>2, CallsOf
<1>8. PostInv(q)'
  <2>1. posts[q] \in 0 .. MaxPosts /\ MaxPosts \in Nat
    BY CommandAssumption DEF CmdInv, PostInv
  <2>2. posts'[q] = posts[q] + 1 /\ slot'[q] = Slot(WqeSegments(q, posts[q], r)) /\ request'[q] = r
    BY <1>4, <1>5
  <2>3. posts'[q] \in 0 .. MaxPosts /\ posts'[q] - 1 = posts[q]
    BY <2>1, <2>2, <1>1
  <2>4. mr' # None /\ asked' = asked
    BY <1>1, <1>4
  <2>5. RequestOf(request[q])'
    BY <2>2, <1>6 DEF RequestOf
  <2>6. slot'[q] = Slot(WqeSegments(q, posts'[q] - 1, request'[q]))
    BY <2>2, <2>3
  <2> QED BY <2>3, <2>4, <2>5, <2>6, <1>7 DEF PostInv
<1>9. ASSUME NEW p \in Qps PROVE PostInv(p)'
  <2>1. CASE p = q
    BY <2>1, <1>8
  <2>2. CASE p # q
    <3>1. posts'[p] = posts[p] /\ slot'[p] = slot[p] /\ request'[p] = request[p]
      BY <2>2, <1>4, <1>5
    <3> QED BY <3>1, <1>4, PostFrame DEF CmdInv
  <2> QED BY <2>1, <2>2
<1>10. ASSUME NEW p \in Qps PROVE IF Created(p)' THEN QpInv(p)' ELSE NoQpInv(p)'
  <2>1. Created(p)' = Created(p) /\ Created(Peer(p))' = Created(Peer(p))
    BY <1>4 DEF Created
  <2>2. Created(p) => QpInv(p)'
    BY <1>4, <2>1, QpFrame DEF CmdInv
  <2>3. ~Created(p) => NoQpInv(p)'
    <3>1. ~Created(p) => p # q
      BY <1>1
    <3>2. p # q => posts'[p] = posts[p]
      BY <1>4, <1>5
    <3> QED BY <3>1, <3>2, <1>4 DEF CmdInv, NoQpInv
  <2> QED BY <2>1, <2>2, <2>3
<1>11. CapsInv' /\ CqInv' /\ MrInv'
  BY <1>4 DEF CmdInv, CapsInv, CqInv, MrInv
<1>12. DOMAIN posts' = Qps /\ DOMAIN slot' = Qps /\ DOMAIN request' = Qps
  BY <1>4, <1>5
<1> QED BY <1>4, <1>9, <1>10, <1>11, <1>12 DEF CmdInv

\* The invariant: whatever was asked for is in the device's contexts, bit by bit.
THEOREM CmdInductive == CmdSpec => []CmdInv
<1>1. CmdInv /\ [CmdNext]_cmdVars => CmdInv'
  <2> SUFFICES ASSUME CmdInv, [CmdNext]_cmdVars PROVE CmdInv'
    OBVIOUS
  <2>1. CASE QueryHcaCapabilities
    BY <2>1, QueryKeeps
  <2>2. ASSUME NEW p \in CqParams, InitializeCq(p) PROVE CmdInv'
    BY <2>2, CqKeeps
  <2>10. ASSUME NEW p, SetCqHwParams(p) PROVE CmdInv'
    BY <2>10, SetKeeps
  <2>3. ASSUME NEW length \in Lengths, InitializeMr(length) PROVE CmdInv'
    BY <2>3, MrKeeps
  <2>4. ASSUME NEW q \in Qps, NEW p \in CreateParams, InitializeQp(q, p) PROVE CmdInv'
    BY <2>4, CreateKeeps
  <2>5. ASSUME NEW q \in Qps, NEW p \in ConnParams, ResetToInit(q, p) PROVE CmdInv'
    BY <2>5, InitKeeps
  <2>6. ASSUME NEW q \in Qps, NEW p \in ConnParams, InitToRtr(q, p) PROVE CmdInv'
    BY <2>6, RtrKeeps
  <2>7. ASSUME NEW q \in Qps, NEW p \in ConnParams, RtrToRts(q, p) PROVE CmdInv'
    BY <2>7, RtsKeeps
  <2>8. ASSUME NEW q \in Qps, Post(q) PROVE CmdInv'
    BY <2>8, PostKeeps
  <2>9. CASE UNCHANGED cmdVars
    BY <2>9, OthersKeep DEF cmdVars
  <2> QED BY <2>1, <2>2, <2>3, <2>4, <2>5, <2>6, <2>7, <2>8, <2>9, <2>10 DEF CmdNext
<1> QED BY <1>1, CmdInvInit, PTL DEF CmdSpec

------------------------------------------------------------------------------
(***************************************************************************)
(* What follows from the invariant.                                        *)
(***************************************************************************)

\* What fits a field is a number.
LEMMA FitsNat == ASSUME NEW f, f.size \in Nat, NEW v, Fits(f, v) PROVE v \in Nat
<1>1. Weight[Width(f)] \in Nat
  BY WidthIs, WeightType
<1> QED BY <1>1 DEF Fits

\* The device's capabilities are numbers.
LEMMA PageNumbers ==
    ASSUME page \in CapPages, NEW n \in CapNames
    PROVE  page[n] \in Nat
<1>1. Fits(HcaCap[n], page[n])
  BY CommandAssumption DEF AllFit
<1>2. HcaCap[n].size \in Nat
  BY ContextAssumption, StructuresLaid DEF WellLaid
<1> QED BY <1>1, <1>2, FitsNat

\* Behind a queue pair there is a completion queue, and behind that the capabilities.
LEMMA CreatedAfter ==
    ASSUME CmdInv, NEW q \in Qps, Created(q)
    PROVE  /\ QpInv(q) /\ cq # None /\ caps # None /\ page \in CapPages
           /\ caps = [n \in CapNames |-> page[n] % 256]
BY DEF CmdInv, QpInv, CqInv, CapsInv

\* The size of a send queue is a number.
LEMMA SizesAreNat == \A p \in CreateParams : p.sq_size \in Nat
<1>1. Weight[30] \in Nat
  BY WeightType
<1> QED BY <1>1, CommandAssumption

\* Buffers are bits of their structures, and a queue pair's state tells which calls
\* have succeeded on it (all operations of DevxCommands).
THEOREM CmdTypes == CmdSpec => []CmdTypeOK
<1>1. CmdInv => CmdTypeOK
  <2> SUFFICES ASSUME CmdInv PROVE CmdTypeOK
    OBVIOUS
  <2>1. caps # None => DOMAIN caps = CapNames /\ \A n \in CapNames : caps[n] \in 0 .. 255
    <3> SUFFICES ASSUME caps # None, NEW n \in CapNames
                 PROVE  DOMAIN caps = CapNames /\ caps[n] \in 0 .. 255
      BY DEF CmdInv, CapsInv
    <3>1. caps = [m \in CapNames |-> page[m] % 256] /\ page[n] \in Nat
      BY PageNumbers DEF CmdInv, CapsInv
    <3>2. caps[n] = page[n] % 256
      BY <3>1
    <3> DEFINE v == page[n]
    <3>3. v % 256 \in Nat /\ v % 256 <= 255
      <4>1. v \in Nat
        BY <3>1
      <4> HIDE DEF v
      <4> QED BY <4>1
    <3> QED BY <3>1, <3>2, <3>3
  <2>2. cqctx \subseteq 0 .. Size(Cqc) - 1 /\ mkctx \subseteq 0 .. Size(Mkc) - 1
    BY DEF CmdInv, CqInv, MrInv, NoContext
  <2>3. ASSUME NEW q \in Qps
        PROVE  /\ qpctx[q] \subseteq 0 .. Size(Qpc) - 1
               /\ sqSize[q] \in Nat /\ sqSize[q] < 65536
               /\ DOMAIN asked[q] = IF Created(q) THEN CallsBehind(StateOf(q)) ELSE {}
               /\ posts[q] \in 0 .. MaxPosts
    <3>1. posts[q] \in 0 .. MaxPosts
      BY DEF CmdInv, PostInv
    <3>2. CASE ~Created(q)
      BY <3>1, <3>2 DEF CmdInv, NoQpInv, Created, NoContext, None
    <3>3. CASE Created(q)
      <4>1. QpInv(q)
        BY <3>3 DEF CmdInv
      <4>2. PICK s \in 0 .. 3 : DOMAIN asked[q] = CallsUpTo(s) /\ Kept(qpctx[q], [state |-> s])
        BY <4>1 DEF QpInv
      <4>3. StateOf(q) = s
        BY <4>2, StateRead DEF StateOf
      <4>4. CallsUpTo(s) = CallsBehind(s)
        <5>1. \A i \in 1 .. s : i = 1 \/ i = 2 \/ i = 3
          OBVIOUS
        <5>2. <<"init", "rtr", "rts">>[1] = "init" /\ <<"init", "rtr", "rts">>[2] = "rtr"
              /\ <<"init", "rtr", "rts">>[3] = "rts"
          OBVIOUS
        <5>3. (1 \in 1 .. s <=> s >= 1) /\ (2 \in 1 .. s <=> s >= 2) /\ (3 \in 1 .. s <=> s >= 3)
          OBVIOUS
        <5> QED BY <5>1, <5>2, <5>3 DEF CallsUpTo, CallsBehind, InitState, RtrState, RtsState
      <4> DEFINE n == asked[q].create.sq_size
      <4>5. n \in Nat /\ sqSize[q] = n % 65536
        BY <4>1, SizesAreNat DEF QpInv, StoredSize
      <4> HIDE DEF n
      <4>8. sqSize[q] \in Nat /\ sqSize[q] < 65536
        BY ONLY <4>5, SMT
      <4>9. qpctx[q] \subseteq 0 .. Size(Qpc) - 1
        BY <4>1 DEF QpInv, ContextBits
      <4> QED BY <3>1, <3>3, <4>2, <4>3, <4>4, <4>8, <4>9
    <3> QED BY <3>2, <3>3
  <2> QED BY ONLY <2>1, <2>2, <2>3, SMT DEF CmdTypeOK
<1> QED BY <1>1, CmdInductive, PTL

\* The capabilities the program works with are the low bytes of the device's
\* (query_hca_capabilities).
THEOREM CapsReported == CmdSpec => []CapsAsReported
<1>1. CmdInv => CapsAsReported
  BY DEF CmdInv, CapsInv, CapsAsReported
<1> QED BY <1>1, CmdInductive, PTL

\* Whatever is asked for, neither a completion queue nor a message is made larger than
\* the device allows, but for the default of 2^9 entries (initialize_cq_resources, queue_pair::initialize).
THEOREM NeverTooMuch == CmdSpec => []NeverAsksTooMuch
<1>1. CmdInv => NeverAsksTooMuch
  <2> SUFFICES ASSUME CmdInv PROVE NeverAsksTooMuch
    OBVIOUS
  <2>1. cq # None =>
            LET log == DevxGet(Cqc.log_cq_size, cqctx)
            IN  log <= page.log_max_cq_sz \/ (log = 9 /\ page.log_max_cq_sz < 9)
    BY DEF CmdInv, CqInv
  <2>2. ASSUME NEW q \in Qps, Created(q)
        PROVE  DevxGet(Qpc.log_msg_max, qpctx[q]) <= page.log_max_msg
    <3> DEFINE f == Qpc["log_msg_max"]
               most == page["log_max_msg"]
               said == caps["log_max_msg"]
    <3>1. QpInv(q) /\ page \in CapPages /\ caps = [n \in CapNames |-> page[n] % 256]
      BY <2>2, CreatedAfter
    <3>2. "log_max_msg" \in CapNames
      BY DEF CapNames
    <3>3. most \in Nat /\ said = most % 256
      BY <3>1, <3>2, PageNumbers
    <3>4. qpctx[q] \cap Span(f) = DevxSet(f, said)
      <4>1. LET v == QpValues(asked[q].create)
            IN  "log_msg_max" \in DOMAIN v /\ v["log_msg_max"] = said
        BY DEF QpValues
      <4> QED BY <3>1, <4>1 DEF QpInv, Kept
    <3>5. f.off \in Nat /\ f.size \in Nat
      BY LeafNames, QpcLaid DEF OwnNames, Leaves
    <3> HIDE DEF f, most, said
    <3>6. said \in Nat /\ said <= most
      BY <3>3
    <3>7. DevxGet(f, qpctx[q]) = said % Weight[Width(f)]
      BY <3>4, <3>5, <3>6, GetOfSet
    <3>8. Weight[Width(f)] \in Nat \ {0}
      BY <3>5, WidthIs, WeightType
    <3>9. said % Weight[Width(f)] \in Nat /\ said % Weight[Width(f)] <= said
      BY ONLY <3>6, <3>8, ModAtMost
    <3>10. DevxGet(f, qpctx[q]) <= most
      <4> DEFINE got == said % Weight[Width(f)]
      <4> HIDE DEF got
      <4>1. got \in Nat /\ got <= said
        BY <3>9 DEF got
      <4>2. got <= most
        BY <4>1, <3>3, <3>6
      <4> QED BY <4>2, <3>7 DEF got
    <3> QED BY <3>10 DEF f, most
  <2> QED BY <2>1, <2>2 DEF NeverAsksTooMuch
<1> QED BY <1>1, CmdInductive, PTL

\* What was kept is read, of as many fields as one likes.
LEMMA KeptAll ==
    ASSUME NEW values, NEW B, Kept(B, values), DOMAIN values \subseteq Leaves, NEW want,
           \A n \in DOMAIN want :
               n \in DOMAIN values /\ want[n] = values[n] /\ Fits(Qpc[n], want[n])
    PROVE  HasAll(B, want)
BY KeptReads DEF HasAll

\* Zero fits every field, and the other constants of the code fit theirs.
LEMMA ConstantsFit ==
    /\ \A n \in Leaves : Fits(Qpc[n], 0)
    /\ Fits(Qpc["pm_state"], PmStateMigrated)
    /\ \A n \in {"dbr_umem_valid", "rae", "rwe", "rre", "atomic_mode"} : Fits(Qpc[n], 1)
<1>1. ASSUME NEW n \in Leaves PROVE Fits(Qpc[n], 0)
  <2>1. Qpc[n].size \in Nat
    BY QpcLaid DEF Leaves
  <2> QED BY <2>1, SetZero
<1>2. Fits(Qpc["pm_state"], PmStateMigrated)
  <2>1. "pm_state" \in DOMAIN QpcOwn /\ QpcOwn["pm_state"].size >= 2
    BY ContextAssumption DEF Has
  <2>2. Qpc["pm_state"].size \in Nat /\ Qpc["pm_state"].size >= 2
    BY <2>1, QpcLaid, LeafNames DEF OwnNames, Leaves
  <2>3. PmStateMigrated \in Nat /\ PmStateMigrated < Weight[2]
    BY FirstWeights DEF PmStateMigrated
  <2> QED BY <2>2, <2>3, FitsFew
<1>3. ASSUME NEW n \in {"dbr_umem_valid", "rae", "rwe", "rre", "atomic_mode"}
      PROVE  Fits(Qpc[n], 1)
  <2>1. n \in DOMAIN QpcOwn /\ QpcOwn[n].size >= 1
    BY ContextAssumption DEF Has
  <2>2. n \in Leaves
    BY LeafNames DEF OwnNames
  <2>3. Qpc[n].size \in Nat /\ Qpc[n].size >= 1
    BY <2>1, <2>2, QpcLaid DEF Leaves
  <2>4. 1 \in Nat /\ 1 < Weight[1]
    BY FirstWeights
  <2> QED BY <2>3, <2>4, FitsFew
<1> QED BY <1>1, <1>2, <1>3

\* A caller's parameters fit the fields they are for.
LEMMA ConnFits ==
    ASSUME NEW p \in ConnParams
    PROVE  /\ Fits(Qpc["mtu"], p.mtu) /\ Fits(Qpc["retry_count"], p.retry_count)
           /\ Fits(Qpc["rnr_retry"], p.rnr_retry) /\ Fits(Qpc["hop_limit"], p.hop_limit)
           /\ Fits(Qpc["src_addr_index"], p.sgid_index) /\ Fits(Qpc["eth_prio"], p.sl)
           /\ Fits(Qpc["sl"], p.sl) /\ Fits(Qpc["dscp"], p.dscp)
           /\ Fits(Qpc["udp_sport"], p.udp_sport) /\ Fits(Qpc["grh"], p.is_global)
           /\ Fits(Qpc["tclass"], p.traffic_class)
           /\ Fits(Qpc["vhca_port_num"], p.port_num)
           /\ Fits(Qpc["vhca_port_num"], p.ah_port_num)
<1> DEFINE values == [mtu |-> p.mtu, retry_count |-> p.retry_count,
                      rnr_retry |-> p.rnr_retry, hop_limit |-> p.hop_limit,
                      src_addr_index |-> p.sgid_index, eth_prio |-> p.sl, sl |-> p.sl,
                      dscp |-> p.dscp, udp_sport |-> p.udp_sport,
                      grh |-> p.is_global, tclass |-> p.traffic_class]
<1>1. AllFit(Qpc, values)
  BY ConnAssumption
<1>2. \A n \in DOMAIN values : Fits(Qpc[n], values[n])
  BY <1>1 DEF AllFit
<1>3. Fits(Qpc["vhca_port_num"], p.port_num) /\ Fits(Qpc["vhca_port_num"], p.ah_port_num)
  BY ConnAssumption
<1> QED BY ONLY <1>2, <1>3

\* What a call asked for holds in the device's context from then on: no later step of the
\* connection disturbs it (queue_pair::initialize, reset_to_init, init_to_rtr, rtr_to_rts).
THEOREM DeviceKeeps == CmdSpec => []DeviceKeepsWhatWasAsked
<1>1. CmdInv => DeviceKeepsWhatWasAsked
  <2> SUFFICES ASSUME CmdInv, NEW q \in Qps
               PROVE  LET calls == DOMAIN asked[q]
                          B == qpctx[q]
                      IN  /\ "create" \in calls =>
                                 HasAll(B,
                                     [st |-> 0, pm_state |-> PmStateMigrated, pd |-> Ids.pdn,
                                      cqn_snd |-> Ids.cqn, cqn_rcv |-> Ids.cqn,
                                      uar_page |-> Ids.uar_page, dbr_umem_id |-> Ids.umem,
                                      dbr_umem_valid |-> 1,
                                      log_rra_max |-> asked[q].create.max_rd_atomic,
                                      log_page_size |-> PageLog])
                          /\ "init" \in calls =>
                                 HasAll(B, [rre |-> 1, rwe |-> 1, rae |-> 1, atomic_mode |-> 1])
                          /\ "init" \in calls /\ "rtr" \notin calls =>
                                 HasAll(B, [vhca_port_num |-> asked[q].init.port_num])
                          /\ "rtr" \in calls =>
                                 HasAll(B, [mtu |-> asked[q].rtr.mtu,
                                            vhca_port_num |-> asked[q].rtr.ah_port_num])
                          /\ "rts" \in calls =>
                                 HasAll(B, [retry_count |-> asked[q].rts.retry_count,
                                            rnr_retry |-> asked[q].rts.rnr_retry,
                                            next_send_psn |-> 0])
    BY DEF DeviceKeepsWhatWasAsked
  <2> DEFINE calls == DOMAIN asked[q]
             B == qpctx[q]
  <2>1. CASE ~Created(q)
    <3>1. calls = {}
      BY <2>1 DEF CmdInv, NoQpInv, None
    <3> HIDE DEF calls
    <3>2. "create" \notin calls /\ "init" \notin calls /\ "rtr" \notin calls /\ "rts" \notin calls
      BY <3>1
    <3> QED BY <3>2 DEF calls
  <2>2. CASE Created(q)
    <3>1. QpInv(q)
      BY <2>2, CreatedAfter
    <3>2. /\ Kept(B, QpValues(asked[q].create)) /\ asked[q].create \in CreateParams
          /\ "init" \in calls =>
                 (\E p \in ConnParams : asked[q].init = [port_num |-> p.port_num])
                 /\ Kept(B, RightsGiven)
          /\ "init" \in calls /\ "rtr" \notin calls =>
                 Kept(B, [vhca_port_num |-> asked[q].init.port_num])
          /\ "rtr" \in calls =>
                 asked[q].rtr \in ConnParams /\ Kept(B, RtrValues(q, asked[q].rtr))
          /\ "rts" \in calls =>
                 asked[q].rts = asked[q].rtr /\ Kept(B, RtsValues(asked[q].rts))
          /\ "rts" \in calls => "rtr" \in calls
      BY <3>1, CallsOf DEF QpInv
    <3> HIDE DEF B, calls
    <3>3. HasAll(B, [st |-> 0, pm_state |-> PmStateMigrated, pd |-> Ids.pdn,
                     cqn_snd |-> Ids.cqn, cqn_rcv |-> Ids.cqn,
                     uar_page |-> Ids.uar_page, dbr_umem_id |-> Ids.umem,
                     dbr_umem_valid |-> 1,
                     log_rra_max |-> asked[q].create.max_rd_atomic,
                     log_page_size |-> PageLog])
      <4> DEFINE p == asked[q].create
                 values == QpValues(p)
                 want == [st |-> 0, pm_state |-> PmStateMigrated, pd |-> Ids.pdn,
                          cqn_snd |-> Ids.cqn, cqn_rcv |-> Ids.cqn,
                          uar_page |-> Ids.uar_page, dbr_umem_id |-> Ids.umem,
                          dbr_umem_valid |-> 1, log_rra_max |-> p.max_rd_atomic,
                          log_page_size |-> PageLog]
      <4>1. /\ DOMAIN want = {"st", "pm_state", "pd", "cqn_snd", "cqn_rcv", "uar_page",
                              "dbr_umem_id", "dbr_umem_valid", "log_rra_max", "log_page_size"}
            /\ \A n \in DOMAIN want : n \in DOMAIN values /\ want[n] = values[n]
        BY DEF QpValues
      <4>2. /\ want["st"] = 0 /\ want["pm_state"] = PmStateMigrated /\ want["pd"] = Ids.pdn
            /\ want["cqn_snd"] = Ids.cqn /\ want["cqn_rcv"] = Ids.cqn
            /\ want["uar_page"] = Ids.uar_page /\ want["dbr_umem_id"] = Ids.umem
            /\ want["dbr_umem_valid"] = 1 /\ want["log_rra_max"] = p.max_rd_atomic
            /\ want["log_page_size"] = PageLog
        OBVIOUS
      <4>3. DOMAIN values \subseteq Leaves /\ "st" \in Leaves
        BY QpRead
      <4>4. /\ Fits(Qpc["pd"], Ids.pdn) /\ Fits(Qpc["cqn_snd"], Ids.cqn)
            /\ Fits(Qpc["cqn_rcv"], Ids.cqn) /\ Fits(Qpc["uar_page"], Ids.uar_page)
            /\ Fits(Qpc["dbr_umem_id"], Ids.umem) /\ Fits(Qpc["log_page_size"], PageLog)
        BY CommandAssumption DEF AllFit
      <4>5. Fits(Qpc["log_rra_max"], p.max_rd_atomic)
        BY <3>2, CommandAssumption
      <4>6. Fits(Qpc["st"], 0) /\ Fits(Qpc["pm_state"], PmStateMigrated)
            /\ Fits(Qpc["dbr_umem_valid"], 1)
        BY <4>3, ConstantsFit
      <4> HIDE DEF values, want, p
      <4>7. \A n \in DOMAIN want : Fits(Qpc[n], want[n])
        BY ONLY <4>1, <4>2, <4>4, <4>5, <4>6
      <4>8. Kept(B, values)
        BY <3>2 DEF values, p
      <4>9. HasAll(B, want)
        BY ONLY <4>1, <4>3, <4>7, <4>8, KeptAll
      <4> QED BY <4>9 DEF want, p
    <3>4. "init" \in calls => HasAll(B, [rre |-> 1, rwe |-> 1, rae |-> 1, atomic_mode |-> 1])
      <4> DEFINE want == [rre |-> 1, rwe |-> 1, rae |-> 1, atomic_mode |-> 1]
      <4>1. /\ DOMAIN want = {"rre", "rwe", "rae", "atomic_mode"}
            /\ \A n \in DOMAIN want : n \in DOMAIN RightsGiven /\ want[n] = RightsGiven[n]
            /\ \A n \in DOMAIN want : want[n] = 1
        BY DEF RightsGiven
      <4>2. DOMAIN RightsGiven \subseteq Leaves
        BY KeptNames
      <4> HIDE DEF want
      <4>3. "init" \in calls => HasAll(B, want)
        BY <3>2, <4>1, <4>2, ConstantsFit, KeptAll
      <4> QED BY <4>3 DEF want
    <3>5. "init" \in calls /\ "rtr" \notin calls =>
              HasAll(B, [vhca_port_num |-> asked[q].init.port_num])
      <4> SUFFICES ASSUME "init" \in calls, "rtr" \notin calls
                   PROVE  HasAll(B, [vhca_port_num |-> asked[q].init.port_num])
        OBVIOUS
      <4>1. PICK p \in ConnParams : asked[q].init = [port_num |-> p.port_num]
        BY <3>2
      <4>2. asked[q].init.port_num = p.port_num
        BY <4>1
      <4>3. Fits(Qpc["vhca_port_num"], p.port_num)
        BY ConnFits
      <4> DEFINE want == [vhca_port_num |-> asked[q].init.port_num]
      <4>4. DOMAIN want = {"vhca_port_num"} /\ want["vhca_port_num"] = p.port_num
        BY <4>2
      <4>5. "vhca_port_num" \in Leaves
        BY LeafNames DEF PathNames
      <4>6. Kept(B, want)
        BY <3>2
      <4> HIDE DEF want
      <4>7. HasAll(B, want)
        BY <4>3, <4>4, <4>5, <4>6, KeptAll
      <4> QED BY <4>7 DEF want
    <3>6. "rtr" \in calls => HasAll(B, [mtu |-> asked[q].rtr.mtu,
                                        vhca_port_num |-> asked[q].rtr.ah_port_num])
      <4> SUFFICES ASSUME "rtr" \in calls
                   PROVE  HasAll(B, [mtu |-> asked[q].rtr.mtu,
                                     vhca_port_num |-> asked[q].rtr.ah_port_num])
        OBVIOUS
      <4> DEFINE p == asked[q].rtr
                 values == RtrValues(q, p)
                 want == [mtu |-> p.mtu, vhca_port_num |-> p.ah_port_num]
      <4>1. /\ DOMAIN values \subseteq Leaves /\ "mtu" \in DOMAIN values
            /\ "vhca_port_num" \in DOMAIN values
            /\ values["mtu"] = p.mtu /\ values["vhca_port_num"] = p.ah_port_num
        BY RtrNames
      <4>2. DOMAIN want = {"mtu", "vhca_port_num"} /\ want["mtu"] = p.mtu
            /\ want["vhca_port_num"] = p.ah_port_num
        OBVIOUS
      <4>3. p \in ConnParams /\ Kept(B, values)
        BY <3>2
      <4> HIDE DEF p, values, want
      <4>4. Fits(Qpc["mtu"], p.mtu) /\ Fits(Qpc["vhca_port_num"], p.ah_port_num)
        BY <4>3, ConnFits
      <4>5. HasAll(B, want)
        BY ONLY <4>1, <4>2, <4>3, <4>4, KeptAll
      <4> QED BY <4>5 DEF want, p
    <3>7. "rts" \in calls => HasAll(B, [retry_count |-> asked[q].rts.retry_count,
                                        rnr_retry |-> asked[q].rts.rnr_retry,
                                        next_send_psn |-> 0])
      <4> SUFFICES ASSUME "rts" \in calls
                   PROVE  HasAll(B, [retry_count |-> asked[q].rts.retry_count,
                                     rnr_retry |-> asked[q].rts.rnr_retry,
                                     next_send_psn |-> 0])
        OBVIOUS
      <4> DEFINE p == asked[q].rts
                 values == RtsValues(p)
                 want == [retry_count |-> p.retry_count, rnr_retry |-> p.rnr_retry,
                          next_send_psn |-> 0]
      <4>1. /\ DOMAIN values \subseteq Leaves
            /\ DOMAIN want = {"retry_count", "rnr_retry", "next_send_psn"}
            /\ \A n \in DOMAIN want : n \in DOMAIN values /\ want[n] = values[n]
        BY RtsRead DEF RtsValues
      <4>2. want["retry_count"] = p.retry_count /\ want["rnr_retry"] = p.rnr_retry
            /\ want["next_send_psn"] = 0
        OBVIOUS
      <4>3. p \in ConnParams /\ Kept(B, values)
        BY <3>2
      <4> HIDE DEF p, values, want
      <4>4. Fits(Qpc["retry_count"], p.retry_count) /\ Fits(Qpc["rnr_retry"], p.rnr_retry)
        BY <4>3, ConnFits
      <4>5. Fits(Qpc["next_send_psn"], 0)
        BY <4>1, ConstantsFit
      <4>6. HasAll(B, want)
        BY ONLY <4>1, <4>2, <4>3, <4>4, <4>5, KeptAll
      <4> QED BY <4>6 DEF want, p
    <3> QED BY <3>3, <3>4, <3>5, <3>6, <3>7 DEF B, calls
  <2> QED BY <2>1, <2>2
<1> QED BY <1>1, CmdInductive, PTL

\* A queue pair ready to receive names its peer, and its path leads to the peer's port,
\* in the terms of the link layer (init_to_rtr).
THEOREM PathsLead == CmdSpec => []PathLeadsToPeer
<1>1. CmdInv => PathLeadsToPeer
  <2> SUFFICES ASSUME CmdInv, NEW q \in Qps, "rtr" \in DOMAIN asked[q]
               PROVE  LET p == asked[q].rtr
                          port == PortOf[Peer(q)]
                          B == qpctx[q]
                      IN  /\ DevxGet(Qpc.remote_qpn, B) = Peer(q)
                          /\ IF link = "ETHERNET"
                             THEN HasAll(B, [rmac_47_32 |-> HighPart(port.mac),
                                             rmac_31_0 |-> LowWord(port.mac),
                                             rgid_rip |-> port.gid,
                                             hop_limit |-> p.hop_limit,
                                             src_addr_index |-> p.sgid_index,
                                             eth_prio |-> p.sl, dscp |-> p.dscp,
                                             udp_sport |-> p.udp_sport])
                             ELSE /\ HasAll(B, [rlid |-> port.lid, sl |-> p.sl,
                                                grh |-> p.is_global])
                                  /\ p.is_global = 1 =>
                                         HasAll(B, [rgid_rip |-> port.gid,
                                                    hop_limit |-> p.hop_limit,
                                                    src_addr_index |-> p.sgid_index,
                                                    tclass |-> p.traffic_class])
    BY DEF PathLeadsToPeer
  <2> DEFINE p == asked[q].rtr
             port == PortOf[Peer(q)]
             B == qpctx[q]
             values == RtrValues(q, p)
  <2>1. Created(q)
    BY DEF CmdInv, NoQpInv, None
  <2>2. p \in ConnParams /\ Kept(B, values) /\ PathKept(B, q, p)
    BY <2>1, CreatedAfter DEF QpInv
  <2>3. Peer(q) \in Qps
    BY PeerIs
  <2>4. Fits(Qpc["remote_qpn"], Peer(q))
    BY <2>3, CommandAssumption
  <2>5. /\ Fits(MacField, port.mac) /\ Fits(Qpc["rgid_rip"], port.gid)
        /\ Fits(Qpc["rlid"], port.lid)
    BY <2>3, PortAssumption DEF MacField
  <2>6. DOMAIN values \subseteq Leaves
    BY RtrNames
  <2>7. /\ {"remote_qpn"} \subseteq DOMAIN values
        /\ values["remote_qpn"] = Peer(q)
        /\ link = "ETHERNET" =>
            /\ {"hop_limit", "src_addr_index", "eth_prio", "dscp", "udp_sport"}
                   \subseteq DOMAIN values
            /\ values["hop_limit"] = p.hop_limit
            /\ values["src_addr_index"] = p.sgid_index
            /\ values["eth_prio"] = p.sl
            /\ values["dscp"] = p.dscp
            /\ values["udp_sport"] = p.udp_sport
        /\ link # "ETHERNET" =>
            /\ {"rlid", "sl", "grh"} \subseteq DOMAIN values
            /\ values["rlid"] = port.lid
            /\ values["sl"] = p.sl
            /\ values["grh"] = p.is_global
        /\ link # "ETHERNET" /\ p.is_global = 1 =>
            /\ {"hop_limit", "src_addr_index", "tclass"} \subseteq DOMAIN values
            /\ values["hop_limit"] = p.hop_limit
            /\ values["src_addr_index"] = p.sgid_index
            /\ values["tclass"] = p.traffic_class
    BY RtrNames
  <2>8. link = "ETHERNET" =>
            /\ DevxGet(Qpc["rmac_47_32"], B) = HighPart(port.mac)
            /\ DevxGet(Qpc["rmac_31_0"], B) = LowWord(port.mac)
    <3>1. link = "ETHERNET" => B \cap Span(MacField) = DevxSet(MacField, port.mac)
      BY <2>2 DEF PathKept, MacField
    <3> QED BY <3>1, <2>5, MacReads
  <2>9. link = "ETHERNET" \/ p.is_global = 1 => DevxGet(Qpc["rgid_rip"], B) = port.gid
    <3>1. Qpc["rgid_rip"].off \in Nat /\ Qpc["rgid_rip"].size \in Nat
      BY LeafNames, QpcLaid DEF PathNames, Leaves
    <3>2. link = "ETHERNET" \/ p.is_global = 1 =>
              B \cap Span(Qpc["rgid_rip"]) = DevxSet(Qpc["rgid_rip"], port.gid)
      BY <2>2 DEF PathKept
    <3> QED BY <3>1, <3>2, <2>5, GetFitting
  <2>10. /\ Fits(Qpc["hop_limit"], p.hop_limit) /\ Fits(Qpc["src_addr_index"], p.sgid_index)
         /\ Fits(Qpc["eth_prio"], p.sl) /\ Fits(Qpc["sl"], p.sl) /\ Fits(Qpc["dscp"], p.dscp)
         /\ Fits(Qpc["udp_sport"], p.udp_sport) /\ Fits(Qpc["grh"], p.is_global)
         /\ Fits(Qpc["tclass"], p.traffic_class)
    BY <2>2, ConnFits
  <2> HIDE DEF p, port, B, values
  <2>11. \A n \in DOMAIN values : Fits(Qpc[n], values[n]) => DevxGet(Qpc[n], B) = values[n]
    BY <2>2, <2>6, KeptReads
  <2>12. DevxGet(Qpc["remote_qpn"], B) = Peer(q)
    BY <2>4, <2>7, <2>11
  <2>13. CASE link = "ETHERNET"
    <3> DEFINE want == [rmac_47_32 |-> HighPart(port.mac), rmac_31_0 |-> LowWord(port.mac),
                        rgid_rip |-> port.gid, hop_limit |-> p.hop_limit,
                        src_addr_index |-> p.sgid_index, eth_prio |-> p.sl, dscp |-> p.dscp,
                        udp_sport |-> p.udp_sport]
    <3>1. /\ DevxGet(Qpc["hop_limit"], B) = p.hop_limit
          /\ DevxGet(Qpc["src_addr_index"], B) = p.sgid_index
          /\ DevxGet(Qpc["eth_prio"], B) = p.sl
          /\ DevxGet(Qpc["dscp"], B) = p.dscp
          /\ DevxGet(Qpc["udp_sport"], B) = p.udp_sport
      BY <2>7, <2>10, <2>11, <2>13
    <3>2. HasAll(B, want)
      BY <2>8, <2>9, <2>13, <3>1 DEF HasAll
    <3> QED BY <2>12, <2>13, <3>2 DEF B, p, port
  <2>14. CASE link # "ETHERNET"
    <3> DEFINE want == [rlid |-> port.lid, sl |-> p.sl, grh |-> p.is_global]
               more == [rgid_rip |-> port.gid, hop_limit |-> p.hop_limit,
                        src_addr_index |-> p.sgid_index, tclass |-> p.traffic_class]
    <3>1. /\ DevxGet(Qpc["rlid"], B) = port.lid
          /\ DevxGet(Qpc["sl"], B) = p.sl
          /\ DevxGet(Qpc["grh"], B) = p.is_global
      BY <2>5, <2>7, <2>10, <2>11, <2>14
    <3>2. HasAll(B, want)
      BY <3>1 DEF HasAll
    <3>3. p.is_global = 1 =>
              /\ DevxGet(Qpc["hop_limit"], B) = p.hop_limit
              /\ DevxGet(Qpc["src_addr_index"], B) = p.sgid_index
              /\ DevxGet(Qpc["tclass"], B) = p.traffic_class
      BY <2>7, <2>10, <2>11, <2>14
    <3>4. p.is_global = 1 => HasAll(B, more)
      BY <2>9, <3>3 DEF HasAll
    <3> QED BY <2>12, <2>14, <3>2, <3>4 DEF B, p, port
  <2> QED BY <2>13, <2>14
<1> QED BY <1>1, CmdInductive, PTL

\* ilog2 of a power of two is its exponent.
LEMMA Ilog2OfPower ==
    ASSUME NEW k \in 0 .. 15
    PROVE  Ilog2(Weight[k]) = k
<1>1. \A i \in Nat : Weight[i] \in Nat \ {0} /\ Weight[i + 1] = 2 * Weight[i]
  BY WeightType, WeightDef
<1>2. ASSUME NEW i \in Nat, NEW j \in Nat, i < j PROVE Weight[i] < Weight[j]
  BY <1>2, WeightDef, DoublingGrows
<1>3. k \in 0 .. 30 /\ Weight[k] >= Weight[k] /\ (k = 0 \/ Weight[k - 1] < Weight[k])
  <2>1. k # 0 => k - 1 \in Nat /\ k - 1 < k
    OBVIOUS
  <2> QED BY <2>1, <1>1, <1>2
<1>4. ASSUME NEW r \in 0 .. 30, Weight[r] >= Weight[k], r = 0 \/ Weight[r - 1] < Weight[k]
      PROVE  r = k
  <2>1. ~(r < k)
    BY <1>1, <1>2, <1>4
  <2>2. ~(r > k)
    <3> SUFFICES ASSUME r > k PROVE FALSE
      OBVIOUS
    <3>1. r - 1 \in Nat /\ k <= r - 1 /\ r # 0
      OBVIOUS
    <3>2. Weight[k] <= Weight[r - 1]
      BY <3>1, WeightGrows
    <3> QED BY <1>1, <1>4, <3>1, <3>2
  <2> QED BY <2>1, <2>2
<1> DEFINE P(r) == Weight[r] >= Weight[k] /\ (r = 0 \/ Weight[r - 1] < Weight[k])
<1>5. P(k) /\ \A r \in 0 .. 30 : P(r) => r = k
  BY <1>3, <1>4
<1>6. Ilog2(Weight[k]) = CHOOSE r \in 0 .. 30 : P(r)
  BY DEF Ilog2
<1> HIDE DEF P
<1>7. (CHOOSE r \in 0 .. 30 : P(r)) = k
  BY <1>3, <1>5
<1> QED BY <1>6, <1>7

\* Sixteen bits are enough for 2^0 to 2^15.
LEMMA UncutPower == ASSUME NEW k \in 0 .. 15 PROVE Weight[k] % 65536 = Weight[k]
<1>1. Weight[k] <= Weight[15] /\ Weight[k] \in Nat /\ Weight[15] \in Nat \ {0}
  BY WeightGrows, WeightType
<1>2. Weight[15 + 1] = 2 * Weight[15]
  BY WeightDef
<1>3. Weight[k] \in Nat /\ Weight[k] < 65536
  BY <1>1, <1>2, FirstWeights
<1> QED BY ONLY <1>3, SMT

\* No two powers of two are the same.
LEMMA WeightOnce == \A i, j \in Nat : Weight[i] = Weight[j] <=> i = j
<1> SUFFICES ASSUME NEW i \in Nat, NEW j \in Nat, Weight[i] = Weight[j] PROVE i = j
  OBVIOUS
<1>1. i < j => Weight[i] < Weight[j]
  BY WeightDef, DoublingGrows
<1>2. j < i => Weight[j] < Weight[i]
  BY WeightDef, DoublingGrows
<1> QED BY <1>1, <1>2, WeightType

\* Entries larger than 64 bytes need more memory than there is for as many of 64.
LEMMA DoubledEntries ==
    ASSUME NEW c \in Nat, NEW log \in Nat
    PROVE  ((64 * Weight[c]) * Weight[log] <= 64 * Weight[log]) <=> (c = 0)
<1> DEFINE size == Weight[c]
           all == Weight[log]
<1>1. size \in Nat /\ all \in Nat \ {0}
  BY WeightType
<1>2. CASE c = 0
  <2>1. size = 1
    BY <1>2, WeightDef
  <2> QED BY <2>1, <1>1, <1>2
<1>3. CASE c # 0
  <2>1. size >= 2
    BY <1>3, FirstWeights, WeightGrows
  <2> HIDE DEF size, all
  <2>2. PICK more \in Nat : size = 2 + more
    <3>1. size - 2 \in Nat /\ size = 2 + (size - 2)
      BY <1>1, <2>1
    <3> QED BY <3>1
  <2>3. (64 * size) * all = 128 * all + (64 * more) * all
    BY <1>1, <2>2
  <2>4. (64 * more) * all \in Nat
    BY <1>1
  <2>5. (64 * size) * all > 64 * all
    BY <1>1, <2>3, <2>4
  <2> QED BY <2>5, <1>1, <1>3 DEF size, all
<1> QED BY <1>2, <1>3

\* What poll_cq goes by is a number: the default, or the caller's, as it was or as
\* initialize left it.
SetInv == cqHwParams.log_cq_size \in Nat

LEMMA SetInductive == CmdSpec => []SetInv
<1>1. CmdInit => SetInv
  BY DEF CmdInit, SetInv, DefaultCqParams
<1>2. CmdInv /\ SetInv /\ [CmdNext]_cmdVars => SetInv'
  <2> SUFFICES ASSUME CmdInv, SetInv, [CmdNext]_cmdVars PROVE SetInv'
    OBVIOUS
  <2>1. ASSUME NEW p \in CqParams, SetCqHwParams(p) PROVE SetInv'
    <3>1. Fits(Cqc["log_cq_size"], p.log_cq_size) /\ Cqc["log_cq_size"].size \in Nat
      BY CommandAssumption, ContextAssumption
    <3> QED BY <2>1, <3>1, FitsNat DEF SetCqHwParams, SetInv
  <2>2. ASSUME cq # None, SetCqHwParams(returned) PROVE SetInv'
    <3>1. PICK log \in 0 .. 31 : \E p \in CqParams : returned = LeftByInitialize(p, log)
      BY <2>2 DEF CmdInv, CqInv
    <3>2. returned.log_cq_size = log
      BY <3>1, CommandAssumption DEF LeftByInitialize, DefaultCqParams
    <3> QED BY <2>2, <3>2 DEF SetCqHwParams, SetInv
  <2>3. CASE UNCHANGED cqHwParams
    BY <2>3 DEF SetInv
  <2>4. ASSUME NEW p \in CqParams, InitializeCq(p) PROVE UNCHANGED cqHwParams
    BY <2>4 DEF InitializeCq
  <2>5. CASE QueryHcaCapabilities \/ (\E length \in Lengths : InitializeMr(length))
    BY <2>3, <2>5 DEF QueryHcaCapabilities, InitializeMr, cqVars
  <2>6. ASSUME NEW q \in Qps, NEW p \in CreateParams, InitializeQp(q, p)
        PROVE  UNCHANGED cqHwParams
    BY <2>6 DEF InitializeQp, cqVars
  <2>7. ASSUME NEW q \in Qps, NEW p \in ConnParams, ResetToInit(q, p) \/ InitToRtr(q, p) \/ RtrToRts(q, p)
        PROVE  UNCHANGED cqHwParams
    BY <2>7 DEF ResetToInit, InitToRtr, RtrToRts, Modify, cqVars
  <2>8. ASSUME NEW q \in Qps, Post(q) PROVE UNCHANGED cqHwParams
    <3>1. \A opcode, laddr, raddr, length, imm :
              PostWqe(q, opcode, laddr, raddr, length, imm) => UNCHANGED cqHwParams
      BY DEF PostWqe, cqVars
    <3> QED BY <2>8, <3>1 DEF Post
  <2>9. UNCHANGED cmdVars => UNCHANGED cqHwParams
    BY DEF cmdVars
  <2> QED BY <2>1, <2>2, <2>3, <2>4, <2>5, <2>6, <2>7, <2>8, <2>9 DEF CmdNext
<1> QED BY <1>1, <1>2, CmdInductive, PTL DEF CmdSpec

\* Host and device see the same rings as far as the caller sees to it: as many entries in
\* the completion queue as its memory was allocated for, which hold them if they have 64
\* bytes and not otherwise; as many polled if the object goes by the size initialize left
\* in the caller's parameters and not otherwise; and as many in a send queue whose size is
\* a power of two within its members (initialize, initialize_cq_resources,
\* set_cq_hw_params, poll_cq).
THEOREM SameRings == CmdSpec => []RingsAgree
<1>1. CmdInv /\ SetInv => RingsAgree
  <2> SUFFICES ASSUME CmdInv, SetInv PROVE RingsAgree
    OBVIOUS
  <2>1. ASSUME cq # None
        PROVE  /\ CreatedEntries = cq.entries
               /\ (EntryBytes * CreatedEntries <= cq.bytes) <=> (returned.cqe_sz = 0)
               /\ (PolledEntries = CreatedEntries)
                  <=> (cqHwParams.log_cq_size = returned.log_cq_size)
    <3>1. PICK log \in 0 .. 31 :
              /\ cq = [entries |-> Weight[log], bytes |-> 64 * Weight[log]]
              /\ DevxGet(Cqc.log_cq_size, cqctx) = log
              /\ \E p \in CqParams : returned = LeftByInitialize(p, log)
              /\ DevxGet(Cqc.cqe_sz, cqctx) = returned.cqe_sz
      BY <2>1 DEF CmdInv, CqInv
    <3>2. cq.entries = Weight[log] /\ cq.bytes = 64 * Weight[log] /\ CreatedEntries = Weight[log]
      BY <3>1 DEF CreatedEntries
    <3>3. returned.log_cq_size = log /\ returned.cqe_sz \in Nat
      <4>1. PICK p \in CqParams : returned = LeftByInitialize(p, log)
        BY <3>1
      <4>2. returned.log_cq_size = log /\ returned.cqe_sz = p.cqe_sz
        BY <4>1, CommandAssumption DEF LeftByInitialize, DefaultCqParams
      <4>3. Fits(Cqc["cqe_sz"], p.cqe_sz) /\ Cqc["cqe_sz"].size \in Nat
        BY CommandAssumption, ContextAssumption, StructuresLaid DEF Has, WellLaid
      <4> QED BY <4>2, <4>3, FitsNat
    <3>4. (EntryBytes * CreatedEntries <= cq.bytes) <=> (returned.cqe_sz = 0)
      <4>1. EntryBytes = 64 * Weight[returned.cqe_sz]
        BY <3>1 DEF EntryBytes
      <4> QED BY <3>2, <3>3, <4>1, DoubledEntries
    <3>5. (PolledEntries = CreatedEntries) <=> (cqHwParams.log_cq_size = log)
      BY <3>2, WeightOnce DEF PolledEntries, SetInv
    <3> QED BY <3>2, <3>3, <3>4, <3>5
  <2>2. ASSUME NEW q \in Qps, Created(q), asked[q].create.sq_size \in RingSizes
        PROVE  Weight[DevxGet(Qpc.log_sq_size, qpctx[q])] = sqSize[q]
    <3> DEFINE p == asked[q].create
               values == QpValues(p)
    <3>1. sqSize[q] = StoredSize(p.sq_size) /\ Kept(qpctx[q], values)
      BY <2>2, CreatedAfter DEF QpInv
    <3>2. PICK k \in 0 .. 15 : p.sq_size = Weight[k]
      BY <2>2 DEF RingSizes
    <3>3. /\ "log_sq_size" \in DOMAIN values /\ values["log_sq_size"] = k
          /\ "log_sq_size" \in Leaves
      BY <3>2, Ilog2OfPower, LeafNames DEF QpValues, OwnNames
    <3>4. Fits(Qpc["log_sq_size"], k)
      <4>1. "log_sq_size" \in DOMAIN QpcOwn /\ QpcOwn["log_sq_size"].size >= 4
        BY ContextAssumption DEF Has
      <4>2. Qpc["log_sq_size"].size >= 4 /\ Qpc["log_sq_size"].size \in Nat
        BY <4>1, <3>3, QpcLaid DEF Leaves
      <4>3. k \in Nat /\ k < Weight[4]
        BY FirstWeights
      <4> QED BY <4>2, <4>3, FitsFew
    <3> HIDE DEF p, values
    <3>5. DevxGet(Qpc["log_sq_size"], qpctx[q]) = k
      BY <3>1, <3>3, <3>4, KeptReads
    <3>6. sqSize[q] = Weight[k]
      BY <3>1, <3>2, UncutPower DEF StoredSize
    <3> QED BY <3>5, <3>6
  <2> QED BY <2>1, <2>2 DEF RingsAgree
<1> QED BY <1>1, CmdInductive, SetInductive, PTL

\* The first segment of a WQE as the device takes it apart.
LEMMA ControlRead ==
    ASSUME NEW pi \in Nat, pi < 65536, NEW opcode \in Nat, opcode < 256,
           NEW q \in Nat, NEW ds \in Nat, ds < 256, NEW imm
    PROVE  LET c == CtrlSeg(pi, opcode, q, ds, imm)
           IN  /\ c.opmod_idx_opcode % 256 = opcode
               /\ c.opmod_idx_opcode \div 256 = pi
               /\ c.qpn_ds % 256 = ds
               /\ c.qpn_ds \div 256 = q
               /\ c.imm = imm
<1>1. pi % 65536 = pi
  BY SMT
<1> DEFINE byte == 256
<1>2. byte \in Nat \ {0} /\ opcode \in 0 .. byte - 1 /\ ds \in 0 .. byte - 1 /\ byte = 256
  <2>1. byte = 256 /\ byte \in Nat \ {0} /\ opcode < byte /\ ds < byte
    OBVIOUS
  <2> HIDE DEF byte
  <2> QED BY <2>1
<1> HIDE DEF byte
<1>3. /\ (byte * pi + opcode) % byte = opcode /\ (byte * pi + opcode) \div byte = pi
      /\ (byte * q + ds) % byte = ds /\ (byte * q + ds) \div byte = q
  BY <1>2, ModOfMultiplePlus, DivIs
<1>4. pi * 256 + opcode = byte * pi + opcode /\ q * 256 + ds = byte * q + ds
  BY <1>2
<1>5. LET c == CtrlSeg(pi, opcode, q, ds, imm)
      IN  /\ c.opmod_idx_opcode = pi * 256 + opcode
          /\ c.qpn_ds = q * 256 + ds
          /\ c.imm = imm
  BY <1>1 DEF CtrlSeg
<1> QED BY <1>2, <1>3, <1>4, <1>5

\* What the device reads from the slot of a WQE.
LEMMA SlotRead ==
    ASSUME NEW q \in Nat, NEW pi \in Nat, pi < 65536, NEW r, r.opcode \in Nat, r.opcode < 256
    PROVE  LET wqe == WqeDecoded(Slot(WqeSegments(q, pi, r)))
           IN  /\ wqe.opcode = r.opcode
               /\ wqe.index = pi
               /\ wqe.qpn = q
               /\ wqe.imm = IF HasImm(r.opcode) THEN r.imm ELSE 0
               /\ wqe.data = {DataSeg(r.length, r.lkey, r.laddr)}
               /\ NeedRaddr(r.opcode) => wqe.remote = RaddrSeg(r.raddr, r.rkey)
<1> DEFINE far == NeedRaddr(r.opcode)
           ds == IF far THEN 3 ELSE 2
           imm == IF HasImm(r.opcode) THEN r.imm ELSE 0
           ctrl == CtrlSeg(pi, r.opcode, q, ds, imm)
           raddr == RaddrSeg(r.raddr, r.rkey)
           data == DataSeg(r.length, r.lkey, r.laddr)
           S == Slot(WqeSegments(q, pi, r))
           wqe == WqeDecoded(S)
<1>1. (far => ds = 3) /\ (~far => ds = 2) /\ ds \in Nat /\ ds < 256
  OBVIOUS
<1>2. WqeSegments(q, pi, r) = IF far THEN << ctrl, raddr, data >> ELSE << ctrl, data >>
  BY DEF WqeSegments
<1>3. /\ ctrl.opmod_idx_opcode % 256 = r.opcode
      /\ ctrl.opmod_idx_opcode \div 256 = pi
      /\ ctrl.qpn_ds % 256 = ds
      /\ ctrl.qpn_ds \div 256 = q
      /\ ctrl.imm = imm
  BY <1>1, ControlRead
<1> HIDE DEF ds, imm, ctrl, raddr, data, far
<1>4. /\ S[1] = ctrl
      /\ far => S[2] = raddr /\ S[3] = data
      /\ ~far => S[2] = data
  <2>1. CASE far
    <3>1. S = Slot(<< ctrl, raddr, data >>)
      BY <2>1, <1>2
    <3> HIDE DEF S
    <3> QED BY <2>1, <3>1 DEF Slot
  <2>2. CASE ~far
    <3>1. S = Slot(<< ctrl, data >>)
      BY <2>2, <1>2
    <3> HIDE DEF S
    <3> QED BY <2>2, <3>1 DEF Slot
  <2> QED BY <2>1, <2>2
<1> HIDE DEF S
<1> DEFINE count == S[1].qpn_ds % 256
           others == SubSeq(S, 2, count)
           opcode == S[1].opmod_idx_opcode % 256
           from == IF NeedRaddr(opcode) THEN 2 ELSE 1
<1>5. /\ wqe.opcode = opcode
      /\ wqe.index = S[1].opmod_idx_opcode \div 256
      /\ wqe.qpn = S[1].qpn_ds \div 256
      /\ wqe.imm = S[1].imm
      /\ wqe.remote = IF NeedRaddr(opcode) THEN others[1] ELSE RaddrSeg(0, 0)
      /\ wqe.data = {others[i] : i \in from .. Len(others)}
  <2>1. wqe = [opcode |-> opcode, index |-> S[1].opmod_idx_opcode \div 256,
               qpn |-> S[1].qpn_ds \div 256, imm |-> S[1].imm,
               remote |-> IF NeedRaddr(opcode) THEN others[1] ELSE RaddrSeg(0, 0),
               data |-> {others[i] : i \in from .. Len(others)}]
    BY ONLY Zenon DEF WqeDecoded
  <2> HIDE DEF wqe, others, opcode, from
  <2> QED BY <2>1
<1>6. opcode = r.opcode /\ from = IF far THEN 2 ELSE 1
  BY <1>3, <1>4 DEF far
<1>7. /\ Len(others) = ds - 1
      /\ far => others[1] = raddr /\ others[2] = data
      /\ ~far => others[1] = data
  <2>0. count = ds
    BY <1>3, <1>4
  <2> HIDE DEF count
  <2>1. others = SubSeq(S, 2, ds)
    BY ONLY <2>0, Zenon
  <2> HIDE DEF others
  <2>2. /\ 2 \in Int /\ ds \in Int /\ 2 <= ds
        /\ \A i \in 2 .. ds : S[i] \in {raddr, data}
    BY <1>1, <1>4
  <2>3. /\ Len(others) = ds - 1
        /\ \A i \in 1 .. ds - 1 : others[i] = S[i + 1]
    <3>1. /\ Len(others) = ds - 2 + 1
          /\ \A i \in 1 .. ds - 2 + 1 : others[i] = S[2 + i - 1]
      BY <2>1, <2>2, SubSeqProperties
    <3> QED BY <3>1, <1>1
  <2> QED BY <1>1, <1>4, <2>3
<1> HIDE DEF wqe, others, opcode, from
<1>8. wqe.data = {data}
  <2>1. \A i \in from .. Len(others) : others[i] = data
    BY <1>1, <1>6, <1>7
  <2>2. from \in from .. Len(others)
    BY <1>1, <1>6, <1>7
  <2> QED BY <1>5, <2>1, <2>2
<1>9. far => wqe.remote = raddr
  BY <1>5, <1>6, <1>7 DEF far
<1>10. wqe.opcode = r.opcode /\ wqe.index = pi /\ wqe.qpn = q /\ wqe.imm = imm
  BY <1>3, <1>4, <1>5, <1>6
<1> QED BY <1>8, <1>9, <1>10 DEF wqe, S, imm, raddr, data, far

\* What a WQE that was posted says, and that the queue pairs and the region are there.
LEMMA Posted ==
    ASSUME CmdInv, NEW q \in Qps, posts[q] > 0
    PROVE  /\ Created(q) /\ Created(Peer(q)) /\ Peer(q) \in Qps /\ mr # None
           /\ RequestOf(request[q])
           /\ LET wqe == WqeDecoded(slot[q])
                  r == request[q]
              IN  /\ wqe.opcode = r.opcode
                  /\ wqe.index = posts[q] - 1
                  /\ wqe.qpn = q
                  /\ wqe.imm = r.imm
                  /\ wqe.data = {DataSeg(r.length, r.lkey, r.laddr)}
                  /\ NeedRaddr(r.opcode) => wqe.remote = RaddrSeg(r.raddr, r.rkey)
<1> DEFINE r == request[q]
           pi == posts[q] - 1
<1>1. /\ posts[q] \in 0 .. MaxPosts /\ "rts" \in DOMAIN asked[q] /\ mr # None
      /\ RequestOf(r) /\ slot[q] = Slot(WqeSegments(q, pi, r))
  BY DEF CmdInv, PostInv
<1>2. Created(q)
  BY DEF CmdInv, NoQpInv
<1>3. Created(Peer(q)) /\ Peer(q) \in Qps
  <2>1. QpInv(q)
    BY <1>2, CreatedAfter
  <2>2. "rtr" \in DOMAIN asked[q]
    BY <2>1, <1>1, CallsOf DEF QpInv
  <2> QED BY <2>1, <2>2, PeerIs DEF QpInv
<1>4. q \in Nat
  <2>1. Qpc["remote_qpn"].size \in Nat
    BY LeafNames, QpcLaid DEF OwnNames, Leaves
  <2>2. Fits(Qpc["remote_qpn"], q)
    BY CommandAssumption
  <2> QED BY <2>1, <2>2, FitsNat
<1>5. pi \in Nat /\ pi < 65536
  BY <1>1, CommandAssumption
<1>6. /\ r.opcode \in Nat /\ r.opcode < 256
      /\ r.imm = IF HasImm(r.opcode) THEN 7 ELSE 0
  <2>1. /\ r.opcode \in {SendOp, SendImmOp, RdmaWriteOp, RdmaWriteImmOp, RdmaReadOp}
        /\ r = [opcode |-> r.opcode, laddr |-> mr.addr, lkey |-> mr.lkey,
                raddr |-> IF NeedRaddr(r.opcode) THEN mr.addr + mr.length \div 2 ELSE 0,
                rkey |-> mr.rkey, length |-> mr.length \div 2,
                imm |-> IF HasImm(r.opcode) THEN 7 ELSE 0]
    BY <1>1 DEF RequestOf
  <2> HIDE DEF r
  <2>2. r.imm = IF HasImm(r.opcode) THEN 7 ELSE 0
    BY <2>1
  <2>3. r.opcode \in Nat /\ r.opcode < 256
    BY <2>1 DEF SendOp, SendImmOp, RdmaWriteOp, RdmaWriteImmOp, RdmaReadOp
  <2> QED BY <2>2, <2>3
<1> HIDE DEF r, pi
<1>7. LET wqe == WqeDecoded(slot[q])
      IN  /\ wqe.opcode = r.opcode
          /\ wqe.index = pi
          /\ wqe.qpn = q
          /\ wqe.imm = IF HasImm(r.opcode) THEN r.imm ELSE 0
          /\ wqe.data = {DataSeg(r.length, r.lkey, r.laddr)}
          /\ NeedRaddr(r.opcode) => wqe.remote = RaddrSeg(r.raddr, r.rkey)
  BY <1>1, <1>4, <1>5, <1>6, SlotRead
<1>8. (IF HasImm(r.opcode) THEN r.imm ELSE 0) = r.imm
  BY <1>6
<1> QED BY <1>1, <1>2, <1>3, <1>7, <1>8 DEF r, pi

\* The device reads from a WQE what the caller asked for (post_wqe and its five callers).
THEOREM WqesSay == CmdSpec => []WqeAsAsked
<1>1. CmdInv => WqeAsAsked
  BY Posted DEF WqeAsAsked
<1> QED BY <1>1, CmdInductive, PTL

\* The two parts of a memory key.
LEMMA KeyParts ==
    ASSUME NEW index \in Nat
    PROVE  KeyOf(index) \div 256 = index /\ KeyOf(index) % 256 = KeyByte
BY SMT DEF KeyOf, KeyByte

\* The key of the region opens what is inside it, to every queue pair.
LEMMA RegionOpens ==
    ASSUME CmdInv, mr # None, NEW q \in Qps, Created(q),
           NEW first \in Nat, NEW length \in Nat,
           first >= mr.addr, first + length <= mr.addr + mr.length
    PROVE  Opens(mr.lkey, qpctx[q], first, length) /\ mr.rkey = mr.lkey
<1> DEFINE values == MkeyValues(mr.length)
           Names == {"mkey_7_0", "pd", "start_addr", "len", "lr", "lw", "rr", "rw"}
<1>1. /\ mr = [lkey |-> KeyOf(Ids.mkey_index), rkey |-> KeyOf(Ids.mkey_index),
               addr |-> Ids.addr, length |-> mr.length]
      /\ \A n \in Names : DevxGet(Mkc[n], mkctx) = values[n]
  BY DEF CmdInv, MrInv
<1>2. mr.lkey = KeyOf(Ids.mkey_index) /\ mr.rkey = mr.lkey /\ mr.addr = Ids.addr
  BY <1>1
<1>3. /\ values["mkey_7_0"] = KeyByte /\ values["pd"] = Ids.pdn
      /\ values["start_addr"] = Ids.addr /\ values["len"] = mr.length
      /\ values["lr"] = 1 /\ values["lw"] = 1 /\ values["rr"] = 1 /\ values["rw"] = 1
  BY DEF MkeyValues
<1> HIDE DEF values
<1>4. /\ DevxGet(Mkc["mkey_7_0"], mkctx) = KeyByte /\ DevxGet(Mkc["pd"], mkctx) = Ids.pdn
      /\ DevxGet(Mkc["start_addr"], mkctx) = Ids.addr /\ DevxGet(Mkc["len"], mkctx) = mr.length
      /\ \A right \in {"lr", "lw", "rr", "rw"} : DevxGet(Mkc[right], mkctx) = 1
  BY <1>1, <1>3
<1>5. Ids.mkey_index \in Nat
  <2>1. CreateMkeyOut["mkey_index"].size \in Nat
    BY StructuresLaid, CommandLayoutAssumption DEF Has, WellLaid
  <2>2. Fits(CreateMkeyOut["mkey_index"], Ids.mkey_index)
    BY CommandAssumption
  <2> QED BY <2>1, <2>2, FitsNat
<1>6. DevxGet(Qpc["pd"], qpctx[q]) = Ids.pdn
  <2> DEFINE kept == QpValues(asked[q].create)
  <2>1. Kept(qpctx[q], kept)
    BY CreatedAfter DEF QpInv
  <2>2. "pd" \in DOMAIN kept /\ kept["pd"] = Ids.pdn
    BY DEF QpValues
  <2>3. "pd" \in Leaves
    BY LeafNames DEF OwnNames
  <2>4. Fits(Qpc["pd"], Ids.pdn)
    BY CommandAssumption DEF AllFit
  <2> HIDE DEF kept
  <2> QED BY <2>1, <2>2, <2>3, <2>4, KeptReads
<1>7. KeyOf(Ids.mkey_index) \div 256 = Ids.mkey_index /\ KeyOf(Ids.mkey_index) % 256 = KeyByte
  BY <1>5, KeyParts
<1> QED BY <1>2, <1>4, <1>6, <1>7 DEF Opens

\* The keys in a WQE open the memory it names, here and at the peer
\* (memory_region::initialize, queue_pair::initialize, post_wqe).
THEOREM KeysOpen == CmdSpec => []KeysOpenTheRegion
<1>1. CmdInv => KeysOpenTheRegion
  <2> SUFFICES ASSUME CmdInv, NEW q \in Qps, posts[q] > 0
               PROVE  LET wqe == WqeDecoded(slot[q])
                      IN  /\ \A d \in wqe.data : Opens(d.lkey, qpctx[q], d.addr, d.byte_count)
                          /\ NeedRaddr(wqe.opcode) =>
                                 \A d \in wqe.data :
                                     Opens(wqe.remote.rkey, qpctx[Peer(q)], wqe.remote.raddr,
                                           d.byte_count)
    BY DEF KeysOpenTheRegion
  <2> DEFINE r == request[q]
             wqe == WqeDecoded(slot[q])
             half == mr.length \div 2
             data == DataSeg(r.length, r.lkey, r.laddr)
  <2>1. /\ Created(q) /\ Created(Peer(q)) /\ Peer(q) \in Qps /\ mr # None /\ RequestOf(r)
        /\ wqe.opcode = r.opcode
        /\ wqe.data = {data}
        /\ NeedRaddr(r.opcode) => wqe.remote = RaddrSeg(r.raddr, r.rkey)
    BY Posted
  <2>2. r = [opcode |-> r.opcode, laddr |-> mr.addr, lkey |-> mr.lkey,
             raddr |-> IF NeedRaddr(r.opcode) THEN mr.addr + half ELSE 0,
             rkey |-> mr.rkey, length |-> half,
             imm |-> IF HasImm(r.opcode) THEN 7 ELSE 0]
    BY <2>1 DEF RequestOf
  <2>3. mr.addr \in Nat /\ mr.length \in Nat
    <3>1. mr.addr = Ids.addr /\ mr.length \in Lengths
      BY <2>1 DEF CmdInv, MrInv
    <3>2. /\ Mkc["start_addr"].size \in Nat /\ Mkc["len"].size \in Nat
      BY StructuresLaid, ContextAssumption DEF Has, WellLaid
    <3>3. Fits(Mkc["start_addr"], Ids.addr) /\ Fits(Mkc["len"], mr.length)
      BY <3>1, CommandAssumption DEF AllFit
    <3>4. Ids.addr \in Nat /\ mr.length \in Nat
      BY <3>2, <3>3, FitsNat
    <3> QED BY <3>1, <3>4
  <2>4. half \in Nat /\ 2 * half <= mr.length
    BY <2>3
  <2> HIDE DEF r, wqe, half, data
  <2>5. /\ r.laddr = mr.addr /\ r.lkey = mr.lkey /\ r.length = half /\ r.rkey = mr.rkey
        /\ NeedRaddr(r.opcode) => r.raddr = mr.addr + half
    BY <2>2
  <2>6. data.lkey = mr.lkey /\ data.addr = mr.addr /\ data.byte_count = half
    BY <2>5 DEF data, DataSeg
  <2>7. Opens(mr.lkey, qpctx[q], mr.addr, half)
    BY <2>1, <2>3, <2>4, RegionOpens
  <2>8. Opens(mr.rkey, qpctx[Peer(q)], mr.addr + half, half)
    <3>1. mr.addr + half \in Nat /\ mr.addr + half >= mr.addr
          /\ (mr.addr + half) + half <= mr.addr + mr.length
      BY <2>3, <2>4
    <3> QED BY <2>1, <2>4, <3>1, RegionOpens
  <2>9. NeedRaddr(wqe.opcode) => wqe.remote.rkey = mr.rkey /\ wqe.remote.raddr = mr.addr + half
    BY <2>1, <2>5 DEF RaddrSeg
  <2>10. \A d \in wqe.data : d = data
    BY <2>1
  <2> QED BY <2>6, <2>7, <2>8, <2>9, <2>10 DEF wqe
<1> QED BY <1>1, CmdInductive, PTL

\* What a query finds in the answer: the context, and the counters beside it.
LEMMA AnswerRead ==
    ASSUME CmdInv, NEW q \in Qps, Created(q)
    PROVE  LET out == Extract(QueryQpOut.qpc, QueryQpAnswer(q))
           IN  /\ DevxGet(Qpc.hw_sq_wqebb_counter, out) = posts[q]
               /\ DevxGet(Qpc.sw_sq_wqebb_counter, out) = posts[q]
               /\ \A n \in Leaves \ {"hw_sq_wqebb_counter", "sw_sq_wqebb_counter"} :
                      /\ out \cap Span(Qpc[n]) = qpctx[q] \cap Span(Qpc[n])
                      /\ DevxGet(Qpc[n], out) = DevxGet(Qpc[n], qpctx[q])
<1> DEFINE counters == [hw_sq_wqebb_counter |-> posts[q], sw_sq_wqebb_counter |-> posts[q]]
           Counters == {"hw_sq_wqebb_counter", "sw_sq_wqebb_counter"}
           B == qpctx[q]
           K == DevxSetAll(Qpc, counters)
           f == QueryQpOut["qpc"]
           out == Extract(f, QueryQpAnswer(q))
<1>1. DOMAIN counters = Counters /\ \A n \in Counters : counters[n] = posts[q]
  OBVIOUS
<1>2. Counters \subseteq Leaves
  BY LeafNames DEF OwnNames
<1>3. QueryQpAnswer(q) = Embed(f, B \cup K)
  BY DEF QueryQpAnswer
<1> HIDE DEF counters
<1>4. K \subseteq ContextBits
      /\ \A n \in Leaves : K \cap Span(Qpc[n]) =
             IF n \in Counters THEN DevxSet(Qpc[n], posts[q]) ELSE {}
  BY <1>1, <1>2, ContextHolds DEF ContextBits
<1>5. B \subseteq ContextBits /\ Kept(B, CountersAtZero)
  BY CreatedAfter DEF QpInv
<1> HIDE DEF B, K
<1>6. f.off \in Nat /\ f.size \in Nat /\ f.size >= Size(Qpc) /\ Size(Qpc) \in Nat
  BY StructuresLaid, CommandLayoutAssumption, QpcLaid DEF Has, WellLaid
<1> HIDE DEF f
<1>7. out = B \cup K
  <2> DEFINE C == B \cup K
  <2>1. C \subseteq 0 .. f.size - 1
    BY <1>4, <1>5, <1>6 DEF ContextBits
  <2> HIDE DEF C
  <2>2. {} \in SUBSET Int /\ {} \cap Span(f) = {} /\ {} \cup Embed(f, C) = Embed(f, C)
    OBVIOUS
  <2>3. Extract(f, {} \cup Embed(f, C)) = C
    BY <2>1, <2>2, <1>6, ExtractEmbedded
  <2> QED BY <2>2, <2>3, <1>3 DEF C
<1> HIDE DEF out
<1>8. ASSUME NEW n \in Counters PROVE DevxGet(Qpc[n], out) = posts[q]
  <2>1. Qpc[n].off \in Nat /\ Qpc[n].size \in Nat
    BY <1>2, QpcLaid DEF Leaves
  <2>2. B \cap Span(Qpc[n]) = {}
    <3>1. n \in DOMAIN CountersAtZero /\ CountersAtZero[n] = 0
      BY DEF CountersAtZero
    <3> QED BY <3>1, <2>1, <1>5, SetZero DEF Kept
  <2>3. out \cap Span(Qpc[n]) = DevxSet(Qpc[n], posts[q])
    BY <1>2, <1>4, <1>7, <2>2
  <2>4. Fits(Qpc[n], posts[q])
    <3>1. n \in DOMAIN QpcOwn /\ QpcOwn[n].size >= 16
      BY ContextAssumption DEF Has
    <3>2. Qpc[n].size >= 16
      BY <3>1, QpcLaid
    <3>3. posts[q] \in 0 .. MaxPosts /\ MaxPosts \in Nat /\ MaxPosts < 65536
      BY CommandAssumption DEF CmdInv, PostInv
    <3>4. posts[q] \in Nat /\ posts[q] < Weight[16]
      BY <3>3, FirstWeights
    <3>5. 16 \in Nat /\ 16 <= 16
      OBVIOUS
    <3> QED BY ONLY <2>1, <3>2, <3>4, <3>5, FitsFew
  <2> QED BY <2>1, <2>3, <2>4, GetFitting
<1>9. ASSUME NEW n \in Leaves \ Counters
      PROVE  /\ out \cap Span(Qpc[n]) = B \cap Span(Qpc[n])
             /\ DevxGet(Qpc[n], out) = DevxGet(Qpc[n], B)
  <2>1. out \cap Span(Qpc[n]) = B \cap Span(Qpc[n])
    BY <1>4, <1>7
  <2>2. Qpc[n].off \in Nat /\ Qpc[n].size \in Nat
    BY QpcLaid DEF Leaves
  <2> QED BY <2>1, <2>2, GetFrame
<1> QED BY <1>8, <1>9 DEF out, B, f

\* As many calls have succeeded as the state says.
LEMMA CallsCounted ==
    ASSUME NEW s \in 0 .. 3
    PROVE  Cardinality(CallsUpTo(s)) = s + 1
<1>1. CallsUpTo(0) = {"create"} /\ CallsUpTo(1) = CallsUpTo(0) \cup {"init"}
      /\ CallsUpTo(2) = CallsUpTo(1) \cup {"rtr"} /\ CallsUpTo(3) = CallsUpTo(2) \cup {"rts"}
  BY CallsOf
<1>2. "init" \notin CallsUpTo(0) /\ "rtr" \notin CallsUpTo(1) /\ "rts" \notin CallsUpTo(2)
  BY CallsOf
<1>3. IsFiniteSet(CallsUpTo(0)) /\ Cardinality(CallsUpTo(0)) = 1
  <2>1. IsFiniteSet({"create"}) /\ Cardinality({"create"}) = 1
    BY ONLY FS_Singleton, Zenon
  <2>2. CallsUpTo(0) = {"create"}
    BY <1>1
  <2> QED BY ONLY <2>1, <2>2, Zenon
<1>4. IsFiniteSet(CallsUpTo(1)) /\ Cardinality(CallsUpTo(1)) = 2
  BY <1>1, <1>2, <1>3, FS_AddElement
<1>5. IsFiniteSet(CallsUpTo(2)) /\ Cardinality(CallsUpTo(2)) = 3
  BY <1>1, <1>2, <1>4, FS_AddElement
<1>6. Cardinality(CallsUpTo(3)) = 4
  <2>1. Cardinality(CallsUpTo(2) \cup {"rts"}) = Cardinality(CallsUpTo(2)) + 1
    BY <1>2, <1>5, FS_AddElement
  <2> QED BY ONLY <1>1, <1>5, <2>1, SMT
<1>7. s = 0 \/ s = 1 \/ s = 2 \/ s = 3
  OBVIOUS
<1> QED BY <1>3, <1>4, <1>5, <1>6, <1>7

\* A query reports the state, the counters, the parameters and the peer's address that the
\* device has, and a state even where there is no queue pair (get_qp_state, query_qp_counters, queryAndPrintQpProperties).
THEOREM QueriesReport == CmdSpec => []QueriesTellTheTruth
<1>1. CmdInv => QueriesTellTheTruth
  <2>11. ASSUME NEW q \in Qps, ~Created(q) PROVE GetQpState(q, FALSE) = InitState
    BY <2>11 DEF GetQpState, InitState
  <2> SUFFICES ASSUME CmdInv, NEW q \in Qps, Created(q)
               PROVE  /\ GetQpState(q, FALSE) = Cardinality(DOMAIN asked[q]) - 1
                      /\ GetQpState(q, TRUE) \notin ResetState .. RtsState
                      /\ QueryQpCounters(q) = [hw |-> posts[q], sw |-> posts[q], sig |-> 0]
                      /\ LET names == PrintedFirst \cup PrintedThen
                             printed == Printed(q, names)
                         IN  \A n \in names : printed[n] = DevxGet(Qpc[n], qpctx[q])
                      /\ "rtr" \in DOMAIN asked[q]
                         /\ (link = "ETHERNET" \/ asked[q].rtr.is_global = 1) =>
                             PrintedIp(q) = LowWord(PortOf[Peer(q)].gid)
    BY <2>11 DEF QueriesTellTheTruth
  <2> DEFINE Counters == {"hw_sq_wqebb_counter", "sw_sq_wqebb_counter"}
             out == Extract(QueryQpOut.qpc, QueryQpAnswer(q))
  <2>1. /\ DevxGet(Qpc.hw_sq_wqebb_counter, out) = posts[q]
        /\ DevxGet(Qpc.sw_sq_wqebb_counter, out) = posts[q]
        /\ \A n \in Leaves \ Counters :
               /\ out \cap Span(Qpc[n]) = qpctx[q] \cap Span(Qpc[n])
               /\ DevxGet(Qpc[n], out) = DevxGet(Qpc[n], qpctx[q])
    BY AnswerRead
  <2>2. QpInv(q)
    BY CreatedAfter
  <2>3. {"state", "wq_signature", "rgid_rip"} \subseteq Leaves \ Counters
    BY LeafNames DEF OwnNames, PathNames
  <2>4. GetQpState(q, FALSE) = Cardinality(DOMAIN asked[q]) - 1
    <3>1. PICK s \in 0 .. 3 : DOMAIN asked[q] = CallsUpTo(s) /\ Kept(qpctx[q], [state |-> s])
      BY <2>2 DEF QpInv
    <3>2. DevxGet(Qpc["state"], qpctx[q]) = s
      BY <3>1, StateRead
    <3>3. GetQpState(q, FALSE) = DevxGet(Qpc["state"], out)
      BY DEF GetQpState
    <3> HIDE DEF out
    <3>4. Cardinality(CallsUpTo(s)) = s + 1
      BY CallsCounted
    <3>5. DevxGet(Qpc["state"], out) = Cardinality(DOMAIN asked[q]) - 1
      BY <2>1, <2>3, <3>1, <3>2, <3>4
    <3> QED BY ONLY <3>3, <3>5, Zenon
  <2>10. GetQpState(q, TRUE) \notin ResetState .. RtsState
    BY DEF GetQpState, QueryFailed, ResetState, RtsState
  <2>5. QueryQpCounters(q) = [hw |-> posts[q], sw |-> posts[q], sig |-> 0]
    <3> DEFINE values == QpValues(asked[q].create)
    <3>1. "wq_signature" \in DOMAIN values /\ values["wq_signature"] = 0 /\ Kept(qpctx[q], values)
      BY <2>2 DEF QpInv, QpValues
    <3>2. "wq_signature" \in Leaves /\ Fits(Qpc["wq_signature"], 0)
      BY <2>3, ConstantsFit
    <3> HIDE DEF values
    <3>3. DevxGet(Qpc["wq_signature"], qpctx[q]) = 0
      BY <3>1, <3>2, KeptReads
    <3>4. QueryQpCounters(q) = [hw |-> DevxGet(Qpc["hw_sq_wqebb_counter"], out),
                                sw |-> DevxGet(Qpc["sw_sq_wqebb_counter"], out),
                                sig |-> DevxGet(Qpc["wq_signature"], out)]
      BY DEF QueryQpCounters
    <3> HIDE DEF out
    <3> QED BY <2>1, <2>3, <3>3, <3>4
  <2>6. LET names == PrintedFirst \cup PrintedThen
            printed == Printed(q, names)
        IN  \A n \in names : printed[n] = DevxGet(Qpc[n], qpctx[q])
    <3> DEFINE names == PrintedFirst \cup PrintedThen
    <3>1. "primary_address_path" \notin names /\ names \cap Counters = {}
      BY DEF PrintedFirst, PrintedThen
    <3>2. names \subseteq DOMAIN Qpc
      BY ContextAssumption
    <3>3. names \subseteq Leaves \ Counters
      BY <3>1, <3>2 DEF Leaves
    <3> HIDE DEF names
    <3>4. Printed(q, names) = [n \in names |-> DevxGet(Qpc[n], out)]
      BY DEF Printed
    <3> HIDE DEF out
    <3>5. \A n \in names : Printed(q, names)[n] = DevxGet(Qpc[n], qpctx[q])
      BY <3>3, <3>4, <2>1
    <3> QED BY <3>5 DEF names
  <2>7. "rtr" \in DOMAIN asked[q] /\ (link = "ETHERNET" \/ asked[q].rtr.is_global = 1) =>
            PrintedIp(q) = LowWord(PortOf[Peer(q)].gid)
    <3> SUFFICES ASSUME "rtr" \in DOMAIN asked[q],
                        link = "ETHERNET" \/ asked[q].rtr.is_global = 1
                 PROVE  PrintedIp(q) = LowWord(PortOf[Peer(q)].gid)
      OBVIOUS
    <3> DEFINE gid == PortOf[Peer(q)].gid
    <3>1. qpctx[q] \cap Span(Qpc.rgid_rip) = DevxSet(Qpc.rgid_rip, gid)
      BY <2>2 DEF QpInv, PathKept
    <3>2. Fits(Qpc.rgid_rip, gid)
      BY PeerIs, PortAssumption
    <3>3. out \cap Span(Qpc.rgid_rip) = DevxSet(Qpc.rgid_rip, gid)
      BY <2>1, <2>3, <3>1
    <3>4. PrintedIp(q) = LET byte(i) == DevxGet([off |-> Qpc.rgid_rip.off + 8 * i, size |-> 8], out)
                         IN  byte(12) * 2^24 + byte(13) * 2^16 + byte(14) * 2^8 + byte(15)
      BY ONLY Zenon DEF PrintedIp
    <3> HIDE DEF out, gid
    <3>5. LET byte(i) == DevxGet([off |-> Qpc.rgid_rip.off + 8 * i, size |-> 8], out)
          IN  byte(12) * 2^24 + byte(13) * 2^16 + byte(14) * 2^8 + byte(15) = LowWord(gid)
      BY <3>2, <3>3, IpReads
    <3> QED BY ONLY <3>4, <3>5, Zenon DEF gid
  <2> QED BY ONLY <2>4, <2>5, <2>6, <2>7, <2>10, Zenon
<1> QED BY <1>1, CmdInductive, PTL
================================================================================
