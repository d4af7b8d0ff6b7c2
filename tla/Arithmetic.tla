------------------------------ MODULE Arithmetic ------------------------------
(***************************************************************************)
(* Facts about numbers that several proofs need: % and \div, on which the  *)
(* ring buffers rest, induction, and sums over finite sets.                *)
(***************************************************************************)
EXTENDS Integers, FiniteSetTheorems, TLAPS

------------------------------------------------------------------------------
(***************************************************************************)
(* Indices that grow for ever, folded into slots (% n) and passes          *)
(* (\div n).  The SMT backend knows linear arithmetic; products with the   *)
(* symbolic ring size are stepped through here once.                       *)
(***************************************************************************)

\* An index is its pass times the ring size plus its slot.
LEMMA DivMod ==
    ASSUME NEW n \in Nat \ {0}, NEW a \in Nat
    PROVE  /\ a \div n \in Nat
           /\ a % n \in 0 .. n - 1
           /\ a = n * (a \div n) + (a % n)
OBVIOUS

\* Within the first pass an index is its own slot.
LEMMA FirstPass ==
    ASSUME NEW n \in Nat \ {0}, NEW a \in 0 .. n - 1
    PROVE  a % n = a /\ a \div n = 0
OBVIOUS

\* One ring's length further: the same slot, the next pass.
LEMMA NextPass ==
    ASSUME NEW n \in Nat \ {0}, NEW a \in Nat
    PROVE  (a + n) % n = a % n /\ (a + n) \div n = (a \div n) + 1
OBVIOUS

\* Multiples of the ring size lie at least a ring apart.
LEMMA MultipleGap ==
    ASSUME NEW n \in Nat \ {0}, NEW p \in Nat, NEW q \in Nat, p < q
    PROVE  n * p + n <= n * q
<1>1. PICK d \in Nat : q = p + 1 + d
  BY q = p + 1 + (q - p - 1)
<1>2. n * q = n * p + n + n * d
  BY <1>1
<1> QED BY <1>2

\* Indices less than a ring's length apart have slots of their own.
LEMMA SlotUnique ==
    ASSUME NEW n \in Nat \ {0}, NEW a \in Nat, NEW b \in Nat, a < b, b < a + n
    PROVE  a % n # b % n
<1> SUFFICES ASSUME a % n = b % n PROVE FALSE
  OBVIOUS
<1> DEFINE p == a \div n
           q == b \div n
<1>1. /\ p \in Nat /\ a = n * p + (a % n) /\ a % n \in Nat
  BY ONLY a \in Nat, n \in Nat \ {0}, DivMod DEF p
<1>2. /\ q \in Nat /\ b = n * q + (b % n) /\ b % n \in Nat
  BY ONLY b \in Nat, n \in Nat \ {0}, DivMod DEF q
<1> HIDE DEF p, q
<1>3. n * p \in Nat /\ n * q \in Nat
  BY <1>1, <1>2
<1>4. n * p < n * q /\ n * q < n * p + n
  BY <1>1, <1>2, <1>3
<1>5. CASE p < q
  BY <1>5, <1>4, <1>3, <1>1, <1>2, MultipleGap
<1>6. CASE p = q
  BY <1>6, <1>4, <1>3
<1>7. CASE q < p
  BY <1>7, <1>4, <1>3, <1>1, <1>2, MultipleGap
<1> QED BY <1>1, <1>2, <1>5, <1>6, <1>7

\* A remainder survives adding a multiple of the divisor.
LEMMA ModOfMultiplePlus ==
    ASSUME NEW w \in Nat \ {0}, NEW n \in 0 .. w - 1, NEW q \in Nat
    PROVE  (w * q + n) % w = n
OBVIOUS

\* A quotient is what the product says it is.
LEMMA DivIs ==
    ASSUME NEW n \in Nat \ {0}, NEW q \in Nat, NEW r \in 0 .. n - 1
    PROVE  (n * q + r) \div n = q
OBVIOUS

\* A remainder is never above the number.
LEMMA ModAtMost ==
    ASSUME NEW n \in Nat \ {0}, NEW a \in Nat
    PROVE  a % n \in Nat /\ a % n <= a
<1> DEFINE q == a \div n
           r == a % n
<1>1. q \in Nat /\ r \in 0 .. n - 1 /\ a = n * q + r
  BY DivMod
<1> HIDE DEF q, r
<1>2. n * q \in Nat
  BY <1>1
<1>3. r \in Nat /\ r <= a
  BY <1>1, <1>2
<1> QED BY <1>3 DEF r

\* What is below a product has a quotient below the other factor.
LEMMA QuotientBelow ==
    ASSUME NEW a \in Nat \ {0}, NEW b \in Nat \ {0}, NEW v \in Nat, v < a * b
    PROVE  v \div a \in 0 .. b - 1
<1> DEFINE q == v \div a
<1>1. q \in Nat /\ v >= a * q
  BY DivMod
<1> HIDE DEF q
<1>2. ~(b <= q)
  <2> SUFFICES ASSUME b <= q PROVE FALSE
    OBVIOUS
  <2>1. PICK d \in Nat : q = b + d
    BY <1>1, q = b + (q - b)
  <2>2. a * q = a * b + a * d /\ a * d \in Nat /\ a * b \in Nat
    BY <2>1
  <2> QED BY <1>1, <2>2
<1> QED BY <1>1, <1>2 DEF q

\* Dividing by two numbers in turn is dividing by their product.
LEMMA DivDiv ==
    ASSUME NEW a \in Nat \ {0}, NEW b \in Nat \ {0}, NEW v \in Nat
    PROVE  (v \div a) \div b = v \div (a * b)
<1> DEFINE q == v \div a
           r == v % a
           s == q \div b
           t == q % b
<1>1. q \in Nat /\ r \in 0 .. a - 1 /\ v = a * q + r
  BY DivMod
<1>2. s \in Nat /\ t \in 0 .. b - 1 /\ q = b * s + t
  BY <1>1, DivMod
<1> HIDE DEF q, r, s, t
<1>3. a * b \in Nat \ {0}
  OBVIOUS
<1>4. v = (a * b) * s + (a * t + r)
  BY <1>1, <1>2
<1>5. a * t + a <= a * b
  BY <1>2, MultipleGap
<1>6. a * t \in Nat
  BY <1>2
<1>7. a * t + r \in 0 .. (a * b) - 1
  BY <1>1, <1>3, <1>5, <1>6
<1>8. v \div (a * b) = s
  <2> DEFINE n == a * b
             u == a * t + r
  <2>1. n \in Nat \ {0} /\ u \in 0 .. n - 1 /\ v = n * s + u
    BY <1>3, <1>4, <1>7
  <2> HIDE DEF n, u
  <2>2. v \div n = s
    BY <2>1, <1>2, DivIs
  <2> QED BY <2>2 DEF n
<1> QED BY <1>8 DEF q, s

\* The distance of two counters is still known when one of them is only
\* published modulo w.
LEMMA ModularDistance ==
    ASSUME NEW w \in Nat \ {0}, NEW n \in 0 .. w - 1, NEW c \in Nat
    PROVE  ((c + n) - (c % w)) % w = n
<1> DEFINE q == c \div w
<1>1. q \in Nat /\ c % w \in Nat /\ c = w * q + (c % w)
  BY DivMod
<1> HIDE DEF q
<1>2. (c + n) - (c % w) = w * q + n
  BY <1>1
<1> QED BY <1>2, <1>1, ModOfMultiplePlus

\* A multiple of the divisor may be dropped.
LEMMA ModDropsMultiple ==
    ASSUME NEW w \in Nat \ {0}, NEW q \in Nat, NEW r \in Nat
    PROVE  (w * q + r) % w = r % w
<1> DEFINE u == r \div w
<1>1. u \in Nat /\ r % w \in 0 .. w - 1 /\ r = w * u + (r % w)
  BY DivMod
<1> HIDE DEF u
<1>2. w * q + r = w * (q + u) + (r % w)
  BY <1>1
<1>3. q + u \in Nat
  BY <1>1
<1>4. (w * (q + u) + (r % w)) % w = r % w
  BY <1>1, <1>3, ModOfMultiplePlus
<1> QED BY <1>2, <1>4

\* An index kept modulo w finds its slot in every ring that divides w.
LEMMA ModOfMod ==
    ASSUME NEW w \in Nat \ {0}, NEW s \in Nat \ {0}, w % s = 0, NEW n \in Nat
    PROVE  (n % w) % s = n % s
<1> DEFINE k == w \div s
           q == n \div w
           r == n % w
<1>1. k \in Nat /\ w = s * k
  <2>1. k \in Nat /\ w = s * k + (w % s)
    BY ONLY w \in Nat \ {0}, s \in Nat \ {0}, DivMod DEF k
  <2> HIDE DEF k
  <2> QED BY <2>1
<1>2. q \in Nat /\ r \in Nat /\ n = w * q + r
  BY DivMod
<1> HIDE DEF k, q, r
<1>3. n = s * (k * q) + r /\ k * q \in Nat
  BY <1>1, <1>2
<1>4. (s * (k * q) + r) % s = r % s
  BY <1>3, <1>2, ModDropsMultiple
<1> QED BY <1>3, <1>4 DEF r

\* Counting on modulo w.
LEMMA ModSucc ==
    ASSUME NEW w \in Nat \ {0}, NEW n \in Nat
    PROVE  ((n % w) + 1) % w = (n + 1) % w
<1> DEFINE q == n \div w
           r == n % w
<1>1. q \in Nat /\ r \in Nat /\ n = w * q + r
  BY DivMod
<1> HIDE DEF q, r
<1>2. n + 1 = w * q + (r + 1) /\ r + 1 \in Nat
  BY <1>1
<1>3. (w * q + (r + 1)) % w = (r + 1) % w
  BY <1>1, <1>2, ModDropsMultiple
<1> QED BY <1>2, <1>3 DEF r

\* Nor does taking one away change it.
LEMMA ModOfMultipleMinus ==
    ASSUME NEW w \in Nat \ {0}, NEW n \in 0 .. w - 1, NEW q \in Int
    PROVE  (w * q + n) % w = n
OBVIOUS

\* The distance is known, too, when it is the one ahead that is published
\* modulo w.
LEMMA ModularLead ==
    ASSUME NEW w \in Nat \ {0}, NEW d \in 0 .. w - 1, NEW c \in Nat
    PROVE  (((c + d) % w) - c) % w = d
<1> DEFINE q == (c + d) \div w
           r == (c + d) % w
<1>1. q \in Nat /\ r \in Nat /\ c + d = w * q + r
  <2>1. c + d \in Nat
    OBVIOUS
  <2> QED BY <2>1, DivMod
<1> HIDE DEF q, r
<1>2. r - c = d - w * q
  BY <1>1
<1>3. d - w * q = w * (-q) + d /\ -q \in Int
  BY <1>1
<1>4. (w * (-q) + d) % w = d
  BY <1>3, ModOfMultipleMinus
<1> QED BY <1>2, <1>3, <1>4 DEF r

------------------------------------------------------------------------------
(***************************************************************************)
(* Induction, over the set of the numbers for which something holds: the   *)
(* well-founded order of the naturals, without an operator as parameter.   *)
(***************************************************************************)

\* Every set of natural numbers has a least element.
LEMMA LeastNumber ==
    ASSUME NEW T \in SUBSET Nat, T # {}
    PROVE  \E n \in T : \A m \in T : n <= m
<1> DEFINE less == {ss \in Nat \X Nat : ss[1] < ss[2]}
<1>1. IsWellFoundedOn(less, Nat)
  BY NatLessThanWellFounded DEF OpToRel
<1>2. PICK n \in T : \A m \in T : <<m, n>> \notin less
  <2> HIDE DEF less
  <2> QED BY <1>1, WFMin
<1>3. \A m \in T : n <= m
  <2> SUFFICES ASSUME NEW m \in T PROVE n <= m
    OBVIOUS
  <2>1. m \in Nat /\ n \in Nat /\ <<m, n>> \notin less
    BY <1>2
  <2> QED BY <2>1
<1> QED BY <1>3

\* Induction: what holds of 0, and of n + 1 whenever of n, holds of all numbers.
LEMMA Induction ==
    ASSUME NEW T, 0 \in T, \A n \in Nat : n \in T => n + 1 \in T
    PROVE  Nat \subseteq T
<1> SUFFICES ASSUME Nat \ T # {} PROVE FALSE
  OBVIOUS
<1>1. PICK n \in Nat \ T : \A m \in Nat \ T : n <= m
  BY LeastNumber
<1>2. n - 1 \in Nat
  BY <1>1
<1>3. n - 1 \in T
  <2> SUFFICES ASSUME n - 1 \notin T PROVE FALSE
    OBVIOUS
  <2>1. n <= n - 1
    BY <1>1, <1>2
  <2> QED BY <2>1, <1>1
<1> QED BY <1>1, <1>2, <1>3

\* Numbers below a bound have a greatest among them.
LEMMA GreatestNumber ==
    ASSUME NEW T \in SUBSET Nat, T # {}, NEW b \in Nat, \A m \in T : m <= b
    PROVE  \E n \in T : \A m \in T : m <= n
<1> DEFINE Above == {n \in Nat : \A m \in T : m <= n}
<1>1. PICK n \in Above : \A k \in Above : n <= k
  <2>1. Above \in SUBSET Nat /\ b \in Above
    OBVIOUS
  <2> HIDE DEF Above
  <2> QED BY <2>1, LeastNumber
<1>2. n \in T
  <2> SUFFICES ASSUME n \notin T PROVE FALSE
    OBVIOUS
  <2>1. \A m \in T : m <= n - 1
    <3> SUFFICES ASSUME NEW m \in T PROVE m <= n - 1
      OBVIOUS
    <3>1. m \in Nat /\ n \in Nat /\ m <= n /\ m # n
      OBVIOUS
    <3> QED BY <3>1
  <2>2. n - 1 \in Nat
    <3>1. PICK m \in T : m <= n - 1
      BY <2>1
    <3>2. m \in Nat /\ n \in Nat
      OBVIOUS
    <3> QED BY <3>1, <3>2
  <2>3. n <= n - 1
    BY <1>1, <2>1, <2>2
  <2> QED BY <2>3
<1> QED BY <1>2

------------------------------------------------------------------------------
(***************************************************************************)
(* The powers of two, as a function that doubles from each number to the   *)
(* next.                                                                   *)
(***************************************************************************)

Doubling(f) == f = [i \in Nat |-> IF i = 0 THEN 1 ELSE 2 * f[i - 1]]

\* There is such a function: longer and longer pieces of it agree.
LEMMA DoublingExists == \E f : Doubling(f)
<1> DEFINE Upto(n, f) == f = [i \in 0 .. n |-> IF i = 0 THEN 1 ELSE 2 * f[i - 1]]
           Defined == {n \in Nat : \E f : Upto(n, f)}
<1>1. 0 \in Defined
  <2>1. Upto(0, [i \in 0 .. 0 |-> 1])
    OBVIOUS
  <2> QED BY <2>1
<1>2. ASSUME NEW n \in Nat, n \in Defined PROVE n + 1 \in Defined
  <2>1. PICK f : Upto(n, f)
    BY <1>2
  <2> DEFINE g == [i \in 0 .. n + 1 |-> IF i = 0 THEN 1 ELSE 2 * f[i - 1]]
  <2>2. \A i \in 0 .. n : g[i] = f[i]
    BY <2>1
  <2>3. Upto(n + 1, g)
    <3>1. \A i \in 0 .. n + 1 : i # 0 => i - 1 \in 0 .. n
      OBVIOUS
    <3>2. \A i \in 0 .. n + 1 : g[i] = IF i = 0 THEN 1 ELSE 2 * g[i - 1]
      BY <2>2, <3>1
    <3>3. g = [i \in 0 .. n + 1 |-> g[i]]
      OBVIOUS
    <3> HIDE DEF g
    <3> QED BY <3>2, <3>3
  <2>4. n + 1 \in Nat /\ \E ff : Upto(n + 1, ff)
    <3> HIDE DEF g, Upto
    <3> QED BY <2>3
  <2> HIDE DEF g, Upto
  <2> QED BY <2>4
<1>3. Nat \subseteq Defined
  <2> HIDE DEF Defined
  <2> QED BY <1>1, <1>2, Induction
<1> DEFINE F(n) == CHOOSE f : Upto(n, f)
           h == [i \in Nat |-> F(i)[i]]
<1>4. \A n \in Nat : Upto(n, F(n))
  BY <1>3
<1>5. \A n \in Nat : \A i \in 0 .. n : F(n)[i] = IF i = 0 THEN 1 ELSE 2 * F(n)[i - 1]
  <2> HIDE DEF F
  <2> QED BY <1>4
<1>6. \A n \in Nat : F(n + 1)[n] = F(n)[n]
  <2> SUFFICES ASSUME NEW n \in Nat PROVE F(n + 1)[n] = F(n)[n]
    OBVIOUS
  <2> DEFINE Same == {i \in Nat : i <= n => F(n + 1)[i] = F(n)[i]}
  <2> HIDE DEF F
  <2>1. 0 \in Same
    BY <1>5
  <2>2. ASSUME NEW i \in Nat, i \in Same PROVE i + 1 \in Same
    <3> SUFFICES ASSUME i + 1 <= n PROVE F(n + 1)[i + 1] = F(n)[i + 1]
      OBVIOUS
    <3>1. F(n + 1)[i] = F(n)[i]
      BY <2>2
    <3>2. F(n + 1)[i + 1] = 2 * F(n + 1)[i] /\ F(n)[i + 1] = 2 * F(n)[i]
      BY <1>5
    <3> QED BY <3>1, <3>2
  <2>3. Nat \subseteq Same
    <3> HIDE DEF Same
    <3> QED BY <2>1, <2>2, Induction
  <2> QED BY <2>3
<1>7. Doubling(h)
  <2> HIDE DEF F
  <2>1. \A i \in Nat : h[i] = IF i = 0 THEN 1 ELSE 2 * h[i - 1]
    <3> SUFFICES ASSUME NEW i \in Nat PROVE h[i] = IF i = 0 THEN 1 ELSE 2 * h[i - 1]
      OBVIOUS
    <3>1. CASE i = 0
      BY <3>1, <1>5
    <3>2. CASE i # 0
      <4>1. i - 1 \in Nat /\ (i - 1) + 1 = i
        BY <3>2
      <4>2. F(i)[i] = 2 * F(i)[i - 1]
        BY <1>5, <3>2
      <4>3. F(i)[i - 1] = F(i - 1)[i - 1]
        BY <1>6, <4>1
      <4> QED BY <3>2, <4>1, <4>2, <4>3
    <3> QED BY <3>1, <3>2
  <2>2. h = [i \in Nat |-> h[i]]
    OBVIOUS
  <2> HIDE DEF h
  <2> QED BY <2>1, <2>2 DEF Doubling
<1> HIDE DEF h
<1> QED BY <1>7

\* So what is defined as the one there is doubles.
LEMMA DoublingChosen ==
    ASSUME NEW g, g = CHOOSE f : Doubling(f)
    PROVE  Doubling(g) /\ g[0] = 1 /\ \A i \in Nat : g[i + 1] = 2 * g[i]
<1>1. Doubling(g)
  BY DoublingExists
<1>2. \A i \in Nat : g[i] = IF i = 0 THEN 1 ELSE 2 * g[i - 1]
  BY <1>1 DEF Doubling
<1> QED BY <1>1, <1>2

\* Its values are numbers above zero.
LEMMA DoublingType ==
    ASSUME NEW g, g[0] = 1, \A i \in Nat : g[i + 1] = 2 * g[i]
    PROVE  \A i \in Nat : g[i] \in Nat \ {0}
<1> DEFINE Typed == {i \in Nat : g[i] \in Nat \ {0}}
<1>1. 0 \in Typed
  OBVIOUS
<1>2. ASSUME NEW i \in Nat, i \in Typed PROVE i + 1 \in Typed
  <2>1. g[i + 1] = 2 * g[i] /\ g[i] \in Nat \ {0}
    BY <1>2
  <2> QED BY <2>1
<1>3. Nat \subseteq Typed
  <2> HIDE DEF Typed
  <2> QED BY <1>1, <1>2, Induction
<1> QED BY <1>3

\* They grow, and each is above the number it belongs to.
LEMMA DoublingGrows ==
    ASSUME NEW g, g[0] = 1, \A i \in Nat : g[i + 1] = 2 * g[i]
    PROVE  /\ \A i, j \in Nat : i < j => g[i] < g[j]
           /\ \A i \in Nat : i < g[i]
<1> DEFINE Above == {i \in Nat : i < g[i]}
           Grown(i) == {d \in Nat : g[i] < g[(i + d) + 1]}
<1>1. \A i \in Nat : g[i] \in Nat \ {0}
  BY DoublingType
<1>2. Nat \subseteq Above
  <2>1. 0 \in Above
    OBVIOUS
  <2>2. ASSUME NEW i \in Nat, i \in Above PROVE i + 1 \in Above
    <3>1. g[i + 1] = 2 * g[i] /\ g[i] \in Nat /\ i < g[i]
      BY <1>1, <2>2
    <3> QED BY <3>1
  <2> HIDE DEF Above
  <2> QED BY <2>1, <2>2, Induction
<1>3. ASSUME NEW i \in Nat, NEW j \in Nat, i < j PROVE g[i] < g[j]
  <2>1. 0 \in Grown(i)
    <3>1. g[i + 1] = 2 * g[i] /\ g[i] \in Nat \ {0} /\ (i + 0) + 1 = i + 1
      BY <1>1
    <3> QED BY <3>1
  <2>2. ASSUME NEW d \in Nat, d \in Grown(i) PROVE d + 1 \in Grown(i)
    <3>1. (i + d) + 1 \in Nat /\ (i + (d + 1)) + 1 = ((i + d) + 1) + 1
      OBVIOUS
    <3>2. g[((i + d) + 1) + 1] = 2 * g[(i + d) + 1]
      BY <3>1
    <3>3. g[i] \in Nat /\ g[(i + d) + 1] \in Nat /\ g[i] < g[(i + d) + 1]
      BY <1>1, <2>2, <3>1
    <3> QED BY <3>1, <3>2, <3>3
  <2>3. Nat \subseteq Grown(i)
    <3> HIDE DEF Grown
    <3> QED BY <2>1, <2>2, Induction
  <2>4. j - i - 1 \in Nat /\ (i + (j - i - 1)) + 1 = j
    BY <1>3
  <2> QED BY <2>3, <2>4
<1> QED BY <1>2, <1>3

------------------------------------------------------------------------------
(***************************************************************************)
(* Sums over finite sets, as the folds of the community modules define     *)
(* them: an element chosen first, then the sum of the others.              *)
(***************************************************************************)

\* The element a fold takes first.
First(s) == CHOOSE x \in s : TRUE

\* it sums the values of w over every subset of S, as the folds of the library do.
Sums(it, w, S) ==
    it = [s \in SUBSET S |-> IF s = {} THEN 0 ELSE w[First(s)] + it[s \ {First(s)}]]

\* It is an element.
LEMMA FirstIn == \A s : s # {} => First(s) \in s
BY DEF First

\* Without one of its elements a finite set has one less.
LEMMA OneLess ==
    ASSUME NEW s, IsFiniteSet(s), NEW x \in s
    PROVE  /\ IsFiniteSet(s \ {x})
           /\ Cardinality(s \ {x}) \in Nat
           /\ Cardinality(s) = Cardinality(s \ {x}) + 1
<1>1. IsFiniteSet(s \ {x}) /\ Cardinality(s \ {x}) = Cardinality(s) - 1
  BY FS_RemoveElement
<1>2. Cardinality(s \ {x}) \in Nat /\ Cardinality(s) \in Nat
  BY <1>1, FS_CardinalityType
<1> QED BY <1>1, <1>2

\* Such a sum exists for every finite set.
LEMMA SumsExist ==
    ASSUME NEW S, IsFiniteSet(S), NEW w
    PROVE  \E it : Sums(it, w, S)
<1> DEFINE Upto(n) == {s \in SUBSET S : Cardinality(s) <= n}
           Defined == {n \in Nat : \E it : it =
               [s \in Upto(n) |-> IF s = {} THEN 0 ELSE w[First(s)] + it[s \ {First(s)}]]}
<1>1. \A s \in SUBSET S :
          IsFiniteSet(s) /\ Cardinality(s) \in Nat /\ Cardinality(s) <= Cardinality(S)
  BY FS_Subset, FS_CardinalityType
<1>2. Cardinality({}) = 0 /\ \A s \in SUBSET S : s # {} => Cardinality(s) # 0
  BY <1>1, FS_EmptySet
<1>2a. \A s \in SUBSET S : s # {} =>
          s \ {First(s)} \in SUBSET S /\ Cardinality(s \ {First(s)}) = Cardinality(s) - 1
  BY <1>1, FirstIn, FS_RemoveElement
<1>3. 0 \in Defined
  <2> DEFINE it == [s \in Upto(0) |-> 0]
  <2>1. \A s \in Upto(0) : s = {}
    BY <1>1, <1>2
  <2>2. it = [s \in Upto(0) |-> IF s = {} THEN 0 ELSE w[First(s)] + it[s \ {First(s)}]]
    BY <2>1
  <2> HIDE DEF it
  <2> QED BY <2>2
<1>4. ASSUME NEW n \in Nat, n \in Defined PROVE n + 1 \in Defined
  <2>1. PICK it : it = [s \in Upto(n) |-> IF s = {} THEN 0 ELSE w[First(s)] + it[s \ {First(s)}]]
    BY <1>4
  <2> DEFINE jt == [s \in Upto(n + 1) |-> IF s = {} THEN 0 ELSE w[First(s)] + it[s \ {First(s)}]]
  <2>2. \A s \in Upto(n) : s \in Upto(n + 1) /\ jt[s] = it[s]
    <3> SUFFICES ASSUME NEW s \in Upto(n) PROVE s \in Upto(n + 1) /\ jt[s] = it[s]
      OBVIOUS
    <3>1. s \in Upto(n + 1)
      BY <1>1
    <3>2. it[s] = IF s = {} THEN 0 ELSE w[First(s)] + it[s \ {First(s)}]
      BY <2>1
    <3> HIDE DEF Upto
    <3> QED BY <3>1, <3>2
  <2>3. \A s \in Upto(n + 1) : s # {} => s \ {First(s)} \in Upto(n)
    <3> SUFFICES ASSUME NEW s \in Upto(n + 1), s # {} PROVE s \ {First(s)} \in Upto(n)
      OBVIOUS
    <3>1. s \in SUBSET S /\ Cardinality(s) <= n + 1 /\ Cardinality(s) \in Nat
      BY <1>1
    <3>2. s \ {First(s)} \in SUBSET S /\ Cardinality(s \ {First(s)}) <= n
      BY <1>2a, <3>1
    <3> QED BY <3>2
  <2>4. \A s \in Upto(n + 1) : jt[s] = IF s = {} THEN 0 ELSE w[First(s)] + jt[s \ {First(s)}]
    <3> HIDE DEF Upto
    <3> QED BY <2>2, <2>3
  <2>5. jt = [s \in Upto(n + 1) |-> IF s = {} THEN 0 ELSE w[First(s)] + jt[s \ {First(s)}]]
    <3>1. jt = [s \in Upto(n + 1) |-> jt[s]]
      OBVIOUS
    <3> HIDE DEF jt, Upto
    <3> QED BY <3>1, <2>4
  <2>6. n + 1 \in Nat
    OBVIOUS
  <2>7. \E f : f = [s \in Upto(n + 1) |-> IF s = {} THEN 0 ELSE w[First(s)] + f[s \ {First(s)}]]
    <3> HIDE DEF jt, Upto
    <3> QED BY <2>5
  <2> HIDE DEF jt, Upto
  <2> QED BY <2>6, <2>7
<1>5. Cardinality(S) \in Defined
  <2>1. Nat \subseteq Defined
    <3> HIDE DEF Defined
    <3> QED BY <1>3, <1>4, Induction
  <2> QED BY <2>1, <1>1
<1>6. Upto(Cardinality(S)) = SUBSET S
  BY <1>1
<1> QED BY <1>5, <1>6 DEF Sums

\* Its values do not depend on what lies outside.
LEMMA SumsAgree ==
    ASSUME NEW S, NEW T, NEW w, NEW v, NEW it, NEW jt, Sums(it, w, S), Sums(jt, v, T),
           NEW U, IsFiniteSet(U), U \subseteq S, U \subseteq T, \A x \in U : w[x] = v[x]
    PROVE  it[U] = jt[U]
<1> DEFINE Agreed == {n \in Nat : \A s \in SUBSET U : Cardinality(s) = n => it[s] = jt[s]}
<1>1. \A s \in SUBSET U : IsFiniteSet(s) /\ Cardinality(s) \in Nat
  BY FS_Subset, FS_CardinalityType
<1>2. \A s \in SUBSET U :
        /\ it[s] = IF s = {} THEN 0 ELSE w[First(s)] + it[s \ {First(s)}]
        /\ jt[s] = IF s = {} THEN 0 ELSE v[First(s)] + jt[s \ {First(s)}]
  BY DEF Sums
<1>3. 0 \in Agreed
  BY <1>1, <1>2, FS_EmptySet
<1>4. ASSUME NEW n \in Nat, n \in Agreed PROVE n + 1 \in Agreed
  <2> SUFFICES ASSUME NEW s \in SUBSET U, Cardinality(s) = n + 1 PROVE it[s] = jt[s]
    OBVIOUS
  <2> DEFINE x == First(s)
  <2>1. s # {}
    BY FS_EmptySet
  <2>2. x \in s /\ x \in U /\ w[x] = v[x]
    BY <2>1, FirstIn
  <2>3. s \ {x} \in SUBSET U /\ Cardinality(s \ {x}) = n
    <3>1. Cardinality(s) = Cardinality(s \ {x}) + 1 /\ Cardinality(s \ {x}) \in Nat
      BY <1>1, <2>2, OneLess
    <3> QED BY <3>1
  <2>4. it[s \ {x}] = jt[s \ {x}]
    BY <1>4, <2>3
  <2> HIDE DEF Agreed
  <2> QED BY <1>2, <2>1, <2>2, <2>4
<1>5. Cardinality(U) \in Agreed
  <2>1. Nat \subseteq Agreed
    <3> HIDE DEF Agreed
    <3> QED BY <1>3, <1>4, Induction
  <2> QED BY <2>1, <1>1
<1> QED BY <1>5

\* A sum of natural numbers is one.
LEMMA SumsType ==
    ASSUME NEW S, IsFiniteSet(S), NEW w, \A x \in S : w[x] \in Nat, NEW it, Sums(it, w, S)
    PROVE  \A s \in SUBSET S : it[s] \in Nat
<1> DEFINE Typed == {n \in Nat : \A s \in SUBSET S : Cardinality(s) = n => it[s] \in Nat}
<1>1. \A s \in SUBSET S : IsFiniteSet(s) /\ Cardinality(s) \in Nat
  BY FS_Subset, FS_CardinalityType
<1>2. \A s \in SUBSET S : it[s] = IF s = {} THEN 0 ELSE w[First(s)] + it[s \ {First(s)}]
  BY DEF Sums
<1>3. 0 \in Typed
  BY <1>1, <1>2, FS_EmptySet
<1>4. ASSUME NEW n \in Nat, n \in Typed PROVE n + 1 \in Typed
  <2> SUFFICES ASSUME NEW s \in SUBSET S, Cardinality(s) = n + 1 PROVE it[s] \in Nat
    OBVIOUS
  <2>1. s # {}
    BY FS_EmptySet
  <2>2. First(s) \in s /\ w[First(s)] \in Nat /\ s \ {First(s)} \in SUBSET S
    BY <2>1, FirstIn
  <2>3. Cardinality(s \ {First(s)}) = n
    <3>1. Cardinality(s) = Cardinality(s \ {First(s)}) + 1 /\ Cardinality(s \ {First(s)}) \in Nat
      BY <1>1, <2>2, OneLess
    <3> QED BY <3>1
  <2>4. it[s \ {First(s)}] \in Nat
    BY <1>4, <2>2, <2>3
  <2> QED BY <1>2, <2>1, <2>2, <2>4
<1>5. \A s \in SUBSET S : Cardinality(s) \in Typed
  <2>1. Nat \subseteq Typed
    <3> HIDE DEF Typed
    <3> QED BY <1>3, <1>4, Induction
  <2> QED BY <2>1, <1>1
<1> QED BY <1>5

\* Any element may be taken out of a sum first.
LEMMA SumsSplit ==
    ASSUME NEW S, IsFiniteSet(S), NEW w, \A x \in S : w[x] \in Nat, NEW it, Sums(it, w, S)
    PROVE  \A s \in SUBSET S : \A x \in s : it[s] = w[x] + it[s \ {x}]
<1> DEFINE Split == {n \in Nat : \A s \in SUBSET S : Cardinality(s) = n =>
                        \A x \in s : it[s] = w[x] + it[s \ {x}]}
<1>1. \A s \in SUBSET S : IsFiniteSet(s) /\ Cardinality(s) \in Nat
  BY FS_Subset, FS_CardinalityType
<1>2. \A s \in SUBSET S : it[s] = IF s = {} THEN 0 ELSE w[First(s)] + it[s \ {First(s)}]
  BY DEF Sums
<1>3. \A s \in SUBSET S : it[s] \in Nat
  BY SumsType
<1>4. 0 \in Split
  BY <1>1, FS_EmptySet
<1>5. ASSUME NEW n \in Nat, n \in Split PROVE n + 1 \in Split
  <2> SUFFICES ASSUME NEW s \in SUBSET S, Cardinality(s) = n + 1, NEW x \in s
               PROVE  it[s] = w[x] + it[s \ {x}]
    OBVIOUS
  <2>1. s # {} /\ First(s) \in s
    BY FirstIn
  <2> DEFINE f == First(s)
             rest == (s \ {f}) \ {x}
  <2>2. it[s] = w[f] + it[s \ {f}]
    BY <1>2, <2>1
  <2>3. CASE x = f
    BY <2>3, <2>2
  <2>4. CASE x # f
    <3>1. \A y \in s : s \ {y} \in SUBSET S /\ Cardinality(s \ {y}) = n
      <4> SUFFICES ASSUME NEW y \in s PROVE Cardinality(s \ {y}) = n
        OBVIOUS
      <4>1. Cardinality(s) = Cardinality(s \ {y}) + 1 /\ Cardinality(s \ {y}) \in Nat
        BY <1>1, OneLess
      <4> QED BY <4>1
    <3>2. \A y \in s : \A z \in s \ {y} : it[s \ {y}] = w[z] + it[(s \ {y}) \ {z}]
      BY <3>1, <1>5
    <3>3. it[s \ {f}] = w[x] + it[rest]
      BY <3>2, <2>1, <2>4
    <3>4. it[s \ {x}] = w[f] + it[rest]
      <4>1. rest = (s \ {x}) \ {f}
        OBVIOUS
      <4>2. f \in s \ {x}
        BY <2>1, <2>4
      <4> HIDE DEF f, rest
      <4> QED BY <3>2, <4>1, <4>2
    <3>5. w[x] \in Nat /\ w[f] \in Nat /\ it[rest] \in Nat
      BY <1>3, <2>1
    <3> HIDE DEF f, rest
    <3> QED BY <2>2, <3>3, <3>4, <3>5
  <2> QED BY <2>3, <2>4
<1>6. \A s \in SUBSET S : Cardinality(s) \in Split
  <2>1. Nat \subseteq Split
    <3> HIDE DEF Split
    <3> QED BY <1>4, <1>5, Induction
  <2> QED BY <2>1, <1>1
<1> QED BY <1>6

\* A sum lies between as many times the least and as many times the greatest of
\* its values.
LEMMA SumsBetween ==
    ASSUME NEW S, IsFiniteSet(S), NEW lo \in Nat, NEW hi \in Nat, NEW w,
           \A x \in S : w[x] \in Nat /\ lo <= w[x] /\ w[x] <= hi,
           NEW it, Sums(it, w, S)
    PROVE  it[S] \in Nat /\ lo * Cardinality(S) <= it[S] /\ it[S] <= hi * Cardinality(S)
<1> DEFINE Between == {n \in Nat : \A s \in SUBSET S :
                          Cardinality(s) = n => lo * n <= it[s] /\ it[s] <= hi * n}
<1>1. \A s \in SUBSET S : IsFiniteSet(s) /\ Cardinality(s) \in Nat
  BY FS_Subset, FS_CardinalityType
<1>2. \A s \in SUBSET S : it[s] = IF s = {} THEN 0 ELSE w[First(s)] + it[s \ {First(s)}]
  BY DEF Sums
<1>3. \A s \in SUBSET S : it[s] \in Nat
  BY SumsType
<1>4. 0 \in Between
  <2> SUFFICES ASSUME NEW s \in SUBSET S, Cardinality(s) = 0
               PROVE  lo * 0 <= it[s] /\ it[s] <= hi * 0
    OBVIOUS
  <2>1. it[s] = 0
    BY <1>1, <1>2, FS_EmptySet
  <2>2. lo * 0 = 0 /\ hi * 0 = 0
    OBVIOUS
  <2> QED BY <2>1, <2>2
<1>5. ASSUME NEW n \in Nat, n \in Between PROVE n + 1 \in Between
  <2> SUFFICES ASSUME NEW s \in SUBSET S, Cardinality(s) = n + 1
               PROVE  lo * (n + 1) <= it[s] /\ it[s] <= hi * (n + 1)
    OBVIOUS
  <2> DEFINE x == First(s)
             rest == s \ {x}
  <2>1. s # {} /\ x \in s
    BY FS_EmptySet, FirstIn
  <2>2. rest \in SUBSET S /\ Cardinality(rest) = n
    <3>1. Cardinality(s) = Cardinality(rest) + 1 /\ Cardinality(rest) \in Nat
      BY <1>1, <2>1, OneLess
    <3> QED BY <3>1
  <2>3. lo * n <= it[rest] /\ it[rest] <= hi * n /\ it[rest] \in Nat
    BY <1>3, <1>5, <2>2
  <2>4. it[s] = w[x] + it[rest] /\ w[x] \in Nat /\ lo <= w[x] /\ w[x] <= hi
    BY <1>2, <2>1
  <2> HIDE DEF x, rest
  <2>5. lo * (n + 1) = lo * n + lo /\ hi * (n + 1) = hi * n + hi
    OBVIOUS
  <2>6. lo * n \in Nat /\ hi * n \in Nat
    OBVIOUS
  <2> QED BY ONLY lo \in Nat, hi \in Nat, <2>3, <2>4, <2>5, <2>6
<1>6. Cardinality(S) \in Between
  <2>1. Nat \subseteq Between
    <3> HIDE DEF Between
    <3> QED BY <1>4, <1>5, Induction
  <2> QED BY <2>1, <1>1
<1> QED BY <1>3, <1>6
================================================================================
