---------------------------- MODULE NumbersProofs ----------------------------
(***************************************************************************)
(* Theorems about Numbers for integers of any width and floats of any      *)
(* precision: the tests with which operator.go notices that a sum, a       *)
(* difference, a product or a quotient did not fit are right, rounding is  *)
(* to the nearest, conversions stop at the ends, ranges are in order, and  *)
(* digits of the input are treated as the number they are.                 *)
(***************************************************************************)
EXTENDS Numbers, Induction, TLAPS

MachineInt == MinInt .. MaxInt

\* The whole number n as an integer, or as a big integer if it is too large.
Kept(n) == IF n \in MachineInt THEN Int_(n) ELSE Big(n)

-------------------------------------------------------------------------------
(* Wrapping around.                                                        *)

\* Go's wrapped sum in terms of the remainder: a below the modulus is its own.
LEMMA ModBelow == ASSUME NEW m \in Nat \ {0}, NEW a \in 0 .. m - 1 PROVE a % m = a
  BY SMT
\* One turn above.
LEMMA ModAbove == ASSUME NEW m \in Nat \ {0}, NEW a \in m .. 2 * m - 1 PROVE a % m = a - m
  BY SMT
\* One turn below.
LEMMA ModNegative == ASSUME NEW m \in Nat \ {0}, NEW a \in -m .. -1 PROVE a % m = a + m
  BY SMT

\* A sum or a difference of two integers leaves their range at most once.
LEMMA WrapOnce ==
    ASSUME NEW n \in -2 * HalfRange .. 2 * HalfRange - 1
    PROVE  Wrap(n) = IF n < MinInt THEN n + 2 * HalfRange
                     ELSE IF n > MaxInt THEN n - 2 * HalfRange ELSE n
<1> DEFINE m == 2 * HalfRange
           a == n - MinInt
<1>1. m \in Nat \ {0} /\ a \in Int
  BY NumbersAssumption DEF MinInt
<1>2. CASE n < MinInt
  <2>1. a \in -m .. -1
    BY <1>2, NumbersAssumption DEF MinInt
  <2>2. a % m = a + m
    BY <1>1, <2>1, ModNegative
  <2> QED
    BY <1>2, <2>2, NumbersAssumption DEF Wrap, MinInt, MaxInt
<1>3. CASE n > MaxInt
  <2>1. a \in m .. 2 * m - 1
    BY <1>3, NumbersAssumption DEF MinInt, MaxInt
  <2>2. a % m = a - m
    BY <1>1, <2>1, ModAbove
  <2> QED
    BY <1>3, <2>2, NumbersAssumption DEF Wrap, MinInt, MaxInt
<1>4. CASE n \in MachineInt
  <2>1. a \in 0 .. m - 1
    BY <1>4, NumbersAssumption DEF MinInt, MaxInt, MachineInt
  <2>2. a % m = a
    BY <1>1, <2>1, ModBelow
  <2> QED
    BY <1>4, <2>2, NumbersAssumption DEF Wrap, MinInt, MaxInt, MachineInt
<1> QED
  BY <1>2, <1>3, <1>4, NumbersAssumption DEF MinInt, MaxInt, MachineInt

-------------------------------------------------------------------------------
(* Sums, differences, signs.                                               *)

\* funcOpAdd: a sum fits exactly if it lies on the side of l that the sign of r says.
THEOREM AddIntsExact ==
    ASSUME NEW l \in MachineInt, NEW r \in MachineInt
    PROVE  AddInts(l, r) = Kept(l + r)
<1>1. l + r \in -2 * HalfRange .. 2 * HalfRange - 1
  BY NumbersAssumption DEF MachineInt, MinInt, MaxInt
<1>2. (Wrap(l + r) >= l) <=> ((l + r \in MachineInt) <=> (r >= 0))
  BY <1>1, WrapOnce, NumbersAssumption DEF MachineInt, MinInt, MaxInt
<1>3. l + r \in MachineInt => Wrap(l + r) = l + r
  BY <1>1, WrapOnce, NumbersAssumption DEF MachineInt, MinInt, MaxInt
<1> QED
  BY <1>2, <1>3 DEF AddInts, Kept

\* funcOpSub: the same test with the sign turned.
THEOREM SubIntsExact ==
    ASSUME NEW l \in MachineInt, NEW r \in MachineInt
    PROVE  SubInts(l, r) = Kept(l - r)
<1>1. l - r \in -2 * HalfRange .. 2 * HalfRange - 1
  BY NumbersAssumption DEF MachineInt, MinInt, MaxInt
<1>2. (Wrap(l - r) <= l) <=> ((l - r \in MachineInt) <=> (r >= 0))
  BY <1>1, WrapOnce, NumbersAssumption DEF MachineInt, MinInt, MaxInt
<1>3. l - r \in MachineInt => Wrap(l - r) = l - r
  BY <1>1, WrapOnce, NumbersAssumption DEF MachineInt, MinInt, MaxInt
<1> QED
  BY <1>2, <1>3 DEF SubInts, Kept

\* negate: only the least integer has no opposite.
THEOREM NegateExact ==
    ASSUME NEW n \in MachineInt
    PROVE  Negate(n) = Kept(-n)
BY NumbersAssumption DEF Negate, Kept, MachineInt, MinInt, MaxInt


-------------------------------------------------------------------------------
(* Products, which leave the range any number of times.                    *)

\* Division by a variable number, which the solver expands one fact at a time.
LEMMA DivMod ==
    ASSUME NEW m \in Nat \ {0}, NEW a \in Int
    PROVE  /\ a \div m \in Int
           /\ a % m \in 0 .. m - 1
           /\ a % m = a - m * (a \div m)
<1>1. a \div m \in Int
  BY SMT
<1>2. a % m \in 0 .. m - 1
  BY SMT
<1>3. a % m = a - m * (a \div m)
  BY SMT
<1> QED
  BY <1>1, <1>2, <1>3

\* Wrap gives an integer that differs by whole turns.
LEMMA WrapTurns ==
    ASSUME NEW n \in Int
    PROVE  /\ Wrap(n) \in MachineInt
           /\ \E k \in Int : Wrap(n) = n - (2 * HalfRange) * k
<1> DEFINE m == 2 * HalfRange
           a == n - MinInt
<1>1. m \in Nat \ {0} /\ a \in Int
  BY NumbersAssumption DEF MinInt
<1> HIDE DEF m, a
<1>2. a \div m \in Int /\ a % m \in 0 .. m - 1 /\ a % m = a - m * (a \div m)
  BY <1>1, DivMod
<1>3. Wrap(n) = (a % m) + MinInt
  BY DEF Wrap, a, m
<1>4. Wrap(n) = n - m * (a \div m)
  <2>1. m * (a \div m) \in Int
    BY <1>1, <1>2
  <2> QED
    BY <1>2, <1>3, <2>1, NumbersAssumption DEF a, MinInt
<1>5. Wrap(n) \in MachineInt
  BY <1>2, <1>3, NumbersAssumption DEF MachineInt, MinInt, MaxInt, m
<1> QED
  BY <1>2, <1>4, <1>5 DEF m

\* An integer stays as it is.
LEMMA NoTurn ==
    ASSUME NEW n \in MachineInt
    PROVE  Wrap(n) = n
BY WrapOnce, NumbersAssumption DEF MachineInt, MinInt, MaxInt

\* Division towards zero leaves less than the divisor.
LEMMA Division ==
    ASSUME NEW v \in Int, NEW r \in Int \ {0}
    PROVE  /\ Quo(v, r) \in Int /\ Rem(v, r) \in Int
           /\ v - r * Quo(v, r) = Rem(v, r)
           /\ Abs(Rem(v, r)) < Abs(r)
           /\ Abs(Quo(v, r)) = Abs(v) \div Abs(r)
<1> DEFINE x == Abs(v)
           y == Abs(r)
           d == x \div y
           e == x % y
<1>1. x \in Nat /\ y \in Nat \ {0}
  BY DEF Abs
<1>2. Quo(v, r) = Sign(v) * Sign(r) * d /\ Rem(v, r) = Sign(v) * e
  BY DEF Quo, Rem
<1> HIDE DEF x, y
<1>3. d \in Int /\ e \in 0 .. y - 1 /\ e = x - y * d
  <2>1. x \in Int
    BY <1>1
  <2> QED
    BY <1>1, <2>1, DivMod
<1>4. d \in Nat
  BY <1>1, SMT
<1> HIDE DEF d, e
<1>5. CASE v > 0 /\ r > 0
  BY <1>2, <1>3, <1>4, <1>5 DEF x, y, Abs, Sign
<1>6. CASE v > 0 /\ r < 0
  BY <1>2, <1>3, <1>4, <1>6 DEF x, y, Abs, Sign
<1>7. CASE v < 0 /\ r > 0
  BY <1>2, <1>3, <1>4, <1>7 DEF x, y, Abs, Sign
<1>8. CASE v < 0 /\ r < 0
  BY <1>2, <1>3, <1>4, <1>8 DEF x, y, Abs, Sign
<1>9. CASE v = 0
  BY <1>2, <1>3, <1>4, <1>9 DEF x, y, Abs, Sign
<1> QED
  BY <1>5, <1>6, <1>7, <1>8, <1>9


\* A multiple of r that is smaller than r is nothing.
LEMMA SmallMultiple ==
    ASSUME NEW r \in Int \ {0}, NEW x \in Int, Abs(r * x) < Abs(r)
    PROVE  x = 0
<1>1. CASE x > 0
  <2>1. CASE r > 0
    BY <1>1, <2>1 DEF Abs
  <2>2. CASE r < 0
    BY <1>1, <2>2 DEF Abs
  <2> QED
    BY <2>1, <2>2
<1>2. CASE x < 0
  <2>1. CASE r > 0
    BY <1>2, <2>1 DEF Abs
  <2>2. CASE r < 0
    BY <1>2, <2>2 DEF Abs
  <2> QED
    BY <2>1, <2>2
<1> QED
  BY <1>1, <1>2

\* Dividing a product gives the factor back.
LEMMA QuoOfProduct ==
    ASSUME NEW l \in Int, NEW r \in Int \ {0}
    PROVE  Quo(l * r, r) = l
<1> DEFINE v == l * r
           q == Quo(v, r)
<1>1. v \in Int
  OBVIOUS
<1> HIDE DEF v
<1>2. q \in Int /\ v - r * q = Rem(v, r) /\ Abs(Rem(v, r)) < Abs(r)
  BY <1>1, Division
<1> HIDE DEF q
<1>3. v - r * q = r * (l - q)
  BY <1>2 DEF v
<1>4. Abs(r * (l - q)) < Abs(r)
  BY <1>2, <1>3
<1>5. l - q = 0
  <2> DEFINE x == l - q
  <2>1. x \in Int
    BY <1>2
  <2>2. Abs(r * x) < Abs(r)
    BY <1>4
  <2> HIDE DEF x
  <2>3. x = 0
    BY <2>1, <2>2, SmallMultiple
  <2> QED
    BY <2>3 DEF x
<1> QED
  BY <1>2, <1>5 DEF q, v

\* Only the least integer divided by -1 is none.
LEMMA QuoFits ==
    ASSUME NEW v \in MachineInt, NEW r \in Int \ {0, -1}
    PROVE  Quo(v, r) \in MachineInt
<1> DEFINE d == Abs(v) \div Abs(r)
           q == Quo(v, r)
<1>1. v \in Int /\ Abs(v) \in 0 .. HalfRange /\ Abs(r) \in Nat \ {0}
  BY NumbersAssumption DEF MachineInt, MinInt, MaxInt, Abs
<1>2. q \in Int /\ Abs(q) = d /\ v - r * q = Rem(v, r) /\ Abs(Rem(v, r)) < Abs(r)
  BY <1>1, Division
<1>3. CASE r = 1
  <2>1. q = v
    BY <1>1, <1>2, <1>3 DEF Abs
  <2> QED
    BY <2>1
<1>4. CASE r # 1
  <2> DEFINE x == Abs(v)
             y == Abs(r)
  <2>1. x \in 0 .. HalfRange /\ y \in Nat \ {0, 1}
    BY <1>1, <1>4 DEF Abs
  <2> HIDE DEF x, y
  <2>2. x \div y \in Nat /\ x % y \in 0 .. y - 1 /\ x % y = x - y * (x \div y)
    <3>1. x \in Int /\ y \in Nat \ {0}
      BY <2>1, NumbersAssumption
    <3>2. x % y \in 0 .. y - 1 /\ x % y = x - y * (x \div y)
      BY <3>1, DivMod
    <3>3. x \div y \in Nat
      BY <2>1, <3>1, NumbersAssumption, SMT
    <3> QED
      BY <3>2, <3>3
  <2>3. 2 * (x \div y) <= x
    <3> DEFINE k == x \div y
    <3>1. k \in Nat /\ y * k <= x /\ y >= 2
      BY <2>1, <2>2, NumbersAssumption
    <3> HIDE DEF k
    <3>2. 2 * k <= y * k
      BY <2>1, <3>1
    <3>3. 2 * k <= x
      BY <2>1, <3>1, <3>2, NumbersAssumption
    <3> QED
      BY <3>3 DEF k
  <2>4. 2 * Abs(q) <= HalfRange
    BY <1>2, <2>1, <2>2, <2>3, NumbersAssumption DEF x, y
  <2> QED
    BY <1>2, <2>4, NumbersAssumption DEF MachineInt, MinInt, MaxInt, Abs
<1> QED
  BY <1>3, <1>4

\* funcOpMul: a product fits exactly if dividing it by r gives l back.
THEOREM MulIntsExact ==
    ASSUME NEW l \in MachineInt, NEW r \in MachineInt
    PROVE  MulInts(l, r) = Kept(l * r)
<1> DEFINE n == l * r
           v == Wrap(n)
<1>1. l \in Int /\ r \in Int /\ n \in Int
  BY NumbersAssumption DEF MachineInt, MinInt, MaxInt
<1>2. CASE r = -1
  <2>1. n = -l
    BY <1>1, <1>2
  <2> QED
    BY <1>2, <2>1, NegateExact DEF MulInts
<1>3. CASE r = 0
  <2>1. n = 0 /\ n \in MachineInt
    BY <1>1, <1>3, NumbersAssumption DEF MachineInt, MinInt, MaxInt
  <2>2. v = n
    BY <2>1, NoTurn
  <2> QED
    BY <1>3, <2>1, <2>2 DEF MulInts, Kept
<1>4. CASE r \notin {0, -1}
  <2> HIDE DEF n, v
  <2>1. v \in MachineInt /\ \E k \in Int : v = n - (2 * HalfRange) * k
    BY <1>1, WrapTurns DEF v
  <2>2. v \in Int
    BY <2>1, NumbersAssumption DEF MachineInt, MinInt, MaxInt
  <2>3. Wrap(Quo(v, r)) = Quo(v, r)
    BY <1>1, <1>4, <2>1, QuoFits, NoTurn
  <2>4. n \in MachineInt => v = n /\ Quo(v, r) = l
    BY <1>1, <1>4, NoTurn, QuoOfProduct DEF n, v
  <2>5. n \notin MachineInt => Quo(v, r) # l
    <3> SUFFICES ASSUME n \notin MachineInt, Quo(v, r) = l
                 PROVE  FALSE
      OBVIOUS
    <3>1. v - r * l = Rem(v, r) /\ Abs(Rem(v, r)) < Abs(r) /\ Rem(v, r) \in Int
      BY <1>1, <1>4, <2>2, Division
    <3>2. v - n = Rem(v, r)
      BY <1>1, <3>1 DEF n
    <3>3. Abs(r) <= HalfRange
      BY NumbersAssumption DEF MachineInt, MinInt, MaxInt, Abs
    <3>4. Abs(v - n) < HalfRange
      BY <1>1, <3>1, <3>2, <3>3, NumbersAssumption DEF Abs
    <3>5. PICK k \in Int : v = n - (2 * HalfRange) * k
      BY <2>1
    <3>6. k = 0
      <4>1. (2 * HalfRange) * k < HalfRange /\ -HalfRange < (2 * HalfRange) * k
        BY <1>1, <2>2, <3>4, <3>5, NumbersAssumption DEF Abs
      <4>2. Abs((2 * HalfRange) * k) < Abs(2 * HalfRange)
        BY <4>1, NumbersAssumption DEF Abs
      <4> QED
        BY <4>2, SmallMultiple, NumbersAssumption
    <3>7. v = n
      BY <1>1, <3>5, <3>6, NumbersAssumption
    <3> QED
      BY <2>1, <3>7
  <2>6. MulInts(l, r) = IF Wrap(Quo(v, r)) = l THEN Int_(v) ELSE Big(n)
    BY <1>4 DEF MulInts, v, n
  <2> QED
    BY <2>3, <2>4, <2>5, <2>6 DEF Kept, n
<1> QED
  BY <1>2, <1>3, <1>4


-------------------------------------------------------------------------------
(* Powers of two, and rounding.                                            *)

Exponents == 0 .. Precision + MaxExponent

\* The table of powers: 1, then twice the one before, each positive.
LEMMA PowerIs ==
    /\ Power \in [Exponents -> Nat \ {0}] /\ Power[0] = 1
    /\ \A k \in 1 .. Precision + MaxExponent : Power[k] = 2 * Power[k - 1]
<1> DEFINE n == Precision + MaxExponent
           S == Nat \ {0}
           step == [k \in 1 .. n |-> [x \in S |-> 2 * x]]
<1>1. n \in Nat /\ step \in StepsOn(S, n) /\ 1 \in S
  BY NumbersAssumption DEF StepsOn
<1> HIDE DEF step
<1>2. PICK f : f \in Paths(S, 1, n, step)
  BY <1>1, StepsExist
<1>3. f \in [0 .. n -> S] /\ f[0] = 1 /\ \A k \in 1 .. n : f[k] = step[k][f[k - 1]]
  BY <1>2 DEF Paths
<1>4. ASSUME NEW k \in 0 .. n PROVE f[k] = IF k = 0 THEN 1 ELSE 2 * f[k - 1]
  <2>1. CASE k = 0
    BY <1>3, <2>1
  <2>2. CASE k # 0
    <3>1. k \in 1 .. n /\ k - 1 \in 0 .. n
      BY <1>1, <2>2
    <3>2. f[k - 1] \in S
      BY <1>3, <3>1
    <3> QED
      BY <1>3, <2>2, <3>1, <3>2 DEF step
  <2> QED
    BY <2>1, <2>2
<1>5. f = [e \in 0 .. n |-> IF e = 0 THEN 1 ELSE 2 * f[e - 1]]
  BY <1>3, <1>4
<1>6. Power = [e \in 0 .. n |-> IF e = 0 THEN 1 ELSE 2 * Power[e - 1]]
  BY <1>5 DEF Power
<1> HIDE DEF n
<1>7. /\ Power[0] = 1 /\ DOMAIN Power = 0 .. n
      /\ \A k \in 1 .. n : Power[k] = 2 * Power[k - 1]
  <2>1. 0 \in 0 .. n /\ \A k \in 1 .. n : k \in 0 .. n /\ k # 0
    BY <1>1
  <2> QED
    BY <1>6, <2>1
<1>8. Alike(Power, f, n)
  <2>1. \A k \in 1 .. n : f[k] = 2 * f[k - 1]
    <3>1. \A k \in 1 .. n : k \in 0 .. n /\ k # 0
      BY <1>1
    <3> QED
      BY <1>4, <3>1
  <2> QED
    BY <1>3, <1>7, <2>1 DEF Alike
<1>9. \A k \in 0 .. n : Power[k] = f[k]
  BY <1>1, <1>8, SameSteps
<1>10. Power \in [0 .. n -> S]
  BY <1>3, <1>6, <1>9
<1> QED
  BY <1>7, <1>10 DEF n, Exponents

\* A power of two is a multiple of each smaller one.
LEMMA PowerDivides ==
    ASSUME NEW i \in Exponents, NEW j \in i .. Precision + MaxExponent
    PROVE  \E k \in Nat \ {0} : Power[j] = k * Power[i] /\ (j # i => \E h \in Nat \ {0} : k = 2 * h)
<1> DEFINE n == Precision + MaxExponent
           Divides(x) == \E k \in Nat \ {0} : Power[x] = k * Power[i] /\ (x # i => \E h \in Nat \ {0} : k = 2 * h)
           Bad == {x \in i .. n : ~ Divides(x)}
<1>1. n \in Nat /\ i \in 0 .. n /\ j \in i .. n
  BY NumbersAssumption DEF Exponents
<1>2. Bad = {}
  <2> SUFFICES ASSUME Bad # {} PROVE FALSE
    OBVIOUS
  <2>1. Bad \subseteq Nat
    BY <1>1
  <2>2. PICK m \in Bad : \A y \in Bad : m <= y
    BY <2>1, LeastExists
  <2>3. m \in i .. n /\ ~ Divides(m)
    OBVIOUS
  <2>4. m # i
    <3>1. Power[i] \in Nat
      BY PowerIs
    <3>2. Power[i] = 1 * Power[i] /\ 1 \in Nat \ {0}
      BY <3>1
    <3> QED
      BY <2>3, <3>2
  <2>5. m - 1 \in i .. n /\ m \in 1 .. n /\ ~ (m <= m - 1)
    BY <1>1, <2>3, <2>4
  <2>6. Divides(m - 1)
    BY <2>2, <2>5
  <2>7. PICK k \in Nat \ {0} : Power[m - 1] = k * Power[i]
    BY <2>6
  <2>8. Power[m] = 2 * Power[m - 1] /\ Power[i] \in Nat
    BY <1>1, <2>5, PowerIs DEF Exponents
  <2>9. Power[m] = (2 * k) * Power[i] /\ 2 * k \in Nat \ {0}
    BY <2>7, <2>8
  <2>10. Divides(m)
    BY <2>9
  <2> QED
    BY <2>3, <2>10
<1> QED
  BY <1>1, <1>2

\* n / d halves, rounded where the last bit is worth Power[e].
RoundedAt(n, d, e, m) ==
    \E q, r \in Nat :
        /\ n = q * (d * Power[e]) + r /\ r < d * Power[e]
        /\ m = IF 2 * r > d * Power[e] \/ (2 * r = d * Power[e] /\ q % 2 = 1) THEN (q + 1) * Power[e] ELSE q * Power[e]

LastBit(n, d, e) ==
    /\ e \in 0 .. MaxExponent
    /\ e = MaxExponent \/ n < Power[Precision + e] * d
    /\ e # 0 => n >= Power[Precision + e - 1] * d

\* Rounding has a last bit: the least exponent with which the size still fits the precision, or the largest.
LEMMA NearestIs ==
    ASSUME NEW n \in Nat, NEW d \in Nat \ {0}
    PROVE  \E e : LastBit(n, d, e) /\ RoundedAt(n, d, e, Nearest(n, d))
<1> DEFINE T == {e \in 0 .. MaxExponent : e = MaxExponent \/ n < Power[Precision + e] * d}
           last == Min(T)
<1>1. MaxExponent \in Nat /\ Precision \in Nat \ {0} /\ T \subseteq Nat /\ T # {}
  BY NumbersAssumption
<1>2. last \in T /\ \A y \in T : last <= y
  BY <1>1, MinOf
<1>3. LastBit(n, d, last)
  <2>1. last # 0 => last - 1 \in 0 .. MaxExponent /\ last - 1 # MaxExponent /\ ~ (last <= last - 1)
    BY <1>1, <1>2
  <2>2. last # 0 => ~ (n < Power[Precision + (last - 1)] * d)
    BY <1>2, <2>1
  <2>3. last # 0 => Precision + (last - 1) = Precision + last - 1 /\ Precision + last - 1 \in Exponents
    BY <1>1, <1>2, <2>1 DEF Exponents
  <2>4. last # 0 => Power[Precision + last - 1] \in Nat
    BY <2>3, PowerIs
  <2>5. last # 0 => Power[Precision + last - 1] * d \in Nat
    BY <2>4
  <2>6. last # 0 => n >= Power[Precision + last - 1] * d
    BY <2>2, <2>3, <2>5
  <2> QED
    BY <1>2, <2>6 DEF LastBit
<1> DEFINE unit == d * Power[last]
           q == n \div unit
           r == n % unit
<1>4. Power[last] \in Nat \ {0}
  BY <1>1, <1>2, PowerIs DEF Exponents
<1>5. unit \in Nat \ {0}
  BY <1>4
<1>6. Nearest(n, d) = (IF 2 * r > unit \/ (2 * r = unit /\ q % 2 = 1) THEN q + 1 ELSE q) * Power[last]
  BY DEF Nearest
<1> HIDE DEF last, unit
<1>7. q \in Nat /\ r \in Nat /\ r < unit /\ n = q * unit + r
  BY <1>5
<1> HIDE DEF q, r
<1>8. Nearest(n, d) = IF 2 * r > unit \/ (2 * r = unit /\ q % 2 = 1) THEN (q + 1) * Power[last] ELSE q * Power[last]
  BY <1>6
<1>9. RoundedAt(n, d, last, Nearest(n, d))
  BY <1>7, <1>8 DEF RoundedAt, unit
<1> QED
  BY <1>3, <1>9

LEMMA LastPower ==
    ASSUME NEW n, NEW d, NEW e, LastBit(n, d, e)
    PROVE  e \in Exponents /\ 0 \in Exponents /\ Power[e] \in Nat \ {0}
<1>1. e \in 0 .. MaxExponent
  BY DEF LastBit
<1>2. e \in Exponents /\ 0 \in Exponents
  BY <1>1, NumbersAssumption DEF Exponents
<1> QED
  BY <1>2, PowerIs

\* What is rounded stays a natural number, and nothing stays nothing.
LEMMA RoundedTyped ==
    ASSUME NEW n \in Nat, NEW d \in Nat \ {0}, NEW e, NEW m, LastBit(n, d, e), RoundedAt(n, d, e, m)
    PROVE  m \in Nat /\ (n = 0 => m = 0)
<1>1. Power[e] \in Nat \ {0}
  BY LastPower
<1> DEFINE u == Power[e]
           t == d * u
<1>2. u \in Nat /\ t \in Nat \ {0}
  BY <1>1
<1> HIDE DEF u, t
<1>3. PICK q, r \in Nat : /\ n = q * t + r /\ r < t
                          /\ m = IF 2 * r > t \/ (2 * r = t /\ q % 2 = 1) THEN (q + 1) * u ELSE q * u
  BY DEF RoundedAt, t, u
<1>4. q * u \in Nat /\ (q + 1) * u \in Nat /\ q * t \in Nat
  BY <1>2
<1>5. ASSUME n = 0 PROVE m = 0
  <2>1. q * t = 0 /\ r = 0
    BY <1>3, <1>4, <1>5
  <2>2. q = 0
    BY <1>2, <2>1
  <2> QED
    BY <1>2, <1>3, <2>1, <2>2
<1> QED
  BY <1>3, <1>4, <1>5

\* Rounding does not go below a multiple of the last bit.
LEMMA RoundedAbove ==
    ASSUME NEW n \in Nat, NEW e, NEW m, LastBit(n, 1, e), RoundedAt(n, 1, e, m),
           NEW k \in Nat, k * Power[e] <= n
    PROVE  k * Power[e] <= m
<1>1. Power[e] \in Nat \ {0}
  BY LastPower
<1> DEFINE u == Power[e]
<1>2. u \in Nat \ {0} /\ 1 * u = u
  BY <1>1
<1>3. PICK q, r \in Nat : /\ n = q * (1 * u) + r /\ r < 1 * u
                          /\ m = q * u \/ m = (q + 1) * u
  BY DEF RoundedAt
<1>4. k * u <= n
  OBVIOUS
<1> HIDE DEF u
<1>5. n = q * u + r /\ r < u
  BY <1>2, <1>3
<1>6. k <= q
  <2> SUFFICES ASSUME q + 1 <= k PROVE FALSE
    OBVIOUS
  <2>1. (q + 1) * u <= k * u
    <3>1. PICK x \in Nat : k = q + 1 + x
      <4>1. k - (q + 1) \in Nat /\ k = q + 1 + (k - (q + 1))
        OBVIOUS
      <4> QED
        BY <4>1
    <3>2. k * u = (q + 1) * u + x * u /\ x * u \in Nat /\ (q + 1) * u \in Nat
      BY <1>2, <3>1
    <3> QED
      BY <3>2
  <2>2. (q + 1) * u = q * u + u /\ q * u \in Nat /\ k * u \in Nat
    BY <1>2
  <2> QED
    BY <1>2, <1>4, <1>5, <2>1, <2>2
<1>7. k * u <= q * u /\ q * u <= (q + 1) * u
  <2>1. PICK x \in Nat : q = k + x
    <3>1. q - k \in Nat /\ q = k + (q - k)
      BY <1>6
    <3> QED
      BY <3>1
  <2>2. q * u = k * u + x * u /\ x * u \in Nat /\ k * u \in Nat
    BY <1>2, <2>1
  <2>3. (q + 1) * u = q * u + u
    BY <1>2
  <2> QED
    BY <1>2, <2>2, <2>3
<1>8. k * u \in Nat /\ q * u \in Nat /\ (q + 1) * u \in Nat
  BY <1>2
<1> QED
  BY <1>3, <1>7, <1>8 DEF u

\* An even number of halves is rounded to one.
LEMMA RoundedEven ==
    ASSUME NEW j \in Nat, NEW e, NEW m, LastBit(2 * j, 1, e), RoundedAt(2 * j, 1, e, m)
    PROVE  \E k \in Nat : m = 2 * k
<1>1. e \in Exponents /\ Power[e] \in Nat \ {0} /\ 0 \in Exponents
  BY LastPower
<1> DEFINE u == Power[e]
<1>2. u \in Nat \ {0} /\ 1 * u = u
  BY <1>1
<1>3. PICK q, r \in Nat : /\ 2 * j = q * (1 * u) + r /\ r < 1 * u
                          /\ m = IF 2 * r > 1 * u \/ (2 * r = 1 * u /\ q % 2 = 1) THEN (q + 1) * u ELSE q * u
  BY DEF RoundedAt
<1>4. u = 1 \/ \E h \in Nat : u = 2 * h
  <2>1. e \in 0 .. Precision + MaxExponent
    BY <1>1 DEF Exponents
  <2>2. PICK k \in Nat \ {0} : Power[e] = k * Power[0] /\ (e # 0 => \E h \in Nat \ {0} : k = 2 * h)
    BY <1>1, <2>1, PowerDivides
  <2>3. u = k
    BY <2>2, PowerIs
  <2> QED
    BY <2>2, <2>3, PowerIs
<1> HIDE DEF u
<1>5. CASE u = 1
  <2>1. r = 0 /\ q = 2 * j
    BY <1>3, <1>5
  <2>2. m = 2 * j
    BY <1>3, <1>5, <2>1
  <2> QED
    BY <2>2
<1>6. CASE \E h \in Nat : u = 2 * h
  <2>1. PICK h \in Nat : u = 2 * h
    BY <1>6
  <2>2. q * u = 2 * (q * h) /\ (q + 1) * u = 2 * ((q + 1) * h) /\ q * h \in Nat /\ (q + 1) * h \in Nat
    BY <2>1
  <2> QED
    BY <1>3, <2>2
<1> QED
  BY <1>4, <1>5, <1>6

\* What is beyond the integers does not become one by rounding.
LEMMA RoundedBeyond ==
    ASSUME NEW n \in Nat, n >= 2 * HalfRange
    PROVE  Nearest(n, 1) \in Nat /\ Nearest(n, 1) >= 2 * HalfRange
<1> DEFINE m == Nearest(n, 1)
<1>1. PICK e : LastBit(n, 1, e) /\ RoundedAt(n, 1, e, m)
  BY NearestIs
<1>2. m \in Nat
  BY <1>1, RoundedTyped
<1>3. PICK w \in 1 .. Precision + MaxExponent : 2 * HalfRange = Power[w]
  <2>1. PICK v \in 1 .. Precision + MaxExponent - 1 : HalfRange = Power[v]
    BY NumbersAssumption
  <2>2. v + 1 \in 1 .. Precision + MaxExponent /\ (v + 1) - 1 = v
    BY <2>1, NumbersAssumption
  <2>3. Power[v + 1] = 2 * Power[v]
    BY <2>2, PowerIs
  <2> QED
    BY <2>1, <2>2, <2>3
<1> HIDE DEF m
<1>4. /\ Precision \in Nat \ {0} /\ MaxExponent \in Nat /\ e \in 0 .. MaxExponent
      /\ e \in Exponents /\ w \in Exponents
  BY <1>1, <1>3, NumbersAssumption DEF LastBit, Exponents
<1>5. Power[e] \in Nat \ {0} /\ Power[w] \in Nat \ {0}
  BY <1>4, PowerIs
<1>6. CASE e <= w
  <2>1. w \in e .. Precision + MaxExponent
    BY <1>3, <1>4, <1>6
  <2>2. PICK k \in Nat \ {0} : Power[w] = k * Power[e]
    BY <1>4, <2>1, PowerDivides
  <2>3. k * Power[e] <= n /\ k \in Nat
    BY <1>3, <2>2
  <2>4. k * Power[e] <= m
    BY <1>1, <2>3, RoundedAbove
  <2> QED
    BY <1>2, <1>3, <1>5, <2>2, <2>4 DEF m
<1>7. CASE w < e
  <2> DEFINE x == Precision + e - 1
  <2>1. e # 0 /\ x \in e .. Precision + MaxExponent /\ x \in Exponents /\ e \in w .. Precision + MaxExponent
    BY <1>3, <1>4, <1>7 DEF Exponents
  <2>2. PICK k \in Nat \ {0} : Power[x] = k * Power[e]
    BY <1>4, <2>1, PowerDivides
  <2>3. PICK l \in Nat \ {0} : Power[e] = l * Power[w]
    BY <1>4, <2>1, PowerDivides
  <2>4. Power[x] \in Nat /\ n >= Power[x] * 1
    BY <1>1, <2>1, PowerIs DEF LastBit
  <2> HIDE DEF x
  <2>5. k * Power[e] <= n /\ k \in Nat
    BY <2>2, <2>4
  <2>6. k * Power[e] <= m
    BY <1>1, <2>5, RoundedAbove
  <2>7. Power[e] <= k * Power[e] /\ Power[w] <= l * Power[w]
    <3>1. \A a, b \in Nat \ {0} : b <= a * b
      <4> SUFFICES ASSUME NEW a \in Nat \ {0}, NEW b \in Nat \ {0} PROVE b <= a * b
        OBVIOUS
      <4>1. a * b = (a - 1) * b + b /\ (a - 1) * b \in Nat
        OBVIOUS
      <4> QED
        BY <4>1
    <3> QED
      BY <1>5, <3>1
  <2>8. k * Power[e] \in Nat
    BY <1>5
  <2> QED
    BY <1>2, <1>3, <1>5, <2>3, <2>6, <2>7, <2>8 DEF m
<1> QED
  BY <1>3, <1>4, <1>6, <1>7

-------------------------------------------------------------------------------
(* Numbers, however they are kept.                                         *)

Kinds == {"int", "big", "float", "inf", "nan"}

Typed(x) == x.k \in Kinds \cup {"text", "error"} /\ (x.k = "int" => x.h \div 2 \in MachineInt)

\* Sizes are kept in halves.
LEMMA Halved ==
    ASSUME NEW n \in Int
    PROVE  (2 * n) \div 2 = n
  BY SMT

\* What a number of the program can be: its kind, its size, and what its kind says of its size.
LEMMA NumberIs ==
    ASSUME NEW x, IsNumber(x)
    PROVE  /\ x.k \in Kinds \cup {"text"} /\ x.h \in Int
           /\ x.k \in {"int", "big"} \/ (x.k = "text" /\ ~x.dotted) => x.h \div 2 \in Int /\ x.h = 2 * (x.h \div 2)
           /\ x.k = "int" => x = Int_(x.h \div 2) /\ x.h \div 2 \in MachineInt
           /\ x.k = "big" => x = Big(x.h \div 2)
           /\ x.k = "float" => x = Float(x.h)
           /\ x.k = "inf" => x = Inf(x.h) /\ x.h \in {1, -1}
           /\ x.k = "nan" => x = NaN
           /\ x.k = "text" => x = Text(x.h, x.dotted) /\ x.dotted \in BOOLEAN
<1>1. CASE x.k = "int" /\ x = Int_(x.h \div 2) /\ x.h \div 2 \in MinInt .. MaxInt
  <2>1. x.h \div 2 \in Int
    BY <1>1, NumbersAssumption DEF MinInt, MaxInt
  <2>2. x.h = 2 * (x.h \div 2)
    BY <1>1 DEF Int_
  <2> QED
    BY <1>1, <2>1, <2>2 DEF MachineInt, Kinds
<1>2. CASE x.k = "big" /\ x = Big(x.h \div 2) /\ x.h \div 2 \in Int
  <2>1. x.h = 2 * (x.h \div 2)
    BY <1>2 DEF Big
  <2> QED
    BY <1>2, <2>1 DEF Kinds
<1>3. CASE x.k = "float" /\ x = Float(x.h) /\ x.h \in Int
  BY <1>3 DEF Kinds
<1>4. CASE x \in {Inf(1), Inf(-1), NaN}
  <2>1. x.k \in {"inf", "nan"} /\ x.h \in {1, -1, 0} /\ (x.k = "inf" => x.h # 0 /\ x = Inf(x.h)) /\ (x.k = "nan" => x = NaN)
    BY <1>4 DEF Inf, NaN
  <2> QED
    BY <2>1 DEF Kinds
<1>5. CASE /\ x.k = "text" /\ x = Text(x.h, x.dotted)
           /\ x.h \in Int /\ x.dotted \in BOOLEAN /\ (x.dotted \/ x.h = 2 * (x.h \div 2))
  BY <1>5 DEF Kinds
<1> QED
  BY <1>1, <1>2, <1>3, <1>4, <1>5 DEF IsNumber

\* What the constructors make is a number.
LEMMA NumbersAre ==
    /\ \A n \in MachineInt : IsNumber(Int_(n)) /\ Int_(n).h = 2 * n /\ Int_(n).k = "int"
    /\ \A n \in Int : IsNumber(Big(n)) /\ Big(n).h = 2 * n /\ Big(n).k = "big"
    /\ \A n \in Int : IsNumber(Kept(n)) /\ Kept(n).h = 2 * n /\ Kept(n).k \in {"int", "big"}
    /\ \A h \in Int : IsNumber(Float(h)) /\ IsFloat(Float(h))
    /\ \A s \in {1, -1} : IsNumber(Inf(s)) /\ IsFloat(Inf(s))
    /\ IsNumber(NaN) /\ IsFloat(NaN)
<1>1. ASSUME NEW n \in MachineInt PROVE IsNumber(Int_(n)) /\ Int_(n).h = 2 * n /\ Int_(n).k = "int"
  <2>1. n \in Int
    BY NumbersAssumption DEF MachineInt, MinInt, MaxInt
  <2>2. Int_(n).h = 2 * n /\ Int_(n).k = "int"
    BY DEF Int_
  <2>3. Int_(n).h \div 2 = n
    BY <2>1, <2>2, Halved
  <2> QED
    BY <2>2, <2>3 DEF IsNumber, MachineInt
<1>2. ASSUME NEW n \in Int PROVE IsNumber(Big(n)) /\ Big(n).h = 2 * n /\ Big(n).k = "big"
  <2>1. Big(n).h = 2 * n /\ Big(n).k = "big"
    BY DEF Big
  <2>2. Big(n).h \div 2 = n
    BY <2>1, Halved
  <2> QED
    BY <2>1, <2>2 DEF IsNumber
<1>3. \A n \in Int : IsNumber(Kept(n)) /\ Kept(n).h = 2 * n /\ Kept(n).k \in {"int", "big"}
  BY <1>1, <1>2 DEF Kept
<1>4. ASSUME NEW h \in Int PROVE IsNumber(Float(h)) /\ IsFloat(Float(h))
  <2>1. Float(h).k = "float" /\ Float(h).h = h
    BY DEF Float
  <2> QED
    BY <2>1 DEF IsNumber, IsFloat
<1>5. ASSUME NEW s \in {1, -1} PROVE IsNumber(Inf(s)) /\ IsFloat(Inf(s))
  <2>1. Inf(s).k = "inf"
    BY DEF Inf
  <2> QED
    BY <2>1 DEF IsNumber, IsFloat
<1>6. IsNumber(NaN) /\ IsFloat(NaN)
  <2>1. NaN.k = "nan"
    BY DEF NaN
  <2> QED
    BY <2>1 DEF IsNumber, IsFloat
<1> QED
  BY <1>1, <1>2, <1>3, <1>4, <1>5, <1>6

\* The size from which floats are infinite is a positive one.
LEMMA MaxFloatIs == MaxFloat \in Nat \ {0}
<1>1. Precision + MaxExponent \in Exponents
  BY NumbersAssumption DEF Exponents
<1> QED
  BY <1>1, PowerIs DEF MaxFloat

\* A rounded quotient is a float or the infinite number of its sign.
LEMMA RoundedIs ==
    ASSUME NEW a \in Int, NEW b \in Int \ {0}
    PROVE  /\ Nearest(Abs(a), Abs(b)) \in Nat
           /\ Rounded(a, b) = IF Nearest(Abs(a), Abs(b)) >= MaxFloat THEN Inf(Sign(a) * Sign(b))
                              ELSE Float(Sign(a) * Sign(b) * Nearest(Abs(a), Abs(b)))
           /\ IsNumber(Rounded(a, b)) /\ IsFloat(Rounded(a, b))
<1> DEFINE m == Nearest(Abs(a), Abs(b))
           s == Sign(a) * Sign(b)
<1>1. Abs(a) \in Nat /\ Abs(b) \in Nat \ {0}
  BY DEF Abs
<1>2. PICK e : LastBit(Abs(a), Abs(b), e) /\ RoundedAt(Abs(a), Abs(b), e, m)
  BY <1>1, NearestIs
<1>3. m \in Nat /\ (Abs(a) = 0 => m = 0)
  BY <1>1, <1>2, RoundedTyped
<1>4. Rounded(a, b) = IF m >= MaxFloat THEN Inf(s) ELSE Float(s * m)
  BY DEF Rounded
<1>5. a = 0 => m = 0
  BY <1>3 DEF Abs
<1>6. s \in {1, -1} \/ (s = 0 /\ a = 0)
  BY DEF Sign
<1> HIDE DEF m, s
<1>7. m >= MaxFloat => s \in {1, -1}
  BY <1>3, <1>5, <1>6, MaxFloatIs
<1>8. s * m \in Int
  BY <1>3, <1>6
<1>9. IsNumber(Rounded(a, b)) /\ IsFloat(Rounded(a, b))
  BY <1>4, <1>7, <1>8, NumbersAre
<1> QED
  BY <1>3, <1>4, <1>9 DEF m, s

\* The float of the opposite number is the opposite float.
LEMMA RoundedOpposite ==
    ASSUME NEW a \in Int
    PROVE  Rounded(-a, 1) = FloatNeg(Rounded(a, 1))
<1> DEFINE m == Nearest(Abs(a), Abs(1))
<1>1. Abs(-a) = Abs(a) /\ Sign(-a) = -Sign(a) /\ Sign(a) \in {-1, 0, 1} /\ Sign(1) = 1
  BY DEF Abs, Sign
<1>2. m \in Nat
  BY RoundedIs
<1>3. Rounded(a, 1) = IF m >= MaxFloat THEN Inf(Sign(a) * Sign(1)) ELSE Float(Sign(a) * Sign(1) * m)
  BY RoundedIs
<1>4. Rounded(-a, 1) = IF m >= MaxFloat THEN Inf(Sign(-a) * Sign(1)) ELSE Float(Sign(-a) * Sign(1) * m)
  <2>1. -a \in Int /\ 1 \in Int \ {0}
    OBVIOUS
  <2>2. Rounded(-a, 1) = IF Nearest(Abs(-a), Abs(1)) >= MaxFloat THEN Inf(Sign(-a) * Sign(1))
                         ELSE Float(Sign(-a) * Sign(1) * Nearest(Abs(-a), Abs(1)))
    BY <2>1, RoundedIs
  <2> QED
    BY <1>1, <2>2
<1> HIDE DEF m
<1>5. Sign(-a) * Sign(1) = -(Sign(a) * Sign(1)) /\ Sign(-a) * Sign(1) * m = -(Sign(a) * Sign(1) * m)
  BY <1>1, <1>2
<1>6. \A h : FloatNeg(Inf(h)) = Inf(-h) /\ FloatNeg(Float(h)) = Float(-h)
  BY DEF FloatNeg, Inf, Float
<1> QED
  BY <1>3, <1>4, <1>5, <1>6

\* parseNumber: digits of whole numbers become the number that they are, large or small, others a float.
LEMMA ParsedIs ==
    ASSUME NEW x, IsNumber(x)
    PROVE  /\ IsNumber(Parsed(x)) /\ Parsed(x).k \in Kinds /\ Parsed(Parsed(x)) = Parsed(x)
           /\ x.k # "text" => Parsed(x) = x
           /\ x.k = "text" /\ x.dotted => Parsed(x) = Rounded(x.h, 1)
           /\ Whole(x) => /\ Parsed(x).k \in {"int", "big"} /\ Parsed(x).h = x.h
                          /\ x.h \div 2 \in Int /\ x.h = 2 * (x.h \div 2)
           /\ Whole(x) /\ x.k = "text" => Parsed(x) = Kept(x.h \div 2)
<1>1. \A y : y.k # "text" => Parsed(y) = y
  BY DEF Parsed
<1>2. CASE x.k # "text"
  BY <1>1, <1>2, NumberIs DEF Kinds, Whole
<1>3. CASE x.k = "text" /\ x.dotted
  <2>1. Parsed(x) = Rounded(x.h, 1)
    BY <1>3 DEF Parsed
  <2>2. x.h \in Int /\ 1 \in Int \ {0}
    BY NumberIs
  <2>3. IsNumber(Rounded(x.h, 1)) /\ IsFloat(Rounded(x.h, 1))
    BY <2>2, RoundedIs
  <2> QED
    BY <1>1, <1>3, <2>1, <2>3 DEF IsFloat, Kinds, Whole
<1>4. CASE x.k = "text" /\ ~x.dotted
  <2>1. x.h \div 2 \in Int /\ x.h = 2 * (x.h \div 2)
    BY <1>4, NumberIs
  <2>2. Parsed(x) = Kept(x.h \div 2)
    BY <1>4 DEF Parsed, Kept, MachineInt
  <2>3. IsNumber(Parsed(x)) /\ Parsed(x).h = x.h /\ Parsed(x).k \in {"int", "big"}
    BY <2>1, <2>2, NumbersAre
  <2> QED
    BY <1>1, <1>4, <2>1, <2>2, <2>3 DEF Kinds
<1> QED
  BY <1>2, <1>3, <1>4

\* toFloat
LEMMA ToFloatIs ==
    ASSUME NEW x, IsNumber(x), x.k # "text"
    PROVE  /\ IsNumber(ToFloat(x)) /\ IsFloat(ToFloat(x))
           /\ IsFloat(x) => ToFloat(x) = x
           /\ ~IsFloat(x) => ToFloat(x) = Rounded(x.h, 1)
<1>1. x.h \in Int /\ 1 \in Int \ {0}
  BY NumberIs
<1>2. IsNumber(Rounded(x.h, 1)) /\ IsFloat(Rounded(x.h, 1))
  BY <1>1, RoundedIs
<1>3. ToFloat(x) = IF IsFloat(x) THEN x ELSE Rounded(x.h, 1)
  BY DEF ToFloat
<1> QED
  BY <1>2, <1>3

\* The sum of two floats is one.
LEMMA FloatAddIs ==
    ASSUME NEW x, NEW y, IsNumber(x), IsNumber(y), IsFloat(x), IsFloat(y)
    PROVE  IsNumber(FloatAdd(x, y)) /\ IsFloat(FloatAdd(x, y))
<1>1. x.h + y.h \in Int /\ 1 \in Int \ {0}
  BY NumberIs
<1>2. IsNumber(Rounded(x.h + y.h, 1)) /\ IsFloat(Rounded(x.h + y.h, 1))
  BY <1>1, RoundedIs
<1> QED
  BY <1>2, NumbersAre DEF FloatAdd

\* What float arithmetic gives is a float, an infinite one, or no number.
LEMMA FloatKinds ==
    ASSUME NEW x, NEW y
    PROVE  /\ IsFloat(Rounded(x, y)) /\ IsFloat(FloatAdd(x, y)) /\ IsFloat(FloatMul(x, y)) /\ IsFloat(FloatDiv(x, y))
<1>1. \A a, b : IsFloat(Rounded(a, b))
  BY DEF Rounded, IsFloat, Inf, Float
<1>2. IsFloat(NaN) /\ \A h : IsFloat(Inf(h)) /\ IsFloat(Float(h))
  BY DEF IsFloat, NaN, Inf, Float
<1>3. IsFloat(FloatAdd(x, y))
  <2>1. x.k = "inf" => IsFloat(x)
    BY DEF IsFloat
  <2>2. y.k = "inf" => IsFloat(y)
    BY DEF IsFloat
  <2> QED
    BY <1>1, <1>2, <2>1, <2>2 DEF FloatAdd
<1>4. IsFloat(FloatMul(x, y))
  BY <1>1, <1>2 DEF FloatMul
<1>5. IsFloat(FloatDiv(x, y))
  BY <1>1, <1>2 DEF FloatDiv
<1> QED
  BY <1>1, <1>3, <1>4, <1>5

\* Floats are values of the program, and no errors.
LEMMA FloatsTyped ==
    ASSUME NEW x, IsFloat(x)
    PROVE  Typed(x) /\ x.k # "error"
BY DEF Typed, IsFloat, Kinds

\* Numbers are values of the program, and no errors.
LEMMA NumbersTyped ==
    ASSUME NEW x, IsNumber(x)
    PROVE  Typed(x) /\ x.k # "error"
BY NumberIs DEF Typed, Kinds

\* floatToInt and toInt give an integer, the nearest one that there is.
LEMMA FloatToIntIs ==
    ASSUME NEW x, IsNumber(x), IsFloat(x)
    PROVE  /\ FloatToInt(x) \in MachineInt
           /\ x.k # "nan" /\ x.h >= 2 * MaxInt /\ x.h > 0 => FloatToInt(x) = MaxInt
           /\ x.k = "inf" => FloatToInt(x) = IF x.h > 0 THEN MaxInt ELSE MinInt
           /\ x.k = "float" /\ x.h <= 2 * MinInt => FloatToInt(x) = MinInt
           /\ x.k = "float" /\ x.h \in 2 * MinInt .. 2 * MaxInt => FloatToInt(x) = Quo(x.h, 2)
<1>1. x.h \in Int /\ x.k \in {"float", "inf", "nan"} /\ HalfRange \in Nat \ {0, 1}
  BY NumberIs, NumbersAssumption DEF IsFloat
<1>2. \A h \in Int : h \in 2 * MinInt .. 2 * MaxInt => Quo(h, 2) \in MachineInt
  <2> SUFFICES ASSUME NEW h \in 2 * MinInt .. 2 * MaxInt PROVE Quo(h, 2) \in MachineInt
    OBVIOUS
  <2>1. h \in Int /\ Abs(2) = 2 /\ Sign(2) = 1
    BY <1>1 DEF MinInt, MaxInt, Abs, Sign
  <2>2. Quo(h, 2) = Sign(h) * 1 * (Abs(h) \div 2)
    BY <2>1 DEF Quo
  <2> QED
    BY <1>1, <2>1, <2>2 DEF MachineInt, MinInt, MaxInt, Abs, Sign
<1>3. Quo(2 * MaxInt, 2) = MaxInt /\ Quo(2 * MinInt, 2) = MinInt
  <2>1. MaxInt \in Int /\ MinInt \in Int /\ 2 \in Int \ {0}
    BY <1>1 DEF MaxInt, MinInt
  <2>2. 2 * MaxInt = MaxInt * 2 /\ 2 * MinInt = MinInt * 2
    BY <2>1
  <2> QED
    BY <2>1, <2>2, QuoOfProduct
<1>4. MaxInt \in MachineInt /\ MinInt \in MachineInt
  BY <1>1 DEF MachineInt, MinInt, MaxInt
<1> QED
  BY <1>1, <1>2, <1>3, <1>4 DEF FloatToInt, MinInt, MaxInt

-------------------------------------------------------------------------------
(* The operators.                                                          *)

\* x is the whole number n.
Stands(x, n) == IsNumber(x) /\ Whole(x) /\ x.h = 2 * n

\* A whole number is itself however it is kept.
LEMMA KeptStands ==
    ASSUME NEW n \in Int
    PROVE  Stands(Kept(n), n) /\ Stands(Big(n), n)
BY NumbersAre DEF Stands, Whole

\* What TypeSwitch hands over: integers, floats or big integers, and no floats for whole numbers.
Handed(x, y, c, a, b) ==
    CASE c = "ints" -> a \in MachineInt /\ b \in MachineInt
      [] c = "bigs" -> a \in Int /\ b \in Int
      [] OTHER -> /\ c = "floats"
                  /\ IsNumber(ToFloat(x)) /\ IsFloat(ToFloat(x))
                  /\ IsNumber(ToFloat(y)) /\ IsFloat(ToFloat(y))

\* binopTypeSwitch hands the operands to the callback of their kinds, and to the one of whole numbers if both are.
LEMMA SwitchIs ==
    ASSUME NEW x, NEW y, IsNumber(x), IsNumber(y)
    PROVE  /\ Handed(Parsed(x), Parsed(y), Callback(Parsed(x), Parsed(y)), Parsed(x).h \div 2, Parsed(y).h \div 2)
           /\ Whole(x) /\ Whole(y) =>
                 /\ Callback(Parsed(x), Parsed(y)) # "floats"
                 /\ Parsed(x).h = x.h /\ Parsed(y).h = y.h
                 /\ x.h \div 2 \in Int /\ y.h \div 2 \in Int /\ x.h = 2 * (x.h \div 2) /\ y.h = 2 * (y.h \div 2)
<1> DEFINE p == Parsed(x)
           q == Parsed(y)
<1>1. /\ IsNumber(p) /\ IsNumber(q) /\ p.k \in Kinds /\ q.k \in Kinds
      /\ Whole(x) => p.k \in {"int", "big"} /\ p.h = x.h /\ x.h \div 2 \in Int /\ x.h = 2 * (x.h \div 2)
      /\ Whole(y) => q.k \in {"int", "big"} /\ q.h = y.h /\ y.h \div 2 \in Int /\ y.h = 2 * (y.h \div 2)
  BY ParsedIs
<1> HIDE DEF p, q
<1>2. \/ Callback(p, q) = "ints" /\ p.k = "int" /\ q.k = "int"
      \/ Callback(p, q) = "floats" /\ (IsFloat(p) \/ IsFloat(q))
      \/ Callback(p, q) = "bigs" /\ p.k \in {"int", "big"} /\ q.k \in {"int", "big"}
  BY <1>1 DEF Callback, IsFloat, Kinds
<1>3. CASE Callback(p, q) = "ints" /\ p.k = "int" /\ q.k = "int"
  <2>1. p.h \div 2 \in MachineInt /\ q.h \div 2 \in MachineInt
    BY <1>1, <1>3, NumberIs
  <2> QED
    BY <1>1, <1>3, <2>1 DEF Handed, p, q
<1>4. CASE Callback(p, q) = "floats" /\ (IsFloat(p) \/ IsFloat(q))
  <2>1. p.k # "text" /\ q.k # "text"
    BY <1>1 DEF Kinds
  <2>2. /\ IsNumber(ToFloat(p)) /\ IsFloat(ToFloat(p))
        /\ IsNumber(ToFloat(q)) /\ IsFloat(ToFloat(q))
    BY <1>1, <2>1, ToFloatIs
  <2>3. ~ (Whole(x) /\ Whole(y))
    BY <1>1, <1>4 DEF IsFloat
  <2> QED
    BY <1>4, <2>2, <2>3 DEF Handed, p, q
<1>5. CASE Callback(p, q) = "bigs" /\ p.k \in {"int", "big"} /\ q.k \in {"int", "big"}
  <2>1. p.h \div 2 \in Int /\ q.h \div 2 \in Int
    BY <1>1, <1>5, NumberIs
  <2> QED
    BY <1>1, <1>5, <2>1 DEF Handed, p, q
<1> QED
  BY <1>2, <1>3, <1>4, <1>5

\* funcOpAdd: the sum of two numbers is one, that of whole numbers the exact one.
THEOREM AddExact ==
    ASSUME NEW x, NEW y, IsNumber(x), IsNumber(y)
    PROVE  /\ IsNumber(Add(x, y))
           /\ Whole(x) /\ Whole(y) => Stands(Add(x, y), x.h \div 2 + y.h \div 2)
<1> DEFINE p == Parsed(x)
           q == Parsed(y)
           c == Callback(p, q)
           a == p.h \div 2
           b == q.h \div 2
<1>1. Handed(p, q, c, a, b) /\ (Whole(x) /\ Whole(y) => c # "floats" /\ a = x.h \div 2 /\ b = y.h \div 2)
  BY SwitchIs
<1>2. Add(x, y) = CASE c = "ints" -> AddInts(a, b)
                    [] c = "floats" -> FloatAdd(ToFloat(p), ToFloat(q))
                    [] c = "bigs" -> Big(a + b)
  BY DEF Add, TypeSwitch
<1> HIDE DEF p, q, c, a, b
<1>3. CASE c = "ints"
  <2>1. a \in MachineInt /\ b \in MachineInt /\ a + b \in Int
    BY <1>1, <1>3, NumbersAssumption DEF Handed, MachineInt, MinInt, MaxInt
  <2>2. Add(x, y) = Kept(a + b)
    BY <1>2, <1>3, <2>1, AddIntsExact
  <2>3. Stands(Add(x, y), a + b)
    BY <2>1, <2>2, KeptStands
  <2> QED
    BY <1>1, <2>3 DEF Stands
<1>4. CASE c = "bigs"
  <2>1. a + b \in Int /\ Add(x, y) = Big(a + b)
    BY <1>1, <1>2, <1>4 DEF Handed
  <2>2. Stands(Add(x, y), a + b)
    BY <2>1, KeptStands
  <2> QED
    BY <1>1, <2>2 DEF Stands
<1>5. CASE c = "floats"
  <2>1. Add(x, y) = FloatAdd(ToFloat(p), ToFloat(q))
    BY <1>2, <1>5
  <2>2. IsNumber(FloatAdd(ToFloat(p), ToFloat(q)))
    BY <1>1, <1>5, FloatAddIs DEF Handed
  <2> QED
    BY <1>1, <1>5, <2>1, <2>2
<1> QED
  BY <1>1, <1>3, <1>4, <1>5 DEF Handed

\* funcOpSub
THEOREM SubExact ==
    ASSUME NEW x, NEW y, IsNumber(x), IsNumber(y)
    PROVE  /\ Typed(Sub(x, y))
           /\ Whole(x) /\ Whole(y) => Stands(Sub(x, y), x.h \div 2 - y.h \div 2)
<1> DEFINE p == Parsed(x)
           q == Parsed(y)
           c == Callback(p, q)
           a == p.h \div 2
           b == q.h \div 2
<1>1. Handed(p, q, c, a, b) /\ (Whole(x) /\ Whole(y) => c # "floats" /\ a = x.h \div 2 /\ b = y.h \div 2)
  BY SwitchIs
<1>2. Sub(x, y) = CASE c = "ints" -> SubInts(a, b)
                    [] c = "floats" -> FloatAdd(ToFloat(p), FloatNeg(ToFloat(q)))
                    [] c = "bigs" -> Big(a - b)
  BY DEF Sub, TypeSwitch
<1> HIDE DEF p, q, c, a, b
<1>3. CASE c = "ints"
  <2>1. a \in MachineInt /\ b \in MachineInt /\ a - b \in Int
    BY <1>1, <1>3, NumbersAssumption DEF Handed, MachineInt, MinInt, MaxInt
  <2>2. Sub(x, y) = Kept(a - b)
    BY <1>2, <1>3, <2>1, SubIntsExact
  <2>3. Stands(Sub(x, y), a - b)
    BY <2>1, <2>2, KeptStands
  <2> QED
    BY <1>1, <2>3, NumbersTyped DEF Stands
<1>4. CASE c = "bigs"
  <2>1. a - b \in Int /\ Sub(x, y) = Big(a - b)
    BY <1>1, <1>2, <1>4 DEF Handed
  <2>2. Stands(Sub(x, y), a - b)
    BY <2>1, KeptStands
  <2> QED
    BY <1>1, <2>2, NumbersTyped DEF Stands
<1>5. CASE c = "floats"
  <2>1. Sub(x, y) = FloatAdd(ToFloat(p), FloatNeg(ToFloat(q)))
    BY <1>2, <1>5
  <2>2. Typed(Sub(x, y))
    BY <2>1, FloatKinds, FloatsTyped
  <2> QED
    BY <1>1, <1>5, <2>2
<1> QED
  BY <1>1, <1>3, <1>4, <1>5 DEF Handed

\* funcOpMul
THEOREM MulExact ==
    ASSUME NEW x, NEW y, IsNumber(x), IsNumber(y)
    PROVE  /\ Typed(Mul(x, y))
           /\ Whole(x) /\ Whole(y) => Stands(Mul(x, y), (x.h \div 2) * (y.h \div 2))
<1> DEFINE p == Parsed(x)
           q == Parsed(y)
           c == Callback(p, q)
           a == p.h \div 2
           b == q.h \div 2
<1>1. Handed(p, q, c, a, b) /\ (Whole(x) /\ Whole(y) => c # "floats" /\ a = x.h \div 2 /\ b = y.h \div 2)
  BY SwitchIs
<1>2. Mul(x, y) = CASE c = "ints" -> MulInts(a, b)
                    [] c = "floats" -> FloatMul(ToFloat(p), ToFloat(q))
                    [] c = "bigs" -> Big(a * b)
  BY DEF Mul, TypeSwitch
<1> HIDE DEF p, q, c, a, b
<1>3. CASE c = "ints"
  <2>1. a \in MachineInt /\ b \in MachineInt /\ a * b \in Int
    BY <1>1, <1>3, NumbersAssumption DEF Handed, MachineInt, MinInt, MaxInt
  <2>2. Mul(x, y) = Kept(a * b)
    BY <1>2, <1>3, <2>1, MulIntsExact
  <2>3. Stands(Mul(x, y), a * b)
    BY <2>1, <2>2, KeptStands
  <2> QED
    BY <1>1, <2>3, NumbersTyped DEF Stands
<1>4. CASE c = "bigs"
  <2>1. a * b \in Int /\ Mul(x, y) = Big(a * b)
    BY <1>1, <1>2, <1>4 DEF Handed
  <2>2. Stands(Mul(x, y), a * b)
    BY <2>1, KeptStands
  <2> QED
    BY <1>1, <2>2, NumbersTyped DEF Stands
<1>5. CASE c = "floats"
  <2>1. Typed(Mul(x, y))
    BY <1>2, <1>5, FloatKinds, FloatsTyped
  <2> QED
    BY <1>1, <1>5, <2>1
<1> QED
  BY <1>1, <1>3, <1>4, <1>5 DEF Handed

\* A whole number is divided by another without a rest if the sizes are.
LEMMA RestOfSize ==
    ASSUME NEW a \in Int, NEW b \in Int \ {0}
    PROVE  /\ (a % Abs(b) = 0) <=> (Abs(a) % Abs(b) = 0)
           /\ (Rem(a, b) = 0) <=> (Abs(a) % Abs(b) = 0)
           /\ (a - Rem(a, b)) % Abs(b) = 0
           /\ Abs(Rem(a, b)) < Abs(b) /\ Sign(Rem(a, b)) \in {0, Sign(a)}
<1> DEFINE d == Abs(b)
           r == Abs(a) % d
           q == Abs(a) \div d
<1>1. d \in Nat \ {0} /\ Abs(a) \in Nat /\ Abs(a) \in Int
  BY DEF Abs
<1>2. Rem(a, b) = Sign(a) * r
  BY DEF Rem
<1>3. Abs(Rem(a, b)) < d /\ Abs(d) = d
  BY <1>1, Division DEF Abs
<1> HIDE DEF d
<1>4. q \in Int /\ r \in 0 .. d - 1 /\ r = Abs(a) - d * q
  BY <1>1, DivMod
<1> HIDE DEF r, q
<1>5. \A k \in Int : (k * d) % d = 0
  <2> SUFFICES ASSUME NEW k \in Int PROVE (k * d) % d = 0
    OBVIOUS
  <2> DEFINE n == k * d
             s == n % d
             t == n \div d
  <2>1. n \in Int
    BY <1>1
  <2> HIDE DEF n
  <2>2. t \in Int /\ s \in 0 .. d - 1 /\ s = n - d * t
    BY <1>1, <2>1, DivMod
  <2> HIDE DEF s, t
  <2>3. s = d * (k - t) /\ k - t \in Int
    BY <1>1, <2>2 DEF n
  <2>4. d * (k - t) < d /\ d * (k - t) >= 0
    BY <1>1, <2>2, <2>3
  <2>5. Abs(d * (k - t)) < Abs(d) /\ d \in Int \ {0}
    BY <1>1, <1>3, <2>2, <2>3, <2>4 DEF Abs
  <2>6. k - t = 0
    BY <2>3, <2>5, SmallMultiple
  <2> QED
    BY <1>1, <2>3, <2>6 DEF s, n
<1>6. a - Sign(a) * r = (Sign(a) * q) * d /\ Sign(a) * q \in Int
  BY <1>1, <1>4 DEF Abs, Sign
<1>7. (a - Rem(a, b)) % d = 0
  BY <1>2, <1>5, <1>6
<1>8. (a % d = 0) <=> (r = 0)
  <2>1. ASSUME r = 0 PROVE a % d = 0
    BY <1>5, <1>6, <2>1, <1>4 DEF Sign
  <2>2. ASSUME a % d = 0 PROVE r = 0
    <3> DEFINE t == a \div d
    <3>1. t \in Int /\ a = d * t
      BY <1>1, <2>2, DivMod
    <3> HIDE DEF t
    <3>2. Abs(a) = (Sign(a) * t) * d /\ Sign(a) * t \in Int
      BY <1>1, <3>1 DEF Abs, Sign
    <3> QED
      BY <1>5, <3>2 DEF r
  <2> QED
    BY <2>1, <2>2
<1>9. (Sign(a) * r = 0) <=> (r = 0)
  BY <1>1, <1>4 DEF Sign, Abs
<1>10. Sign(Sign(a) * r) \in {0, Sign(a)}
  BY <1>1, <1>4 DEF Sign, Abs
<1> QED
  BY <1>2, <1>3, <1>7, <1>8, <1>9, <1>10 DEF d, r

\* funcOpDiv: an error for zero only, and a whole number if there is no rest.
Divided(z, a, b) ==
    /\ Typed(z)
    /\ (z = NumError) <=> (b = 0)
    /\ b # 0 /\ a % Abs(b) = 0 => Whole(z) /\ (z.h \div 2) * b = a

\* Dividing floats gives a float.
LEMMA FloatsNoError ==
    ASSUME NEW x, NEW y
    PROVE  Typed(FloatDiv(x, y)) /\ FloatDiv(x, y) # NumError
<1>1. IsFloat(FloatDiv(x, y))
  BY FloatKinds
<1>2. Typed(FloatDiv(x, y)) /\ FloatDiv(x, y).k # "error"
  BY <1>1, FloatsTyped
<1>3. NumError.k = "error"
  BY DEF NumError
<1> QED
  BY <1>2, <1>3

\* An error is a result, too.
LEMMA ErrorTyped == Typed(NumError)
BY DEF Typed, NumError, Kinds

\* The quotient without a rest is the right one.
LEMMA StandsDivided ==
    ASSUME NEW a \in Int, NEW b \in Int \ {0}, NEW n \in Int, n * b = a, NEW z, Stands(z, n)
    PROVE  Divided(z, a, b)
<1>1. Typed(z) /\ z.k # "error"
  BY NumbersTyped DEF Stands
<1>2. z # NumError
  BY <1>1 DEF NumError
<1>3. z.h \div 2 = n
  BY Halved DEF Stands
<1> QED
  BY <1>1, <1>2, <1>3 DEF Divided, Stands

\* The callbacks of division for integers and big integers.
LEMMA DivWhole ==
    ASSUME NEW a \in Int, NEW b \in Int
    PROVE  /\ a \in MachineInt /\ b \in MachineInt => Divided(DivInts(a, b), a, b)
           /\ Divided(DivBigs(a, b), a, b)
<1>1. CASE b = 0
  BY <1>1, ErrorTyped DEF Divided, DivInts, DivBigs
<1>2. CASE b = -1
  <2>1. Stands(Kept(-a), -a) /\ (-a) * b = a /\ -a \in Int /\ b \in Int \ {0}
    BY <1>2, KeptStands
  <2>2. Divided(Kept(-a), a, b)
    BY <2>1, StandsDivided
  <2>3. a \in MachineInt => DivInts(a, b) = Kept(-a)
    BY <1>2, NegateExact DEF DivInts
  <2>4. Abs(a) % Abs(b) = 0 /\ Quo(a, b) = -a
    <3>1. Rem(a, b) = 0
      <4>0. b + 1 = 0
        BY <1>2
      <4>1. Abs(b) = 1 /\ b \in Int \ {0}
        BY <4>0 DEF Abs
      <4>2. Abs(Rem(a, b)) < Abs(b) /\ Rem(a, b) \in Int
        BY <4>1, Division
      <4> QED
        BY <4>1, <4>2 DEF Abs
    <3>2. a - b * Quo(a, b) = 0 /\ Quo(a, b) \in Int
      BY <1>2, <3>1, Division
    <3>3. Quo(a, b) = -a
      BY <1>2, <3>2
    <3> QED
      BY <2>1, <3>1, <3>3, RestOfSize
  <2>5. Divided(DivBigs(a, b), a, b)
    <3>1. DivBigs(a, b) = Big(-a)
      BY <1>2, <2>4 DEF DivBigs
    <3> QED
      BY <2>1, <3>1, KeptStands, StandsDivided
  <2> QED
    BY <2>2, <2>3, <2>5
<1>3. CASE b \notin {0, -1}
  <2> DEFINE n == Quo(a, b)
  <2>1. n \in Int /\ a - b * n = Rem(a, b) /\ Rem(a, b) \in Int
    BY <1>3, Division
  <2>2. /\ (a % Abs(b) = 0) <=> (Abs(a) % Abs(b) = 0)
        /\ (Rem(a, b) = 0) <=> (Abs(a) % Abs(b) = 0)
    BY <1>3, RestOfSize
  <2>3. a \in MachineInt => n \in MachineInt
    BY <1>3, QuoFits
  <2>4. DivInts(a, b) = IF Rem(a, b) = 0 THEN Int_(n) ELSE FloatDiv(Rounded(2 * a, 1), Rounded(2 * b, 1))
    BY <1>3 DEF DivInts
  <2>5. DivBigs(a, b) = IF Rem(a, b) = 0 THEN Big(n) ELSE FloatDiv(Rounded(2 * a, 1), Rounded(2 * b, 1))
    BY <1>3, <2>2 DEF DivBigs
  <2> HIDE DEF n
  <2>6. CASE Rem(a, b) = 0
    <3>1. n * b = a
      BY <2>1, <2>6
    <3>2. Stands(Big(n), n) /\ (a \in MachineInt => Stands(Int_(n), n))
      BY <2>1, <2>3, KeptStands DEF Kept
    <3> QED
      BY <1>3, <2>1, <2>4, <2>5, <2>6, <3>1, <3>2, StandsDivided
  <2>7. CASE Rem(a, b) # 0
    BY <1>3, <2>2, <2>4, <2>5, <2>7, FloatsNoError DEF Divided
  <2> QED
    BY <2>6, <2>7
<1> QED
  BY <1>1, <1>2, <1>3

\* funcOpDiv: an error for zero only, and the quotient of two whole numbers that has no rest is exact.
THEOREM DivExact ==
    ASSUME NEW x, NEW y, IsNumber(x), IsNumber(y)
    PROVE  /\ Typed(Div(x, y))
           /\ Whole(x) /\ Whole(y) => Divided(Div(x, y), x.h \div 2, y.h \div 2)
<1> DEFINE p == Parsed(x)
           q == Parsed(y)
           c == Callback(p, q)
           a == p.h \div 2
           b == q.h \div 2
<1>1. Handed(p, q, c, a, b) /\ (Whole(x) /\ Whole(y) => c # "floats" /\ a = x.h \div 2 /\ b = y.h \div 2)
  BY SwitchIs
<1>2. Div(x, y) = CASE c = "ints" -> DivInts(a, b)
                    [] c = "floats" -> DivFloats(ToFloat(p), ToFloat(q))
                    [] c = "bigs" -> DivBigs(a, b)
  BY DEF Div, TypeSwitch
<1> HIDE DEF p, q, c, a, b
<1>3. CASE c \in {"ints", "bigs"}
  <2>1. a \in Int /\ b \in Int /\ (c = "ints" => a \in MachineInt /\ b \in MachineInt)
    BY <1>1, <1>3, NumbersAssumption DEF Handed, MachineInt, MinInt, MaxInt
  <2>2. Divided(Div(x, y), a, b)
    BY <1>2, <1>3, <2>1, DivWhole
  <2> QED
    BY <1>1, <2>2 DEF Divided
<1>4. CASE c = "floats"
  <2>1. Typed(Div(x, y))
    BY <1>2, <1>4, ErrorTyped, FloatsNoError DEF DivFloats
  <2> QED
    BY <1>1, <1>4, <2>1
<1> QED
  BY <1>1, <1>3, <1>4 DEF Handed

\* funcOpMod: an error for zero only, and the rest of a division towards zero.
Rest(z, a, b) ==
    /\ Typed(z)
    /\ (z = NumError) <=> (b = 0)
    /\ b # 0 => /\ Abs(z.h \div 2) < Abs(b)
                /\ (a - z.h \div 2) % Abs(b) = 0
                /\ Sign(z.h) \in {0, Sign(a)}

\* The rest with the sign of the dividend is the right one.
LEMMA StandsRest ==
    ASSUME NEW a \in Int, NEW b \in Int \ {0}, NEW z, Stands(z, Rem(a, b))
    PROVE  Rest(z, a, b)
<1>1. Typed(z) /\ z.k # "error"
  BY NumbersTyped DEF Stands
<1>2. z # NumError
  BY <1>1 DEF NumError
<1>3. Rem(a, b) \in Int
  BY Division
<1>4. z.h = 2 * Rem(a, b) /\ z.h \div 2 = Rem(a, b)
  BY <1>3, Halved DEF Stands
<1>5. Sign(2 * Rem(a, b)) = Sign(Rem(a, b))
  BY <1>3 DEF Sign
<1>6. (a - Rem(a, b)) % Abs(b) = 0 /\ Abs(Rem(a, b)) < Abs(b) /\ Sign(Rem(a, b)) \in {0, Sign(a)}
  BY RestOfSize
<1> QED
  BY <1>1, <1>2, <1>4, <1>5, <1>6 DEF Rest

\* The rest is less than the divisor, hence an integer if that is one.
LEMMA RemFits ==
    ASSUME NEW a \in Int, NEW b \in MachineInt \ {0}
    PROVE  Rem(a, b) \in MachineInt
<1>1. b \in Int \ {0}
  BY NumbersAssumption DEF MachineInt, MinInt, MaxInt
<1>2. Rem(a, b) \in Int /\ Abs(Rem(a, b)) < Abs(b)
  BY <1>1, Division
<1> QED
  BY <1>1, <1>2, NumbersAssumption DEF Abs, MachineInt, MinInt, MaxInt

\* The callbacks of modulo for integers and big integers.
LEMMA ModWhole ==
    ASSUME NEW a \in Int, NEW b \in Int
    PROVE  /\ b \in MachineInt => Rest(ModInts(a, b), a, b)
           /\ Rest(ModBigs(a, b), a, b)
<1>1. CASE b = 0
  BY <1>1, ErrorTyped DEF Rest, ModInts, ModBigs
<1>2. CASE b # 0
  <2>1. Rem(a, b) \in Int /\ (b \in MachineInt => Rem(a, b) \in MachineInt)
    BY <1>2, Division, RemFits
  <2>2. ModBigs(a, b) = Big(Rem(a, b))
    BY <1>2 DEF ModBigs
  <2>3. ModInts(a, b) = Int_(Rem(a, b))
    <3>1. b = -1 => Rem(a, b) = 0
      <4>1. Abs(Rem(a, b)) < Abs(b)
        BY <1>2, Division
      <4> QED
        BY <2>1, <4>1 DEF Abs
    <3> QED
      BY <1>2, <3>1 DEF ModInts
  <2>4. Stands(Big(Rem(a, b)), Rem(a, b)) /\ (b \in MachineInt => Stands(Int_(Rem(a, b)), Rem(a, b)))
    BY <2>1, KeptStands DEF Kept
  <2> QED
    BY <1>2, <2>2, <2>3, <2>4, StandsRest
<1> QED
  BY <1>1, <1>2

\* Modulo of floats is a float, or an error.
LEMMA ModFloatsTyped ==
    ASSUME NEW x, NEW y, IsNumber(x), IsNumber(y), IsFloat(x), IsFloat(y)
    PROVE  Typed(ModFloats(x, y))
<1> DEFINE i == FloatToInt(y)
           n == FloatToInt(x)
<1>1. i \in MachineInt /\ n \in MachineInt
  BY FloatToIntIs
<1>2. ModFloats(x, y) = IF x.k = "nan" \/ y.k = "nan" THEN NaN ELSE IF i = 0 THEN NumError ELSE Int_(Rem(n, i))
  BY DEF ModFloats
<1> HIDE DEF i, n
<1>3. n \in Int
  BY <1>1, NumbersAssumption DEF MachineInt, MinInt, MaxInt
<1>4. i # 0 => Rem(n, i) \in MachineInt
  BY <1>1, <1>3, RemFits
<1>5. i # 0 => IsNumber(Int_(Rem(n, i)))
  BY <1>4, NumbersAre
<1>6. Typed(NaN) /\ (i # 0 => Typed(Int_(Rem(n, i))))
  BY <1>5, NumbersAre, NumbersTyped
<1> QED
  BY <1>2, <1>6, ErrorTyped

\* funcOpMod: an error for zero only, and of two whole numbers the rest, with the sign of the dividend.
THEOREM ModExact ==
    ASSUME NEW x, NEW y, IsNumber(x), IsNumber(y)
    PROVE  /\ Typed(Mod(x, y))
           /\ Whole(x) /\ Whole(y) => Rest(Mod(x, y), x.h \div 2, y.h \div 2)
<1> DEFINE p == Parsed(x)
           q == Parsed(y)
           c == Callback(p, q)
           a == p.h \div 2
           b == q.h \div 2
<1>1. Handed(p, q, c, a, b) /\ (Whole(x) /\ Whole(y) => c # "floats" /\ a = x.h \div 2 /\ b = y.h \div 2)
  BY SwitchIs
<1>2. Mod(x, y) = CASE c = "ints" -> ModInts(a, b)
                    [] c = "floats" -> ModFloats(ToFloat(p), ToFloat(q))
                    [] c = "bigs" -> ModBigs(a, b)
  BY DEF Mod, TypeSwitch
<1> HIDE DEF p, q, c, a, b
<1>3. CASE c \in {"ints", "bigs"}
  <2>1. a \in Int /\ b \in Int /\ (c = "ints" => a \in MachineInt /\ b \in MachineInt)
    BY <1>1, <1>3, NumbersAssumption DEF Handed, MachineInt, MinInt, MaxInt
  <2>2. Rest(Mod(x, y), a, b)
    BY <1>2, <1>3, <2>1, ModWhole
  <2> QED
    BY <1>1, <2>2 DEF Rest
<1>4. CASE c = "floats"
  <2>1. Mod(x, y) = ModFloats(ToFloat(p), ToFloat(q))
    BY <1>2, <1>4
  <2>2. Typed(Mod(x, y))
    BY <1>1, <1>4, <2>1, ModFloatsTyped DEF Handed
  <2> QED
    BY <1>1, <1>4, <2>2
<1> QED
  BY <1>1, <1>3, <1>4 DEF Handed

\* Compare of two numbers, whole ones as they are.
THEOREM CompareExact ==
    ASSUME NEW x, NEW y, IsNumber(x), IsNumber(y)
    PROVE  /\ CompareNumbers(x, y) \in {-1, 0, 1}
           /\ Whole(x) /\ Whole(y) => CompareNumbers(x, y) = Sign(x.h \div 2 - y.h \div 2)
<1> DEFINE p == Parsed(x)
           q == Parsed(y)
           c == Callback(p, q)
           a == p.h \div 2
           b == q.h \div 2
           f == ToFloat(p)
           g == ToFloat(q)
<1>1. Handed(p, q, c, a, b) /\ (Whole(x) /\ Whole(y) => c # "floats" /\ a = x.h \div 2 /\ b = y.h \div 2)
  BY SwitchIs
<1>2. CompareNumbers(x, y) = CASE c = "ints" -> Sign(a - b)
                               [] c = "floats" -> IF FloatLess(f, g) \/ f.k = "nan" THEN -1
                                                  ELSE IF f = g /\ g.k # "nan" THEN 0 ELSE 1
                               [] c = "bigs" -> Sign(a - b)
  BY DEF CompareNumbers, TypeSwitch
<1> HIDE DEF p, q, c, a, b, f, g
<1>3. Sign(a - b) \in {-1, 0, 1}
  BY DEF Sign
<1>4. c \in {"ints", "floats", "bigs"}
  BY <1>1 DEF Handed
<1>5. CASE c = "floats"
  <2>1. CompareNumbers(x, y) \in {-1, 0, 1}
    BY <1>2, <1>5
  <2> QED
    BY <1>1, <1>5, <2>1
<1>6. CASE c # "floats"
  BY <1>1, <1>2, <1>3, <1>4, <1>6
<1> QED
  BY <1>5, <1>6

-------------------------------------------------------------------------------
(* What takes one number.                                                  *)

\* toInt
LEMMA ToIntIs ==
    ASSUME NEW x, IsNumber(x)
    PROVE  /\ ToInt(x) \in MachineInt
           /\ IsFloat(Parsed(x)) => ToInt(x) = FloatToInt(Parsed(x))
           /\ Whole(x) => ToInt(x) = IF x.h \div 2 \in MachineInt THEN x.h \div 2
                                     ELSE IF x.h > 0 THEN MaxInt ELSE MinInt
<1> DEFINE p == Parsed(x)
<1>1. IsNumber(p) /\ p.k \in Kinds /\ (Whole(x) => p.k \in {"int", "big"} /\ p.h = x.h)
  BY ParsedIs
<1>2. ToInt(x) = IF IsFloat(p) THEN FloatToInt(p)
                 ELSE IF p.h \div 2 \in MachineInt THEN p.h \div 2
                 ELSE IF p.h > 0 THEN MaxInt ELSE MinInt
  BY DEF ToInt, MachineInt
<1> HIDE DEF p
<1>3. MaxInt \in MachineInt /\ MinInt \in MachineInt
  BY NumbersAssumption DEF MachineInt, MinInt, MaxInt
<1>4. IsFloat(p) => FloatToInt(p) \in MachineInt
  BY <1>1, FloatToIntIs
<1>5. Whole(x) => ~IsFloat(p)
  BY <1>1 DEF IsFloat
<1> QED
  BY <1>1, <1>2, <1>3, <1>4, <1>5 DEF p

\* What is negative stays so, or becomes 0.
LEMMA RoundedSign ==
    ASSUME NEW a \in Int
    PROVE  /\ Rounded(a, 1).h \in Int
           /\ a >= 0 => Rounded(a, 1).h >= 0
           /\ a <= 0 => Rounded(a, 1).h <= 0
           /\ Rounded(a, 1).k = "inf" \/ Rounded(a, 1) = Float(Rounded(a, 1).h)
<1> DEFINE m == Nearest(Abs(a), Abs(1))
           s == Sign(a) * Sign(1)
<1>1. m \in Nat /\ Rounded(a, 1) = IF m >= MaxFloat THEN Inf(s) ELSE Float(s * m)
  BY RoundedIs
<1>2. s = Sign(a) /\ s \in {-1, 0, 1}
  BY DEF Sign
<1>3. (a >= 0 => s >= 0) /\ (a <= 0 => s <= 0)
  BY <1>2 DEF Sign
<1> HIDE DEF m, s
<1>4. s * m \in Int /\ (s >= 0 => s * m >= 0) /\ (s <= 0 => s * m <= 0)
  BY <1>1, <1>2
<1>5. \A h : Inf(h).h = h /\ Inf(h).k = "inf" /\ Float(h).h = h
  BY DEF Inf, Float
<1> QED
  BY <1>1, <1>2, <1>3, <1>4, <1>5

\* funcOpNegate: of the digits, only the sign.
LEMMA NegIs ==
    ASSUME NEW x, IsNumber(x)
    PROVE  /\ Typed(Neg(x)) /\ Neg(x).h = -x.h
           /\ Same(Parsed(Neg(x)), Neg(Parsed(x)))
<1>0. \A y : y.k # "text" => Parsed(y) = y
  BY DEF Parsed
<1>1. CASE x.k = "int"
  <2> DEFINE n == x.h \div 2
  <2>1. n \in MachineInt /\ n \in Int /\ -n \in Int /\ x.h = 2 * n
    BY <1>1, NumberIs
  <2>2. Neg(x) = Kept(-n)
    BY <1>1, <2>1, NegateExact DEF Neg
  <2> HIDE DEF n
  <2>3. IsNumber(Kept(-n)) /\ Kept(-n).h = 2 * (-n) /\ Kept(-n).k \in {"int", "big"}
    BY <2>1, NumbersAre
  <2>4. 2 * (-n) = -(2 * n)
    BY <2>1
  <2>5. Parsed(Neg(x)) = Neg(x) /\ Parsed(x) = x
    BY <1>0, <1>1, <2>2, <2>3
  <2> QED
    BY <2>1, <2>2, <2>3, <2>4, <2>5, NumbersTyped DEF Same
<1>2. CASE x.k \in {"big", "float", "inf", "nan"}
  <2>1. Neg(x) = [x EXCEPT !.h = -@]
    BY <1>2 DEF Neg
  <2>2. x = Big(x.h \div 2) \/ x = Float(x.h) \/ x = Inf(x.h) \/ x = NaN
    BY <1>2, NumberIs
  <2>3. Neg(x).k = x.k /\ Neg(x).h = -x.h
    BY <2>1, <2>2 DEF Big, Float, Inf, NaN
  <2>4. Parsed(Neg(x)) = Neg(x) /\ Parsed(x) = x
    BY <1>0, <1>2, <2>3
  <2> QED
    BY <1>2, <2>3, <2>4 DEF Same, Typed, Kinds
<1>3. CASE x.k = "text"
  <2>1. x = Text(x.h, x.dotted) /\ x.h \in Int /\ x.dotted \in BOOLEAN
    BY <1>3, NumberIs
  <2>2. Neg(x) = [x EXCEPT !.h = -@]
    BY <1>3 DEF Neg
  <2>3. Neg(x).k = "text" /\ Neg(x).h = -x.h /\ Neg(x).dotted = x.dotted
    BY <2>1, <2>2 DEF Text
  <2>4. CASE x.dotted
    <3>1. Parsed(Neg(x)) = Rounded(-x.h, 1) /\ Parsed(x) = Rounded(x.h, 1)
      BY <1>3, <2>3, <2>4 DEF Parsed
    <3>2. IsFloat(Rounded(x.h, 1))
      BY FloatKinds
    <3>3. Neg(Rounded(x.h, 1)) = FloatNeg(Rounded(x.h, 1))
      BY <3>2 DEF Neg, FloatNeg, IsFloat
    <3>4. Rounded(-x.h, 1) = FloatNeg(Rounded(x.h, 1))
      BY <2>1, RoundedOpposite
    <3> QED
      BY <2>3, <3>1, <3>3, <3>4 DEF Same, Typed, Kinds
  <2>5. CASE ~x.dotted
    <3> DEFINE n == x.h \div 2
    <3>1. n \in Int /\ -n \in Int /\ x.h = 2 * n /\ -x.h = 2 * (-n)
      BY <1>3, <2>5, NumberIs
    <3>2. (-x.h) \div 2 = -n
      BY <3>1, Halved
    <3>3. Parsed(Neg(x)) = Kept(-n) /\ Parsed(x) = Kept(n)
      BY <1>3, <2>3, <2>5, <3>2 DEF Parsed, Kept, MachineInt
    <3> HIDE DEF n
    <3>4. Kept(-n).h = 2 * (-n) /\ Kept(-n).k \in {"int", "big"}
      BY <3>1, NumbersAre
    <3>5. Neg(Kept(n)).h = 2 * (-n) /\ Neg(Kept(n)).k \in {"int", "big"}
      <4>1. CASE n \in MachineInt
        <5>1. Kept(n) = Int_(n) /\ Int_(n).k = "int" /\ Int_(n).h = 2 * n
          BY <3>1, <4>1 DEF Kept, Int_
        <5>2. Neg(Kept(n)) = Kept(-n)
          BY <3>1, <4>1, <5>1, Halved, NegateExact DEF Neg
        <5> QED
          BY <3>4, <5>2
      <4>2. CASE n \notin MachineInt
        <5>1. Kept(n) = Big(n)
          BY <4>2 DEF Kept
        <5>2. Neg(Kept(n)).k = "big" /\ Neg(Kept(n)).h = -(2 * n)
          BY <5>1 DEF Neg, Big
        <5> QED
          BY <3>1, <5>2
      <4> QED
        BY <4>1, <4>2
    <3> QED
      BY <2>3, <3>3, <3>4, <3>5 DEF Same, Whole, Typed, Kinds
  <2> QED
    BY <2>1, <2>4, <2>5
<1> QED
  BY <1>1, <1>2, <1>3, NumberIs DEF Kinds

\* funcAbs
LEMMA AbsIs ==
    ASSUME NEW x, IsNumber(x)
    PROVE  /\ Typed(AbsOf(x)) /\ (x.k # "nan" => AbsOf(x).h = Abs(x.h))
           /\ Same(Parsed(AbsOf(x)), AbsOf(Parsed(x)))
<1> DEFINE p == Parsed(x)
<1>1. /\ IsNumber(p) /\ p.k \in Kinds /\ Parsed(p) = p /\ (x.k # "text" => p = x)
      /\ x.k = "text" /\ x.dotted => p = Rounded(x.h, 1)
      /\ Whole(x) => p.k \in {"int", "big"} /\ p.h = x.h
  BY ParsedIs
<1>2. Typed(x) /\ Typed(Neg(x)) /\ Neg(x).h = -x.h /\ Same(Parsed(Neg(x)), Neg(p)) /\ x.h \in Int
  BY NegIs, NumbersTyped, NumberIs
<1> HIDE DEF p
<1>3. Same(p, p)
  BY DEF Same
<1>4. CASE x.k # "text" \/ ~x.dotted
  <2>1. p.h = x.h /\ ((p.k = "nan") <=> (x.k = "nan"))
    BY <1>1, <1>4 DEF Whole, Kinds
  <2> QED
    BY <1>2, <1>3, <2>1 DEF AbsOf, Abs, p
<1>5. CASE x.k = "text" /\ x.dotted
  <2>1. p = Rounded(x.h, 1) /\ p.h \in Int /\ (x.h >= 0 => p.h >= 0) /\ (x.h <= 0 => p.h <= 0)
    BY <1>1, <1>2, <1>5, RoundedSign
  <2>2. p.k # "nan"
    BY <2>1 DEF Rounded, Inf, Float
  <2>3. CASE x.h < 0 /\ p.h < 0
    BY <1>2, <1>5, <2>2, <2>3 DEF AbsOf, Abs, p
  <2>4. CASE x.h >= 0
    <3>1. AbsOf(x) = x /\ AbsOf(p) = p
      BY <1>2, <2>1, <2>4 DEF AbsOf
    <3> QED
      BY <1>2, <1>3, <2>4, <3>1 DEF Abs, p
  <2>5. CASE x.h < 0 /\ p.h >= 0
    <3>1. p.h = 0 /\ x.h <= 0
      BY <1>2, <2>1, <2>5
    <3>2. p = Float(0)
      <4>1. p.k # "inf"
        BY <1>1, <3>1, NumberIs
      <4> QED
        BY <1>2, <2>1, <3>1, <4>1, RoundedSign
    <3>3. Neg(p) = p
      BY <3>2 DEF Neg, Float
    <3>4. AbsOf(p) = p /\ AbsOf(x) = Neg(x)
      BY <1>5, <2>5, <3>1 DEF AbsOf
    <3> QED
      BY <1>2, <2>5, <3>3, <3>4 DEF Abs, p
  <2> QED
    BY <1>2, <2>1, <2>3, <2>4, <2>5
<1> QED
  BY <1>4, <1>5, NumberIs

\* toFloat of digits that are a float is that of the number that they are.
LEMMA ToFloatAlike ==
    ASSUME NEW x, IsNumber(x), Fits(x)
    PROVE  ToFloat(Parsed(x)) = ToFloat(x)
<1>1. CASE x.k # "text"
  BY <1>1, ParsedIs
<1>2. CASE x.k = "text" /\ x.dotted
  <2>1. Parsed(x) = Rounded(x.h, 1) /\ IsFloat(Rounded(x.h, 1)) /\ Rounded(x.h, 1).k = "float"
    BY <1>2, ParsedIs, FloatKinds DEF Fits
  <2>2. ToFloat(x) = Rounded(x.h, 1)
    BY <1>2, <2>1 DEF ToFloat, IsFloat
  <2> QED
    BY <2>1, <2>2 DEF ToFloat
<1>3. CASE x.k = "text" /\ ~x.dotted
  <2>1. Parsed(x).k \in {"int", "big"} /\ Parsed(x).h = x.h /\ Rounded(x.h, 1).k = "float"
    BY <1>3, ParsedIs DEF Fits, Whole
  <2>2. ToFloat(x) = Rounded(x.h, 1)
    BY <1>3, <2>1 DEF ToFloat, IsFloat
  <2>3. ToFloat(Parsed(x)) = Rounded(x.h, 1)
    BY <2>1 DEF ToFloat, IsFloat
  <2> QED
    BY <2>2, <2>3
<1> QED
  BY <1>1, <1>2, <1>3, NumberIs

\* epochToArray and timeToEpoch
LEMMA SecondsIs ==
    ASSUME NEW x, IsNumber(x)
    PROVE  /\ Typed(Seconds(x)) /\ Seconds(x).k # "text"
           /\ x.h >= 0 \/ x.h % 2 = 0 => Seconds(x) = ToFloat(x)
<1> DEFINE f == ToFloat(x)
<1>1. Seconds(x) = IF f.k = "float" THEN Float(Epoch(f.h)) ELSE f
  BY DEF Seconds
<1>2. IsFloat(f) \/ f = NumError
  BY FloatKinds DEF ToFloat
<1>3. Typed(Seconds(x)) /\ Seconds(x).k # "text"
  <2>1. IsFloat(Float(Epoch(f.h)))
    BY DEF IsFloat, Float
  <2> HIDE DEF f
  <2>2. NumError.k # "text"
    BY DEF NumError
  <2> QED
    BY <1>1, <1>2, <2>1, <2>2, FloatsTyped, ErrorTyped DEF IsFloat
<1>4. ASSUME x.h >= 0 \/ x.h % 2 = 0, f.k = "float" PROVE Float(Epoch(f.h)) = f
  <2>1. x.h \in Int
    BY NumberIs
  <2>2. f = Float(f.h) /\ f.h \in Int /\ (f.h >= 0 \/ \E j \in Int : f.h = 2 * j)
    <3>1. CASE IsFloat(x)
      <4>1. f = x
        BY <3>1 DEF ToFloat
      <4>2. x.h % 2 = 0 => x.h = 2 * (x.h \div 2) /\ x.h \div 2 \in Int
        BY <2>1
      <4> QED
        BY <1>4, <4>1, <4>2, NumberIs
    <3>2. CASE ~IsFloat(x)
      <4>1. f = Rounded(x.h, 1)
        BY <1>4, <3>2 DEF ToFloat, NumError
      <4>2. f = Float(f.h) /\ f.h \in Int /\ (x.h >= 0 => f.h >= 0)
        <5>1. f.k # "inf"
          BY <1>4
        <5> HIDE DEF f
        <5> QED
          BY <2>1, <4>1, <5>1, RoundedSign
      <4>3. ASSUME x.h % 2 = 0 PROVE \E j \in Int : f.h = 2 * j
        <5> DEFINE m == Nearest(Abs(x.h), Abs(1))
                   s == Sign(x.h) * Sign(1)
        <5>1. m \in Nat /\ Rounded(x.h, 1) = IF m >= MaxFloat THEN Inf(s) ELSE Float(s * m)
          BY <2>1, RoundedIs
        <5>2. f.h = s * m
          BY <1>4, <4>1, <5>1 DEF Inf, Float
        <5>3. PICK j \in Nat : Abs(x.h) = 2 * j
          <6>1. x.h = 2 * (x.h \div 2) /\ x.h \div 2 \in Int
            BY <2>1, <4>3
          <6>2. Abs(x.h) = 2 * Abs(x.h \div 2) /\ Abs(x.h \div 2) \in Nat
            BY <6>1 DEF Abs
          <6> QED
            BY <6>2
        <5>4. Abs(1) = 1 /\ 2 * j \in Nat /\ 1 \in Nat \ {0}
          BY DEF Abs
        <5>5. PICK e : LastBit(2 * j, 1, e) /\ RoundedAt(2 * j, 1, e, m)
          BY <5>3, <5>4, NearestIs
        <5>6. PICK k \in Nat : m = 2 * k
          BY <5>5, RoundedEven
        <5>7. s \in {-1, 0, 1}
          BY <2>1 DEF Sign
        <5> HIDE DEF s, m, f
        <5>8. s * m = 2 * (s * k) /\ s * k \in Int
          BY <5>6, <5>7
        <5> QED
          BY <5>2, <5>8
      <4> QED
        BY <1>4, <4>2, <4>3
    <3> QED
      BY <3>1, <3>2
  <2> HIDE DEF f
  <2>3. CASE f.h >= 0
    <3>1. Abs(f.h) = f.h /\ Abs(2) = 2 /\ Sign(2) = 1 /\ Sign(f.h) \in {0, 1} /\ (Sign(f.h) = 0 => f.h = 0)
      BY <2>2, <2>3 DEF Abs, Sign
    <3>2. Quo(f.h, 2) = f.h \div 2
      BY <2>2, <3>1 DEF Quo
    <3>3. 2 * (f.h \div 2) + (f.h % 2) = f.h
      BY <2>2
    <3> QED
      BY <2>2, <3>2, <3>3 DEF Epoch
  <2>4. CASE \E j \in Int : f.h = 2 * j
    <3>1. PICK j \in Int : f.h = 2 * j
      BY <2>4
    <3>2. f.h = j * 2 /\ Quo(j * 2, 2) = j /\ f.h % 2 = 0
      BY <3>1, QuoOfProduct
    <3>3. 2 * j + 0 = f.h
      BY <3>1
    <3> QED
      BY <2>2, <3>2, <3>3 DEF Epoch
  <2> QED
    BY <2>2, <2>3, <2>4
<1> QED
  BY <1>1, <1>3, <1>4

-------------------------------------------------------------------------------
(* Saturation.                                                             *)

\* Half of the smallest number that is no float is none.
LEMMA RoundedOne == Rounded(1, 1).k = "float" /\ Rounded(-1, 1).k = "float"
<1> DEFINE m == Nearest(1, 1)
<1>1. PICK e : LastBit(1, 1, e) /\ RoundedAt(1, 1, e, m)
  BY NearestIs
<1>2. /\ Precision \in Nat \ {0} /\ MaxExponent \in Nat /\ e \in 0 .. MaxExponent
      /\ e # 0 => 1 >= Power[Precision + e - 1] * 1
  BY <1>1, NumbersAssumption DEF LastBit
<1>3. \A i \in Exponents \ {0} : Power[i] >= 2 /\ Power[i] \in Nat
  <2> SUFFICES ASSUME NEW i \in Exponents \ {0} PROVE Power[i] >= 2 /\ Power[i] \in Nat
    OBVIOUS
  <2>1. i \in 1 .. Precision + MaxExponent /\ i - 1 \in Exponents
    BY <1>2 DEF Exponents
  <2>2. Power[i] = 2 * Power[i - 1] /\ Power[i - 1] \in Nat \ {0}
    BY <2>1, PowerIs
  <2> QED
    BY <2>2
<1>4. e = 0
  <2> SUFFICES ASSUME e # 0 PROVE FALSE
    OBVIOUS
  <2>1. Precision + e - 1 \in Exponents \ {0}
    BY <1>2 DEF Exponents
  <2> DEFINE i == Precision + e - 1
  <2>2. Power[i] >= 2 /\ Power[i] \in Nat /\ 1 >= Power[i] * 1
    BY <1>2, <1>3, <2>1
  <2> HIDE DEF i
  <2> QED
    BY <2>2
<1>5. m = 1
  <2>1. Power[e] = 1
    BY <1>4, PowerIs
  <2>2. PICK q, r \in Nat : /\ 1 = q * (1 * Power[e]) + r /\ r < 1 * Power[e]
                            /\ m = IF 2 * r > 1 * Power[e] \/ (2 * r = 1 * Power[e] /\ q % 2 = 1)
                                   THEN (q + 1) * Power[e] ELSE q * Power[e]
    BY <1>1 DEF RoundedAt
  <2>3. r = 0 /\ q = 1
    BY <2>1, <2>2
  <2> HIDE DEF m
  <2> QED
    BY <2>1, <2>2, <2>3
<1>6. MaxFloat >= 2 /\ MaxFloat \in Nat
  <2>1. Precision + MaxExponent \in Exponents \ {0}
    BY <1>2 DEF Exponents
  <2> QED
    BY <1>3, <2>1 DEF MaxFloat
<1>7. Abs(1) = 1 /\ Abs(-1) = 1
  <2>1. \A a \in Int : a = 1 \/ a + 1 = 0 => Abs(a) = 1
    BY DEF Abs
  <2>2. 1 \in Int /\ -1 \in Int /\ -1 + 1 = 0
    OBVIOUS
  <2> QED
    BY <2>1, <2>2
<1> HIDE DEF m
<1>8. ~ (m >= MaxFloat)
  BY <1>5, <1>6
<1>9. \A h : Float(h).k = "float"
  BY DEF Float
<1> QED
  BY <1>7, <1>8, <1>9 DEF Rounded, m

\* The number next to the end of the integers is not rounded to below the last of them.
LEMMA RoundedEnd ==
    ASSUME NEW n \in Nat, n > 2 * MaxInt
    PROVE  Nearest(n, 1) \in Nat /\ Nearest(n, 1) >= 2 * MaxInt
<1> DEFINE m == Nearest(n, 1)
<1>1. HalfRange \in Nat \ {0, 1} /\ 2 * MaxInt = 2 * HalfRange - 2
  BY NumbersAssumption DEF MaxInt
<1>2. CASE n >= 2 * HalfRange
  <2>1. m \in Nat /\ m >= 2 * HalfRange
    BY <1>2, RoundedBeyond
  <2> HIDE DEF m
  <2> QED
    BY <1>1, <2>1 DEF m
<1>3. CASE n = 2 * HalfRange - 1
  <2>1. PICK e : LastBit(n, 1, e) /\ RoundedAt(n, 1, e, m)
    BY NearestIs
  <2>2. e \in Exponents /\ Power[e] \in Nat \ {0} /\ m \in Nat
    BY <2>1, LastPower, RoundedTyped
  <2>3. PICK w \in 1 .. Precision + MaxExponent - 1 : HalfRange = Power[w]
    BY NumbersAssumption
  <2>4. /\ Precision \in Nat \ {0} /\ MaxExponent \in Nat /\ e \in 0 .. MaxExponent
        /\ e # 0 => n >= Power[Precision + e - 1] * 1
    BY <2>1, NumbersAssumption DEF LastBit
  <2> DEFINE W == w + 1
  <2>5. W \in 1 .. Precision + MaxExponent /\ W - 1 = w /\ W \in Exponents
    BY <2>3, <2>4 DEF Exponents
  <2>6. Power[W] = 2 * HalfRange
    BY <2>3, <2>5, PowerIs
  <2> HIDE DEF W, m
  <2>7. e <= W
    <3> SUFFICES ASSUME W < e PROVE FALSE
      BY <2>4, <2>5
    <3> DEFINE x == Precision + e - 1
    <3>1. e # 0 /\ x \in W .. Precision + MaxExponent /\ x \in Exponents
      BY <2>4, <2>5 DEF Exponents
    <3>2. PICK k \in Nat \ {0} : Power[x] = k * Power[W]
      BY <2>5, <3>1, PowerDivides
    <3>3. n >= Power[x] * 1 /\ Power[x] \in Nat
      BY <2>4, <3>1, PowerIs
    <3> HIDE DEF x
    <3>4. k * (2 * HalfRange) = (k - 1) * (2 * HalfRange) + 2 * HalfRange /\ (k - 1) * (2 * HalfRange) \in Nat
      BY <1>1, <3>2
    <3> QED
      BY <1>1, <1>3, <2>6, <3>2, <3>3, <3>4
  <2>8. W \in e .. Precision + MaxExponent
    BY <2>4, <2>5, <2>7
  <2>9. PICK k \in Nat \ {0} : Power[W] = k * Power[e]
    BY <2>2, <2>8, PowerDivides
  <2> DEFINE u == Power[e]
  <2>10. u \in Nat \ {0} /\ 1 * u = u
    BY <2>2
  <2>11. PICK q, r \in Nat : /\ n = q * (1 * u) + r /\ r < 1 * u
                             /\ m = IF 2 * r > 1 * u \/ (2 * r = 1 * u /\ q % 2 = 1) THEN (q + 1) * u ELSE q * u
    BY <2>1 DEF RoundedAt
  <2>12. k * u = 2 * HalfRange
    BY <2>6, <2>9
  <2> HIDE DEF u
  <2>13. n = q * u + r /\ r < u /\ n + 1 = k * u
    BY <1>1, <1>3, <2>10, <2>11, <2>12
  <2>14. q * u \in Nat /\ (q + 1) * u = q * u + u
    BY <2>10
  <2>15. CASE u <= 2
    <3>1. u = 1 \/ u = 2
      BY <2>10, <2>15
    <3>2. q * u >= 2 * MaxInt
      BY <1>1, <1>3, <2>10, <2>13, <2>14, <3>1
    <3>3. m >= q * u
      BY <2>10, <2>11, <2>14
    <3> QED
      BY <1>1, <2>2, <2>14, <3>2, <3>3 DEF m
  <2>16. CASE u > 2
    <3>1. r = u - 1
      <4>1. u * (k - q) = r + 1 /\ k - q \in Int
        <5>1. u * (k - q) = k * u - q * u /\ k * u \in Nat
          BY <2>10
        <5> QED
          BY <2>13, <2>14, <5>1
      <4> DEFINE y == k - q
      <4>2. y \in Int /\ u * y = r + 1
        BY <4>1
      <4> HIDE DEF y
      <4>3. y >= 1
        <5> SUFFICES ASSUME y <= 0 PROVE FALSE
          BY <4>2
        <5>1. u * y <= 0
          BY <2>10, <4>2
        <5> QED
          BY <4>2, <5>1
      <4>4. u * y = u * (y - 1) + u /\ u * (y - 1) >= 0 /\ u * (y - 1) \in Int
        BY <2>10, <4>2, <4>3
      <4> QED
        BY <2>10, <2>13, <4>2, <4>4
    <3>2. m = (q + 1) * u
      BY <2>10, <2>11, <2>16, <3>1
    <3> QED
      BY <1>1, <1>3, <2>2, <2>10, <2>13, <2>14, <3>1, <3>2 DEF m
  <2> QED
    BY <2>2, <2>10, <2>15, <2>16 DEF m
<1> QED
  BY <1>1, <1>2, <1>3

\* toInt stops at the ends of the integers, and cuts a fraction off towards zero.
LEMMA ToIntSaturates ==
    ASSUME NEW x, IsNumber(x), x.k # "nan",
           NEW h, h = IF x.k = "inf" THEN x.h * 4 * MaxInt ELSE x.h
    PROVE  /\ h > 2 * MaxInt => ToInt(x) = MaxInt
           /\ h < 2 * MinInt => ToInt(x) = MinInt
           /\ h \in 2 * MinInt .. 2 * MaxInt /\ Parsed(x).h = h => ToInt(x) = Quo(h, 2)
<1> DEFINE p == Parsed(x)
<1>1. /\ HalfRange \in Nat \ {0, 1} /\ MaxInt \in Int /\ MinInt \in Int
      /\ 2 * MaxInt = 2 * HalfRange - 2 /\ 2 * MinInt = -(2 * HalfRange)
  BY NumbersAssumption DEF MaxInt, MinInt
<1>2. /\ IsNumber(p) /\ p.k \in Kinds /\ (x.k # "text" => p = x)
      /\ x.k = "text" /\ x.dotted => p = Rounded(x.h, 1)
  BY ParsedIs
<1>3. /\ IsFloat(p) => ToInt(x) = FloatToInt(p)
      /\ Whole(x) => ToInt(x) = IF x.h \div 2 \in MachineInt THEN x.h \div 2
                                ELSE IF x.h > 0 THEN MaxInt ELSE MinInt
  BY ToIntIs
<1>4. IsFloat(p) =>
         /\ p.k # "nan" /\ p.h >= 2 * MaxInt /\ p.h > 0 => FloatToInt(p) = MaxInt
         /\ p.k = "inf" => FloatToInt(p) = IF p.h > 0 THEN MaxInt ELSE MinInt
         /\ p.k = "float" /\ p.h <= 2 * MinInt => FloatToInt(p) = MinInt
         /\ p.k = "float" /\ p.h \in 2 * MinInt .. 2 * MaxInt => FloatToInt(p) = Quo(p.h, 2)
  BY <1>2, FloatToIntIs
<1>5. CASE Whole(x)
  <2> DEFINE n == x.h \div 2
  <2>1. x.k # "inf" /\ x.h = 2 * n /\ n \in Int
    BY <1>5, ParsedIs DEF Whole
  <2>2. ToInt(x) = IF n \in MachineInt THEN n ELSE IF x.h > 0 THEN MaxInt ELSE MinInt
    BY <1>3, <1>5
  <2>3. Quo(n * 2, 2) = n
    BY <2>1, QuoOfProduct
  <2> HIDE DEF n, p
  <2>4. h = 2 * n /\ h = n * 2
    BY <2>1
  <2> QED
    BY <1>1, <2>1, <2>2, <2>3, <2>4 DEF MachineInt, MaxInt, MinInt
<1>6. CASE x.k = "inf"
  <2>1. p = x /\ IsFloat(p) /\ x.h \in {1, -1}
    BY <1>2, <1>6, NumberIs DEF IsFloat
  <2>2. ToInt(x) = IF x.h > 0 THEN MaxInt ELSE MinInt
    BY <1>3, <1>4, <1>6, <2>1
  <2> HIDE DEF p
  <2>3. MaxInt >= 1 /\ MinInt <= -2
    BY <1>1 DEF MaxInt, MinInt
  <2>4. h = x.h * 4 * MaxInt
    BY <1>6
  <2>5. CASE x.h = 1
    BY <1>1, <2>1, <2>2, <2>3, <2>4, <2>5
  <2>6. CASE x.h = -1
    <3>1. h + 4 * MaxInt = 0
      BY <1>1, <2>4, <2>6
    <3> QED
      BY <1>1, <2>1, <2>2, <2>3, <2>6, <3>1 DEF p
  <2> QED
    BY <2>1, <2>5, <2>6
<1>7. CASE x.k = "float"
  <2>1. p = x /\ IsFloat(p) /\ x.h \in Int /\ h = x.h
    BY <1>2, <1>7, NumberIs DEF IsFloat
  <2> HIDE DEF p
  <2> QED
    BY <1>1, <1>3, <1>4, <1>7, <2>1
<1>8. CASE x.k = "text" /\ x.dotted
  <2>1. p = Rounded(h, 1) /\ IsFloat(p) /\ h \in Int /\ h = x.h
    BY <1>2, <1>8, FloatKinds, NumberIs
  <2> DEFINE m == Nearest(Abs(h), Abs(1))
             s == Sign(h) * Sign(1)
  <2>2. m \in Nat /\ p = IF m >= MaxFloat THEN Inf(s) ELSE Float(s * m)
    BY <2>1, RoundedIs
  <2>3. Abs(1) = 1 /\ Abs(h) \in Nat /\ s = Sign(h) /\ s \in Int
    BY <2>1 DEF Abs, Sign
  <2>4. /\ Abs(h) > 2 * MaxInt => m >= 2 * MaxInt
        /\ Abs(h) >= 2 * HalfRange => m >= 2 * HalfRange
    BY <2>3, RoundedEnd, RoundedBeyond
  <2> HIDE DEF p, m, s
  <2>5. (p.k = "inf" /\ p.h = s) \/ (p.k = "float" /\ p.h = s * m)
    <3>1. \A a : Inf(a).k = "inf" /\ Inf(a).h = a /\ Float(a).k = "float" /\ Float(a).h = a
      BY DEF Inf, Float
    <3> QED
      BY <2>2, <3>1
  <2>6. ASSUME h > 2 * MaxInt PROVE ToInt(x) = MaxInt
    <3>1. h > 0 /\ s = 1 /\ m >= 2 * MaxInt /\ 2 * MaxInt > 0
      BY <1>1, <2>1, <2>3, <2>4, <2>6 DEF Abs, Sign
    <3>2. (p.k = "inf" /\ p.h = 1) \/ (p.k = "float" /\ p.h = m)
      BY <2>2, <2>5, <3>1
    <3> QED
      BY <1>1, <1>3, <1>4, <2>1, <2>2, <3>1, <3>2
  <2>7. ASSUME h < 2 * MinInt PROVE ToInt(x) = MinInt
    <3>1. h < 0 /\ s + 1 = 0 /\ m >= 2 * HalfRange
      BY <1>1, <2>1, <2>3, <2>4, <2>7 DEF Abs, Sign
    <3>2. s * m = -m /\ s < 0
      <4>1. (s + 1) * m = s * m + m /\ s * m \in Int
        BY <2>2, <2>3
      <4> QED
        BY <2>2, <2>3, <3>1, <4>1
    <3>3. (p.k = "inf" /\ ~ (p.h > 0)) \/ (p.k = "float" /\ p.h <= 2 * MinInt)
      BY <1>1, <2>2, <2>3, <2>5, <3>1, <3>2
    <3> QED
      BY <1>3, <1>4, <2>1, <3>3
  <2>8. ASSUME h \in 2 * MinInt .. 2 * MaxInt, p.h = h PROVE ToInt(x) = Quo(h, 2)
    <3>1. p.k # "inf"
      <4> SUFFICES ASSUME p.k = "inf" PROVE FALSE
        OBVIOUS
      <4>1. h = s /\ s = Sign(h)
        BY <2>3, <2>5, <2>8
      <4>2. h \in {-1, 0, 1}
        BY <4>1 DEF Sign
      <4>3. p.h # 0
        BY <1>2, NumberIs DEF p
      <4> QED
        BY <2>1, <2>8, <4>2, <4>3, RoundedOne
    <3>2. p.k = "float"
      BY <2>5, <3>1
    <3> QED
      BY <1>3, <1>4, <2>1, <2>8, <3>2
  <2> QED
    BY <2>6, <2>7, <2>8 DEF p
<1>9. x.k \in {"int", "big", "inf", "float", "text"} /\ (x.k \in {"int", "big"} => Whole(x)) /\ (x.k = "text" => x.dotted \in BOOLEAN)
  BY NumberIs DEF Kinds, Whole
<1>10. x.k = "text" /\ ~x.dotted => Whole(x)
  BY DEF Whole
<1> QED
  BY <1>5, <1>6, <1>7, <1>8, <1>9, <1>10

-------------------------------------------------------------------------------
(* Every behaviour.                                                        *)

\* What a range is worth so far.
Ranging ==
    /\ IsNumber(value) /\ \E S : out \in Seq(S)
    /\ \A i \in DOMAIN out : IsNumber(out[i])
    /\ Len(out) <= MaxRange
    /\ WholeRange =>
          /\ Whole(value) /\ value.h = call.l.h + Len(out) * call.r[2].h
          /\ \A i \in DOMAIN out :
                /\ out[i].h = call.l.h + (i - 1) * call.r[2].h
                /\ Sign(call.r[2].h) * out[i].h < Sign(call.r[2].h) * call.r[1].h

Calculated ==
    /\ call.op \in Binary \cup Unary \cup {"range"}
    /\ IsNumber(call.l)
    /\ call.op \in Binary => IsNumber(call.r[1]) /\ out \in {<<>>, <<OfBoth(call.op, call.l, call.r[1])>>}
    /\ call.op \in Unary => out \in {<<>>, <<Of_(call.op, call.l)>>}
    /\ call.op = "range" => IsNumber(call.r[1]) /\ IsNumber(call.r[2]) /\ Ranging

\* The operators are told apart.
LEMMA Apart == Binary \cap Unary = {} /\ "range" \notin Binary \cup Unary
BY DEF Binary, Unary

\* It holds of every call.
LEMMA CalculatedInit == NumInit => Calculated
<1> SUFFICES ASSUME NumInit PROVE Calculated
  OBVIOUS
<1>1. CASE \E op \in Binary, l \in Operands, r \in Operands : NumStart(op, l, <<r>>)
  <2>1. PICK op \in Binary, l \in Operands, r \in Operands : NumStart(op, l, <<r>>)
    BY <1>1
  <2>2. call.op = op /\ call.l = l /\ call.r[1] = r /\ out = <<>>
    BY <2>1 DEF NumStart
  <2> QED
    BY <2>2, Apart, OperandsAssumption DEF Calculated
<1>2. CASE \E op \in Unary, l \in Operands : NumStart(op, l, <<>>)
  <2>1. PICK op \in Unary, l \in Operands : NumStart(op, l, <<>>)
    BY <1>2
  <2>2. call.op = op /\ call.l = l /\ out = <<>>
    BY <2>1 DEF NumStart
  <2> QED
    BY <2>2, Apart, OperandsAssumption DEF Calculated
<1>3. CASE \E x \in Ranges : NumStart("range", x[1], <<x[2], x[3]>>)
  <2>1. PICK x \in Ranges : NumStart("range", x[1], <<x[2], x[3]>>)
    BY <1>3
  <2>2. /\ call.op = "range" /\ call.l = x[1] /\ call.r[1] = x[2] /\ call.r[2] = x[3]
        /\ out = <<>> /\ value = x[1]
    BY <2>1 DEF NumStart
  <2>3. IsNumber(x[1]) /\ IsNumber(x[2]) /\ IsNumber(x[3])
    BY OperandsAssumption
  <2>4. out \in Seq({}) /\ DOMAIN out = {} /\ Len(out) = 0
    BY <2>2
  <2>5. value.h = call.l.h + 0 * call.r[2].h
    BY <2>2, <2>3, NumberIs
  <2>6. Ranging
    BY <2>2, <2>3, <2>4, <2>5, NumbersAssumption DEF Ranging, WholeRange
  <2> QED
    BY <2>2, <2>3, <2>6, Apart DEF Calculated
<1> QED
  BY <1>1, <1>2, <1>3 DEF NumInit

\* The comparisons of rangeIter.Next on whole numbers: the value is before the end, seen along the step.
LEMMA TowardsEnd ==
    ASSUME NEW v, NEW e, NEW s, IsNumber(v), IsNumber(e), IsNumber(s), Whole(v), Whole(e), Whole(s)
    PROVE  CompareNumbers(s, Int_(0)) * CompareNumbers(v, e) < 0 <=> Sign(s.h) * v.h < Sign(s.h) * e.h
<1> DEFINE v1 == v.h \div 2
           s1 == s.h \div 2
           e1 == e.h \div 2
<1>1. /\ v1 \in Int /\ s1 \in Int /\ e1 \in Int
      /\ v.h = 2 * v1 /\ s.h = 2 * s1 /\ e.h = 2 * e1
  BY ParsedIs
<1>2. CompareNumbers(v, e) = Sign(v1 - e1)
  BY CompareExact
<1>3. CompareNumbers(s, Int_(0)) = Sign(s1)
  <2>1. 0 \in MachineInt
    BY NumbersAssumption DEF MachineInt, MinInt, MaxInt
  <2>2. IsNumber(Int_(0)) /\ Whole(Int_(0)) /\ Int_(0).h = 2 * 0
    BY <2>1, NumbersAre DEF Whole
  <2>3. Int_(0).h \div 2 = 0
    BY <2>2, Halved
  <2>4. CompareNumbers(s, Int_(0)) = Sign(s1 - 0)
    BY <2>2, <2>3, CompareExact
  <2>5. s1 - 0 = s1
    BY <1>1
  <2> QED
    BY <2>4, <2>5
<1> HIDE DEF v1, s1, e1
<1>4. (Sign(s1) * Sign(v1 - e1) < 0) <=> (Sign(2 * s1) * (2 * v1) < Sign(2 * s1) * (2 * e1))
  BY <1>1 DEF Sign
<1> QED
  BY <1>1, <1>2, <1>3, <1>4

\* The next number of a range: one step further, and before the end.
LEMMA RangingStep ==
    ASSUME Calculated, RangeNext
    PROVE  Ranging'
<1> DEFINE s == call.r[2]
           e == call.r[1]
           n == Len(out)
<1>1. /\ call.op = "range" /\ n < MaxRange /\ CompareNumbers(s, Int_(0)) * CompareNumbers(value, e) < 0
      /\ out' = Append(out, value) /\ value' = Add(value, s) /\ call' = call
  BY DEF RangeNext, RangeGoesOn
<1>2. IsNumber(call.l) /\ IsNumber(e) /\ IsNumber(s) /\ Ranging
  BY <1>1 DEF Calculated
<1>3. IsNumber(value) /\ IsNumber(value')
  BY <1>1, <1>2, AddExact DEF Ranging
<1>4. PICK S : out \in Seq(S)
  BY <1>2 DEF Ranging
<1>5. /\ n \in Nat /\ DOMAIN out = 1 .. n
      /\ out' \in Seq(S \cup {value}) /\ Len(out') = n + 1 /\ DOMAIN out' = 1 .. n + 1
      /\ out'[n + 1] = value /\ \A i \in 1 .. n : out'[i] = out[i]
  <2>1. out \in Seq(S \cup {value})
    BY <1>4
  <2> QED
    BY <1>1, <1>4, <2>1
<1>6. \A i \in DOMAIN out' : IsNumber(out'[i])
  <2>1. \A i \in 1 .. n + 1 : i = n + 1 \/ i \in 1 .. n
    BY <1>5
  <2> QED
    BY <1>2, <1>3, <1>5, <2>1 DEF Ranging
<1>7. n + 1 <= MaxRange
  BY <1>1, <1>5, NumbersAssumption
<1>8. ASSUME WholeRange
      PROVE  /\ Whole(value') /\ value'.h = call.l.h + (n + 1) * s.h
             /\ \A i \in DOMAIN out' :
                   /\ out'[i].h = call.l.h + (i - 1) * s.h
                   /\ Sign(s.h) * out'[i].h < Sign(s.h) * e.h
  <2>1. Whole(value) /\ Whole(s) /\ Whole(e) /\ value.h = call.l.h + n * s.h
    BY <1>2, <1>8 DEF Ranging, WholeRange
  <2> DEFINE v1 == value.h \div 2
             s1 == s.h \div 2
             e1 == e.h \div 2
  <2>2. /\ v1 \in Int /\ s1 \in Int /\ e1 \in Int
        /\ value.h = 2 * v1 /\ s.h = 2 * s1 /\ e.h = 2 * e1
    BY <1>2, <1>3, <2>1, ParsedIs
  <2>3. Stands(Add(value, s), v1 + s1)
    BY <1>2, <1>3, <2>1, AddExact
  <2>4. Whole(value') /\ value'.h = 2 * (v1 + s1)
    BY <1>1, <2>3 DEF Stands
  <2>5. Sign(s.h) * value.h < Sign(s.h) * e.h
    BY <1>1, <1>2, <1>3, <2>1, TowardsEnd
  <2> HIDE DEF v1, s1, e1, s, e, n
  <2>6. call.l.h \in Int /\ s.h \in Int
    BY <1>2, NumberIs
  <2>7. (n + 1) * s.h = n * s.h + s.h /\ n * s.h \in Int
    <3>1. \A i, j \in Int : (i + 1) * j = i * j + j /\ i * j \in Int
      OBVIOUS
    <3>2. n \in Int
      BY <1>5 DEF n
    <3> QED
      BY <2>6, <3>1, <3>2
  <2>8. value'.h = call.l.h + (n + 1) * s.h
    BY <2>1, <2>2, <2>4, <2>6, <2>7
  <2>9. ASSUME NEW i \in 1 .. n + 1
         PROVE  /\ out'[i].h = call.l.h + (i - 1) * s.h
                /\ Sign(s.h) * out'[i].h < Sign(s.h) * e.h
    <3>1. CASE i = n + 1
      <4>1. (n + 1) - 1 = n
        BY <1>5
      <4> QED
        BY <1>5, <2>1, <2>5, <3>1, <4>1
    <3>2. CASE i # n + 1
      <4>1. i \in 1 .. n
        BY <1>5, <3>2
      <4> QED
        BY <1>2, <1>5, <1>8, <4>1 DEF Ranging, s, e
    <3> QED
      BY <3>1, <3>2
  <2> QED
    BY <1>5, <2>4, <2>8, <2>9
<1>9. WholeRange' <=> WholeRange
  BY <1>1 DEF WholeRange
<1> QED
  BY <1>1, <1>3, <1>5, <1>6, <1>7, <1>8, <1>9 DEF Ranging

\* Every step keeps it.
LEMMA CalculatedStep == Calculated /\ [NumNext]_numVars => Calculated'
<1> SUFFICES ASSUME Calculated, [NumNext]_numVars PROVE Calculated'
  OBVIOUS
<1>1. CASE Calculate
  <2>1. call' = call /\ value' = value /\ out = <<>>
    BY <1>1 DEF Calculate
  <2>2. call.op # "range"
    BY <1>1, Apart DEF Calculate
  <2>3. call.op \in Binary => out' = <<OfBoth(call.op, call.l, call.r[1])>>
    BY <1>1, Apart DEF Calculate
  <2>4. call.op \in Unary => out' = <<Of_(call.op, call.l)>>
    BY <1>1, Apart DEF Calculate
  <2>5. /\ call.op \in Binary \cup Unary \cup {"range"} /\ IsNumber(call.l)
        /\ call.op \in Binary => IsNumber(call.r[1])
    BY DEF Calculated
  <2> QED
    BY <2>1, <2>2, <2>3, <2>4, <2>5 DEF Calculated
<1>2. CASE RangeNext
  <2>1. call' = call /\ call.op = "range"
    BY <1>2 DEF RangeNext
  <2>2. Ranging'
    BY <1>2, RangingStep
  <2>3. IsNumber(call.l) /\ IsNumber(call.r[1]) /\ IsNumber(call.r[2])
    BY <2>1 DEF Calculated
  <2> QED
    BY <2>1, <2>2, <2>3, Apart DEF Calculated
<1>3. CASE UNCHANGED numVars
  BY <1>3 DEF numVars, Calculated, Ranging, WholeRange
<1> QED
  BY <1>1, <1>2, <1>3 DEF NumNext

\* What is given is what the operator makes of the operands.
LEMMA CalculatedHolds == NumSpec => []Calculated
BY CalculatedInit, CalculatedStep, PTL DEF NumSpec

\* Results have their types.
LEMMA ResultsTyped == Calculated => NumbersTypeOK
<1> SUFFICES ASSUME Calculated PROVE NumbersTypeOK
  OBVIOUS
<1>1. \A x : Typed(x) => x.k \in {"int", "big", "float", "inf", "nan", "error", "text"}
                            /\ (x.k = "int" => x.h \div 2 \in MinInt .. MaxInt)
  BY DEF Typed, Kinds, MachineInt
<1>2. CASE call.op \in Binary
  <2> DEFINE x == call.l
             y == call.r[1]
             z == OfBoth(call.op, x, y)
  <2>1. IsNumber(x) /\ IsNumber(y) /\ (out = <<>> \/ out = <<z>>)
    BY <1>2 DEF Calculated
  <2>2. Typed(z)
    <3>1. Typed(Int_(CompareNumbers(x, y)))
      <4>1. CompareNumbers(x, y) \in MachineInt
        BY <2>1, CompareExact, NumbersAssumption DEF MachineInt, MinInt, MaxInt
      <4> QED
        BY <4>1, NumbersAre, NumbersTyped
    <3>2. Typed(Add(x, y)) /\ Typed(Sub(x, y)) /\ Typed(Mul(x, y)) /\ Typed(Div(x, y)) /\ Typed(Mod(x, y))
      BY <2>1, AddExact, SubExact, MulExact, DivExact, ModExact, NumbersTyped
    <3>3. call.op \in {"add", "sub", "mul", "div", "mod", "compare"}
      BY <1>2 DEF Binary
    <3> HIDE DEF x, y
    <3> QED
      BY <3>1, <3>2, <3>3 DEF OfBoth
  <2> HIDE DEF z
  <2>3. \A i \in DOMAIN out : out[i] = z
    BY <2>1
  <2> QED
    BY <1>1, <2>2, <2>3 DEF NumbersTypeOK
<1>3. CASE call.op \in Unary
  <2> DEFINE x == call.l
             z == Of_(call.op, x)
  <2>1. IsNumber(x) /\ (out = <<>> \/ out = <<z>>)
    BY <1>3 DEF Calculated
  <2>2. Typed(z)
    <3>1. \A n \in MachineInt : Typed(Int_(n))
      BY NumbersAre, NumbersTyped
    <3>2. ToInt(x) \in MachineInt
      BY <2>1, ToIntIs
    <3>3. ToIntCeil(x) \in MachineInt
      <4>1. x.k = "float" => -((-x.h) \div 2) \in Int
        BY <2>1, NumberIs
      <4>2. x.k = "float" => IsNumber(Float(2 * (-((-x.h) \div 2))))
        BY <4>1, NumbersAre
      <4> QED
        BY <2>1, <4>2, ToIntIs DEF ToIntCeil
    <3>4. 0 \in MachineInt /\ 1 \in MachineInt
      BY NumbersAssumption DEF MachineInt, MinInt, MaxInt
    <3>5. Typed(Neg(x)) /\ Typed(AbsOf(x)) /\ Typed(Seconds(x))
      BY <2>1, NegIs, AbsIs, SecondsIs
    <3>6. Typed(Int_(ToInt(x))) /\ Typed(Int_(ToIntCeil(x))) /\ Typed(Int_(0)) /\ Typed(Int_(1))
      BY <3>1, <3>2, <3>3, <3>4
    <3>7. Typed(Int_(IF ToFloat(x).k = "inf" THEN 1 ELSE 0))
      BY <3>6
    <3>8. call.op \in {"negate", "abs", "toint", "toceil", "isinfinite", "gmtime"}
      BY <1>3 DEF Unary
    <3> HIDE DEF x
    <3> QED
      BY <3>5, <3>6, <3>7, <3>8 DEF Of_
  <2> HIDE DEF z
  <2>3. \A i \in DOMAIN out : out[i] = z
    BY <2>1
  <2> QED
    BY <1>1, <2>2, <2>3 DEF NumbersTypeOK
<1>4. CASE call.op = "range"
  <2>1. \A i \in DOMAIN out : Typed(out[i])
    BY <1>4, NumbersTyped DEF Calculated, Ranging
  <2> QED
    BY <1>1, <2>1 DEF NumbersTypeOK
<1> QED
  BY <1>2, <1>3, <1>4 DEF Calculated

\* Results of whole numbers are exact.
LEMMA ResultsExact == Calculated => Exact
<1> SUFFICES ASSUME Calculated, out # <<>>, Whole(call.l), call.op \in Binary => Whole(call.r[1])
             PROVE  Exact
  BY DEF Exact
<1> DEFINE l == call.l
           r == call.r[1]
           a == l.h \div 2
           b == r.h \div 2
           x == out[1]
<1>1. IsNumber(l) /\ a \in Int /\ l.h = 2 * a
  BY ParsedIs DEF Calculated
<1>2. CASE call.op \in Binary
  <2>1. IsNumber(r) /\ Whole(r) /\ x = OfBoth(call.op, l, r)
    BY <1>2 DEF Calculated
  <2>2. /\ Stands(Add(l, r), a + b) /\ Stands(Sub(l, r), a - b) /\ Stands(Mul(l, r), a * b)
        /\ Divided(Div(l, r), a, b) /\ Rest(Mod(l, r), a, b)
        /\ CompareNumbers(l, r) = Sign(a - b)
    BY <1>1, <2>1, AddExact, SubExact, MulExact, DivExact, ModExact, CompareExact
  <2>3. call.op \in {"add", "sub", "mul", "div", "mod", "compare"}
    BY <1>2 DEF Binary
  <2>4. b \in Int
    BY <2>1, ParsedIs
  <2> HIDE DEF x
  <2>5. CASE call.op = "add"
    <3>1. x = Add(l, r)
      BY <2>1, <2>5 DEF OfBoth
    <3>2. Whole(x) /\ x.h = 2 * (a + b)
      BY <2>2, <3>1 DEF Stands
    <3> QED
      BY <2>5, <3>2 DEF Exact, x
  <2>6. CASE call.op = "sub"
    <3>1. x = Sub(l, r)
      BY <2>1, <2>6 DEF OfBoth
    <3>2. Whole(x) /\ x.h = 2 * (a - b)
      BY <2>2, <3>1 DEF Stands
    <3> QED
      BY <2>6, <3>2 DEF Exact, x
  <2>7. CASE call.op = "mul"
    <3>1. x = Mul(l, r)
      BY <2>1, <2>7 DEF OfBoth
    <3>2. Whole(x) /\ x.h = 2 * (a * b)
      BY <2>2, <3>1 DEF Stands
    <3>3. 2 * (a * b) = 2 * a * b
      BY <1>1, <2>4
    <3> QED
      BY <2>7, <3>2, <3>3 DEF Exact, x
  <2>8. CASE call.op = "div"
    <3>1. x = Div(l, r)
      BY <2>1, <2>8 DEF OfBoth
    <3>2. /\ (x = NumError) <=> (b = 0)
          /\ b # 0 /\ a % Abs(b) = 0 => Whole(x) /\ (x.h \div 2) * b = a
      BY <2>2, <3>1 DEF Divided
    <3> HIDE DEF a, b
    <3> QED
      BY <2>8, <3>2 DEF Exact, x, a, b
  <2>9. CASE call.op = "mod"
    <3>1. x = Mod(l, r)
      BY <2>1, <2>9 DEF OfBoth
    <3>2. /\ (x = NumError) <=> (b = 0)
          /\ b # 0 => /\ Abs(x.h \div 2) < Abs(b)
                      /\ (a - x.h \div 2) % Abs(b) = 0
                      /\ Sign(x.h) \in {0, Sign(a)}
      BY <2>2, <3>1 DEF Rest
    <3> QED
      BY <2>9, <3>2 DEF Exact, x
  <2>10. CASE call.op = "compare"
    <3>1. x = Int_(Sign(a - b))
      BY <2>1, <2>2, <2>10 DEF OfBoth
    <3>2. x.h = 2 * Sign(a - b)
      BY <3>1 DEF Int_
    <3> QED
      BY <2>10, <3>2 DEF Exact, x
  <2> QED
    BY <2>3, <2>5, <2>6, <2>7, <2>8, <2>9, <2>10
<1>3. CASE call.op \in Unary
  <2>1. x = Of_(call.op, l)
    BY <1>3 DEF Calculated
  <2> HIDE DEF x
  <2>2. CASE call.op = "negate"
    <3>1. x = Neg(l)
      BY <2>1, <2>2 DEF Of_
    <3>2. x.h = -l.h
      BY <1>1, <3>1, NegIs
    <3>3. -(2 * a) = -2 * a
      BY <1>1
    <3> QED
      BY <1>1, <2>2, <3>2, <3>3 DEF Exact, x
  <2>3. CASE call.op = "abs"
    <3>1. x = AbsOf(l)
      BY <2>1, <2>3 DEF Of_
    <3>2. x.h = Abs(l.h)
      BY <1>1, <3>1, AbsIs DEF Whole
    <3>3. Abs(2 * a) = 2 * Abs(a)
      BY <1>1 DEF Abs
    <3> QED
      BY <1>1, <2>3, <3>2, <3>3 DEF Exact, x
  <2>4. CASE call.op \notin {"negate", "abs"}
    BY <1>3, <2>4 DEF Exact, Unary
  <2> QED
    BY <2>2, <2>3, <2>4
<1>4. CASE call.op = "range"
  BY <1>4 DEF Exact
<1> QED
  BY <1>2, <1>3, <1>4 DEF Calculated

\* Conversions stop at the ends of the integers.
LEMMA ResultsSaturate == Calculated => Saturates
<1> SUFFICES ASSUME Calculated, call.op = "toint", out # <<>>, call.l.k # "nan"
             PROVE  Saturates
  BY DEF Saturates
<1> DEFINE l == call.l
           h == IF l.k = "inf" THEN l.h * 4 * MaxInt ELSE l.h
<1>1. IsNumber(l) /\ out[1] = Int_(ToInt(l))
  BY DEF Calculated, Unary, Of_
<1>2. ToInt(l) \in Int
  BY <1>1, ToIntIs, NumbersAssumption DEF MachineInt, MinInt, MaxInt
<1>3. out[1].h \div 2 = ToInt(l)
  <2>1. out[1].h = 2 * ToInt(l)
    BY <1>1 DEF Int_
  <2> QED
    BY <1>2, <2>1, Halved
<1>4. /\ h > 2 * MaxInt => ToInt(l) = MaxInt
      /\ h < 2 * MinInt => ToInt(l) = MinInt
      /\ h \in 2 * MinInt .. 2 * MaxInt /\ Parsed(l).h = h => ToInt(l) = Quo(h, 2)
  BY <1>1, ToIntSaturates
<1> QED
  BY <1>3, <1>4 DEF Saturates

\* Times are kept.
LEMMA TimesKept == Calculated => TimeKept
<1> SUFFICES ASSUME Calculated, call.op = "gmtime", out # <<>>, call.l.h >= 0 \/ call.l.h % 2 = 0
             PROVE  TimeKept
  BY DEF TimeKept
<1>1. IsNumber(call.l) /\ out[1] = Seconds(call.l)
  BY DEF Calculated, Unary, Of_
<1> QED
  BY <1>1, SecondsIs DEF TimeKept

\* A range of whole numbers gives its numbers in order, none twice, and all of them, also across the end of the
\* integers (rangeIter).
LEMMA ResultsInRange == Calculated => RangeExact
<1> SUFFICES ASSUME Calculated, WholeRange
             PROVE  /\ Len(out) <= Cardinality(InRange)
                    /\ \A i \in DOMAIN out : out[i].h = call.l.h + (i - 1) * call.r[2].h
                    /\ ~RangeGoesOn => Len(out) = Cardinality(InRange)
  BY DEF RangeExact, RangeInOrder
<1> DEFINE n == Len(out)
           T == 0 .. n - 1
           a == call.l.h
           s == call.r[2].h
           e == call.r[1].h
<1>1. Ranging /\ IsNumber(call.l) /\ IsNumber(call.r[1]) /\ IsNumber(call.r[2])
  BY DEF Calculated, WholeRange
<1>2. n \in Nat /\ DOMAIN out = 1 .. n /\ n <= MaxRange /\ MaxRange \in Nat
  BY <1>1, NumbersAssumption DEF Ranging
<1>3. a \in Int /\ s \in Int /\ e \in Int /\ Sign(s) \in {-1, 0, 1}
  BY <1>1, NumberIs DEF Sign
<1>4. \A i \in T : Sign(s) * (a + i * s) < Sign(s) * e
  <2> SUFFICES ASSUME NEW i \in T
               PROVE  Sign(s) * (a + i * s) < Sign(s) * e
    OBVIOUS
  <2>1. i + 1 \in DOMAIN out /\ (i + 1) - 1 = i
    BY <1>2
  <2>2. /\ out[i + 1].h = a + ((i + 1) - 1) * s
        /\ Sign(s) * out[i + 1].h < Sign(s) * e
    BY <1>1, <2>1 DEF Ranging
  <2> QED
    BY <2>1, <2>2
<1>5. InRange = {i \in 0 .. MaxRange - 1 : Sign(s) * (a + i * s) < Sign(s) * e}
  BY DEF InRange
<1> HIDE DEF a, s, e
<1>6. T \subseteq InRange
  BY <1>2, <1>4, <1>5
<1>7. IsFiniteSet(InRange)
  <2>1. InRange \subseteq 0 .. MaxRange - 1
    BY <1>5
  <2>2. 0 \in Int /\ MaxRange - 1 \in Int
    BY <1>2
  <2>3. IsFiniteSet(0 .. MaxRange - 1)
    BY <2>2, FS_Interval
  <2> QED
    BY <2>1, <2>3, FS_Subset
<1>8. Cardinality(T) = n
  <2>1. 0 \in Int /\ n - 1 \in Int
    BY <1>2
  <2>2. Cardinality(T) = IF 0 > n - 1 THEN 0 ELSE (n - 1) - 0 + 1
    BY <2>1, FS_Interval
  <2> QED
    BY <1>2, <2>2
<1>9. n <= Cardinality(InRange)
  BY <1>6, <1>7, <1>8, FS_Subset
\* Past the end there is nothing: along the step, it only becomes more.
<1>10. ASSUME ~RangeGoesOn PROVE InRange \subseteq T
  <2> SUFFICES ASSUME NEW i \in InRange PROVE i \in T
    OBVIOUS
  <2>1. i \in 0 .. MaxRange - 1 /\ Sign(s) * (a + i * s) < Sign(s) * e
    BY <1>5
  <2>2. CASE n = MaxRange
    BY <2>1, <2>2
  <2>3. CASE n # MaxRange
    <3>1. ~(CompareNumbers(call.r[2], Int_(0)) * CompareNumbers(value, call.r[1]) < 0)
      <4> HIDE DEF n
      <4>1. n < MaxRange
        BY <1>2, <2>3
      <4> USE DEF n
      <4> QED
        BY <1>10, <4>1, Zenon DEF RangeGoesOn
    <3>2. IsNumber(value) /\ Whole(value) /\ value.h = a + n * s
      BY <1>1 DEF Ranging, a, s
    <3>3. ~(Sign(s) * value.h < Sign(s) * e)
      BY <1>1, <3>1, <3>2, TowardsEnd DEF WholeRange, s, e
    <3> DEFINE x == i * s
               y == n * s
    <3>4. x \in Int /\ y \in Int
      BY <1>2, <1>3, <2>1
    <3>5. x - y = (i - n) * s
      BY <1>2, <1>3, <2>1
    <3>6. Sign(s) * (a + x) < Sign(s) * e /\ ~(Sign(s) * (a + y) < Sign(s) * e)
      BY <2>1, <3>2, <3>3
    <3> HIDE DEF x, y
    <3>7. Sign(s) * x < Sign(s) * y
      BY <1>3, <3>4, <3>6
    <3>8. (s > 0 /\ (i - n) * s < 0) \/ (s < 0 /\ (i - n) * s > 0)
      BY <1>3, <3>4, <3>5, <3>7 DEF Sign
    <3>9. i - n \in Int /\ \A c, d \in Int : (d > 0 /\ c * d < 0) \/ (d < 0 /\ c * d > 0) => c < 0
      BY <1>2, <2>1
    <3>10. i - n < 0
      BY <1>3, <3>8, <3>9
    <3> QED
      BY <1>2, <2>1, <3>10
  <2> QED
    BY <2>2, <2>3
<1>11. ASSUME ~RangeGoesOn PROVE n = Cardinality(InRange)
  <2>1. T = InRange
    BY <1>6, <1>10, <1>11
  <2> QED
    BY <1>8, <2>1
<1> HIDE DEF n
<1>12. \A i \in DOMAIN out : out[i].h = call.l.h + (i - 1) * call.r[2].h
  BY <1>1 DEF Ranging
<1> QED
  BY <1>9, <1>11, <1>12 DEF n

\* Numbers are calculated with as numbers, for integers of any width and floats of any precision, however the
\* numbers are kept: sums, differences, products, quotients, rests, comparisons and signs of whole numbers are exact,
\* ranges are complete and in order, conversions to integers stop at their ends, times are kept (operator.go,
\* rangeIter, toInt, epochToArray).
THEOREM NumbersExactHolds == NumSpec => []NumbersExact
<1>1. Calculated => NumbersExact
  BY ResultsTyped, ResultsExact, ResultsInRange, ResultsSaturate, TimesKept DEF NumbersExact
<1> QED
  BY <1>1, CalculatedHolds, PTL

\* Whoever takes digits of the input makes of them what he makes of the number that they are, for all digits that
\* are a float, but for the end of a slice (parseNumber, toFloat, toInt, funcOpNegate, funcAbs).
THEOREM DigitsLikeNumbersHolds == NumSpec => []DigitsLikeNumbers
<1>1. Calculated => DigitsLikeNumbers
  <2> SUFFICES ASSUME Calculated, Fits(call.l), call.op # "toceil", out # <<>>
               PROVE  DigitsLikeNumbersAlways
    BY DEF DigitsLikeNumbers, DigitsLikeNumbersAlways
  <2> DEFINE l == call.l
             r == call.r[1]
             p == Parsed(l)
             q == Parsed(r)
  <2>1. IsNumber(l) /\ IsNumber(p) /\ Parsed(p) = p
    BY ParsedIs DEF Calculated
  <2>2. \A y : Same(y, y)
    BY DEF Same
  <2>3. ASSUME call.op \in Binary PROVE Same(out[1], OfBoth(call.op, p, q))
    <3>1. IsNumber(r) /\ Parsed(q) = q /\ out[1] = OfBoth(call.op, l, r)
      BY <2>3, ParsedIs DEF Calculated
    <3>2. /\ Add(l, r) = Add(p, q) /\ Sub(l, r) = Sub(p, q) /\ Mul(l, r) = Mul(p, q)
          /\ Div(l, r) = Div(p, q) /\ Mod(l, r) = Mod(p, q) /\ CompareNumbers(l, r) = CompareNumbers(p, q)
      BY <2>1, <3>1 DEF Add, Sub, Mul, Div, Mod, CompareNumbers, TypeSwitch
    <3>3. OfBoth(call.op, l, r) = OfBoth(call.op, p, q)
      BY <3>2 DEF OfBoth
    <3> QED
      BY <2>2, <3>1, <3>3
  <2>4. ASSUME call.op \in Unary PROVE Same(Parsed(out[1]), Of_(call.op, p))
    <3>1. out[1] = Of_(call.op, l)
      BY <2>4 DEF Calculated
    <3>2. \A y : y.k # "text" => Parsed(y) = y
      BY DEF Parsed
    <3>3. \A n : Parsed(Int_(n)) = Int_(n)
      BY <3>2 DEF Int_
    <3>4. ToFloat(p) = ToFloat(l) /\ ToInt(p) = ToInt(l)
      BY <2>1, ToFloatAlike DEF ToInt
    <3>5. Seconds(p) = Seconds(l) /\ Parsed(Seconds(l)) = Seconds(l)
      BY <2>1, <3>2, <3>4, SecondsIs DEF Seconds
    <3>6. call.op \in {"negate", "abs", "toint", "isinfinite", "gmtime"}
      BY <2>4 DEF Unary
    <3>7. Same(Parsed(Neg(l)), Neg(p)) /\ Same(Parsed(AbsOf(l)), AbsOf(p))
      BY <2>1, NegIs, AbsIs
    <3> HIDE DEF p, l
    <3> QED
      BY <2>2, <3>1, <3>3, <3>4, <3>5, <3>6, <3>7 DEF Of_
  <2> QED
    BY <2>3, <2>4 DEF DigitsLikeNumbersAlways
<1> QED
  BY <1>1, CalculatedHolds, PTL

===============================================================================
