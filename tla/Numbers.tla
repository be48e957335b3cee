-------------------------------- MODULE Numbers --------------------------------
(***************************************************************************)
(* The numbers of jq as operator.go, compare.go and func.go calculate with *)
(* them: machine integers that go on as big integers, floating point       *)
(* numbers, and the digits of the input, which are only parsed when they   *)
(* are needed.                                                             *)
(*                                                                         *)
(* The widths are constants: HalfRange of the integers are negative (2^63),*)
(* a float keeps Precision bits (53), the last of which is worth one half  *)
(* or up to Power[MaxExponent] halves.  All values are in halves.          *)
(***************************************************************************)
EXTENDS Data, Sequences, FiniteSetsExt

CONSTANTS HalfRange, Precision, MaxExponent,
          Operands,   \* numbers
          Ranges,     \* <<start, end, step>> for range
          MaxRange    \* and how many of their numbers are asked for

\* Powers of two, up to the largest that is no float.
Power[e \in 0 .. Precision + MaxExponent] == IF e = 0 THEN 1 ELSE 2 * Power[e - 1]

ASSUME NumbersAssumption ==
    /\ HalfRange \in Nat \ {0, 1} /\ \E w \in 1 .. Precision + MaxExponent - 1 : HalfRange = Power[w]
    /\ Precision \in Nat \ {0} /\ MaxExponent \in Nat
    /\ MaxRange \in Nat

MaxInt == HalfRange - 1
MinInt == -HalfRange
MaxFloat == Power[Precision + MaxExponent]     \* what rounds to so many halves is infinite

Int_(n)   == [k |-> "int", h |-> 2 * n]
Big(n)    == [k |-> "big", h |-> 2 * n]
Float(h)  == [k |-> "float", h |-> h]
Inf(s)    == [k |-> "inf", h |-> s]
NaN       == [k |-> "nan", h |-> 0]
NumError == [k |-> "error", h |-> 0]     \* zeroDivisionError, zeroModuloError
\* json.Number: the value that is written down, and whether with a point or an exponent.
Text(h, dotted) == [k |-> "text", h |-> h, dotted |-> dotted]

\* Integers wrap around.
Wrap(n) == ((n - MinInt) % (2 * HalfRange)) + MinInt

\* Go's division and remainder: towards zero.
Quo(a, b) == Sign(a) * Sign(b) * (Abs(a) \div Abs(b))
Rem(a, b) == Sign(a) * (Abs(a) % Abs(b))

\* n / d halves in the bits that a float keeps: the nearest that there is, of two the even one.
Nearest(n, d) ==
    LET last == Min({e \in 0 .. MaxExponent : e = MaxExponent \/ n < Power[Precision + e] * d})
        unit == d * Power[last]     \* what the last bit is worth
        q    == n \div unit
        r    == n % unit
        up   == 2 * r > unit \/ (2 * r = unit /\ q % 2 = 1)
    IN  (IF up THEN q + 1 ELSE q) * Power[last]

\* The float for a / b halves.
Rounded(a, b) ==
    LET m == Nearest(Abs(a), Abs(b))
        s == Sign(a) * Sign(b)
    IN  IF m >= MaxFloat THEN Inf(s) ELSE Float(s * m)

\* What a number is, in one of the four ways it is kept.
IsNumber(x) ==
    \/ x.k = "int" /\ x = Int_(x.h \div 2) /\ x.h \div 2 \in MinInt .. MaxInt
    \/ x.k = "big" /\ x = Big(x.h \div 2) /\ x.h \div 2 \in Int
    \/ x.k = "float" /\ x = Float(x.h) /\ x.h \in Int
    \/ x \in {Inf(1), Inf(-1), NaN}
    \/ /\ x.k = "text" /\ x = Text(x.h, x.dotted)
       /\ x.h \in Int /\ x.dotted \in BOOLEAN /\ (x.dotted \/ x.h = 2 * (x.h \div 2))

ASSUME OperandsAssumption ==
    /\ \A x \in Operands : IsNumber(x)
    /\ \A x \in Ranges : \A i \in 1 .. 3 : IsNumber(x[i])

IsFloat(x) == x.k \in {"float", "inf", "nan"}

\* Mutant: what is too large for an integer becomes a float.
ParsedShort(x) ==
    IF x.k # "text" THEN x
    ELSE IF ~x.dotted /\ x.h % 2 = 0 /\ x.h \div 2 \in MinInt .. MaxInt THEN Int_(x.h \div 2)
    ELSE Rounded(x.h, 1)

\* parseNumber
Parsed(x) ==
    IF x.k # "text" THEN x
    ELSE IF x.dotted THEN Rounded(x.h, 1)
    ELSE IF x.h \div 2 \in MinInt .. MaxInt THEN Int_(x.h \div 2)
    ELSE Big(x.h \div 2)

\* toFloat, bigToFloat: digits that no float can hold are no number.
ToFloat(x) ==
    LET f == Rounded(x.h, 1)
    IN  IF IsFloat(x) THEN x ELSE IF x.k = "text" /\ f.k = "inf" THEN NumError ELSE f

\* floatToInt
FloatToInt(x) ==
    IF x.k = "float" /\ 2 * MinInt <= x.h /\ x.h < 2 * MaxInt THEN Quo(x.h, 2)
    ELSE IF x.k # "nan" /\ x.h > 0 THEN MaxInt
    ELSE MinInt

\* toInt
ToInt(y) ==
    LET x == Parsed(y)
    IN  IF IsFloat(x) THEN FloatToInt(x)
        ELSE IF x.h \div 2 \in MinInt .. MaxInt THEN x.h \div 2
        ELSE IF x.h > 0 THEN MaxInt ELSE MinInt

\* toIntCeil: digits that are not parsed yet are not rounded up.
ToIntCeil(x) == ToInt(IF x.k = "float" THEN Float(2 * (-((-x.h) \div 2))) ELSE x)

-------------------------------------------------------------------------------
(* Floating point.                                                         *)

Zero(x) == x.k = "float" /\ x.h = 0

FloatLess(x, y) ==
    /\ x.k # "nan" /\ y.k # "nan"
    /\ IF x.k = "inf" \/ y.k = "inf" THEN (IF x.k = "inf" THEN x.h ELSE 0) < (IF y.k = "inf" THEN y.h ELSE 0)
       ELSE x.h < y.h

FloatNeg(x) == [x EXCEPT !.h = -@]

FloatAdd(x, y) ==
    IF x.k = "nan" \/ y.k = "nan" THEN NaN
    ELSE IF x.k = "inf" /\ y.k = "inf" /\ x.h # y.h THEN NaN
    ELSE IF x.k = "inf" THEN x
    ELSE IF y.k = "inf" THEN y
    ELSE Rounded(x.h + y.h, 1)

FloatMul(x, y) ==
    IF x.k = "nan" \/ y.k = "nan" THEN NaN
    ELSE IF x.k = "inf" \/ y.k = "inf" THEN IF Zero(x) \/ Zero(y) THEN NaN ELSE Inf(Sign(x.h) * Sign(y.h))
    ELSE Rounded(x.h * y.h, 2)

FloatDiv(x, y) ==
    IF x.k = "nan" \/ y.k = "nan" THEN NaN
    ELSE IF x.k = "inf" THEN IF y.k = "inf" THEN NaN ELSE Inf(Sign(x.h) * Sign(y.h))
    ELSE IF y.k = "inf" THEN Float(0)
    ELSE Rounded(2 * x.h, y.h)

-------------------------------------------------------------------------------
(* operator.go.  Two integers, two floats, or two big integers: what is    *)
(* not the same is made the same by binopTypeSwitch.                       *)

Callback(x, y) ==
    CASE x.k = "int" /\ y.k = "int" -> "ints"
      [] IsFloat(x) \/ IsFloat(y) -> "floats"
      [] OTHER -> "bigs"

TypeSwitch(l, r, Ints(_, _), Floats(_, _), Bigs(_, _)) ==
    LET x == Parsed(l)
        y == Parsed(r)
    IN  CASE Callback(x, y) = "ints" -> Ints(x.h \div 2, y.h \div 2)
          [] Callback(x, y) = "floats" -> Floats(ToFloat(x), ToFloat(y))
          [] Callback(x, y) = "bigs" -> Bigs(x.h \div 2, y.h \div 2)

Negate(n) == IF n = MinInt THEN Big(-n) ELSE Int_(-n)

\* Mutant: a sum that has become too small is not noticed.
AddWrapped(l, r) == LET v == Wrap(l + r) IN IF v >= l \/ r < 0 THEN Int_(v) ELSE Big(l + r)

AddInts(l, r) == LET v == Wrap(l + r) IN IF (v >= l) = (r >= 0) THEN Int_(v) ELSE Big(l + r)
SubInts(l, r) == LET v == Wrap(l - r) IN IF (v <= l) = (r >= 0) THEN Int_(v) ELSE Big(l - r)
MulInts(l, r) ==
    LET v == Wrap(l * r)
    IN  CASE r = -1 -> Negate(l)
          [] r = 0 -> Int_(v)
          [] OTHER -> IF Wrap(Quo(v, r)) = l THEN Int_(v) ELSE Big(l * r)

DivInts(l, r) ==
    CASE r = 0 -> NumError
      [] r = -1 -> Negate(l)
      [] OTHER -> IF Rem(l, r) = 0 THEN Int_(Quo(l, r)) ELSE FloatDiv(Rounded(2 * l, 1), Rounded(2 * r, 1))
DivFloats(l, r) == IF Zero(r) THEN NumError ELSE FloatDiv(l, r)
DivBigs(l, r) ==
    IF r = 0 THEN NumError
    ELSE IF Abs(l) % Abs(r) = 0 THEN Big(Quo(l, r))
    ELSE FloatDiv(Rounded(2 * l, 1), Rounded(2 * r, 1))

ModInts(l, r) == CASE r = 0 -> NumError [] r = -1 -> Int_(0) [] OTHER -> Int_(Rem(l, r))
ModFloats(l, r) ==
    IF l.k = "nan" \/ r.k = "nan" THEN NaN
    ELSE LET i == FloatToInt(r) IN IF i = 0 THEN NumError ELSE Int_(Rem(FloatToInt(l), i))
ModBigs(l, r) == IF r = 0 THEN NumError ELSE Big(Rem(l, r))

Add(l, r) == TypeSwitch(l, r, AddInts, FloatAdd, LAMBDA a, b : Big(a + b))
Sub(l, r) == TypeSwitch(l, r, SubInts, LAMBDA a, b : FloatAdd(a, FloatNeg(b)), LAMBDA a, b : Big(a - b))
Mul(l, r) == TypeSwitch(l, r, MulInts, FloatMul, LAMBDA a, b : Big(a * b))
Div(l, r) == TypeSwitch(l, r, DivInts, DivFloats, DivBigs)
Mod(l, r) == TypeSwitch(l, r, ModInts, ModFloats, ModBigs)

\* funcOpNegate and funcAbs: the digits of the input keep theirs.
Neg(x) ==
    CASE x.k = "int" -> Negate(x.h \div 2)
      [] OTHER -> [x EXCEPT !.h = -@]
AbsOf(x) == IF x.k # "nan" /\ x.h < 0 THEN Neg(x) ELSE x

\* Two numbers: NaN is less than any, itself too.
CompareNumbers(l, r) ==
    TypeSwitch(l, r, LAMBDA a, b : Sign(a - b),
                     LAMBDA x, y : IF FloatLess(x, y) \/ x.k = "nan" THEN -1
                                   ELSE IF x = y /\ y.k # "nan" THEN 0 ELSE 1,
                     LAMBDA a, b : Sign(a - b))

\* epochToArray, and timeToEpoch back: the seconds are cut off towards zero, the fraction is taken from below.
Epoch(h) == 2 * Quo(h, 2) + (h % 2)
Seconds(x) ==
    LET f == ToFloat(x) IN IF f.k = "float" THEN Float(Epoch(f.h)) ELSE f

-------------------------------------------------------------------------------
VARIABLES call,    \* [op, l, r]; the third of a range is r[2]
          out,     \* what it has returned: a sequence, of one unless it is a range
          value    \* rangeIter: its value, its end and step are in call

numVars == <<call, out, value>>

Binary == {"add", "sub", "mul", "div", "mod", "compare"}
Unary  == {"negate", "abs", "toint", "toceil", "isinfinite", "gmtime"}

NumStart(op, l, r) ==
    /\ call = [op |-> op, l |-> l, r |-> r]
    /\ out = <<>>
    /\ value = l

NumInit ==
    \/ \E op \in Binary, l \in Operands, r \in Operands : NumStart(op, l, <<r>>)
    \/ \E op \in Unary, l \in Operands : NumStart(op, l, <<>>)
    \/ \E x \in Ranges : NumStart("range", x[1], <<x[2], x[3]>>)

Of_(op, x) ==
    CASE op = "negate" -> Neg(x)
      [] op = "abs" -> AbsOf(x)
      [] op = "toint" -> Int_(ToInt(x))
      [] op = "toceil" -> Int_(ToIntCeil(x))
      [] op = "isinfinite" -> Int_(IF ToFloat(x).k = "inf" THEN 1 ELSE 0)
      [] op = "gmtime" -> Seconds(x)

OfBoth(op, x, y) ==
    CASE op = "add" -> Add(x, y)
      [] op = "sub" -> Sub(x, y)
      [] op = "mul" -> Mul(x, y)
      [] op = "div" -> Div(x, y)
      [] op = "mod" -> Mod(x, y)
      [] op = "compare" -> Int_(CompareNumbers(x, y))

Calculate ==
    /\ out = <<>>
    /\ \/ call.op \in Binary /\ out' = <<OfBoth(call.op, call.l, call.r[1])>>
       \/ call.op \in Unary /\ out' = <<Of_(call.op, call.l)>>
    /\ UNCHANGED <<call, value>>

\* rangeIter.Next: the step leads from the value towards the end.
RangeGoesOn ==
    /\ Len(out) < MaxRange
    /\ CompareNumbers(call.r[2], Int_(0)) * CompareNumbers(value, call.r[1]) < 0

RangeNext ==
    /\ call.op = "range"
    /\ RangeGoesOn
    /\ out' = Append(out, value)
    /\ value' = Add(value, call.r[2])
    /\ UNCHANGED call

NumNext == Calculate \/ RangeNext

NumSpec == NumInit /\ [][NumNext]_numVars

-------------------------------------------------------------------------------
Whole(x) == x.k \in {"int", "big"} \/ (x.k = "text" /\ ~x.dotted)

NumbersTypeOK ==
    /\ \A i \in DOMAIN out : out[i].k \in {"int", "big", "float", "inf", "nan", "error", "text"}
    /\ \A i \in DOMAIN out : out[i].k = "int" => out[i].h \div 2 \in MinInt .. MaxInt

\* Calculating with whole numbers is exact, whatever their size and however they are kept: an integer that would not fit
\* becomes a big one (the checks of overflow in funcOpAdd, funcOpSub, funcOpMul, negate).
Exact ==
    out # <<>> /\ Whole(call.l) /\ (call.op \in Binary => Whole(call.r[1])) =>
        LET a == call.l.h \div 2
            b == call.r[1].h \div 2
            x == out[1]
        IN  CASE call.op = "add" -> Whole(x) /\ x.h = 2 * (a + b)
              [] call.op = "sub" -> Whole(x) /\ x.h = 2 * (a - b)
              [] call.op = "mul" -> Whole(x) /\ x.h = 2 * a * b
              [] call.op = "div" -> /\ (x = NumError) = (b = 0)
                                    /\ b # 0 /\ a % Abs(b) = 0 => Whole(x) /\ (x.h \div 2) * b = a
              [] call.op = "mod" -> /\ (x = NumError) = (b = 0)
                                    /\ b # 0 => /\ Abs(x.h \div 2) < Abs(b)
                                                /\ (a - x.h \div 2) % Abs(b) = 0
                                                /\ Sign(x.h) \in {0, Sign(a)}
              [] call.op = "compare" -> x.h = 2 * Sign(a - b)
              [] call.op = "negate" -> x.h = -2 * a
              [] call.op = "abs" -> x.h = 2 * Abs(a)
              [] OTHER -> TRUE

\* The numbers from call.l on that a range has to give.
InRange ==
    LET a == call.l.h
        s == call.r[2].h
    IN  {i \in 0 .. MaxRange - 1 : Sign(s) * (a + i * s) < Sign(s) * call.r[1].h}
WholeRange == call.op = "range" /\ Whole(call.l) /\ Whole(call.r[1]) /\ Whole(call.r[2])

\* A range of whole numbers gives its numbers in order and none twice, and no more than there are,
RangeInOrder ==
    WholeRange => /\ Len(out) <= Cardinality(InRange)
                  /\ \A i \in DOMAIN out : out[i].h = call.l.h + (i - 1) * call.r[2].h
\* and ends with the last of them, also when they grow too large for an integer on the way.
RangeExact == RangeInOrder /\ (WholeRange /\ ~RangeGoesOn => Len(out) = Cardinality(InRange))

\* An index or a bound that is no integer goes to the nearest one that there is, not to one from the other end.
Saturates ==
    call.op = "toint" /\ out # <<>> /\ call.l.k # "nan" =>
        LET n == out[1].h \div 2
            x == IF call.l.k = "inf" THEN call.l.h * 4 * MaxInt ELSE call.l.h
        IN  /\ x > 2 * MaxInt => n = MaxInt
            /\ x < 2 * MinInt => n = MinInt
            /\ x \in 2 * MinInt .. 2 * MaxInt /\ Parsed(call.l).h = x => n = Quo(x, 2)

\* gmtime gives the time that it is asked for, mktime gives it back.
TimeKept ==
    call.op = "gmtime" /\ out # <<>> /\ (call.l.h >= 0 \/ call.l.h % 2 = 0) => out[1] = ToFloat(call.l)

\* Digits of the input that are kept as they are count as the number that they are (parseNumber): whoever takes a number
\* makes the same of both.
Same(x, y) == x = y \/ (Whole(x) /\ Whole(y) /\ x.h = y.h)
Fits(x) == x.k = "text" => Rounded(x.h, 1).k = "float"
DigitsLikeNumbersAlways ==
    out # <<>> =>
        /\ call.op \in Unary => Same(Parsed(out[1]), Of_(call.op, Parsed(call.l)))
        /\ call.op \in Binary => Same(out[1], OfBoth(call.op, Parsed(call.l), Parsed(call.r[1])))

\* The same where the digits are a float, and not the end of a slice.
DigitsLikeNumbers == Fits(call.l) /\ call.op # "toceil" => DigitsLikeNumbersAlways

\* The end of a slice that is no integer is rounded up: `[0,1,2] | .[:1.7]` has two elements (cli/test.yaml:559).
EndRoundedUp ==
    call.op = "toceil" /\ out # <<>> /\ Parsed(call.l).k \in {"int", "float"} /\ Abs(Parsed(call.l).h) <= 2 * MaxInt =>
        out[1].h \in {Parsed(call.l).h, Parsed(call.l).h + 1}
\* Numbers of any size and kind are calculated with as numbers: nothing overflows, wraps around or is cut off on the
\* way (operator.go, rangeIter, toInt, epochToArray).
NumbersExact == NumbersTypeOK /\ Exact /\ RangeExact /\ Saturates /\ TimeKept
===============================================================================
