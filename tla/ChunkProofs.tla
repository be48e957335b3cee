----------------------------- MODULE ChunkProofs -----------------------------
(***************************************************************************)
(* Theorems about Batches for any items and limits: the pieces of a string *)
(* fit, are cut between runes only, and each pass takes something off the  *)
(* rest of a valid string; every state fits the limit that can, and        *)
(* nothing of a valid item is lost before the cap of the inner loop.       *)
(***************************************************************************)
EXTENDS Batches, Induction, SequenceTheorems

-------------------------------------------------------------------------------
(* Runes.                                                                  *)

\* A string may be cut after k bytes.
Boundary(t, k) == k = Len(t) \/ RuneStart(t[k + 1])

\* Every byte of a valid string is in a rune, which begins at most three bytes before.
LEMMA InRune ==
    ASSUME NEW t \in Seq(Bytes), Stray(t) = {}, NEW i \in DOMAIN t
    PROVE  \E j \in 1 .. i : j >= i - 3 /\ WholeRune(t, j) /\ i < j + RuneLen(t[j])
<1>1. i \in 1 .. Len(t)
  OBVIOUS
<1>2. PICK j \in Max({1, i - 3}) .. i : WholeRune(t, j) /\ i < j + RuneLen(t[j])
  <2>1. i \notin Stray(t)
    OBVIOUS
  <2> QED
    BY <2>1, Zenon DEF Stray
<1>3. Max({1, i - 3}) \in {1, i - 3} /\ Max({1, i - 3}) >= 1 /\ Max({1, i - 3}) >= i - 3
  <2>1. 1 \in Int /\ i - 3 \in Int
    BY <1>1
  <2> QED
    BY <2>1, MaxOfTwo, Zenon
<1>4. j \in 1 .. i /\ j >= i - 3
  BY <1>1, <1>3
<1> QED
  BY <1>2, <1>4

LEMMA FirstBoundary ==
    ASSUME NEW t \in Seq(Bytes), Stray(t) = {}
    PROVE  Boundary(t, 0)
<1>1. CASE Len(t) = 0
  BY <1>1 DEF Boundary
<1>2. CASE Len(t) # 0
  <2>1. 1 \in DOMAIN t
    BY <1>2
  <2>2. PICK j \in 1 .. 1 : WholeRune(t, j)
    BY <2>1, InRune
  <2>3. RuneStart(t[1])
    BY <2>2 DEF WholeRune
  <2> QED
    BY <2>3 DEF Boundary
<1> QED
  BY <1>1, <1>2

\* A byte that is no continuation is followed by a rune, if it is one of its own.
LEMMA AfterSeparator ==
    ASSUME NEW t \in Seq(Bytes), Stray(t) = {}, NEW i \in DOMAIN t, i + 1 \in DOMAIN t,
           t[i] \in {"newline", "space"}
    PROVE  RuneStart(t[i + 1])
<1>1. i \in Nat \ {0}
  OBVIOUS
<1>2. PICK j \in 1 .. i + 1 : WholeRune(t, j) /\ i + 1 < j + RuneLen(t[j])
  BY InRune
<1>3. j # i
  BY <1>1, <1>2 DEF RuneLen
<1>4. CASE j = i + 1
  BY <1>2, <1>4 DEF WholeRune
<1>5. CASE j < i
  <2>1. RuneLen(t[j]) \in Nat
    BY DEF RuneLen
  <2>2. i \in j + 1 .. j + RuneLen(t[j]) - 1
    BY <1>1, <1>2, <1>5, <2>1
  <2> QED
    BY <1>2, <2>2 DEF WholeRune
<1> QED
  BY <1>1, <1>3, <1>4, <1>5

\* A part of a valid string between two places where it may be cut is valid.
LEMMA PartWhole ==
    ASSUME NEW t \in Seq(Bytes), Stray(t) = {},
           NEW a \in 0 .. Len(t), NEW b \in a .. Len(t), Boundary(t, a), Boundary(t, b)
    PROVE  Stray(SubSeq(t, a + 1, b)) = {}
<1> DEFINE u == SubSeq(t, a + 1, b)
<1>1. /\ u \in Seq(Bytes) /\ Len(u) = b - a /\ DOMAIN u = 1 .. b - a
      /\ \A i \in 1 .. b - a : u[i] = t[a + i]
  OBVIOUS
<1> HIDE DEF u
<1>2. SUFFICES ASSUME NEW i \in 1 .. b - a
               PROVE  \E j \in Max({1, i - 3}) .. i : WholeRune(u, j) /\ i < j + RuneLen(u[j])
  BY <1>1 DEF Stray, u
<1>3. a + i \in DOMAIN t /\ a \in Nat /\ b \in Nat /\ i \in Nat
  OBVIOUS
<1>4. PICK r \in 1 .. a + i : /\ r >= a + i - 3 /\ WholeRune(t, r)
                              /\ a + i < r + RuneLen(t[r])
  BY <1>3, InRune
<1>5. RuneLen(t[r]) \in Nat \ {0}
  BY DEF RuneLen
<1>6. r > a
  <2> SUFFICES ASSUME r <= a PROVE FALSE
    BY <1>3
  <2>1. a + 1 \in r + 1 .. r + RuneLen(t[r]) - 1
    BY <1>3, <1>4, <1>5
  <2>2. t[a + 1] = "cont"
    BY <1>4, <2>1 DEF WholeRune
  <2> QED
    BY <2>2, <1>3 DEF Boundary, RuneStart
<1>7. r + RuneLen(t[r]) - 1 <= b
  <2>1. CASE b = Len(t)
    BY <1>4, <2>1 DEF WholeRune
  <2>2. CASE b # Len(t)
    <3> SUFFICES ASSUME r + RuneLen(t[r]) - 1 > b PROVE FALSE
      BY <1>3, <1>5
    <3>1. b + 1 \in r + 1 .. r + RuneLen(t[r]) - 1
      BY <1>3, <1>4, <1>5
    <3>2. t[b + 1] = "cont"
      BY <1>4, <3>1 DEF WholeRune
    <3> QED
      BY <2>2, <3>2 DEF Boundary, RuneStart
  <2> QED
    BY <2>1, <2>2
<1>8. r - a \in 1 .. i /\ r - a >= i - 3 /\ u[r - a] = t[r]
  BY <1>1, <1>3, <1>4, <1>6
<1>9. WholeRune(u, r - a)
  <2>1. \A m \in (r - a) + 1 .. (r - a) + RuneLen(u[r - a]) - 1 : u[m] = "cont"
    <3> SUFFICES ASSUME NEW m \in (r - a) + 1 .. (r - a) + RuneLen(u[r - a]) - 1
                 PROVE  u[m] = "cont"
      OBVIOUS
    <3>1. m \in 1 .. b - a /\ a + m \in r + 1 .. r + RuneLen(t[r]) - 1
      BY <1>3, <1>4, <1>5, <1>6, <1>7, <1>8
    <3> QED
      BY <1>1, <1>4, <3>1 DEF WholeRune
  <2>2. RuneStart(u[r - a])
    BY <1>4, <1>8 DEF WholeRune
  <2>3. (r - a) + RuneLen(u[r - a]) - 1 <= Len(u)
    BY <1>1, <1>3, <1>5, <1>7, <1>8
  <2> QED
    BY <2>1, <2>2, <2>3 DEF WholeRune
<1>10. Max({1, i - 3}) \in {1, i - 3}
  <2>1. 1 \in Int /\ i - 3 \in Int
    BY <1>3
  <2> QED
    BY <2>1, MaxOfTwo, Zenon
<1>11. r - a \in Max({1, i - 3}) .. i
  BY <1>3, <1>8, <1>10
<1> QED
  BY <1>4, <1>5, <1>8, <1>9, <1>11

-------------------------------------------------------------------------------
(* Where the loops cut.                                                    *)

\* rest is what is left of text after k bytes.
LEMMA RestOf ==
    ASSUME NEW t \in Seq(Bytes), NEW k \in 0 .. Len(t)
    PROVE  /\ From(t, k) \in Seq(Bytes) /\ Len(From(t, k)) = Len(t) - k
           /\ \A i \in 1 .. Len(t) - k : From(t, k)[i] = t[k + i]
           /\ \A n \in 0 .. Len(t) - k : /\ From(From(t, k), n) = From(t, k + n)
                                         /\ Boundary(From(t, k), n) <=> Boundary(t, k + n)
           /\ \A n \in 0 .. Len(t) - k : First(From(t, k), n) = SubSeq(t, k + 1, k + n)
<1> DEFINE u == From(t, k)
<1>1. /\ u \in Seq(Bytes) /\ Len(u) = Len(t) - k
      /\ \A i \in 1 .. Len(t) - k : u[i] = t[k + i]
  BY DEF From
<1>2. ASSUME NEW n \in 0 .. Len(t) - k
      PROVE  /\ From(u, n) = From(t, k + n)
             /\ First(u, n) = SubSeq(t, k + 1, k + n)
  BY DEF From, First
<1>3. ASSUME NEW n \in 0 .. Len(t) - k
      PROVE  Boundary(u, n) <=> Boundary(t, k + n)
  <2>1. CASE n = Len(t) - k
    BY <1>1, <2>1 DEF Boundary
  <2>2. CASE n # Len(t) - k
    <3>1. n + 1 \in 1 .. Len(t) - k /\ k + (n + 1) = (k + n) + 1
      BY <2>2
    <3>2. u[n + 1] = t[(k + n) + 1]
      BY <1>1, <3>1
    <3> HIDE DEF u
    <3> QED
      BY <1>1, <2>2, <3>2 DEF Boundary
  <2> QED
    BY <2>1, <2>2
<1> QED
  BY <1>1, <1>2, <1>3

LEMMA RuneCutRange ==
    ASSUME NEW t \in Seq(Bytes), NEW n \in 0 .. Len(t) - 1
    PROVE  /\ RuneCut(t, n) \in 0 .. n
           /\ RuneCut(t, n) # 0 => Boundary(t, RuneCut(t, n))
           /\ \A i \in 1 .. n : RuneStart(t[i + 1]) => RuneCut(t, n) >= i
<1> DEFINE T == {0} \cup {i \in 1 .. n : RuneStart(t[i + 1])}
<1>1. T \subseteq 0 .. n /\ T # {} /\ n \in Nat
  OBVIOUS
<1>2. Max(T) \in T /\ \A y \in T : Max(T) >= y
  BY <1>1, MaxOf
<1>3. Max(T) # 0 => RuneStart(t[Max(T) + 1])
  BY <1>2
<1> HIDE DEF T
<1>4. RuneCut(t, n) = Max(T)
  BY DEF RuneCut, T
<1>5. \A i \in 1 .. n : RuneStart(t[i + 1]) => i \in T
  BY DEF T
<1> QED
  BY <1>1, <1>2, <1>3, <1>4, <1>5 DEF Boundary

\* In a valid string there is somewhere to cut within four bytes, and right after a separator.
LEMMA RuneCutFound ==
    ASSUME NEW t \in Seq(Bytes), Stray(t) = {}, NEW k \in 0 .. Len(t),
           NEW n \in 1 .. Len(t) - k - 1,
           n >= 4 \/ t[k + n] \in {"newline", "space"}
    PROVE  RuneCut(From(t, k), n) >= 1
<1>1. k \in Nat /\ n \in Nat \ {0} /\ Len(t) \in Nat /\ k + n + 1 <= Len(t)
  OBVIOUS
<1>2. PICK j \in 1 .. n : RuneStart(t[k + j + 1])
  <2>1. CASE t[k + n] \in {"newline", "space"}
    <3>1. k + n \in DOMAIN t /\ (k + n) + 1 \in DOMAIN t
      BY <1>1
    <3>2. RuneStart(t[(k + n) + 1])
      BY <2>1, <3>1, AfterSeparator
    <3> QED
      BY <1>1, <3>2
  <2>2. CASE n >= 4
    <3>1. k + n + 1 \in DOMAIN t
      BY <1>1
    <3>2. PICK r \in 1 .. k + n + 1 : r >= k + n + 1 - 3 /\ WholeRune(t, r)
      BY <3>1, InRune
    <3>3. r - k - 1 \in 1 .. n /\ k + (r - k - 1) + 1 = r
      BY <1>1, <2>2, <3>2
    <3> QED
      BY <3>2, <3>3 DEF WholeRune
  <2> QED
    BY <2>1, <2>2
<1>3. /\ From(t, k) \in Seq(Bytes) /\ Len(From(t, k)) = Len(t) - k
      /\ From(t, k)[j + 1] = t[k + (j + 1)]
  BY <1>1, RestOf
<1>4. RuneStart(From(t, k)[j + 1])
  BY <1>1, <1>2, <1>3
<1>5. n \in 0 .. Len(From(t, k)) - 1
  BY <1>1, <1>3
<1>6. RuneCut(From(t, k), n) \in 0 .. n /\ RuneCut(From(t, k), n) >= j
  BY <1>3, <1>4, <1>5, RuneCutRange
<1> QED
  BY <1>1, <1>6

LEMMA BreakRange ==
    ASSUME NEW t \in Seq(Bytes), NEW m \in DOMAIN Separators
    PROVE  LET b == LastBreak(t, Separators[m])
           IN  b \in 0 .. Len(t) /\ (b # 0 => t[b] \in {"newline", "space"})
<1> DEFINE sep == Separators[m]
           T == {0} \cup {i \in Len(sep) + 1 .. Len(t) : SubSeq(t, i - Len(sep) + 1, i) = sep}
<1>1. m \in 1 .. 3
  BY DEF Separators
<1>2. Len(sep) \in {1, 2} /\ sep[Len(sep)] \in {"newline", "space"}
  BY <1>1 DEF Separators
<1> HIDE DEF sep
<1>3. T \subseteq 0 .. Len(t) /\ T # {} /\ Len(t) \in Nat
  BY <1>2
<1>4. Max(T) \in T
  BY <1>3, MaxOf
<1>5. ASSUME NEW i \in T, i # 0 PROVE t[i] \in {"newline", "space"}
  <2>1. i \in Len(sep) + 1 .. Len(t) /\ SubSeq(t, i - Len(sep) + 1, i) = sep
    BY <1>5
  <2>2. SubSeq(t, i - Len(sep) + 1, i)[Len(sep)] = t[i]
    BY <1>2, <2>1
  <2> QED
    BY <1>2, <2>1, <2>2
<1> HIDE DEF T
<1>6. LastBreak(t, Separators[m]) = Max(T)
  BY DEF LastBreak, T, sep
<1> QED
  BY <1>3, <1>4, <1>5, <1>6

LEMMA TrimmedNewlines ==
    ASSUME NEW t \in Seq(Bytes)
    PROVE  \E m \in 0 .. Len(t) : /\ TrimNewlines(t) = SubSeq(t, 1, m)
                                  /\ m # Len(t) => t[m + 1] = "newline"
                                  /\ \A i \in m + 1 .. Len(t) : t[i] = "newline"
<1> DEFINE T == {0} \cup {i \in DOMAIN t : t[i] # "newline"}
<1>1. T \subseteq 0 .. Len(t) /\ T # {} /\ Len(t) \in Nat
  OBVIOUS
<1>2. Max(T) \in T /\ \A y \in T : Max(T) >= y
  BY <1>1, MaxOf
<1>3. \A i \in 1 .. Len(t) : i \notin T => t[i] = "newline"
  OBVIOUS
<1> HIDE DEF T
<1>4. TrimNewlines(t) = SubSeq(t, 1, Max(T))
  BY DEF TrimNewlines, First, T
<1>5. Max(T) \in 0 .. Len(t) /\ (Max(T) # Len(t) => t[Max(T) + 1] = "newline")
  <2>1. Max(T) \in 0 .. Len(t)
    BY <1>1, <1>2
  <2>2. Max(T) + 1 \notin T
    BY <1>2, <2>1
  <2> QED
    BY <1>1, <1>3, <2>1, <2>2
<1>6. \A i \in Max(T) + 1 .. Len(t) : t[i] = "newline"
  <2>1. \A i \in Max(T) + 1 .. Len(t) : i \in 1 .. Len(t) /\ ~ (Max(T) >= i)
    BY <1>1, <1>5
  <2> QED
    BY <1>2, <1>3, <2>1
<1> QED
  BY <1>4, <1>5, <1>6

LEMMA MarshalLenType ==
    ASSUME NEW t \in Seq(Bytes)
    PROVE  MarshalLen(t) \in Nat \ {0}
<1>1. IsFiniteSet(DOMAIN t)
  BY FS_Interval
<1>2. /\ IsFiniteSet({i \in DOMAIN t : t[i] = "escaped"} \cup Stray(t))
      /\ IsFiniteSet({i \in DOMAIN t : t[i] = "newline"})
  BY <1>1, FS_Subset DEF Stray
<1>3. /\ Cardinality({i \in DOMAIN t : t[i] = "escaped"} \cup Stray(t)) \in Nat
      /\ Cardinality({i \in DOMAIN t : t[i] = "newline"}) \in Nat
  BY <1>2, FS_CardinalityType
<1> QED
  BY <1>3 DEF MarshalLen

\* Where the loops are in their string.
Reached(k) ==
    /\ k \in 0 .. Len(text)
    /\ rest = From(text, k)
    /\ Valid => Boundary(text, k)

LEMMA FirstCutInside ==
    ASSUME text \in Seq(Bytes), NEW k, Reached(k), rest # <<>>, budget \in Int, budget >= 8
    PROVE  /\ FirstCut \in 0 .. Len(rest)
           /\ Valid => FirstCut >= 1 /\ Boundary(rest, FirstCut)
<1>1. /\ rest \in Seq(Bytes) /\ Len(rest) = Len(text) - k /\ Len(text) \in Nat /\ k \in 0 .. Len(text)
      /\ \A i \in 1 .. Len(rest) : rest[i] = text[k + i]
  <2>1. k \in 0 .. Len(text) /\ rest = From(text, k)
    BY DEF Reached
  <2>2. /\ From(text, k) \in Seq(Bytes) /\ Len(From(text, k)) = Len(text) - k
        /\ \A i \in 1 .. Len(text) - k : From(text, k)[i] = text[k + i]
    BY <2>1, RestOf
  <2> QED
    BY <2>1, <2>2
<1>2. Len(rest) \in Nat \ {0}
  BY <1>1
<1>3. CASE Len(rest) <= Inner
  BY <1>2, <1>3 DEF FirstCut, Boundary
<1>4. CASE ~ (Len(rest) <= Inner)
  <2>1. Inner \in Nat /\ Inner >= 4 /\ Inner < Len(rest)
    <3>1. budget \div 2 \in Nat /\ budget \div 2 >= 4
      OBVIOUS
    <3>2. {budget \div 2, Len(text)} \subseteq Nat
      BY <1>1, <3>1
    <3>3. Inner \in {budget \div 2, Len(text)}
      BY <3>2, MinOf DEF Inner
    <3>4. Inner # Len(text)
      <4> SUFFICES ASSUME Inner = Len(text) PROVE FALSE
        OBVIOUS
      <4> QED
        BY <1>1, <1>4
    <3> QED
      BY <1>1, <1>4, <3>1, <3>3, <3>4
  <2> DEFINE reach  == First(rest, Inner)
             breaks == {i \in DOMAIN Separators : LastBreak(reach, Separators[i]) > 0}
  <2>2. reach \in Seq(Bytes) /\ Len(reach) = Inner /\ \A i \in 1 .. Inner : reach[i] = rest[i]
    BY <1>1, <2>1 DEF First
  <2> HIDE DEF reach
  <2>3. ASSUME NEW n \in 1 .. Inner, n = Inner \/ rest[n] \in {"newline", "space"}
        PROVE  /\ RuneCut(rest, n) \in 0 .. Len(rest)
               /\ Valid => RuneCut(rest, n) >= 1 /\ Boundary(rest, RuneCut(rest, n))
    <3>1. n \in 0 .. Len(rest) - 1 /\ n \in 1 .. Len(text) - k - 1
      BY <1>1, <2>1
    <3>2. /\ RuneCut(rest, n) \in 0 .. n
          /\ RuneCut(rest, n) # 0 => Boundary(rest, RuneCut(rest, n))
      BY <1>1, <3>1, RuneCutRange
    <3>3. ASSUME Valid PROVE RuneCut(rest, n) >= 1
      <4>1. n >= 4 \/ text[k + n] \in {"newline", "space"}
        BY <1>1, <2>1, <2>3, <3>1
      <4> QED
        BY <1>1, <3>1, <3>3, <4>1, RuneCutFound DEF Valid, Reached
    <3> QED
      BY <3>1, <3>2, <3>3
  <2>4. CASE breaks = {}
    <3>1. FirstCut = RuneCut(rest, Inner)
      BY <1>4, <2>4 DEF FirstCut, reach
    <3> QED
      BY <2>1, <2>3, <3>1
  <2>5. CASE breaks # {}
    <3> DEFINE m == Min(breaks)
               b == LastBreak(reach, Separators[m])
    <3>1. m \in breaks
      <4>1. breaks \subseteq Nat
        BY DEF Separators
      <4> QED
        BY <2>5, <4>1, MinOf
    <3>2. m \in DOMAIN Separators /\ b > 0
      BY <3>1
    <3>3. FirstCut = RuneCut(rest, b)
      BY <1>4, <2>5 DEF FirstCut, reach
    <3> HIDE DEF m
    <3>4. b \in 0 .. Len(reach) /\ (b # 0 => reach[b] \in {"newline", "space"})
      BY <2>2, <3>2, BreakRange
    <3> HIDE DEF b
    <3>5. b \in 1 .. Inner /\ rest[b] \in {"newline", "space"}
      BY <2>2, <3>2, <3>4
    <3> QED
      BY <2>3, <3>3, <3>5
  <2> QED
    BY <2>4, <2>5
<1> QED
  BY <1>3, <1>4

LEMMA NextCutInside ==
    ASSUME rest \in Seq(Bytes), piece \in Seq(Bytes), budget \in Int, cut \in 2 .. Len(rest)
    PROVE  /\ NextCut \in 1 .. cut
           /\ NextCut # cut => Boundary(rest, NextCut)
<1> DEFINE guess == (cut * budget) \div MarshalLen(piece)
           less  == IF guess < 1 \/ guess >= cut THEN cut - 1 ELSE guess
           found == RuneCut(rest, less)
           T     == {cut} \cup {i \in 1 .. cut - 1 : RuneStart(rest[i + 1])}
<1>1. guess \in Int
  <2>1. MarshalLen(piece) \in Nat \ {0}
    BY MarshalLenType
  <2>2. cut * budget \in Int
    OBVIOUS
  <2> QED
    BY <2>1, <2>2
<1> HIDE DEF guess
<1>2. less \in 1 .. cut - 1
  BY <1>1
<1> HIDE DEF less
<1>3. less \in 0 .. Len(rest) - 1
  BY <1>2
<1>4. found \in 0 .. less /\ (found # 0 => Boundary(rest, found))
  BY <1>3, RuneCutRange
<1>5. Min(T) \in T
  <2>1. T \subseteq Nat /\ T # {}
    OBVIOUS
  <2> QED
    BY <2>1, MinOf
<1>6. NextCut = IF found # 0 THEN found ELSE Min(T)
  BY DEF NextCut, guess, less
<1>7. Min(T) \in 1 .. cut /\ (Min(T) # cut => Boundary(rest, Min(T)))
  BY <1>5 DEF Boundary
<1> HIDE DEF found, T
<1> QED
  BY <1>2, <1>4, <1>6, <1>7

\* The piece in hand.
Trying ==
    /\ budget >= 8
    /\ cut \in 0 .. Len(rest)
    /\ piece = TrimNewlines(First(rest, cut))
    /\ Valid => cut >= 1 /\ Boundary(rest, cut)

LEMMA PieceWhole ==
    ASSUME text \in Seq(Bytes), NEW k, Reached(k), Trying
    PROVE  /\ rest \in Seq(Bytes) /\ piece \in Seq(Bytes)
           /\ Valid => Stray(piece) = {}
           /\ From(rest, cut) = From(text, k + cut) /\ k + cut \in 0 .. Len(text)
           /\ Len(From(rest, cut)) = Len(rest) - cut
           /\ Valid => Boundary(text, k + cut)
<1>1. k \in 0 .. Len(text) /\ rest = From(text, k) /\ (Valid => Boundary(text, k))
  BY DEF Reached
<1>2. rest \in Seq(Bytes) /\ Len(rest) = Len(text) - k
  BY <1>1, RestOf
<1>3. cut \in 0 .. Len(text) - k /\ k + cut \in 0 .. Len(text)
  BY <1>1, <1>2 DEF Trying
<1>4. /\ From(rest, cut) = From(text, k + cut)
      /\ Boundary(rest, cut) <=> Boundary(text, k + cut)
      /\ First(rest, cut) = SubSeq(text, k + 1, k + cut)
  BY <1>1, <1>3, RestOf
<1>5. First(rest, cut) \in Seq(Bytes) /\ Len(First(rest, cut)) = cut
  BY <1>1, <1>3, <1>4
<1>6. PICK m \in 0 .. cut : /\ piece = SubSeq(First(rest, cut), 1, m)
                            /\ m # cut => First(rest, cut)[m + 1] = "newline"
  BY <1>5, TrimmedNewlines DEF Trying
<1>7. piece = SubSeq(text, k + 1, k + m) /\ piece \in Seq(Bytes)
  <2>1. piece \in Seq(Bytes) /\ Len(piece) = m
    BY <1>5, <1>6
  <2>2. SubSeq(text, k + 1, k + m) \in Seq(Bytes) /\ Len(SubSeq(text, k + 1, k + m)) = m
    BY <1>1, <1>3
  <2>3. \A i \in 1 .. m : piece[i] = SubSeq(text, k + 1, k + m)[i]
    BY <1>1, <1>3, <1>4, <1>6
  <2>4. piece = SubSeq(text, k + 1, k + m)
    BY <2>1, <2>2, <2>3, SeqEqual
  <2> QED
    BY <2>1, <2>4
<1>8. ASSUME Valid PROVE Boundary(text, k + m)
  <2>1. CASE m = cut
    BY <1>4, <1>8, <2>1 DEF Trying
  <2>2. CASE m # cut
    <3>1. First(rest, cut)[m + 1] = text[k + m + 1]
      BY <1>1, <1>3, <1>4, <2>2, SMTT(60)
    <3> QED
      BY <1>6, <2>2, <3>1 DEF Boundary, RuneStart
  <2> QED
    BY <2>1, <2>2
<1>9. ASSUME Valid PROVE Stray(piece) = {}
  <2>1. k + m \in k .. Len(text)
    BY <1>1, <1>3
  <2>2. Stray(SubSeq(text, k + 1, k + m)) = {}
    BY <1>1, <1>8, <1>9, <2>1, PartWhole DEF Valid
  <2> QED
    BY <1>7, <2>2
<1>10. Len(From(rest, cut)) = Len(rest) - cut
  BY <1>2, RestOf DEF Trying
<1> QED
  BY <1>2, <1>3, <1>4, <1>7, <1>9, <1>10 DEF Trying

-------------------------------------------------------------------------------
(* The steps.                                                              *)

ChunkOK ==
    /\ text \in Seq(Bytes) /\ budget \in Int
    /\ out \in Seq(Seq(Bytes))
    /\ \E k : Reached(k)
    /\ pc = "fit" => Trying
    /\ RunesWhole
    /\ PiecesFit

LEMMA ChunkIdle == Idle => ChunkOK
<1> SUFFICES ASSUME Idle PROVE ChunkOK
  OBVIOUS
<1>1. Reached(0)
  BY DEF Idle, Reached, From, Boundary
<1> QED
  BY <1>1 DEF Idle, ChunkOK, RunesWhole, PiecesFit

LEMMA ChunkCalled ==
    ASSUME NEW t \in Seq(Bytes), NEW room \in Int, Call(t, room)
    PROVE  ChunkOK'
<1>1. Reached(0)'
  <2>1. From(t, 0) = t
    BY DEF From
  <2>2. Stray(t) = {} => Boundary(t, 0)
    BY FirstBoundary
  <2> QED
    BY <2>1, <2>2 DEF Call, Reached, Valid
<1> QED
  BY <1>1 DEF Call, ChunkOK, RunesWhole, PiecesFit

\* The steps of the loop leave the string and the budget alone.
LEMMA ChunkStep == ChunkOK /\ ChunkString => ChunkOK'
<1> SUFFICES ASSUME ChunkOK, ChunkString PROVE ChunkOK'
  OBVIOUS
<1>1. PICK k : Reached(k)
  BY DEF ChunkOK
<1>2. text' = text /\ budget' = budget /\ (Valid' <=> Valid)
  BY DEF ChunkString, Whole, Cut, Shrink, Emit, Drop, Finish, Valid
<1>3. rest \in Seq(Bytes) /\ Len(rest) \in Nat
  <2>1. k \in 0 .. Len(text) /\ rest = From(text, k)
    BY <1>1 DEF Reached
  <2> QED
    BY <2>1, RestOf DEF ChunkOK
<1>4. rest' = rest => Reached(k)'
  BY <1>1, <1>2 DEF Reached
<1>5. out' = out => RunesWhole' /\ PiecesFit'
  BY <1>2 DEF ChunkOK, RunesWhole, PiecesFit
<1>6. CASE Whole
  BY <1>2, <1>4, <1>6 DEF Whole, ChunkOK, RunesWhole, PiecesFit, Valid
<1>7. CASE Cut
  <2>1. /\ FirstCut \in 0 .. Len(rest)
        /\ Valid => FirstCut >= 1 /\ Boundary(rest, FirstCut)
    BY <1>1, <1>7, FirstCutInside DEF Cut, ChunkOK
  <2>2. Trying'
    BY <1>2, <1>7, <2>1 DEF Cut, Trying
  <2> QED
    BY <1>2, <1>4, <1>5, <1>7, <2>2 DEF Cut, ChunkOK
<1>8. CASE Shrink
  <2>1. Trying /\ cut \in 2 .. Len(rest) /\ piece \in Seq(Bytes)
    BY <1>1, <1>3, <1>8, PieceWhole DEF Shrink, ChunkOK, Trying
  <2>2. NextCut \in 1 .. cut /\ (NextCut # cut => Boundary(rest, NextCut))
    BY <1>3, <2>1, NextCutInside DEF ChunkOK
  <2>3. Trying'
    BY <1>2, <1>3, <1>8, <2>1, <2>2 DEF Shrink, Trying
  <2> QED
    BY <1>2, <1>4, <1>5, <1>8, <2>3 DEF Shrink, ChunkOK
<1>9. ASSUME pc = "fit", rest' = RestAfterCut PROVE \E n : Reached(n)'
  <2>1. /\ From(rest, cut) = From(text, k + cut) /\ k + cut \in 0 .. Len(text)
        /\ Valid => Boundary(text, k + cut)
    BY <1>1, <1>9, PieceWhole DEF ChunkOK
  <2>2. PICK n \in 0 .. Len(text) : n = k + cut
    BY <2>1
  <2>3. Reached(n)'
    BY <1>2, <1>9, <2>1, <2>2 DEF Reached, RestAfterCut
  <2> QED
    BY <2>3
<1>10. CASE Emit
  <2>1. piece \in Seq(Bytes) /\ (Valid => Stray(piece) = {})
    BY <1>1, <1>10, PieceWhole DEF Emit, ChunkOK
  <2>2. out' \in Seq(Seq(Bytes))
        /\ \A i \in DOMAIN out' : out'[i] = piece \/ (i \in DOMAIN out /\ out'[i] = out[i])
    BY <1>10, <2>1 DEF Emit, ChunkOK
  <2>3. MarshalLen(piece) <= budget
    BY <1>10 DEF Emit, Fits
  <2>4. RunesWhole' /\ PiecesFit'
    BY <1>2, <2>1, <2>2, <2>3 DEF ChunkOK, RunesWhole, PiecesFit
  <2> QED
    BY <1>2, <1>9, <1>10, <2>2, <2>4 DEF Emit, ChunkOK
<1>11. CASE Drop
  BY <1>2, <1>5, <1>9, <1>11 DEF Drop, ChunkOK
<1>12. CASE Finish
  BY <1>2, <1>4, <1>5, <1>12 DEF Finish, ChunkOK
<1> QED
  BY <1>6, <1>7, <1>8, <1>10, <1>11, <1>12 DEF ChunkString

LEMMA ChunkStays ==
    ASSUME ChunkOK, UNCHANGED chunkVars
    PROVE  ChunkOK'
<1>1. \A k : Reached(k) => Reached(k)'
  BY DEF chunkVars, Reached, Valid
<1> QED
  BY <1>1 DEF chunkVars, ChunkOK, Trying, RunesWhole, PiecesFit, Valid

\* What the string is that is cut: an element or entry of the item.
Splitting ==
    /\ ChunkOK
    /\ item \in Items /\ limit \in Int /\ at \in Nat \ {0}
    /\ phase \in {"group", "pieces"} => item.type # "other"

LEMMA SplittingInit == Init => Splitting
BY ChunkIdle, LimitsAssumption DEF Init, Splitting

LEMMA SplittingStep == Splitting /\ [Next]_vars => Splitting'
<1> SUFFICES ASSUME Splitting, [Next]_vars PROVE Splitting'
  OBVIOUS
<1>1. CASE Split
  <2>1. item \in Items /\ item.type # "other" /\ at \in DOMAIN item.entries /\ IsString(This.val)
    BY <1>1, ItemsAssumption DEF Split, Grouping, Splittable, Splitting
  <2>2. item.type \in {"string", "array", "object"} /\ IsEntry(This)
    BY <2>1, ItemsAssumption DEF This
  <2>3. This.val.text \in Seq(Bytes) /\ Len(This.key) \in Nat
    BY <2>1, <2>2 DEF IsEntry
  <2>4. Room(This) \in Int
    BY <2>2, <2>3 DEF Room, Splitting
  <2>5. ChunkOK'
    BY <1>1, <2>3, <2>4, ChunkCalled DEF Split
  <2> QED
    BY <1>1, <2>1, <2>5 DEF Split, Splitting
<1>2. CASE Cutting
  BY <1>2, ChunkStep DEF Cutting, Splitting
<1>3. ASSUME UNCHANGED chunkVars PROVE ChunkOK'
  BY <1>3, ChunkStays DEF Splitting
<1>4. CASE SendWhole
  BY <1>3, <1>4 DEF SendWhole, Splitting
<1>5. CASE Begin
  BY <1>3, <1>5 DEF Begin, Splitting
<1>6. CASE Group
  BY <1>3, <1>6 DEF Group, Grouping, Splitting
<1>7. CASE TakePieces
  BY <1>3, <1>7 DEF TakePieces, Splitting
<1>8. CASE Alone
  BY <1>3, <1>8 DEF Alone, Grouping, Splitting
<1>9. CASE GiveUp
  BY <1>3, <1>9 DEF GiveUp, Splitting
<1>10. CASE End
  BY <1>3, <1>10 DEF End, Splitting
<1>11. CASE UNCHANGED vars
  BY <1>3, <1>11 DEF vars, Splitting
<1> QED
  BY <1>1, <1>2, <1>4, <1>5, <1>6, <1>7, <1>8, <1>9, <1>10, <1>11 DEF Next

\* Every piece of a string fits what chunkString was given, for any string and limit.
THEOREM PiecesFitHolds == Spec => []PiecesFit
<1>1. Splitting => PiecesFit
  BY DEF Splitting, ChunkOK
<1> QED
  BY <1>1, SplittingInit, SplittingStep, PTL DEF Spec

\* No rune of a valid string is cut in two, wherever the guesses of chunkString fall.
THEOREM RunesWholeHolds == Spec => []RunesWhole
<1>1. Splitting => RunesWhole
  BY DEF Splitting, ChunkOK
<1> QED
  BY <1>1, SplittingInit, SplittingStep, PTL DEF Spec

\* Each pass of chunkString takes something off the rest of a valid string, for any limit.
THEOREM EveryPassShortensHolds == Spec => EveryPassShortens
<1>1. Splitting /\ [Next]_vars =>
          [Valid /\ pc = "fit" /\ pc' = "cut" => Len(rest') < Len(rest)]_chunkVars
  <2> SUFFICES ASSUME Splitting, [Next]_vars, Valid, pc = "fit", pc' = "cut"
               PROVE  Len(rest') < Len(rest)
    OBVIOUS
  <2>1. Cutting
    BY DEF Next, SendWhole, Begin, Group, Split, Call, TakePieces, Alone, GiveUp, End, vars, chunkVars
  <2>2. rest' = From(rest, cut)
    BY <2>1 DEF Cutting, ChunkString, Whole, Cut, Shrink, Emit, Drop, Finish, RestAfterCut
  <2>3. PICK k : Reached(k)
    BY DEF Splitting, ChunkOK
  <2>4. Trying /\ text \in Seq(Bytes)
    BY DEF Splitting, ChunkOK
  <2>5. rest \in Seq(Bytes) /\ Len(From(rest, cut)) = Len(rest) - cut
    BY <2>3, <2>4, PieceWhole
  <2> QED
    BY <2>2, <2>4, <2>5 DEF Trying
<1> QED
  BY <1>1, SplittingInit, SplittingStep, PTL DEF Spec, EveryPassShortens

-------------------------------------------------------------------------------
(* The lengths of states.                                                  *)

LEMMA ValueLenType == ASSUME NEW e, IsEntry(e) PROVE ValueLen(e.val) \in Nat
BY MarshalLenType DEF IsEntry, ValueLen

LEMMA EntryLenType == ASSUME NEW e, IsEntry(e) PROVE EntryLen(e) \in Nat
<1>1. ValueLen(e.val) \in Nat
  BY ValueLenType
<1>2. MarshalLen(e.key) \in Nat
  BY MarshalLenType DEF IsEntry
<1> QED
  BY <1>1, <1>2 DEF EntryLen

\* A set of entries.
Entries(S) == \A e \in S : IsEntry(e)

\* The lengths are added up from the first entry on.
LEMMA EntriesLenIs ==
    ASSUME NEW S, Entries(S), NEW c \in Seq(S)
    PROVE  \E f : /\ EntriesLen(c) = f[Len(c)] /\ f[0] = 0
                  /\ \A k \in 1 .. Len(c) : f[k] = f[k - 1] + EntryLen(c[k])
<1> DEFINE n == Len(c)
           g == [k \in 1 .. n |-> EntryLen(c[k])]
           sum == CHOOSE f : f = [k \in 0 .. n |-> IF k = 0 THEN 0 ELSE f[k - 1] + EntryLen(c[k])]
<1>1. n \in Nat /\ g \in [1 .. n -> Int]
  BY EntryLenType DEF Entries
<1>2. PICK f : f = [k \in 0 .. n |-> IF k = 0 THEN 0 ELSE f[k - 1] + g[k]]
  <2> HIDE DEF g, n
  <2> QED
    BY <1>1, SumExists
<1>3. \A k \in 0 .. n : k # 0 => k \in 1 .. n /\ g[k] = EntryLen(c[k])
  BY <1>1
<1>4. f = [k \in 0 .. n |-> IF k = 0 THEN 0 ELSE f[k - 1] + EntryLen(c[k])]
  <2> HIDE DEF g, n
  <2>1. \A k \in 0 .. n : f[k] = IF k = 0 THEN 0 ELSE f[k - 1] + EntryLen(c[k])
    BY <1>2, <1>3
  <2> QED
    BY <1>2, <2>1
<1>5. sum = [k \in 0 .. n |-> IF k = 0 THEN 0 ELSE sum[k - 1] + EntryLen(c[k])]
  BY <1>4, Zenon
<1>6. EntriesLen(c) = sum[n]
  BY Zenon DEF EntriesLen
<1> HIDE DEF sum, g, n
<1>7. sum[0] = 0 /\ \A k \in 1 .. n : sum[k] = sum[k - 1] + EntryLen(c[k])
  <2>1. 0 \in 0 .. n /\ \A k \in 1 .. n : k \in 0 .. n /\ k # 0
    BY <1>1
  <2>2. \A k \in 0 .. n : sum[k] = IF k = 0 THEN 0 ELSE sum[k - 1] + EntryLen(c[k])
    BY <1>5
  <2> QED
    BY <2>1, <2>2
<1> QED
  BY <1>6, <1>7 DEF n

LEMMA EntriesLenEmpty == ASSUME NEW S, Entries(S) PROVE EntriesLen(<<>>) = 0
<1>1. <<>> \in Seq(S) /\ Len(<<>>) = 0
  OBVIOUS
<1>2. PICK f : EntriesLen(<<>>) = f[Len(<<>>)] /\ f[0] = 0
  BY <1>1, EntriesLenIs, Zenon
<1> QED
  BY <1>1, <1>2

LEMMA EntriesLenAppend ==
    ASSUME NEW S, Entries(S), NEW c \in Seq(S), NEW e \in S
    PROVE  EntriesLen(Append(c, e)) = EntriesLen(c) + EntryLen(e)
<1> DEFINE d == Append(c, e)
<1>1. /\ d \in Seq(S) /\ Len(d) = Len(c) + 1 /\ d[Len(c) + 1] = e /\ Len(c) \in Nat
      /\ \A k \in 1 .. Len(c) : d[k] = c[k]
  OBVIOUS
<1> HIDE DEF d
<1>2. PICK f : /\ EntriesLen(c) = f[Len(c)] /\ f[0] = 0
               /\ \A k \in 1 .. Len(c) : f[k] = f[k - 1] + EntryLen(c[k])
  BY EntriesLenIs
<1>3. PICK g : /\ EntriesLen(d) = g[Len(d)] /\ g[0] = 0
               /\ \A k \in 1 .. Len(d) : g[k] = g[k - 1] + EntryLen(d[k])
  BY <1>1, EntriesLenIs
<1>4. \A k \in 1 .. Len(c) : f[k - 1] = g[k - 1] => f[k] = g[k]
  BY <1>1, <1>2, <1>3
<1>5. \A k \in 0 .. Len(c) : f[k] = g[k]
  <2>1. Alike(f, g, Len(c)) /\ Len(c) \in Nat
    BY <1>1, <1>2, <1>3, <1>4 DEF Alike
  <2> QED
    BY <2>1, SameSteps
<1>6. Len(c) \in 0 .. Len(c) /\ Len(c) + 1 \in 1 .. Len(d)
  BY <1>1
<1>7. g[Len(c) + 1] = g[Len(c)] + EntryLen(d[Len(c) + 1])
  BY <1>1, <1>3, <1>6
<1> QED
  BY <1>1, <1>2, <1>3, <1>5, <1>6, <1>7 DEF d

LEMMA EntriesLenType ==
    ASSUME NEW S, Entries(S), NEW c \in Seq(S)
    PROVE  EntriesLen(c) \in Int
<1>1. PICK f : /\ EntriesLen(c) = f[Len(c)] /\ f[0] = 0
               /\ \A k \in 1 .. Len(c) : f[k] = f[k - 1] + EntryLen(c[k])
  BY EntriesLenIs
<1> DEFINE Bad == {k \in 0 .. Len(c) : f[k] \notin Int}
<1>2. Bad = {}
  <2> SUFFICES ASSUME Bad # {} PROVE FALSE
    OBVIOUS
  <2>1. Bad \subseteq Nat
    OBVIOUS
  <2>2. PICK m \in Bad : \A y \in Bad : m <= y
    BY <2>1, LeastExists
  <2>3. m \in 0 .. Len(c) /\ f[m] \notin Int
    OBVIOUS
  <2>4. m # 0
    BY <1>1, <2>3
  <2>5. m \in 1 .. Len(c) /\ m - 1 \in 0 .. Len(c) /\ ~ (m <= m - 1)
    BY <2>3, <2>4
  <2>6. f[m - 1] \in Int
    BY <2>2, <2>5
  <2>7. EntryLen(c[m]) \in Int
    BY <2>5, EntryLenType DEF Entries
  <2> QED
    BY <1>1, <2>3, <2>5, <2>6, <2>7
<1>3. Len(c) \in 0 .. Len(c)
  OBVIOUS
<1> QED
  BY <1>1, <1>2, <1>3

\* One entry more makes a state that much longer.
LEMMA StateLenGrows ==
    ASSUME NEW S, Entries(S), NEW c \in Seq(S), NEW e \in S, item.type \in {"array", "object"}
    PROVE  /\ StateLen(c) \in Int /\ StateLen(Append(c, e)) \in Int
           /\ StateLen(Append(c, e)) <= StateLen(c) + EntryLen(e) + 1
           /\ StateLen(<<e>>) = IF item.type = "array" THEN EntryLen(e) + 2 ELSE EntryLen(e)
<1>1. EntriesLen(c) \in Int /\ EntryLen(e) \in Nat
  BY EntriesLenType, EntryLenType DEF Entries
<1>2. EntriesLen(Append(c, e)) = EntriesLen(c) + EntryLen(e)
  BY EntriesLenAppend
<1>3. EntriesLen(<<e>>) = EntryLen(e)
  <2>1. <<>> \in Seq(S) /\ Append(<<>>, e) = <<e>>
    OBVIOUS
  <2>2. EntriesLen(Append(<<>>, e)) = EntriesLen(<<>>) + EntryLen(e)
    BY <2>1, EntriesLenAppend
  <2> QED
    BY <1>1, <2>1, <2>2, EntriesLenEmpty
<1>4. Len(c) \in Nat /\ Len(Append(c, e)) = Len(c) + 1 /\ Len(<<e>>) = 1
  OBVIOUS
<1>5. CASE item.type = "array"
  BY <1>1, <1>2, <1>3, <1>4, <1>5 DEF StateLen
<1>6. CASE item.type = "object"
  BY <1>1, <1>2, <1>3, <1>4, <1>6 DEF StateLen
<1> QED
  BY <1>5, <1>6

-------------------------------------------------------------------------------
(* The types of the loops' variables.                                      *)

ChunkTyped ==
    /\ piece \in Seq(Bytes)
    /\ cut \in 0 .. Len(text) /\ iter \in 0 .. 65
    /\ out \in Seq(IF budget < 8 THEN Seq(Bytes) ELSE Seq(Bytes) \ {<<>>})
    /\ pc \in {"cut", "fit", "done"}

LEMMA TypedIdle == Idle => ChunkTyped
BY DEF Idle, ChunkTyped

LEMMA TypedCall ==
    ASSUME NEW t \in Seq(Bytes), NEW room, Call(t, room)
    PROVE  ChunkTyped'
BY DEF Call, ChunkTyped

LEMMA TrimmedType ==
    ASSUME NEW t \in Seq(Bytes), NEW n \in 0 .. Len(t)
    PROVE  TrimNewlines(First(t, n)) \in Seq(Bytes)
<1>1. First(t, n) \in Seq(Bytes)
  BY DEF First
<1>2. PICK m \in 0 .. Len(First(t, n)) : TrimNewlines(First(t, n)) = SubSeq(First(t, n), 1, m)
  BY <1>1, TrimmedNewlines
<1> QED
  BY <1>1, <1>2

LEMMA TypedStep == ChunkOK /\ ChunkTyped /\ ChunkString => ChunkTyped'
<1> SUFFICES ASSUME ChunkOK, ChunkTyped, ChunkString PROVE ChunkTyped'
  OBVIOUS
<1>1. PICK k : Reached(k)
  BY DEF ChunkOK
<1>2. text' = text /\ budget' = budget /\ text \in Seq(Bytes) /\ budget \in Int
  BY DEF ChunkString, Whole, Cut, Shrink, Emit, Drop, Finish, ChunkOK
<1>3. rest \in Seq(Bytes) /\ Len(rest) \in Nat /\ Len(rest) <= Len(text) /\ Len(text) \in Nat
  <2>1. k \in 0 .. Len(text) /\ rest = From(text, k)
    BY <1>1 DEF Reached
  <2>2. rest \in Seq(Bytes) /\ Len(rest) = Len(text) - k
    BY <1>2, <2>1, RestOf
  <2> QED
    BY <1>2, <2>1, <2>2
<1>4. CASE Whole
  BY <1>2, <1>4 DEF Whole, ChunkTyped
<1>5. CASE Cut
  <2>1. FirstCut \in 0 .. Len(rest)
    BY <1>1, <1>5, FirstCutInside DEF Cut, ChunkOK
  <2>2. TrimNewlines(First(rest, FirstCut)) \in Seq(Bytes) /\ FirstCut \in 0 .. Len(text)
    BY <1>3, <2>1, TrimmedType
  <2> QED
    BY <1>2, <1>5, <2>2 DEF Cut, ChunkTyped
<1>6. CASE Shrink
  <2>1. cut \in 2 .. Len(rest)
    BY <1>3, <1>6 DEF Shrink, ChunkOK, Trying
  <2>2. NextCut \in 1 .. cut
    BY <1>2, <1>3, <2>1, NextCutInside DEF ChunkTyped
  <2>3. NextCut \in 0 .. Len(rest) /\ NextCut \in 0 .. Len(text)
    BY <1>3, <2>1, <2>2
  <2>4. TrimNewlines(First(rest, NextCut)) \in Seq(Bytes)
    BY <1>3, <2>3, TrimmedType
  <2> QED
    BY <1>2, <1>6, <2>3, <2>4 DEF Shrink, ChunkTyped
<1>7. CASE Emit
  <2>1. budget >= 8
    BY <1>7 DEF Emit, ChunkOK, Trying
  <2>2. out \in Seq(Seq(Bytes) \ {<<>>})
    BY <1>2, <2>1 DEF ChunkTyped
  <2>3. out' \in Seq(Seq(Bytes) \ {<<>>})
    BY <1>7, <2>2 DEF Emit, ChunkTyped
  <2>4. (IF budget' < 8 THEN Seq(Bytes) ELSE Seq(Bytes) \ {<<>>}) = Seq(Bytes) \ {<<>>}
    BY <1>2, <2>1
  <2>5. out' \in Seq(IF budget' < 8 THEN Seq(Bytes) ELSE Seq(Bytes) \ {<<>>})
    BY <2>3, <2>4
  <2> QED
    BY <1>2, <1>7, <2>5 DEF Emit, ChunkTyped
<1>8. CASE Drop \/ Finish
  BY <1>2, <1>8 DEF Drop, Finish, ChunkTyped
<1> QED
  BY <1>4, <1>5, <1>6, <1>7, <1>8 DEF ChunkString

LEMMA TypedAtRest ==
    ASSUME ChunkOK, ChunkTyped
    PROVE  ChunkTypeOK
<1>1. PICK k \in 0 .. Len(text) : rest = From(text, k)
  BY DEF ChunkOK, Reached
<1>2. rest \in Seq(Bytes)
  BY <1>1, RestOf DEF ChunkOK
<1> QED
  BY <1>2 DEF ChunkOK, ChunkTyped, ChunkTypeOK

-------------------------------------------------------------------------------
(* The batches.                                                            *)

\* What the entries of batches are: entries of the item, and pieces of the strings in it.
Given == ToSet(item.entries)
Cuts   == {Entry(e.key, StringValue(t)) : e \in Given, t \in Seq(Bytes)}

\* A state that is sent fits the limit, or no splitting makes it fit.
Sendable(b) == StateLen(b) <= limit \/ Unfit(b)

\* The batch in hand fits, and is no longer than the code counts; what is cut is given the
\* room it has.
Batching ==
    /\ Splitting /\ ChunkTyped
    /\ limit \in Limits /\ phase \in {"begin", "group", "pieces", "done"}
    /\ at \in 1 .. Len(item.entries) + 1
    /\ chunked \in BOOLEAN /\ curLen \in Nat /\ curLen >= 2
    /\ cur \in Seq(Given)
    /\ cur # <<>> => item.type \in {"array", "object"}
    /\ \A b \in {cur} \ {<<>>} : StateLen(b) <= limit /\ StateLen(b) < curLen
    /\ phase = "pieces" => at <= Len(item.entries) /\ cur = <<>> /\ budget = Room(This)
                               /\ (item.type = "object" => Room(This) >= 8)
    /\ batches \in Seq(Seq(Given \cup Cuts))
    /\ \A b \in ToSet(batches) : Sendable(b)

LEMMA WholeEntries ==
    ASSUME Splitting
    PROVE  /\ Entries(Given \cup Cuts) /\ Entries(Given)
           /\ DOMAIN item.entries = 1 .. Len(item.entries)
           /\ \A k \in DOMAIN item.entries : item.entries[k] \in Given
<1>1. /\ DOMAIN item.entries = 1 .. Len(item.entries)
      /\ \A k \in DOMAIN item.entries : IsEntry(item.entries[k])
  BY ItemsAssumption DEF Splitting
<1>2. Given = {item.entries[k] : k \in DOMAIN item.entries}
  BY DEF Given, ToSet
<1>3. Entries(Given)
  BY <1>1, <1>2 DEF Entries
<1>4. Entries(Cuts)
  <2> SUFFICES ASSUME NEW e \in Given, NEW t \in Seq(Bytes)
               PROVE  IsEntry(Entry(e.key, StringValue(t)))
    BY DEF Entries, Cuts
  <2> QED
    BY <1>3 DEF Entries, IsEntry, Entry, StringValue, IsString
<1> QED
  BY <1>1, <1>2, <1>3, <1>4 DEF Entries

LEMMA BatchingInit == Init => Batching
<1> SUFFICES ASSUME Init PROVE Batching
  OBVIOUS
<1>1. Splitting /\ ChunkTyped
  BY SplittingInit, TypedIdle DEF Init
<1>2. 1 \in 1 .. Len(item.entries) + 1
  <2>1. Len(item.entries) \in Nat
    BY <1>1, ItemsAssumption DEF Splitting
  <2> QED
    BY <2>1
<1>3. cur = <<>> /\ batches = <<>> /\ phase = "begin" /\ at = 1 /\ curLen = 2 /\ limit \in Limits
  BY DEF Init
<1>8. chunked \in BOOLEAN
  BY Zenon DEF Init
<1>4. batches \in Seq(Seq(Given \cup Cuts)) /\ cur \in Seq(Given) /\ ToSet(batches) = {}
  BY <1>3 DEF ToSet
<1>5. {cur} \ {<<>>} = {}
  BY <1>3
<1>6. at \in 1 .. Len(item.entries) + 1 /\ curLen \in Nat /\ curLen >= 2 /\ chunked \in BOOLEAN
  BY <1>2, <1>3, <1>8
<1>7. phase \in {"begin", "group", "pieces", "done"} /\ phase # "pieces"
  BY <1>3
<1> QED
  BY <1>1, <1>3, <1>4, <1>5, <1>6, <1>7 DEF Batching

\* What does not change the item or the limit changes no length.
LEMMA LengthsStay ==
    ASSUME UNCHANGED <<item, limit>>
    PROVE  /\ \A b : StateLen(b)' = StateLen(b)
           /\ \A b : Sendable(b)' <=> Sendable(b)
           /\ Given' = Given /\ Cuts' = Cuts
           /\ \A e : Room(e)' = Room(e)
<1>1. \A c : EntriesLen(c)' = EntriesLen(c)
  BY DEF EntryLen, EntriesLen
<1>2. \A b : StateLen(b)' = StateLen(b)
  BY <1>1 DEF StateLen
<1>3. \A e : Room(e)' = Room(e)
  BY DEF Room
<1>4. \A b : Sendable(b)' <=> Sendable(b)
  BY <1>2, <1>3 DEF Sendable, Unfit
<1>5. Given' = Given /\ Cuts' = Cuts
  BY DEF Given, Cuts
<1> QED
  BY <1>2, <1>3, <1>4, <1>5

LEMMA ToSetAppend ==
    ASSUME NEW S, NEW s \in Seq(S), NEW e
    PROVE  ToSet(Append(s, e)) = ToSet(s) \cup {e}
<1>1. /\ DOMAIN Append(s, e) = 1 .. Len(s) + 1 /\ Append(s, e)[Len(s) + 1] = e
      /\ \A i \in 1 .. Len(s) : Append(s, e)[i] = s[i]
      /\ DOMAIN s = 1 .. Len(s) /\ Len(s) \in Nat
  OBVIOUS
<1>2. \A i \in 1 .. Len(s) + 1 : i \in 1 .. Len(s) \/ i = Len(s) + 1
  BY <1>1
<1>3. Len(s) + 1 \in 1 .. Len(s) + 1 /\ \A i \in 1 .. Len(s) : i \in 1 .. Len(s) + 1
  BY <1>1
<1> QED
  BY <1>1, <1>2, <1>3, Zenon DEF ToSet

\* The batch in hand is sent as it is.
LEMMA FlushedSendable ==
    ASSUME Batching
    PROVE  /\ Flushed \in Seq(Seq(Given \cup Cuts))
           /\ \A b \in ToSet(Flushed) : Sendable(b)
<1>1. cur \in Seq(Given \cup Cuts) /\ batches \in Seq(Seq(Given \cup Cuts))
  BY DEF Batching
<1>2. CASE cur = <<>>
  BY <1>1, <1>2 DEF Flushed, Batching
<1>3. CASE cur # <<>>
  <2>1. Sendable(cur)
    BY <1>3 DEF Batching, Sendable
  <2>2. ToSet(Append(batches, cur)) = ToSet(batches) \cup {cur}
    BY <1>1, ToSetAppend
  <2> QED
    BY <1>1, <1>3, <2>1, <2>2 DEF Flushed, Batching
<1> QED
  BY <1>2, <1>3

\* A piece is sent with what goes around it, by itself.
LEMMA PieceSendable ==
    ASSUME Batching, phase = "pieces", NEW k \in DOMAIN out
    PROVE  /\ <<Entry(This.key, StringValue(out[k]))>> \in Seq(Given \cup Cuts)
           /\ Sendable(<<Entry(This.key, StringValue(out[k]))>>)
<1> DEFINE p == Entry(This.key, StringValue(out[k]))
<1>1. /\ Splitting /\ at \in DOMAIN item.entries /\ budget = Room(This)
      /\ out[k] \in Seq(Bytes) /\ budget \in Int /\ limit \in Int
      /\ budget >= 8 => MarshalLen(out[k]) <= budget
  <2>1. Splitting /\ ChunkOK
    BY DEF Batching, Splitting
  <2>2. at \in DOMAIN item.entries
    BY <2>1, WholeEntries DEF Batching
  <2> QED
    BY <2>1, <2>2 DEF Batching, Splitting, ChunkOK, PiecesFit
<1>2. This \in Given /\ IsEntry(This) /\ item.type \in {"string", "array", "object"}
  BY <1>1, WholeEntries, ItemsAssumption DEF This, Entries, Splitting
<1>3. p \in Cuts /\ IsEntry(p)
  BY <1>1, <1>2, WholeEntries DEF Cuts, Entries
<1>4. p.key = This.key /\ p.val.text = out[k] /\ IsString(p.val) /\ ValueLen(p.val) = MarshalLen(out[k])
  BY DEF Entry, StringValue, IsString, ValueLen
<1>5. Room(p) = budget
  BY <1>1, <1>4 DEF Room
<1>6. MarshalLen(out[k]) \in Nat /\ MarshalLen(This.key) \in Nat /\ Len(This.key) \in Nat
  BY <1>1, <1>2, MarshalLenType DEF IsEntry
<1> HIDE DEF p
<1>7. <<p>> \in Seq(Given \cup Cuts) /\ Len(<<p>>) = 1 /\ <<p>>[1] = p
  BY <1>3
<1>8. /\ item.type = "array" => StateLen(<<p>>) = EntryLen(p) + 2
      /\ item.type = "object" => StateLen(<<p>>) = EntryLen(p)
  <2>1. <<>> \in Seq(Given \cup Cuts) /\ p \in Given \cup Cuts /\ Entries(Given \cup Cuts)
    BY <1>1, <1>3, WholeEntries
  <2> QED
    BY <2>1, StateLenGrows
<1>9. CASE budget < 8
  BY <1>5, <1>7, <1>9 DEF Sendable, Unfit, p
<1>10. CASE budget >= 8 /\ item.type = "string"
  <2>1. StateLen(<<p>>) = MarshalLen(out[k])
    BY <1>4, <1>7, <1>10 DEF StateLen
  <2>2. budget = limit
    BY <1>1, <1>10 DEF Room
  <2> QED
    BY <1>1, <1>7, <1>10, <2>1, <2>2 DEF Sendable, p
<1>11. CASE budget >= 8 /\ item.type = "array"
  <2>1. EntryLen(p) = MarshalLen(out[k]) /\ budget = limit - 2
    BY <1>1, <1>4, <1>11 DEF EntryLen, Room
  <2>2. StateLen(<<p>>) <= limit
    BY <1>1, <1>6, <1>8, <1>11, <2>1
  <2> QED
    BY <1>7, <2>2 DEF Sendable, p
<1>12. CASE budget >= 8 /\ item.type = "object"
  <2>1. EntryLen(p) = MarshalLen(This.key) + MarshalLen(out[k]) + 3 /\ budget = limit - Len(This.key) - 7
    BY <1>1, <1>4, <1>12 DEF EntryLen, Room
  <2>2. KeyEscapes(p) = MarshalLen(This.key) - Len(This.key) - 2
    BY <1>4 DEF KeyEscapes
  <2>3. CASE KeyEscapes(p) > 2
    BY <1>7, <1>12, <2>3 DEF Sendable, Unfit, p
  <2>4. CASE ~ (KeyEscapes(p) > 2)
    <3>1. StateLen(<<p>>) <= limit
      BY <1>1, <1>6, <1>8, <1>12, <2>1, <2>2, <2>4
    <3> QED
      BY <1>7, <3>1 DEF Sendable, p
  <2> QED
    BY <2>3, <2>4
<1> QED
  BY <1>1, <1>2, <1>9, <1>10, <1>11, <1>12

\* An entry that is not too large keeps the batch within the limit, or begins one.
LEMMA GroupFits ==
    ASSUME Batching, Group
    PROVE  /\ cur' \in Seq(Given) /\ cur' # <<>> /\ curLen' \in Nat /\ curLen' >= 2
           /\ item.type \in {"array", "object"}
           /\ StateLen(cur') <= limit /\ StateLen(cur') < curLen'
           /\ batches' \in Seq(Seq(Given \cup Cuts))
           /\ \A b \in ToSet(batches') : Sendable(b)
<1> DEFINE e    == This
           size == EntryLen(e) + 1
<1>1. Splitting /\ Entries(Given) /\ limit \in Int /\ curLen \in Nat /\ curLen >= 2 /\ cur \in Seq(Given)
  BY WholeEntries DEF Batching, Splitting
<1>2. e \in Given /\ item.type \in {"array", "object"}
  <2>1. at \in DOMAIN item.entries
    BY <1>1, WholeEntries DEF Batching, Group, Grouping
  <2>2. item.type \in {"string", "array", "object"}
    BY <1>1, ItemsAssumption DEF Splitting, Group, Grouping
  <2>3. item.type # "string"
    BY DEF Group, TooBig
  <2> QED
    BY <1>1, <2>1, <2>2, <2>3, WholeEntries DEF This
<1>3. EntryLen(e) \in Nat
  BY <1>1, <1>2, EntryLenType DEF Entries
<1>4. /\ StateLen(cur) \in Int /\ StateLen(Append(cur, e)) \in Int
      /\ StateLen(Append(cur, e)) <= StateLen(cur) + EntryLen(e) + 1
      /\ StateLen(<<e>>) = IF item.type = "array" THEN EntryLen(e) + 2 ELSE EntryLen(e)
  BY <1>1, <1>2, StateLenGrows
<1>5. StateLen(<<e>>) <= limit
  <2>1. CASE item.type = "array"
    BY <1>1, <1>3, <1>4, <2>1 DEF Group, TooBig
  <2>2. CASE item.type = "object"
    BY <1>1, <1>3, <1>4, <2>2 DEF Group, TooBig
  <2> QED
    BY <1>2, <2>1, <2>2
<1> HIDE DEF e
<1>6. CASE curLen + size > limit
  <2>1. batches' = Flushed /\ cur' = <<e>> /\ curLen' = 2 + size
    BY <1>6 DEF Group, e
  <2>2. StateLen(<<e>>) < 2 + size /\ 2 + size \in Nat /\ 2 + size >= 2
    BY <1>2, <1>3, <1>4
  <2> QED
    BY <1>2, <1>5, <2>1, <2>2, FlushedSendable
<1>7. CASE ~ (curLen + size > limit)
  <2>1. batches' = batches /\ cur' = Append(cur, e) /\ curLen' = curLen + size
    BY <1>7 DEF Group, e
  <2>2. cur' \in Seq(Given) /\ cur' # <<>> /\ curLen' \in Nat /\ curLen' >= 2
    BY <1>1, <1>2, <1>3, <2>1
  <2>3. CASE cur = <<>>
    <3>1. cur' = <<e>>
      BY <2>1, <2>3
    <3>2. StateLen(<<e>>) < curLen'
      BY <1>1, <1>2, <1>3, <1>4, <2>1, <2>3
    <3> QED
      BY <1>2, <1>5, <2>1, <2>2, <3>1, <3>2 DEF Batching
  <2>4. CASE cur # <<>>
    <3>1. StateLen(cur) <= limit /\ StateLen(cur) < curLen
      BY <2>4 DEF Batching
    <3>2. StateLen(cur') < curLen' /\ StateLen(cur') <= limit
      BY <1>1, <1>3, <1>4, <1>7, <2>1, <3>1
    <3> QED
      BY <1>2, <2>1, <2>2, <3>2 DEF Batching
  <2> QED
    BY <2>3, <2>4
<1> QED
  BY <1>6, <1>7

LEMMA BatchingStep == Batching /\ [Next]_vars => Batching'
<1> SUFFICES ASSUME Batching, [Next]_vars PROVE Batching'
  OBVIOUS
<1>1. Splitting' /\ Splitting /\ ChunkOK /\ ChunkTyped
  BY SplittingStep DEF Batching, Splitting
<1>2. UNCHANGED <<item, limit>>
  BY DEF Next, SendWhole, Begin, Group, Split, TakePieces, Alone, GiveUp, End, Cutting, vars
<1>3. /\ Given' = Given /\ Cuts' = Cuts /\ \A e : Room(e)' = Room(e)
      /\ \A b : StateLen(b)' = StateLen(b) /\ (Sendable(b)' <=> Sendable(b))
  BY <1>2, LengthsStay
<1>4. UNCHANGED chunkVars => ChunkTyped'
  BY <1>1 DEF chunkVars, ChunkTyped
\* The batches stay sendable, and so does what is added to them.
<1>5. ASSUME batches' \in Seq(Seq(Given \cup Cuts)), \A b \in ToSet(batches') : Sendable(b)
      PROVE  batches' \in Seq(Seq(Given \cup Cuts))' /\ (\A b \in ToSet(batches) : Sendable(b))'
  BY <1>3, <1>5 DEF ToSet
<1>6. batches' = batches => batches' \in Seq(Seq(Given \cup Cuts)) /\ \A b \in ToSet(batches') : Sendable(b)
  BY DEF Batching
\* The batch in hand stays as it is, or begins anew.
<1>7. ASSUME \/ cur' = <<>>
             \/ UNCHANGED <<cur, curLen>>
             \/ /\ cur' \in Seq(Given) /\ item.type \in {"array", "object"}
                /\ StateLen(cur') <= limit /\ StateLen(cur') < curLen'
      PROVE  /\ cur' \in Seq(Given')
             /\ cur' # <<>> => item'.type \in {"array", "object"}
             /\ (\A b \in {cur} \ {<<>>} : StateLen(b) <= limit /\ StateLen(b) < curLen)'
  <2>1. CASE cur' = <<>>
    BY <2>1
  <2>2. CASE UNCHANGED <<cur, curLen>>
    BY <1>2, <1>3, <2>2 DEF Batching
  <2>3. CASE /\ cur' \in Seq(Given) /\ item.type \in {"array", "object"}
             /\ StateLen(cur') <= limit /\ StateLen(cur') < curLen'
    BY <1>2, <1>3, <2>3
  <2> QED
    BY <1>7, <2>1, <2>2, <2>3
\* Nothing else matters outside of chunkString.
<1>16. ASSUME phase' \in {"begin", "group", "done"}, ChunkTyped', at' \in 1 .. Len(item.entries) + 1,
              chunked' \in BOOLEAN, curLen' \in Nat, curLen' >= 2,
              batches' \in Seq(Seq(Given \cup Cuts)), \A b \in ToSet(batches') : Sendable(b),
              \/ cur' = <<>>
              \/ UNCHANGED <<cur, curLen>>
              \/ /\ cur' \in Seq(Given) /\ item.type \in {"array", "object"}
                 /\ StateLen(cur') <= limit /\ StateLen(cur') < curLen'
       PROVE  Batching'
  <2>1. limit' \in Limits
    BY <1>2 DEF Batching
  <2> QED
    BY <1>1, <1>2, <1>5, <1>7, <1>16, <2>1 DEF Batching
<1>17. at \in 1 .. Len(item.entries) + 1 /\ chunked \in BOOLEAN /\ curLen \in Nat /\ curLen >= 2
  BY DEF Batching
<1>18. ASSUME phase = "pieces", UNCHANGED <<phase, at, cur, curLen, batches, chunked, budget>>, ChunkTyped'
       PROVE  Batching'
  <2>1. This' = This
    BY <1>2, <1>18 DEF This
  <2>2. Room(This)' = Room(This)
    BY <1>2, <2>1 DEF Room
  <2> QED
    BY <1>1, <1>2, <1>5, <1>6, <1>7, <1>18, <2>1, <2>2 DEF Batching
<1>8. CASE UNCHANGED vars
  <2>1. CASE phase = "pieces"
    BY <1>4, <1>8, <1>18, <2>1 DEF vars, chunkVars
  <2>2. CASE phase # "pieces"
    <3>1. phase \in {"begin", "group", "done"}
      BY <2>2 DEF Batching
    <3> QED
      BY <1>4, <1>6, <1>8, <1>16, <1>17, <3>1 DEF vars
  <2> QED
    BY <2>1, <2>2
<1>9. CASE SendWhole \/ Begin \/ GiveUp
  BY <1>4, <1>6, <1>9, <1>16, <1>17 DEF SendWhole, Begin, GiveUp
<1>10. CASE Group
  <2>1. UNCHANGED <<chunkVars, phase, chunked>> /\ at' = at + 1 /\ phase = "group" /\ at <= Len(item.entries)
    BY <1>10 DEF Group, Grouping
  <2>2. at' \in 1 .. Len(item.entries) + 1
    BY <2>1 DEF Batching
  <2> QED
    BY <1>4, <1>10, <1>16, <1>17, <2>1, <2>2, GroupFits
<1>11. CASE Split
  <2>1. /\ This.val.text \in Seq(Bytes) /\ Call(This.val.text, Room(This))
        /\ at' = at /\ at <= Len(item.entries) /\ budget' = Room(This)
        /\ item.type = "object" => Room(This) >= 8
    <3>1. at \in DOMAIN item.entries /\ IsString(This.val)
      BY <1>1, <1>11, WholeEntries DEF Split, Grouping, Splittable, Batching
    <3>2. IsEntry(This)
      BY <1>1, <3>1, WholeEntries DEF This, Entries
    <3> QED
      BY <1>11, <3>1, <3>2 DEF Split, Grouping, Splittable, Call, IsEntry
  <2>2. ChunkTyped'
    BY <2>1, TypedCall
  <2>3. PICK e : e = This
    OBVIOUS
  <2>4. This' = e /\ Room(This)' = Room(e)
    BY <1>2, <2>1, <2>3 DEF This, Room
  <2>5. /\ batches' \in Seq(Seq(Given \cup Cuts)) /\ \A b \in ToSet(batches') : Sendable(b)
        /\ cur' = <<>> /\ curLen' = 2 /\ phase' = "pieces" /\ chunked' = chunked
    BY <1>11, FlushedSendable DEF Split
  <2> QED
    BY <1>1, <1>2, <1>5, <1>7, <2>1, <2>2, <2>3, <2>4, <2>5 DEF Batching
<1>12. CASE Cutting
  <2>1. ChunkTyped' /\ budget' = budget
    BY <1>1, <1>12, TypedStep DEF Cutting, ChunkString, Whole, Cut, Shrink, Emit, Drop, Finish
  <2>2. UNCHANGED <<phase, at, cur, curLen, batches, chunked>>
    BY <1>12 DEF Cutting
  <2>3. phase = "pieces"
    BY <1>12 DEF Cutting
  <2> QED
    BY <1>18, <2>1, <2>2, <2>3
<1>13. CASE TakePieces
  <2> DEFINE ps == [k \in DOMAIN out |-> <<Entry(This.key, StringValue(out[k]))>>]
  <2>1. /\ batches' = batches \o ps /\ phase = "pieces" /\ phase' = "group" /\ at' = at + 1
        /\ UNCHANGED <<chunkVars, cur, curLen, chunked>>
    BY <1>13 DEF TakePieces
  <2>2. out \in Seq(Seq(Bytes)) /\ DOMAIN out = 1 .. Len(out) /\ Len(out) \in Nat
    BY <1>1 DEF ChunkOK
  <2>3. \A k \in 1 .. Len(out) : ps[k] \in Seq(Given \cup Cuts) /\ Sendable(ps[k])
    BY <2>1, <2>2, PieceSendable
  <2>9. ps \in [1 .. Len(out) -> Seq(Given \cup Cuts)]
    BY <2>2, <2>3
  <2> HIDE DEF ps
  <2>4. ps \in Seq(Seq(Given \cup Cuts)) /\ Len(ps) = Len(out)
    <3> DEFINE n == Len(out)
    <3>1. n \in Nat /\ ps \in [1 .. n -> Seq(Given \cup Cuts)]
      BY <2>2, <2>9
    <3> HIDE DEF n
    <3>2. ps \in Seq(Seq(Given \cup Cuts)) /\ Len(ps) = n
      BY <3>1
    <3> QED
      BY <3>2 DEF n
  <2>5. batches \in Seq(Seq(Given \cup Cuts)) /\ \A b \in ToSet(batches) : Sendable(b)
    BY DEF Batching
  <2>6. batches \o ps \in Seq(Seq(Given \cup Cuts))
    BY <2>4, <2>5
  <2>7. ASSUME NEW b \in ToSet(batches \o ps) PROVE Sendable(b)
    <3>1. PICK i \in 1 .. Len(batches) + Len(ps) : b = (batches \o ps)[i]
      BY <2>4, <2>5, <2>6 DEF ToSet
    <3>2. CASE i \in 1 .. Len(batches)
      <4>1. b = batches[i] /\ batches[i] \in ToSet(batches)
        BY <2>4, <2>5, <3>1, <3>2 DEF ToSet
      <4> QED
        BY <2>5, <4>1
    <3>3. CASE i \notin 1 .. Len(batches)
      <4>1. i - Len(batches) \in 1 .. Len(ps) /\ b = ps[i - Len(batches)]
        BY <2>4, <2>5, <3>1, <3>3
      <4> QED
        BY <2>3, <2>4, <4>1
    <3> QED
      BY <3>2, <3>3
  <2>8. at' \in 1 .. Len(item.entries) + 1
    BY <2>1 DEF Batching
  <2> QED
    BY <1>4, <1>16, <1>17, <2>1, <2>6, <2>7, <2>8
<1>14. CASE Alone
  <2>1. /\ batches' = Append(Flushed, <<This>>) /\ cur' = <<>> /\ curLen' = 2 /\ at' = at + 1
        /\ at <= Len(item.entries) /\ ~IsString(This.val) /\ UNCHANGED <<chunkVars, phase, chunked>>
        /\ phase = "group"
    BY <1>14 DEF Alone, Grouping, Splittable
  <2>2. at \in DOMAIN item.entries
    BY <1>1, <2>1, WholeEntries DEF Batching
  <2>3. <<This>> \in Seq(Given \cup Cuts) /\ Sendable(<<This>>)
    <3>1. This \in Given
      BY <1>1, <2>2, WholeEntries DEF This
    <3> QED
      BY <2>1, <3>1 DEF Sendable, Unfit
  <2>4. batches' \in Seq(Seq(Given \cup Cuts)) /\ \A b \in ToSet(batches') : Sendable(b)
    BY <2>1, <2>3, FlushedSendable, ToSetAppend
  <2>5. at' \in 1 .. Len(item.entries) + 1
    BY <2>1 DEF Batching
  <2>6. chunked' \in BOOLEAN /\ phase' \in {"begin", "group", "done"} /\ ChunkTyped'
    BY <1>4, <1>17, <2>1
  <2>7. curLen' \in Nat /\ curLen' >= 2 /\ cur' = <<>>
    BY <2>1
  <2> QED
    BY <1>16, <2>4, <2>5, <2>6, <2>7
<1>15. CASE End
  BY <1>4, <1>15, <1>16, <1>17, FlushedSendable DEF End
<1> QED
  BY <1>8, <1>9, <1>10, <1>11, <1>12, <1>13, <1>14, <1>15 DEF Next

LEMMA BatchingFits == Batching => StatesFit
<1> SUFFICES ASSUME Batching PROVE StatesFit
  OBVIOUS
<1>1. Splitting /\ ChunkOK /\ ChunkTyped
  BY DEF Batching, Splitting
<1>2. \A b \in {item.entries, cur} \cup ToSet(batches) : \A e \in ToSet(b) : IsEntry(e)
  <2>1. Entries(Given \cup Cuts) /\ Entries(Given) /\ ToSet(item.entries) = Given
    BY <1>1, WholeEntries DEF Given
  <2>2. ToSet(cur) \subseteq Given
    BY DEF Batching, ToSet
  <2>3. \A b \in ToSet(batches) : ToSet(b) \subseteq Given \cup Cuts
    <3> SUFFICES ASSUME NEW b \in ToSet(batches) PROVE ToSet(b) \subseteq Given \cup Cuts
      OBVIOUS
    <3>1. b \in Seq(Given \cup Cuts)
      BY DEF Batching, ToSet
    <3> QED
      BY <3>1 DEF ToSet
  <2> QED
    BY <2>1, <2>2, <2>3 DEF Entries
<1>3. TypeOK
  BY <1>1, <1>2, TypedAtRest DEF TypeOK, Batching
<1> QED
  BY <1>1, <1>3 DEF StatesFit, Batching, Sendable, ChunkOK

\* Whatever an oversized item is made of, every state it is split into fits the limit, but for
\* those that no splitting makes fit, each of which is sent alone.
THEOREM StatesFitHolds == Spec => []StatesFit
BY BatchingInit, BatchingStep, BatchingFits, PTL DEF Spec

-------------------------------------------------------------------------------
(* Sequences in a row.                                                     *)

\* f[k] is the first k sequences of ss in a row.
Flattens(f, ss) == f[0] = <<>> /\ \A k \in 1 .. Len(ss) : f[k] = f[k - 1] \o ss[k]

LEMMA FlattenIs ==
    ASSUME NEW S, NEW ss \in Seq(Seq(S))
    PROVE  \E f \in [0 .. Len(ss) -> Seq(S)] : Flattens(f, ss) /\ FlattenSeq(ss) = f[Len(ss)]
<1> DEFINE n    == Len(ss)
           step == [k \in 1 .. n |-> [x \in Seq(S) |-> x \o ss[k]]]
           c    == CHOOSE f : f = [k \in 1 .. n |-> IF k = 1 THEN ss[k] ELSE f[k - 1] \o ss[k]]
<1>1. n \in Nat /\ \A k \in 1 .. n : ss[k] \in Seq(S)
  OBVIOUS
<1>2. FlattenSeq(ss) = IF n = 0 THEN ss ELSE c[n]
  BY Zenon DEF FlattenSeq
<1>3. n = 0 => ss = <<>>
  OBVIOUS
<1>4. step \in StepsOn(Seq(S), n) /\ <<>> \in Seq(S)
  BY <1>1 DEF StepsOn
<1> HIDE DEF n
<1>5. PICK f : f \in Paths(Seq(S), <<>>, n, step)
  <2> HIDE DEF step
  <2> QED
    BY <1>1, <1>4, StepsExist
<1>6. f \in [0 .. n -> Seq(S)] /\ f[0] = <<>> /\ \A k \in 1 .. n : f[k] = f[k - 1] \o ss[k]
  <2>1. f \in [0 .. n -> Seq(S)] /\ f[0] = <<>> /\ \A k \in 1 .. n : f[k] = step[k][f[k - 1]]
    BY <1>5 DEF Paths
  <2>2. ASSUME NEW k \in 1 .. n PROVE f[k] = f[k - 1] \o ss[k]
    <3>1. f[k - 1] \in Seq(S)
      <4>1. k - 1 \in 0 .. n
        BY <1>1
      <4> QED
        BY <2>1, <4>1
    <3>2. f[k] = step[k][f[k - 1]]
      BY <2>1
    <3> QED
      BY <3>1, <3>2
  <2> QED
    BY <2>1, <2>2
<1> HIDE DEF step
<1>7. CASE n = 0
  BY <1>1, <1>2, <1>3, <1>6, <1>7 DEF Flattens, n
<1>8. CASE n # 0
  <2> DEFINE g == [k \in 1 .. n |-> f[k]]
  <2>1. \A k \in 1 .. n : g[k] = IF k = 1 THEN ss[k] ELSE g[k - 1] \o ss[k]
    <3> SUFFICES ASSUME NEW k \in 1 .. n PROVE g[k] = IF k = 1 THEN ss[k] ELSE g[k - 1] \o ss[k]
      OBVIOUS
    <3>1. CASE k = 1
      <4>1. <<>> \o ss[k] = ss[k]
        BY <1>1
      <4>3. k - 1 = 0
        BY <3>1
      <4>2. f[k] = f[0] \o ss[k]
        BY <1>6, <4>3
      <4> QED
        BY <1>6, <3>1, <4>1, <4>2
    <3>2. CASE k # 1
      <4>1. k - 1 \in 1 .. n
        BY <1>1, <3>2
      <4> QED
        BY <1>6, <3>2, <4>1
    <3> QED
      BY <3>1, <3>2
  <2>2. g = [k \in 1 .. n |-> IF k = 1 THEN ss[k] ELSE g[k - 1] \o ss[k]]
    BY <2>1
  <2>3. c = [k \in 1 .. n |-> IF k = 1 THEN ss[k] ELSE c[k - 1] \o ss[k]]
    <3> HIDE DEF g
    <3> QED
      BY <2>2, Zenon
  <2> HIDE DEF c
  <2>4. \A k \in 1 .. n : c[k] = IF k = 1 THEN ss[k] ELSE c[k - 1] \o ss[k]
    BY <2>3
  <2> DEFINE d == [k \in 0 .. n |-> IF k = 0 THEN <<>> ELSE c[k]]
  <2>5. Alike(d, f, n)
    <3>1. d[0] = f[0]
      BY <1>1, <1>6
    <3>2. ASSUME NEW k \in 1 .. n, d[k - 1] = f[k - 1] PROVE d[k] = f[k]
      <4>1. d[k] = c[k] /\ f[k] = f[k - 1] \o ss[k]
        <5>1. k \in 0 .. n /\ k # 0
          BY <1>1
        <5> QED
          BY <1>6, <5>1
      <4>2. CASE k = 1
        <5>3. k - 1 = 0
          BY <4>2
        <5>1. f[k] = <<>> \o ss[k]
          BY <1>6, <4>1, <5>3
        <5>2. <<>> \o ss[k] = ss[k]
          BY <1>1
        <5> QED
          BY <2>4, <4>1, <4>2, <5>1, <5>2
      <4>3. CASE k # 1
        <5>1. k - 1 \in 1 .. n /\ k - 1 # 0 /\ k - 1 \in 0 .. n
          BY <1>1, <4>3
        <5>2. d[k - 1] = c[k - 1]
          BY <5>1
        <5> QED
          BY <2>4, <3>2, <4>1, <4>3, <5>2
      <4> QED
        BY <4>2, <4>3
    <3> HIDE DEF d
    <3> QED
      BY <3>1, <3>2 DEF Alike
  <2>6. d[n] = c[n] /\ n \in 0 .. n
    BY <1>1, <1>8
  <2>7. d[n] = f[n]
    <3> HIDE DEF d
    <3> QED
      BY <1>1, <2>5, <2>6, SameSteps
  <2> QED
    BY <1>2, <1>6, <1>8, <2>6, <2>7 DEF Flattens, n
<1> QED
  BY <1>7, <1>8

LEMMA FlattenType ==
    ASSUME NEW S, NEW ss \in Seq(Seq(S))
    PROVE  FlattenSeq(ss) \in Seq(S)
<1>1. PICK f \in [0 .. Len(ss) -> Seq(S)] : FlattenSeq(ss) = f[Len(ss)]
  BY FlattenIs
<1>2. Len(ss) \in 0 .. Len(ss)
  OBVIOUS
<1> QED
  BY <1>1, <1>2

LEMMA FlattenConcat ==
    ASSUME NEW S, NEW a \in Seq(Seq(S)), NEW b \in Seq(Seq(S))
    PROVE  FlattenSeq(a \o b) = FlattenSeq(a) \o FlattenSeq(b)
<1> DEFINE m == Len(a)
           n == Len(b)
           ab == a \o b
<1>1. /\ m \in Nat /\ n \in Nat /\ ab \in Seq(Seq(S)) /\ Len(ab) = m + n
      /\ \A k \in 1 .. m : ab[k] = a[k]
      /\ \A k \in 1 .. n : ab[m + k] = b[k] /\ b[k] \in Seq(S)
  OBVIOUS
<1> HIDE DEF ab
<1>2. PICK f \in [0 .. Len(ab) -> Seq(S)] : Flattens(f, ab) /\ FlattenSeq(ab) = f[Len(ab)]
  BY <1>1, FlattenIs
<1>3. PICK g \in [0 .. Len(a) -> Seq(S)] : Flattens(g, a) /\ FlattenSeq(a) = g[Len(a)]
  BY FlattenIs
<1>4. PICK h \in [0 .. Len(b) -> Seq(S)] : Flattens(h, b) /\ FlattenSeq(b) = h[Len(b)]
  BY FlattenIs
<1> HIDE DEF m, n
<1>5. f[m] = g[m] /\ g[m] \in Seq(S)
  <2>1. Alike(f, g, m) /\ m \in Nat
    <3>1. f[0] = <<>> /\ g[0] = <<>>
      BY <1>2, <1>3 DEF Flattens
    <3>2. ASSUME NEW k \in 1 .. m, f[k - 1] = g[k - 1] PROVE f[k] = g[k]
      <4>1. k \in 1 .. Len(ab) /\ ab[k] = a[k]
        BY <1>1
      <4>2. f[k] = f[k - 1] \o ab[k]
        BY <1>2, <4>1 DEF Flattens
      <4>3. g[k] = g[k - 1] \o a[k]
        BY <1>3 DEF Flattens, m
      <4> QED
        BY <3>2, <4>1, <4>2, <4>3
    <3> QED
      BY <1>1, <3>1, <3>2 DEF Alike
  <2>2. \A k \in 0 .. m : f[k] = g[k]
    BY <2>1, SameSteps, SMTT(60)
  <2>3. m \in 0 .. m
    BY <1>1
  <2> QED
    BY <1>3, <2>2, <2>3 DEF m
<1> DEFINE f2 == [k \in 0 .. n |-> f[m + k]]
           h2 == [k \in 0 .. n |-> g[m] \o h[k]]
<1>6. f2[0] = h2[0]
  <2>1. g[m] \o <<>> = g[m]
    BY <1>5
  <2>2. f2[0] = f[m] /\ h2[0] = g[m] \o h[0]
    <3>1. 0 \in 0 .. n /\ m + 0 = m
      BY <1>1
    <3> QED
      BY <3>1
  <2>3. h[0] = <<>>
    BY <1>4 DEF Flattens
  <2> QED
    BY <1>5, <2>1, <2>2, <2>3
<1>7. ASSUME NEW k \in 1 .. n, f2[k - 1] = h2[k - 1] PROVE f2[k] = h2[k]
  <2>1. k - 1 \in 0 .. n /\ k \in 0 .. n /\ m + k \in 1 .. m + n /\ (m + k) - 1 = m + (k - 1)
    BY <1>1
  <2>2. f2[k] = f[m + k] /\ f2[k - 1] = f[m + (k - 1)] /\ h2[k] = g[m] \o h[k] /\ h2[k - 1] = g[m] \o h[k - 1]
    BY <2>1
  <2>3. f[m + k] = f[m + (k - 1)] \o ab[m + k]
    BY <1>1, <1>2, <2>1 DEF Flattens
  <2>4. h[k] = h[k - 1] \o b[k]
    BY <1>4, <2>1 DEF Flattens, n
  <2>5. h[k - 1] \in Seq(S) /\ b[k] \in Seq(S)
    BY <1>1, <1>4, <2>1 DEF n
  <2>6. (g[m] \o h[k - 1]) \o b[k] = g[m] \o (h[k - 1] \o b[k])
    <3> DEFINE x == g[m]
               y == h[k - 1]
               z == b[k]
    <3>1. x \in Seq(S) /\ y \in Seq(S) /\ z \in Seq(S)
      BY <1>5, <2>5
    <3> HIDE DEF x, y, z
    <3>2. (x \o y) \o z = x \o (y \o z)
      BY <3>1, ConcatAssociative, SMTT(60)
    <3> QED
      BY <3>2 DEF x, y, z
  <2> HIDE DEF f2, h2
  <2> QED
    BY <1>1, <1>7, <2>2, <2>3, <2>4, <2>6
<1>8. f2[n] = h2[n]
  <2>1. f2[n] = f2[n] /\ n \in 0 .. n
    BY <1>1
  <2> HIDE DEF f2, h2
  <2>2. Alike(f2, h2, n)
    BY <1>6, <1>7 DEF Alike
  <2> QED
    BY <1>1, <2>1, <2>2, SameSteps
<1>9. f2[n] = f[m + n] /\ h2[n] = g[m] \o h[n]
  <2>1. n \in 0 .. n
    BY <1>1
  <2> QED
    BY <2>1
<1> QED
  BY <1>1, <1>2, <1>3, <1>4, <1>8, <1>9 DEF m, n, ab

LEMMA FlattenSingle ==
    ASSUME NEW S, NEW x \in Seq(S)
    PROVE  FlattenSeq(<<x>>) = x
<1>1. <<x>> \in Seq(Seq(S)) /\ Len(<<x>>) = 1 /\ <<x>>[1] = x
  OBVIOUS
<1>2. PICK f \in [0 .. Len(<<x>>) -> Seq(S)] : Flattens(f, <<x>>) /\ FlattenSeq(<<x>>) = f[Len(<<x>>)]
  BY <1>1, FlattenIs
<1>3. f[1] = f[0] \o x /\ f[0] = <<>>
  <2>1. 1 \in 1 .. Len(<<x>>) /\ 1 - 1 = 0
    BY <1>1
  <2> QED
    BY <1>1, <1>2, <2>1 DEF Flattens
<1>4. <<>> \o x = x
  OBVIOUS
<1> QED
  BY <1>1, <1>2, <1>3, <1>4

LEMMA FlattenEmpty == FlattenSeq(<<>>) = <<>>
BY DEF FlattenSeq

\* Every element of t is spelled out by m.
Spelled(m, t) == FlattenSeq([i \in DOMAIN t |-> m[t[i]]])

Spells(m, S, T) == m \in [S -> Seq(T)]

Splits(m, a, b) == Spelled(m, a \o b) = Spelled(m, a) \o Spelled(m, b)

LEMMA SpelledConcat ==
    ASSUME NEW S, NEW T, NEW m, Spells(m, S, T), NEW a \in Seq(S), NEW b \in Seq(S)
    PROVE  /\ Spelled(m, a) \in Seq(T)
           /\ Splits(m, a, b)
<1> DEFINE sa == [i \in DOMAIN a |-> m[a[i]]]
           sb == [i \in DOMAIN b |-> m[b[i]]]
           sc == [i \in DOMAIN (a \o b) |-> m[(a \o b)[i]]]
<1>1. Len(a) \in Nat /\ Len(b) \in Nat /\ DOMAIN a = 1 .. Len(a) /\ DOMAIN b = 1 .. Len(b)
      /\ a \o b \in Seq(S) /\ Len(a \o b) = Len(a) + Len(b) /\ DOMAIN (a \o b) = 1 .. Len(a) + Len(b)
  OBVIOUS
<1>0. m \in [S -> Seq(T)]
  BY DEF Spells
<1>2. sa \in Seq(Seq(T)) /\ Len(sa) = Len(a) /\ \A i \in 1 .. Len(a) : sa[i] = m[a[i]]
  <2>1. \A i \in 1 .. Len(a) : a[i] \in S
    OBVIOUS
  <2> QED
    BY <1>0, <1>1, <2>1
<1>3. sb \in Seq(Seq(T)) /\ Len(sb) = Len(b) /\ \A i \in 1 .. Len(b) : sb[i] = m[b[i]]
  <2>1. \A i \in 1 .. Len(b) : b[i] \in S
    OBVIOUS
  <2> QED
    BY <1>0, <1>1, <2>1
<1>4. sc \in Seq(Seq(T)) /\ Len(sc) = Len(a) + Len(b)
      /\ \A i \in 1 .. Len(a) + Len(b) : sc[i] = m[(a \o b)[i]]
  <2>1. \A i \in 1 .. Len(a) + Len(b) : (a \o b)[i] \in S
    BY <1>1
  <2> QED
    BY <1>0, <1>1, <2>1
<1> HIDE DEF sa, sb, sc
<1>5. sc = sa \o sb
  <2>1. sa \o sb \in Seq(Seq(T)) /\ Len(sa \o sb) = Len(a) + Len(b)
    <3>1. sa \in Seq(Seq(T)) /\ sb \in Seq(Seq(T))
      BY <1>2, <1>3
    <3>2. sa \o sb \in Seq(Seq(T)) /\ Len(sa \o sb) = Len(sa) + Len(sb)
      BY <3>1
    <3> QED
      BY <1>2, <1>3, <3>2
  <2>2. ASSUME NEW i \in 1 .. Len(a) + Len(b) PROVE sc[i] = (sa \o sb)[i]
    <3>1. CASE i <= Len(a)
      <4>1. i \in 1 .. Len(a) /\ (a \o b)[i] = a[i] /\ (sa \o sb)[i] = sa[i]
        BY <1>1, <1>2, <1>3, <3>1
      <4> QED
        BY <1>2, <1>4, <4>1
    <3>2. CASE ~ (i <= Len(a))
      <4>1. i - Len(a) \in 1 .. Len(b) /\ (a \o b)[i] = b[i - Len(a)] /\ (sa \o sb)[i] = sb[i - Len(a)]
        BY <1>1, <1>2, <1>3, <3>2
      <4> QED
        BY <1>3, <1>4, <4>1
    <3> QED
      BY <3>1, <3>2
  <2> QED
    BY <1>4, <2>1, <2>2, SeqEqual
<1>6. FlattenSeq(sa \o sb) = FlattenSeq(sa) \o FlattenSeq(sb) /\ FlattenSeq(sa) \in Seq(T)
  BY <1>2, <1>3, FlattenConcat, FlattenType
<1> QED
  BY <1>5, <1>6 DEF Spelled, Splits, sa, sb, sc

-------------------------------------------------------------------------------
(* What is left of a string without its newlines.                          *)

Letter == [b \in Bytes |-> IF b = "newline" THEN <<>> ELSE <<b>>]

LEMMA WithoutIs ==
    ASSUME NEW t \in Seq(Bytes)
    PROVE  Spells(Letter, Bytes, Bytes) /\ WithoutNewlines(t) = Spelled(Letter, t)
<1>1. Spells(Letter, Bytes, Bytes)
  BY DEF Letter, Spells
<1>2. \A i \in DOMAIN t : Letter[t[i]] = IF t[i] = "newline" THEN <<>> ELSE <<t[i]>>
  BY DEF Letter
<1>3. [i \in DOMAIN t |-> IF t[i] = "newline" THEN <<>> ELSE <<t[i]>>] = [i \in DOMAIN t |-> Letter[t[i]]]
  BY <1>2
<1> QED
  BY <1>1, <1>3 DEF WithoutNewlines, Spelled

\* Newlines are left out of the parts as they are of the whole.
LEMMA WithoutConcat ==
    ASSUME NEW a \in Seq(Bytes), NEW b \in Seq(Bytes)
    PROVE  /\ WithoutNewlines(a) \in Seq(Bytes)
           /\ WithoutNewlines(a \o b) = WithoutNewlines(a) \o WithoutNewlines(b)
<1>1. Spells(Letter, Bytes, Bytes) /\ a \o b \in Seq(Bytes)
  BY WithoutIs
<1>2. /\ WithoutNewlines(a) = Spelled(Letter, a)
      /\ WithoutNewlines(b) = Spelled(Letter, b)
      /\ WithoutNewlines(a \o b) = Spelled(Letter, a \o b)
  BY <1>1, WithoutIs
<1>3. /\ Spelled(Letter, a) \in Seq(Bytes)
      /\ Splits(Letter, a, b)
  BY <1>1, SpelledConcat
<1> QED
  BY <1>2, <1>3 DEF Splits

LEMMA WithoutNone ==
    ASSUME NEW t \in Seq({"newline"})
    PROVE  WithoutNewlines(t) = <<>>
<1> DEFINE ss == [i \in DOMAIN t |-> IF t[i] = "newline" THEN <<>> ELSE <<t[i]>>]
           z  == [k \in 0 .. Len(ss) |-> <<>>]
<1>1. ss \in Seq(Seq(Bytes)) /\ Len(ss) \in Nat /\ \A i \in 1 .. Len(ss) : ss[i] = <<>>
  <2>1. Len(t) \in Nat /\ DOMAIN t = 1 .. Len(t) /\ \A i \in 1 .. Len(t) : t[i] = "newline"
    OBVIOUS
  <2>2. ss = [i \in 1 .. Len(t) |-> <<>>]
    BY <2>1
  <2>3. <<>> \in Seq(Bytes)
    OBVIOUS
  <2> QED
    BY <2>1, <2>2, <2>3
<1>2. WithoutNewlines(t) = FlattenSeq(ss)
  BY DEF WithoutNewlines
<1> HIDE DEF ss
<1>3. PICK f \in [0 .. Len(ss) -> Seq(Bytes)] : Flattens(f, ss) /\ FlattenSeq(ss) = f[Len(ss)]
  BY <1>1, FlattenIs
<1>4. Alike(f, z, Len(ss)) /\ Len(ss) \in Nat
  <2>1. f[0] = <<>> /\ z[0] = <<>>
    BY <1>1, <1>3 DEF Flattens
  <2>2. ASSUME NEW k \in 1 .. Len(ss), f[k - 1] = z[k - 1] PROVE f[k] = z[k]
    <3>1. k - 1 \in 0 .. Len(ss) /\ k \in 0 .. Len(ss)
      BY <1>1
    <3>2. z[k - 1] = <<>> /\ z[k] = <<>>
      BY <3>1
    <3>3. f[k] = f[k - 1] \o ss[k] /\ ss[k] = <<>>
      BY <1>1, <1>3 DEF Flattens
    <3>4. <<>> \o <<>> = <<>>
      OBVIOUS
    <3> QED
      BY <2>2, <3>2, <3>3, <3>4
  <2> QED
    BY <1>1, <2>1, <2>2 DEF Alike
<1>5. f[Len(ss)] = z[Len(ss)] /\ z[Len(ss)] = <<>>
  <2>1. Len(ss) \in 0 .. Len(ss)
    BY <1>1
  <2>2. z[Len(ss)] = <<>>
    BY <2>1
  <2> HIDE DEF z
  <2>3. \A k \in 0 .. Len(ss) : f[k] = z[k]
    BY <1>4, SameSteps
  <2> QED
    BY <2>1, <2>2, <2>3
<1> QED
  BY <1>2, <1>3, <1>5

LEMMA TrimKeeps ==
    ASSUME NEW t \in Seq(Bytes)
    PROVE  TrimNewlines(t) \in Seq(Bytes) /\ WithoutNewlines(TrimNewlines(t)) = WithoutNewlines(t)
<1>1. PICK m \in 0 .. Len(t) : /\ TrimNewlines(t) = SubSeq(t, 1, m)
                               /\ \A i \in m + 1 .. Len(t) : t[i] = "newline"
  BY TrimmedNewlines
<1> DEFINE a == SubSeq(t, 1, m)
           b == SubSeq(t, m + 1, Len(t))
<1>2. a \in Seq(Bytes) /\ b \in Seq(Bytes) /\ b \in Seq({"newline"})
  <2>1. a \in Seq(Bytes) /\ b \in Seq(Bytes)
    OBVIOUS
  <2>2. m + 1 \in Int /\ Len(t) \in Int /\ \A i \in m + 1 .. Len(t) : t[i] \in {"newline"}
    BY <1>1
  <2>3. b \in Seq({"newline"})
    BY <2>2, SubSeqProperties
  <2> QED
    BY <2>1, <2>3
<1>3. t = a \o b
  <2>1. 1 \in 1 .. Len(t) + 1 /\ m \in 1 - 1 .. Len(t) /\ Len(t) \in m .. Len(t)
    OBVIOUS
  <2>2. a \o b = SubSeq(t, 1, Len(t))
    BY <2>1, ConcatAdjacentSubSeq
  <2> QED
    BY <2>2, SubSeqFull
<1> HIDE DEF a, b
<1>4. WithoutNewlines(a \o b) = WithoutNewlines(a) \o WithoutNewlines(b) /\ WithoutNewlines(a) \in Seq(Bytes)
  BY <1>2, WithoutConcat
<1>5. WithoutNewlines(b) = <<>>
  BY <1>2, WithoutNone
<1>6. WithoutNewlines(a) \o <<>> = WithoutNewlines(a)
  BY <1>4
<1>7. TrimNewlines(t) = a
  BY <1>1 DEF a
<1> QED
  BY <1>2, <1>3, <1>4, <1>5, <1>6, <1>7

-------------------------------------------------------------------------------
(* The inner loop finds a piece that fits.                                 *)

\* A rune takes at most eight bytes of JSON.
LEMMA OneRune ==
    ASSUME NEW u \in Seq(Bytes), Stray(u) = {}, \A i \in 2 .. Len(u) : ~RuneStart(u[i])
    PROVE  MarshalLen(TrimNewlines(u)) <= 8
<1>1. PICK m \in 0 .. Len(u) : /\ TrimNewlines(u) = SubSeq(u, 1, m)
                               /\ m # Len(u) => u[m + 1] = "newline"
  BY TrimmedNewlines
<1> DEFINE Escaped(t) == {i \in DOMAIN t : t[i] = "escaped"} \cup Stray(t)
           Newline(t) == {i \in DOMAIN t : t[i] = "newline"}
<1>2. Cardinality({}) = 0 /\ \A x : Cardinality({x}) = 1
  BY FS_EmptySet, FS_Singleton
<1>3. CASE m = 0
  <2>1. TrimNewlines(u) = <<>>
    BY <1>1, <1>3
  <2>2. Escaped(<<>>) = {} /\ Newline(<<>>) = {} /\ Len(<<>>) = 0
    BY DEF Stray
  <2>3. MarshalLen(<<>>) = 2 + Len(<<>>) + 5 * Cardinality(Escaped(<<>>)) + Cardinality(Newline(<<>>))
    BY Zenon DEF MarshalLen
  <2> HIDE DEF Escaped, Newline
  <2>4. Cardinality(Escaped(<<>>)) = 0 /\ Cardinality(Newline(<<>>)) = 0
    BY <1>2, <2>2, Zenon
  <2>5. MarshalLen(<<>>) = 2 + 0 + 5 * 0 + 0
    BY <2>2, <2>3, <2>4, Zenon
  <2> QED
    BY <2>1, <2>5
<1>4. CASE m # 0
  <2>1. m = Len(u)
    <3> SUFFICES ASSUME m # Len(u) PROVE FALSE
      OBVIOUS
    <3>1. m + 1 \in 2 .. Len(u)
      BY <1>4
    <3> QED
      BY <1>1, <3>1 DEF RuneStart
  <2>2. TrimNewlines(u) = u
    BY <1>1, <2>1
  <2>3. CASE Len(u) = 1
    <3>1. \/ Escaped(u) = {} /\ Newline(u) \in {{}, {1}}
          \/ Escaped(u) = {1} /\ Newline(u) = {}
      BY <2>3
    <3>2. \/ Cardinality(Escaped(u)) = 0 /\ Cardinality(Newline(u)) \in {0, 1}
          \/ Cardinality(Escaped(u)) = 1 /\ Cardinality(Newline(u)) = 0
      BY <1>2, <3>1
    <3> HIDE DEF Escaped, Newline
    <3>3. MarshalLen(u) = 2 + 1 + 5 * Cardinality(Escaped(u)) + Cardinality(Newline(u))
      BY <2>3 DEF MarshalLen, Escaped, Newline
    <3> QED
      BY <2>2, <3>2, <3>3
  <2>4. CASE Len(u) # 1
    <3>1. Len(u) \in Nat /\ Len(u) >= 2 /\ Len(u) \in DOMAIN u
      BY <1>4, <2>1, <2>4
    <3>2. PICK j \in 1 .. Len(u) : j >= Len(u) - 3 /\ WholeRune(u, j) /\ Len(u) < j + RuneLen(u[j])
      BY <3>1, InRune
    <3>3. j = 1
      BY <3>2 DEF WholeRune
    <3>4. Len(u) <= 4 /\ u[1] \in {"lead2", "lead4"}
      BY <3>1, <3>2, <3>3 DEF RuneLen
    <3>5. Escaped(u) = {} /\ Newline(u) = {}
      <4>1. \A i \in DOMAIN u : i = 1 \/ i \in 2 .. Len(u)
        OBVIOUS
      <4>2. \A i \in DOMAIN u : u[i] # "escaped" /\ u[i] # "newline"
        BY <3>4, <4>1 DEF RuneStart
      <4> QED
        BY <4>2
    <3> HIDE DEF Escaped, Newline
    <3>6. MarshalLen(u) = 2 + Len(u) + 5 * Cardinality(Escaped(u)) + Cardinality(Newline(u))
      BY DEF MarshalLen, Escaped, Newline
    <3> QED
      BY <1>2, <2>2, <3>1, <3>4, <3>5, <3>6
  <2> QED
    BY <2>3, <2>4
<1> QED
  BY <1>3, <1>4

\* The loop finds no smaller cut only if there is one rune before it.
LEMMA NextCutStuck ==
    ASSUME rest \in Seq(Bytes), piece \in Seq(Bytes), budget \in Int, cut \in 2 .. Len(rest),
           NextCut = cut
    PROVE  \A i \in 2 .. cut : ~RuneStart(rest[i])
<1> DEFINE guess == (cut * budget) \div MarshalLen(piece)
           less  == IF guess < 1 \/ guess >= cut THEN cut - 1 ELSE guess
           found == RuneCut(rest, less)
           T     == {cut} \cup {i \in 1 .. cut - 1 : RuneStart(rest[i + 1])}
<1>1. guess \in Int
  <2>1. MarshalLen(piece) \in Nat \ {0}
    BY MarshalLenType
  <2>2. cut * budget \in Int
    OBVIOUS
  <2> QED
    BY <2>1, <2>2
<1> HIDE DEF guess
<1>2. less \in 1 .. cut - 1
  BY <1>1
<1> HIDE DEF less
<1>3. less \in 0 .. Len(rest) - 1
  BY <1>2
<1>4. found \in 0 .. less
  BY <1>3, RuneCutRange
<1>5. \A y \in T : Min(T) <= y
  <2>1. T \subseteq Nat /\ T # {}
    OBVIOUS
  <2> QED
    BY <2>1, MinOf
<1>6. NextCut = IF found # 0 THEN found ELSE Min(T)
  BY DEF NextCut, guess, less
<1>7. Min(T) = cut
  <2> HIDE DEF found, T
  <2> QED
    BY <1>2, <1>4, <1>6
<1>8. ASSUME NEW i \in 2 .. cut, RuneStart(rest[i]) PROVE FALSE
  <2>1. i - 1 \in 1 .. cut - 1 /\ (i - 1) + 1 = i /\ ~ (cut <= i - 1)
    OBVIOUS
  <2>2. i - 1 \in T
    BY <1>8, <2>1
  <2> QED
    BY <1>5, <1>7, <2>1, <2>2
<1> QED
  BY <1>8

\* The loop does not give up the piece of a valid string before its cap.
LEMMA NoGivingUp ==
    ASSUME text \in Seq(Bytes), budget \in Int, NEW k, Reached(k), Trying, Valid, ~Fits
    PROVE  cut > 1 /\ NextCut < cut
<1>1. /\ rest \in Seq(Bytes) /\ piece \in Seq(Bytes)
      /\ k + cut \in 0 .. Len(text) /\ Boundary(text, k + cut)
  BY PieceWhole
<1>2. k \in 0 .. Len(text) /\ rest = From(text, k) /\ Boundary(text, k)
  BY DEF Reached
<1>3. Len(rest) = Len(text) - k /\ cut \in 1 .. Len(rest) /\ budget >= 8
  BY <1>2, RestOf, SMTT(60) DEF Trying
<1> DEFINE u == First(rest, cut)
<1>4. u \in Seq(Bytes) /\ Len(u) = cut /\ \A i \in 1 .. cut : u[i] = rest[i]
  BY <1>1, <1>3 DEF First
<1>5. Stray(u) = {}
  <2>1. u = SubSeq(text, k + 1, k + cut)
    <3>1. cut \in 0 .. Len(text) - k
      BY <1>2, <1>3
    <3> QED
      BY <1>2, <3>1, RestOf
  <2>2. k + cut \in k .. Len(text)
    BY <1>1, <1>2, <1>3
  <2> HIDE DEF u
  <2> QED
    BY <1>1, <1>2, <2>1, <2>2, PartWhole DEF Valid
<1>6. piece = TrimNewlines(u)
  BY DEF Trying
<1> HIDE DEF u
<1>7. ~ (\A i \in 2 .. cut : ~RuneStart(rest[i]))
  <2> SUFFICES ASSUME \A i \in 2 .. cut : ~RuneStart(rest[i]) PROVE FALSE
    OBVIOUS
  <2>1. \A i \in 2 .. Len(u) : ~RuneStart(u[i])
    BY <1>3, <1>4
  <2>2. MarshalLen(piece) <= 8
    BY <1>4, <1>5, <1>6, <2>1, OneRune
  <2>3. MarshalLen(piece) \in Nat
    BY <1>1, MarshalLenType
  <2> QED
    BY <1>3, <2>2, <2>3 DEF Fits
<1>8. cut \in 2 .. Len(rest)
  BY <1>3, <1>7
<1>9. NextCut \in 1 .. cut
  BY <1>1, <1>8, NextCutInside
<1>10. NextCut # cut
  BY <1>1, <1>7, <1>8, NextCutStuck
<1> QED
  BY <1>8, <1>9, <1>10

-------------------------------------------------------------------------------
(* The pieces keep the string.                                             *)

\* The pieces and the rest are the string; at the end, the pieces are.
Kept ==
    Valid => WithoutNewlines(FlattenSeq(out)) \o (IF pc = "done" THEN <<>> ELSE WithoutNewlines(rest))
                 = WithoutNewlines(text)

LEMMA WithoutEmpty == WithoutNewlines(<<>>) = <<>>
<1>1. <<>> \in Seq({"newline"})
  OBVIOUS
<1> QED
  BY <1>1, WithoutNone, Zenon

LEMMA KeptIdle == Idle => Kept
<1>1. FlattenSeq(<<>>) = <<>> /\ WithoutNewlines(<<>>) = <<>>
  BY FlattenEmpty, WithoutEmpty
<1>2. <<>> \o <<>> = <<>>
  OBVIOUS
<1> QED
  BY <1>1, <1>2 DEF Idle, Kept

LEMMA KeptCalled ==
    ASSUME NEW t \in Seq(Bytes), NEW room, Call(t, room)
    PROVE  Kept'
<1>1. FlattenSeq(<<>>) = <<>> /\ WithoutNewlines(<<>>) = <<>>
  BY FlattenEmpty, WithoutEmpty
<1>2. WithoutNewlines(t) \in Seq(Bytes)
  BY WithoutConcat
<1>3. <<>> \o WithoutNewlines(t) = WithoutNewlines(t)
  BY <1>2
<1> QED
  BY <1>1, <1>3 DEF Call, Kept

\* The string is cut in two, and only newlines are trimmed off the piece.
LEMMA CutKeeps ==
    ASSUME rest \in Seq(Bytes), Trying
    PROVE  WithoutNewlines(rest) = WithoutNewlines(piece) \o WithoutNewlines(From(rest, cut))
<1> DEFINE u == First(rest, cut)
           v == From(rest, cut)
<1>1. cut \in 0 .. Len(rest) /\ piece = TrimNewlines(u)
  BY DEF Trying
<1>2. u \in Seq(Bytes) /\ v \in Seq(Bytes)
  BY <1>1 DEF First, From
<1>3. rest = u \o v
  <2>1. 1 \in 1 .. Len(rest) + 1 /\ cut \in 1 - 1 .. Len(rest) /\ Len(rest) \in cut .. Len(rest)
    BY <1>1
  <2>2. u \o v = SubSeq(rest, 1, Len(rest))
    BY <2>1, ConcatAdjacentSubSeq DEF First, From
  <2> QED
    BY <2>2, SubSeqFull
<1> HIDE DEF u, v
<1>4. WithoutNewlines(u \o v) = WithoutNewlines(u) \o WithoutNewlines(v)
  BY <1>2, WithoutConcat
<1>5. WithoutNewlines(piece) = WithoutNewlines(u)
  BY <1>1, <1>2, TrimKeeps
<1> QED
  BY <1>3, <1>4, <1>5 DEF v

\* The cap of the inner loop is not reached.
LEMMA KeptStep == ChunkOK /\ ChunkTyped /\ Kept /\ InTime /\ ChunkString => Kept'
<1> SUFFICES ASSUME ChunkOK, ChunkTyped, Kept, InTime, ChunkString, Valid PROVE Kept'
  BY DEF ChunkString, Whole, Cut, Shrink, Emit, Drop, Finish, Valid, Kept
<1>1. PICK k : Reached(k)
  BY DEF ChunkOK
<1>2. text' = text /\ text \in Seq(Bytes) /\ budget \in Int /\ out \in Seq(Seq(Bytes))
  BY DEF ChunkString, Whole, Cut, Shrink, Emit, Drop, Finish, ChunkOK
<1>3. rest \in Seq(Bytes)
  BY <1>1, <1>2, RestOf DEF Reached
<1> DEFINE W(t) == WithoutNewlines(t)
<1>4. FlattenSeq(out) \in Seq(Bytes) /\ W(FlattenSeq(out)) \in Seq(Bytes) /\ W(text) \in Seq(Bytes)
      /\ W(rest) \in Seq(Bytes)
  <2>1. FlattenSeq(out) \in Seq(Bytes)
    BY <1>2, FlattenType
  <2> QED
    BY <1>2, <1>3, <2>1, WithoutConcat
<1>5. CASE Whole
  <2>1. FlattenSeq(<<text>>) = text
    BY <1>2, FlattenSingle
  <2>2. W(text) \o <<>> = W(text)
    BY <1>4
  <2> QED
    BY <1>5, <2>1, <2>2 DEF Whole, Kept
<1>6. CASE Cut \/ Shrink
  BY <1>6 DEF Cut, Shrink, Kept
<1>7. CASE Emit
  <2>1. piece \in Seq(Bytes) /\ Trying
    BY <1>1, <1>2, <1>7, PieceWhole DEF Emit, ChunkOK
  <2>2. W(rest) = W(piece) \o W(From(rest, cut))
    BY <1>3, <2>1, CutKeeps
  <2>3. W(FlattenSeq(out')) = W(FlattenSeq(out)) \o W(piece)
    <3>1. CASE piece = <<>>
      <4>1. out' = out /\ W(piece) = <<>>
        BY <1>7, <3>1, WithoutEmpty DEF Emit
      <4>2. W(FlattenSeq(out)) \o <<>> = W(FlattenSeq(out))
        BY <1>4
      <4> QED
        BY <4>1, <4>2
    <3>2. CASE piece # <<>>
      <4>1. out' = out \o <<piece>> /\ <<piece>> \in Seq(Seq(Bytes))
        BY <1>2, <1>7, <2>1, <3>2, AppendIsConcat DEF Emit
      <4>2. FlattenSeq(out \o <<piece>>) = FlattenSeq(out) \o FlattenSeq(<<piece>>)
        BY <1>2, <4>1, FlattenConcat
      <4>3. FlattenSeq(<<piece>>) = piece
        BY <2>1, FlattenSingle
      <4>4. W(FlattenSeq(out) \o piece) = W(FlattenSeq(out)) \o W(piece)
        BY <1>4, <2>1, WithoutConcat
      <4> QED
        BY <4>1, <4>2, <4>3, <4>4
    <3> QED
      BY <3>1, <3>2
  <2>4. (W(FlattenSeq(out)) \o W(piece)) \o W(From(rest, cut)) = W(FlattenSeq(out)) \o (W(piece) \o W(From(rest, cut)))
    <3> DEFINE x == W(FlattenSeq(out))
               y == W(piece)
               z == W(From(rest, cut))
    <3>1. cut \in 0 .. Len(rest)
      BY <2>1 DEF Trying
    <3>2. From(rest, cut) \in Seq(Bytes)
      BY <1>3, <3>1 DEF From
    <3>3. x \in Seq(Bytes) /\ y \in Seq(Bytes) /\ z \in Seq(Bytes)
      BY <1>4, <2>1, <3>2, WithoutConcat
    <3> HIDE DEF x, y, z
    <3>4. (x \o y) \o z = x \o (y \o z)
      BY <3>3, ConcatAssociative
    <3> QED
      BY <3>4 DEF x, y, z
  <2>5. rest' = From(rest, cut) /\ pc' = "cut" /\ pc = "fit"
    BY <1>7 DEF Emit, RestAfterCut
  <2>6. W(FlattenSeq(out)) \o W(rest) = W(text)
    BY <2>5 DEF Kept
  <2> HIDE DEF W
  <2>7. W(FlattenSeq(out')) \o W(rest') = W(text')
    BY <1>2, <2>2, <2>3, <2>4, <2>5, <2>6
  <2> QED
    BY <2>5, <2>7 DEF Kept, W
<1>8. CASE Drop
  <2>1. Trying /\ ~Fits /\ (cut <= 1 \/ NextCut >= cut)
    BY <1>8 DEF Drop, InTime, ChunkOK, ChunkTyped
  <2>2. cut > 1 /\ NextCut < cut
    BY <1>1, <1>2, <2>1, NoGivingUp
  <2>3. cut \in Int /\ NextCut \in Int
    <3>1. cut \in 2 .. Len(rest)
      BY <1>3, <2>1, <2>2 DEF Trying
    <3>2. piece \in Seq(Bytes)
      BY <1>1, <1>2, <2>1, PieceWhole
    <3> QED
      BY <1>2, <1>3, <3>1, <3>2, NextCutInside
  <2> QED
    BY <2>1, <2>2, <2>3
<1>9. CASE Finish
  <2>1. W(<<>>) = <<>>
    BY WithoutEmpty
  <2> QED
    BY <1>9, <2>1 DEF Finish, Kept
<1> QED
  BY <1>5, <1>6, <1>7, <1>8, <1>9 DEF ChunkString

LEMMA KeptContent ==
    ASSUME ChunkOK, ChunkTyped, Kept
    PROVE  ContentKept
<1> SUFFICES ASSUME Valid, pc # "fit" PROVE ContentKept
  BY DEF ContentKept
<1>1. text \in Seq(Bytes) /\ FlattenSeq(out) \in Seq(Bytes)
  BY FlattenType DEF ChunkOK
<1>2. rest \in Seq(Bytes)
  BY <1>1, RestOf DEF ChunkOK, Reached
<1>3. WithoutNewlines(FlattenSeq(out)) \in Seq(Bytes)
  BY <1>1, WithoutConcat
<1>4. CASE pc = "cut"
  <2>1. WithoutNewlines(FlattenSeq(out) \o rest) = WithoutNewlines(FlattenSeq(out)) \o WithoutNewlines(rest)
    BY <1>1, <1>2, WithoutConcat
  <2> QED
    BY <1>4, <2>1 DEF Kept, ContentKept
<1>5. CASE pc # "cut" /\ pc = "done"
  <2>1. FlattenSeq(out) \o <<>> = FlattenSeq(out)
    BY <1>1
  <2>2. WithoutNewlines(FlattenSeq(out)) \o <<>> = WithoutNewlines(FlattenSeq(out))
    BY <1>3
  <2> QED
    BY <1>5, <2>1, <2>2 DEF Kept, ContentKept
<1> QED
  BY <1>4, <1>5 DEF ChunkTyped

-------------------------------------------------------------------------------
(* What entries say.                                                       *)

\* What entries of S may say.
Sayings(S) == {e.key : e \in S} \X (Bytes \cup {e.val : e \in S})
Saying(S)  == [e \in S |-> Said(e)]

LEMMA SaidType ==
    ASSUME NEW S, Entries(S), NEW e \in S
    PROVE  Said(e) \in Seq(Sayings(S))
<1>1. IsEntry(e)
  BY DEF Entries
<1>2. CASE IsString(e.val)
  <2> DEFINE t == WithoutNewlines(e.val.text)
  <2>1. t \in Seq(Bytes)
    BY <1>1, <1>2, WithoutConcat DEF IsEntry
  <2>2. Said(e) = Under(e.key, t)
    BY <1>2 DEF Said
  <2> HIDE DEF t
  <2>5. \A b \in Bytes : <<e.key, b>> \in Sayings(S)
    BY DEF Sayings
  <2>3. Len(t) \in Nat /\ DOMAIN t = 1 .. Len(t) /\ \A i \in 1 .. Len(t) : <<e.key, t[i]>> \in Sayings(S)
    BY <2>1, <2>5
  <2>4. [i \in 1 .. Len(t) |-> <<e.key, t[i]>>] \in Seq(Sayings(S))
    BY <2>3
  <2> QED
    BY <2>2, <2>3, <2>4 DEF Under
<1>3. CASE ~IsString(e.val)
  <2>1. Said(e) = <<<<e.key, e.val>>>> /\ <<e.key, e.val>> \in Sayings(S)
    BY <1>3 DEF Said, Sayings
  <2> QED
    BY <2>1
<1> QED
  BY <1>2, <1>3

LEMMA ContentIs ==
    ASSUME NEW S, Entries(S), NEW c \in Seq(S)
    PROVE  Spells(Saying(S), S, Sayings(S)) /\ Content(c) = Spelled(Saying(S), c)
<1>1. Spells(Saying(S), S, Sayings(S))
  BY SaidType DEF Saying, Spells
<1>2. \A i \in DOMAIN c : Saying(S)[c[i]] = Said(c[i])
  BY DEF Saying
<1>3. [i \in DOMAIN c |-> Said(c[i])] = [i \in DOMAIN c |-> Saying(S)[c[i]]]
  BY <1>2
<1> QED
  BY <1>1, <1>3 DEF Content, Spelled

LEMMA ContentConcat ==
    ASSUME NEW S, Entries(S), NEW a \in Seq(S), NEW b \in Seq(S)
    PROVE  /\ Content(a) \in Seq(Sayings(S))
           /\ Content(a \o b) = Content(a) \o Content(b)
<1>1. Spells(Saying(S), S, Sayings(S)) /\ a \o b \in Seq(S)
  BY ContentIs
<1>2. /\ Content(a) = Spelled(Saying(S), a)
      /\ Content(b) = Spelled(Saying(S), b)
      /\ Content(a \o b) = Spelled(Saying(S), a \o b)
  BY <1>1, ContentIs
<1>3. /\ Spelled(Saying(S), a) \in Seq(Sayings(S))
      /\ Splits(Saying(S), a, b)
  BY <1>1, SpelledConcat
<1> QED
  BY <1>2, <1>3 DEF Splits

LEMMA ContentEmpty == Content(<<>>) = <<>>
<1>1. [i \in DOMAIN <<>> |-> Said(<<>>[i])] = <<>>
  OBVIOUS
<1> QED
  BY <1>1, FlattenEmpty DEF Content

LEMMA ContentSingle ==
    ASSUME NEW S, Entries(S), NEW e \in S
    PROVE  Content(<<e>>) = Said(e)
<1>1. [i \in DOMAIN <<e>> |-> Said(<<e>>[i])] = <<Said(e)>>
  OBVIOUS
<1>2. FlattenSeq(<<Said(e)>>) = Said(e)
  BY SaidType, FlattenSingle
<1> QED
  BY <1>1, <1>2 DEF Content

\* The entries from here on say what this one says, and what the others do.
LEMMA ContentNext ==
    ASSUME NEW S, Entries(S), NEW c \in Seq(S), NEW k \in 1 .. Len(c)
    PROVE  /\ Content(From(c, k - 1)) = Said(c[k]) \o Content(From(c, k))
           /\ From(c, k - 1) \in Seq(S) /\ From(c, k) \in Seq(S)
<1> DEFINE r == From(c, k)
<1>1. r \in Seq(S) /\ From(c, k - 1) \in Seq(S) /\ c[k] \in S /\ <<c[k]>> \in Seq(S)
  BY DEF From
<1>2. From(c, k - 1) = <<c[k]>> \o r
  <2>1. k \in 1 .. Len(c) /\ Len(c) \in k .. Len(c) /\ (k - 1) + 1 = k
    OBVIOUS
  <2>2. SubSeq(c, k, Len(c)) = <<c[k]>> \o SubSeq(c, k + 1, Len(c))
    BY <2>1, SubSeqRecursiveFirst
  <2> QED
    BY <2>1, <2>2 DEF From
<1> HIDE DEF r
<1>3. Content(<<c[k]>> \o r) = Content(<<c[k]>>) \o Content(r)
  BY <1>1, ContentConcat
<1>4. Content(<<c[k]>>) = Said(c[k])
  BY <1>1, ContentSingle
<1> QED
  BY <1>1, <1>2, <1>3, <1>4 DEF r

LEMMA BatchesConcat ==
    ASSUME NEW S, Entries(S), NEW a \in Seq(Seq(S)), NEW b \in Seq(Seq(S))
    PROVE  /\ Content(FlattenSeq(a)) \in Seq(Sayings(S))
           /\ Content(FlattenSeq(a \o b)) = Content(FlattenSeq(a)) \o Content(FlattenSeq(b))
<1>1. FlattenSeq(a) \in Seq(S) /\ FlattenSeq(b) \in Seq(S)
  BY FlattenType
<1>2. FlattenSeq(a \o b) = FlattenSeq(a) \o FlattenSeq(b)
  BY FlattenConcat
<1>3. /\ Content(FlattenSeq(a)) \in Seq(Sayings(S))
      /\ Content(FlattenSeq(a) \o FlattenSeq(b)) = Content(FlattenSeq(a)) \o Content(FlattenSeq(b))
  BY <1>1, ContentConcat
<1> QED
  BY <1>2, <1>3

LEMMA BatchAdded ==
    ASSUME NEW S, Entries(S), NEW a \in Seq(Seq(S)), NEW b \in Seq(S)
    PROVE  Content(FlattenSeq(Append(a, b))) = Content(FlattenSeq(a)) \o Content(b)
<1>1. Append(a, b) = a \o <<b>> /\ <<b>> \in Seq(Seq(S))
  BY AppendIsConcat
<1>2. Content(FlattenSeq(a \o <<b>>)) = Content(FlattenSeq(a)) \o Content(FlattenSeq(<<b>>))
  BY <1>1, BatchesConcat
<1>3. FlattenSeq(<<b>>) = b
  BY FlattenSingle
<1> QED
  BY <1>1, <1>2, <1>3

LEMMA UnderConcat ==
    ASSUME NEW key, NEW a \in Seq(Bytes), NEW b \in Seq(Bytes)
    PROVE  Under(key, a \o b) = Under(key, a) \o Under(key, b)
<1> DEFINE T == {<<key, x>> : x \in Bytes}
           ua == Under(key, a)
           ub == Under(key, b)
           uc == Under(key, a \o b)
<1>1. ASSUME NEW t \in Seq(Bytes)
      PROVE  Under(key, t) \in Seq(T) /\ Len(Under(key, t)) = Len(t) /\ \A i \in 1 .. Len(t) : Under(key, t)[i] = <<key, t[i]>>
  <2>1. Len(t) \in Nat /\ DOMAIN t = 1 .. Len(t) /\ \A i \in 1 .. Len(t) : <<key, t[i]>> \in T
    OBVIOUS
  <2> HIDE DEF T
  <2>2. Under(key, t) = [i \in 1 .. Len(t) |-> <<key, t[i]>>]
    BY <2>1 DEF Under
  <2> QED
    BY <2>1, <2>2
<1> HIDE DEF T
<1>2. a \o b \in Seq(Bytes) /\ Len(a \o b) = Len(a) + Len(b) /\ Len(a) \in Nat /\ Len(b) \in Nat
  OBVIOUS
<1>3. /\ ua \in Seq(T) /\ Len(ua) = Len(a) /\ \A i \in 1 .. Len(a) : ua[i] = <<key, a[i]>>
      /\ ub \in Seq(T) /\ Len(ub) = Len(b) /\ \A i \in 1 .. Len(b) : ub[i] = <<key, b[i]>>
      /\ uc \in Seq(T) /\ Len(uc) = Len(a) + Len(b) /\ \A i \in 1 .. Len(a) + Len(b) : uc[i] = <<key, (a \o b)[i]>>
  BY <1>1, <1>2
<1> HIDE DEF ua, ub, uc
<1>4. ua \o ub \in Seq(T) /\ Len(ua \o ub) = Len(ua) + Len(ub)
  <2>1. ua \in Seq(T) /\ ub \in Seq(T)
    BY <1>3
  <2> QED
    BY <2>1
<1>5. ASSUME NEW i \in 1 .. Len(a) + Len(b) PROVE uc[i] = (ua \o ub)[i]
  <2>1. CASE i <= Len(a)
    <3>1. i \in 1 .. Len(a) /\ (a \o b)[i] = a[i] /\ (ua \o ub)[i] = ua[i]
      BY <1>2, <1>3, <2>1
    <3> QED
      BY <1>3, <3>1
  <2>2. CASE ~ (i <= Len(a))
    <3>1. i - Len(a) \in 1 .. Len(b) /\ (a \o b)[i] = b[i - Len(a)] /\ (ua \o ub)[i] = ub[i - Len(a)]
      BY <1>2, <1>3, <2>2
    <3> QED
      BY <1>3, <3>1
  <2> QED
    BY <2>1, <2>2
<1>6. uc = ua \o ub
  BY <1>3, <1>4, <1>5, SeqEqual
<1> QED
  BY <1>6 DEF ua, ub, uc

\* The pieces of a string, each a batch of its own, say what the string does.
Pieces(key, ts) == [k \in DOMAIN ts |-> <<Entry(key, StringValue(ts[k]))>>]

LEMMA PiecesSay ==
    ASSUME NEW key \in Seq(Bytes), NEW ts \in Seq(Seq(Bytes))
    PROVE  Content(FlattenSeq(Pieces(key, ts))) = Under(key, WithoutNewlines(FlattenSeq(ts)))
<1> DEFINE S  == {Entry(key, StringValue(t)) : t \in Seq(Bytes)}
           ps == Pieces(key, ts)
           n  == Len(ts)
<1>1. Entries(S)
  BY DEF Entries, IsEntry, Entry, StringValue, IsString
<1>2. n \in Nat /\ DOMAIN ts = 1 .. n /\ \A k \in 1 .. n : ts[k] \in Seq(Bytes)
  OBVIOUS
<1>3. ASSUME NEW t \in Seq(Bytes)
      PROVE  Entry(key, StringValue(t)) \in S /\ Said(Entry(key, StringValue(t))) = Under(key, WithoutNewlines(t))
  BY DEF Said, Entry, StringValue, IsString
<1>4. ps = [k \in 1 .. n |-> <<Entry(key, StringValue(ts[k]))>>]
  BY <1>2 DEF Pieces
<1> HIDE DEF S, n, ps
<1>5. ps \in Seq(Seq(S)) /\ Len(ps) = n /\ \A k \in 1 .. n : ps[k] = <<Entry(key, StringValue(ts[k]))>>
  <2>1. \A k \in 1 .. n : <<Entry(key, StringValue(ts[k]))>> \in Seq(S)
    BY <1>2, <1>3
  <2> QED
    BY <1>2, <1>4, <2>1
<1>6. PICK f \in [0 .. Len(ps) -> Seq(S)] : Flattens(f, ps) /\ FlattenSeq(ps) = f[Len(ps)]
  BY <1>5, FlattenIs
<1>7. PICK h \in [0 .. Len(ts) -> Seq(Bytes)] : Flattens(h, ts) /\ FlattenSeq(ts) = h[Len(ts)]
  BY FlattenIs
<1> DEFINE fc == [k \in 0 .. n |-> Content(f[k])]
           hc == [k \in 0 .. n |-> Under(key, WithoutNewlines(h[k]))]
<1>8. fc[0] = hc[0]
  <2>1. 0 \in 0 .. n /\ f[0] = <<>> /\ h[0] = <<>>
    BY <1>2, <1>6, <1>7 DEF Flattens
  <2>2. Content(<<>>) = <<>> /\ Under(key, WithoutNewlines(<<>>)) = <<>>
    BY ContentEmpty, WithoutEmpty DEF Under
  <2> QED
    BY <2>1, <2>2
<1>9. ASSUME NEW k \in 1 .. n, fc[k - 1] = hc[k - 1] PROVE fc[k] = hc[k]
  <2> DEFINE p == Entry(key, StringValue(ts[k]))
             x == f[k - 1]
             y == h[k - 1]
             t == ts[k]
  <2>1. k - 1 \in 0 .. n /\ k \in 0 .. n /\ k \in 1 .. Len(ps) /\ k \in 1 .. Len(ts)
    BY <1>2, <1>5 DEF n
  <2>2. f[k] = x \o <<p>> /\ h[k] = y \o t
    BY <1>5, <1>6, <1>7, <2>1 DEF Flattens
  <2>3. x \in Seq(S) /\ y \in Seq(Bytes) /\ t \in Seq(Bytes)
    BY <1>2, <1>5, <1>6, <1>7, <2>1 DEF n
  <2>4. p \in S /\ Said(p) = Under(key, WithoutNewlines(t))
    BY <1>3, <2>3
  <2>5. Content(x) = Under(key, WithoutNewlines(y))
    BY <1>9, <2>1
  <2>6. fc[k] = Content(f[k]) /\ hc[k] = Under(key, WithoutNewlines(h[k]))
    BY <2>1
  <2> HIDE DEF p, x, y, t, fc, hc
  <2>7. Content(x \o <<p>>) = Content(x) \o Content(<<p>>)
    <3>1. <<p>> \in Seq(S)
      BY <2>4
    <3> QED
      BY <1>1, <2>3, <3>1, ContentConcat
  <2>8. Content(<<p>>) = Said(p)
    BY <1>1, <2>4, ContentSingle
  <2>9. WithoutNewlines(y \o t) = WithoutNewlines(y) \o WithoutNewlines(t)
        /\ WithoutNewlines(y) \in Seq(Bytes) /\ WithoutNewlines(t) \in Seq(Bytes)
    BY <2>3, WithoutConcat
  <2>10. Under(key, WithoutNewlines(y) \o WithoutNewlines(t)) = Under(key, WithoutNewlines(y)) \o Under(key, WithoutNewlines(t))
    BY <2>9, UnderConcat
  <2> QED
    BY <2>2, <2>4, <2>5, <2>6, <2>7, <2>8, <2>9, <2>10
<1>10. fc[n] = hc[n]
  <2>1. n \in 0 .. n
    BY <1>2
  <2> HIDE DEF fc, hc
  <2>2. Alike(fc, hc, n)
    BY <1>8, <1>9 DEF Alike
  <2> QED
    BY <1>2, <2>1, <2>2, SameSteps
<1>11. fc[n] = Content(f[n]) /\ hc[n] = Under(key, WithoutNewlines(h[n]))
  <2>1. n \in 0 .. n
    BY <1>2
  <2> QED
    BY <2>1
<1> HIDE DEF fc, hc
<1> QED
  BY <1>5, <1>6, <1>7, <1>10, <1>11 DEF n, ps

-------------------------------------------------------------------------------
(* The batches keep the item.                                              *)

\* What the batches and the rest of the entries say.
Told == Content(FlattenSeq(batches))
            \o (IF phase = "done" THEN <<>> ELSE Content(cur))
            \o Content(From(item.entries, at - 1))

Telling ==
    /\ Batching /\ Kept
    /\ phase # "done" => chunked = FALSE
    /\ phase = "pieces" => IsString(This.val) /\ text = This.val.text
    /\ ValidItem /\ (phase = "done" => chunked) => Told = Content(item.entries)

LEMMA TellingInit == Init => Telling
<1> SUFFICES ASSUME Init PROVE Telling
  OBVIOUS
<1>1. Batching /\ Kept /\ chunked = FALSE /\ phase = "begin" /\ cur = <<>> /\ batches = <<>> /\ at = 1
  BY BatchingInit, KeptIdle DEF Init
<1>2. item.entries \in Seq(Given) /\ Entries(Given)
  BY <1>1, WholeEntries, ItemsAssumption DEF Batching, Splitting, Given
<1>3. From(item.entries, 1 - 1) = item.entries
  BY <1>2, SubSeqFull DEF From
<1>4. Content(item.entries) \in Seq(Sayings(Given))
  BY <1>2, ContentConcat
<1>5. (<<>> \o <<>>) \o Content(item.entries) = Content(item.entries)
  BY <1>4
<1>6. FlattenSeq(<<>>) = <<>> /\ Content(<<>>) = <<>>
  BY FlattenEmpty, ContentEmpty
<1>7. Told = (<<>> \o <<>>) \o Content(item.entries)
  BY <1>1, <1>3, <1>6 DEF Told
<1> QED
  BY <1>1, <1>5, <1>7 DEF Telling

Grouped(a, b, c) == (a \o b) \o c = a \o (b \o c)

Regrouped(a, b, s, c) ==
    /\ ((a \o b) \o s) \o c = (a \o b) \o (s \o c)
    /\ (a \o (b \o s)) \o c = (a \o b) \o (s \o c)

LEMMA ConcatGrouped ==
    ASSUME NEW T, NEW a \in Seq(T), NEW b \in Seq(T), NEW c \in Seq(T)
    PROVE  a \o b \in Seq(T) /\ Grouped(a, b, c)
BY ConcatAssociative DEF Grouped

LEMMA Regroup ==
    ASSUME NEW T, NEW a \in Seq(T), NEW b \in Seq(T), NEW s \in Seq(T), NEW c \in Seq(T)
    PROVE  Regrouped(a, b, s, c)
<1>1. a \o b \in Seq(T) /\ Grouped(a, b, s)
  BY ConcatGrouped
<1>2. Grouped(a \o b, s, c)
  BY <1>1, ConcatGrouped
<1> QED
  BY <1>1, <1>2 DEF Grouped, Regrouped

LEMMA NothingAdded ==
    ASSUME NEW T, NEW a \in Seq(T), NEW b \in Seq(T)
    PROVE  (a \o b) \o <<>> = a \o b /\ a \o <<>> = a
OBVIOUS

\* What the batches, the one in hand, the next entry and the others say.
LEMMA Says ==
    ASSUME Batching
    PROVE  /\ Entries(Given \cup Cuts) /\ batches \in Seq(Seq(Given \cup Cuts)) /\ cur \in Seq(Given \cup Cuts)
           /\ Flushed \in Seq(Seq(Given \cup Cuts))
           /\ Content(FlattenSeq(batches)) \in Seq(Sayings(Given \cup Cuts))
           /\ Content(cur) \in Seq(Sayings(Given \cup Cuts))
           /\ Content(FlattenSeq(Flushed)) = Content(FlattenSeq(batches)) \o Content(cur)
           /\ Content(From(item.entries, at - 1)) \in Seq(Sayings(Given \cup Cuts))
           /\ at <= Len(item.entries) =>
                 /\ This \in Given /\ IsEntry(This)
                 /\ Said(This) \in Seq(Sayings(Given \cup Cuts))
                 /\ Content(<<This>>) = Said(This)
                 /\ Content(From(item.entries, at)) \in Seq(Sayings(Given \cup Cuts))
                 /\ Content(From(item.entries, at - 1)) = Said(This) \o Content(From(item.entries, at))
<1> DEFINE S == Given \cup Cuts
<1>1. /\ Entries(S) /\ batches \in Seq(Seq(S)) /\ cur \in Seq(S) /\ Flushed \in Seq(Seq(S))
      /\ item.entries \in Seq(S) /\ at \in 1 .. Len(item.entries) + 1
  <2>1. Entries(S) /\ Splitting
    BY WholeEntries DEF Batching
  <2>2. item.entries \in Seq(Given)
    BY <2>1, ItemsAssumption DEF Splitting, Given
  <2>3. cur \in Seq(S) /\ item.entries \in Seq(S)
    BY <2>2 DEF Batching
  <2> QED
    BY <2>1, <2>3, FlushedSendable DEF Batching
<1>2. at <= Len(item.entries) => This \in Given
  <2>1. Splitting
    BY DEF Batching
  <2> QED
    BY <1>1, <2>1, WholeEntries DEF This
<1> HIDE DEF S
<1>3. Content(FlattenSeq(batches)) \in Seq(Sayings(S))
  BY <1>1, BatchesConcat
<1>4. Content(cur) \in Seq(Sayings(S))
  BY <1>1, ContentConcat
<1>5. Content(FlattenSeq(Flushed)) = Content(FlattenSeq(batches)) \o Content(cur)
  <2>1. CASE cur = <<>>
    <3>1. Content(cur) = <<>> /\ Flushed = batches
      BY <2>1, ContentEmpty DEF Flushed
    <3>2. Content(FlattenSeq(batches)) \o <<>> = Content(FlattenSeq(batches))
      BY <1>3
    <3> QED
      BY <3>1, <3>2
  <2>2. CASE cur # <<>>
    <3>1. Flushed = Append(batches, cur)
      BY <2>2 DEF Flushed
    <3> QED
      BY <1>1, <3>1, BatchAdded
  <2> QED
    BY <2>1, <2>2
<1>6. From(item.entries, at - 1) \in Seq(S)
  BY <1>1 DEF From
<1>7. Content(From(item.entries, at - 1)) \in Seq(Sayings(S))
  BY <1>1, <1>6, ContentConcat
<1>8. ASSUME at <= Len(item.entries)
      PROVE  /\ Said(This) \in Seq(Sayings(S)) /\ Content(<<This>>) = Said(This) /\ IsEntry(This)
             /\ Content(From(item.entries, at)) \in Seq(Sayings(S))
             /\ Content(From(item.entries, at - 1)) = Said(This) \o Content(From(item.entries, at))
  <2>1. at \in 1 .. Len(item.entries)
    BY <1>1, <1>8
  <2>2. This \in S
    BY <1>2, <1>8 DEF S
  <2>3. /\ Content(From(item.entries, at - 1)) = Said(item.entries[at]) \o Content(From(item.entries, at))
        /\ From(item.entries, at) \in Seq(S)
    BY <1>1, <2>1, ContentNext
  <2>4. Said(This) \in Seq(Sayings(S)) /\ Content(<<This>>) = Said(This) /\ IsEntry(This)
    BY <1>1, <2>2, SaidType, ContentSingle DEF Entries
  <2>5. Content(From(item.entries, at)) \in Seq(Sayings(S))
    BY <1>1, <2>3, ContentConcat
  <2> QED
    BY <2>3, <2>4, <2>5 DEF This
<1> QED
  BY <1>1, <1>2, <1>3, <1>4, <1>5, <1>7, <1>8 DEF S

\* The string is not cut off by its pieces.
LEMMA PiecesAdded ==
    ASSUME Telling, TakePieces, ValidItem
    PROVE  Content(FlattenSeq(batches')) = Content(FlattenSeq(batches)) \o Said(This)
<1> DEFINE ps == Pieces(This.key, out)
           S  == Given \cup Cuts
<1>1. /\ Batching /\ Kept /\ ChunkOK /\ phase = "pieces" /\ pc = "done" /\ at <= Len(item.entries)
      /\ IsString(This.val) /\ text = This.val.text /\ batches' = batches \o ps
  BY DEF Telling, TakePieces, Batching, Splitting, Pieces
<1>2. This \in Given /\ IsEntry(This) /\ Entries(S) /\ batches \in Seq(Seq(S))
  BY <1>1, Says
<1>3. This.key \in Seq(Bytes) /\ text \in Seq(Bytes) /\ out \in Seq(Seq(Bytes))
  BY <1>1, <1>2 DEF IsEntry, ChunkOK
<1>4. Valid
  <2>1. This \in ToSet(item.entries)
    BY <1>2 DEF Given
  <2> QED
    BY <1>1, <2>1 DEF ValidItem, Valid
<1>5. WithoutNewlines(FlattenSeq(out)) = WithoutNewlines(text)
  <2>1. WithoutNewlines(FlattenSeq(out)) \o <<>> = WithoutNewlines(text)
    BY <1>1, <1>4 DEF Kept
  <2>2. WithoutNewlines(FlattenSeq(out)) \in Seq(Bytes)
    BY <1>3, FlattenType, WithoutConcat
  <2> QED
    BY <2>1, <2>2
<1>6. Content(FlattenSeq(ps)) = Said(This)
  <2>1. Content(FlattenSeq(ps)) = Under(This.key, WithoutNewlines(FlattenSeq(out)))
    BY <1>3, PiecesSay
  <2> QED
    BY <1>1, <1>5, <2>1 DEF Said
<1>7. ps \in Seq(Seq(S))
  <2> DEFINE n == Len(out)
  <2>1. n \in Nat /\ DOMAIN out = 1 .. n
    BY <1>3
  <2>2. ASSUME NEW k \in 1 .. n PROVE <<Entry(This.key, StringValue(out[k]))>> \in Seq(S)
    <3>1. out[k] \in Seq(Bytes)
      BY <1>3
    <3>2. Entry(This.key, StringValue(out[k])) \in S
      BY <1>2, <3>1 DEF Cuts
    <3> QED
      BY <3>2
  <2>3. ps = [k \in 1 .. n |-> <<Entry(This.key, StringValue(out[k]))>>]
    BY <2>1 DEF Pieces
  <2> HIDE DEF n, ps, S
  <2>4. ps \in [1 .. n -> Seq(Seq(S))] \/ ps \in [1 .. n -> Seq(S)]
    BY <2>2, <2>3
  <2> QED
    BY <2>1, <2>2, <2>3
<1> HIDE DEF ps, S
<1>8. Content(FlattenSeq(batches \o ps)) = Content(FlattenSeq(batches)) \o Content(FlattenSeq(ps))
  BY <1>2, <1>7, BatchesConcat
<1> QED
  BY <1>1, <1>6, <1>8

LEMMA TellingStep == Telling /\ InTime /\ [Next]_vars => Telling'
<1> SUFFICES ASSUME Telling, InTime, [Next]_vars PROVE Telling'
  OBVIOUS
<1>1. Batching /\ Batching' /\ Kept
  BY BatchingStep DEF Telling
<1>2. item' = item /\ (ValidItem' <=> ValidItem)
  BY DEF Next, SendWhole, Begin, Group, Split, TakePieces, Alone, GiveUp, End, Cutting, vars, ValidItem
<1>3. UNCHANGED chunkVars => Kept'
  BY <1>1 DEF chunkVars, Kept, Valid
<1> DEFINE T == Sayings(Given \cup Cuts)
           A == Content(FlattenSeq(batches))
           B == Content(cur)
           X == Said(This)
           Q == Content(From(item.entries, at - 1))
           R == Content(From(item.entries, at))
<1>4. /\ A \in Seq(T) /\ B \in Seq(T) /\ Q \in Seq(T)
      /\ Content(FlattenSeq(Flushed)) = A \o B
      /\ at <= Len(item.entries) => X \in Seq(T) /\ R \in Seq(T) /\ Q = X \o R /\ Content(<<This>>) = X
  BY <1>1, Says
<1>5. at \in 1 .. Len(item.entries) + 1 /\ at \in Int
  BY <1>1 DEF Batching
<1>6. ASSUME ValidItem, phase # "done" PROVE (A \o B) \o Q = Content(item.entries)
  BY <1>6 DEF Telling, Told
<1>7. at' = at => Content(From(item.entries, at - 1))' = Q
  BY <1>2
<1>8. at' = at + 1 => Content(From(item.entries, at - 1))' = R
  BY <1>2, <1>5
<1>9. CASE UNCHANGED vars
  <2>1. UNCHANGED <<chunkVars, text, item, phase, at, cur, batches, chunked>>
    BY <1>9 DEF vars, chunkVars
  <2>2. Told' = Told /\ This' = This /\ Content(item.entries)' = Content(item.entries)
    BY <2>1 DEF Told, This
  <2> QED
    BY <1>1, <1>2, <1>3, <2>1, <2>2 DEF Telling
<1>10. CASE SendWhole \/ GiveUp
  BY <1>1, <1>3, <1>10 DEF SendWhole, GiveUp, Grouping, Telling
<1>11. CASE Begin
  BY <1>1, <1>2, <1>3, <1>11 DEF Begin, Telling, Told
<1>12. CASE Cutting
  <2>1. Kept'
    BY <1>1, <1>12, KeptStep DEF Cutting, Batching, Splitting
  <2>2. text' = text
    BY <1>12 DEF Cutting, ChunkString, Whole, Cut, Shrink, Emit, Drop, Finish
  <2> QED
    BY <1>1, <1>2, <1>12, <2>1, <2>2 DEF Cutting, Telling, Told, This
\* The next entry is taken over, or the batch in hand is.
<1>13. ASSUME Kept', phase # "done", phase' # "done", phase' # "pieces", chunked' = chunked,
              ValidItem => (Content(FlattenSeq(batches))' \o Content(cur)') \o Content(From(item.entries, at - 1))'
                               = (A \o B) \o Q
       PROVE  Telling'
  <2>1. chunked' = FALSE
    BY <1>13 DEF Telling
  <2>2. ValidItem' => Told' = Content(item.entries)'
    BY <1>2, <1>6, <1>13 DEF Told
  <2> QED
    BY <1>1, <1>13, <2>1, <2>2 DEF Telling
<1>14. CASE Group
  <2>1. /\ phase = "group" /\ phase' = phase /\ at <= Len(item.entries) /\ at' = at + 1 /\ chunked' = chunked
        /\ Kept'
    BY <1>3, <1>14 DEF Group, Grouping
  <2>2. X \in Seq(T) /\ R \in Seq(T) /\ Q = X \o R /\ Content(<<This>>) = X
        /\ Content(From(item.entries, at - 1))' = R
    BY <1>4, <1>8, <2>1
  <2>3. CASE batches' = Flushed /\ cur' = <<This>>
    <3>1. Content(FlattenSeq(batches))' = A \o B /\ Content(cur)' = X
      BY <1>4, <2>2, <2>3
    <3> HIDE DEF A, B, X, Q, R, T
    <3>2. ((A \o B) \o X) \o R = (A \o B) \o (X \o R)
      <4>0. Regrouped(A, B, X, R)
        BY <1>4, <2>2, Regroup
      <4> QED
        BY <4>0 DEF Regrouped
    <3> QED
      BY <1>13, <2>1, <2>2, <3>1, <3>2
  <2>4. CASE batches' = batches /\ cur' = Append(cur, This)
    <3>1. Content(FlattenSeq(batches))' = A
      BY <2>4
    <3>2. Content(Append(cur, This)) = B \o X
      <4>1. /\ Entries(Given \cup Cuts) /\ cur \in Seq(Given \cup Cuts) /\ This \in Given \cup Cuts
            /\ <<This>> \in Seq(Given \cup Cuts) /\ Append(cur, This) = cur \o <<This>>
        BY <1>1, <2>1, Says, AppendIsConcat, SMTT(60)
      <4>2. Content(cur \o <<This>>) = Content(cur) \o Content(<<This>>)
        BY <4>1, ContentConcat
      <4> QED
        BY <2>2, <4>1, <4>2
    <3>3. Content(cur)' = B \o X
      BY <2>4, <3>2
    <3> HIDE DEF A, B, X, Q, R, T
    <3>4. (A \o (B \o X)) \o R = (A \o B) \o (X \o R)
      <4>0. Regrouped(A, B, X, R)
        BY <1>4, <2>2, Regroup
      <4> QED
        BY <4>0 DEF Regrouped
    <3> QED
      BY <1>13, <2>1, <2>2, <3>1, <3>3, <3>4
  <2> QED
    BY <1>14, <2>3, <2>4 DEF Group
<1>15. CASE Alone
  <2>1. /\ phase = "group" /\ phase' = phase /\ at <= Len(item.entries) /\ at' = at + 1 /\ chunked' = chunked
        /\ Kept' /\ cur' = <<>> /\ batches' = Append(Flushed, <<This>>)
    BY <1>3, <1>15 DEF Alone, Grouping
  <2>2. X \in Seq(T) /\ R \in Seq(T) /\ Q = X \o R /\ Content(<<This>>) = X
        /\ Content(From(item.entries, at - 1))' = R
    BY <1>4, <1>8, <2>1
  <2>3. Content(FlattenSeq(Append(Flushed, <<This>>))) = Content(FlattenSeq(Flushed)) \o Content(<<This>>)
    <3>1. /\ Entries(Given \cup Cuts) /\ Flushed \in Seq(Seq(Given \cup Cuts))
          /\ <<This>> \in Seq(Given \cup Cuts)
      BY <1>1, <2>1, Says
    <3> QED
      BY <3>1, BatchAdded
  <2>4. Content(FlattenSeq(batches))' = (A \o B) \o X /\ Content(cur)' = <<>>
    BY <1>4, <2>1, <2>2, <2>3, ContentEmpty
  <2> HIDE DEF A, B, X, Q, R, T
  <2>5. A \o B \in Seq(T)
    BY <1>4
  <2>6. ((A \o B) \o X) \o <<>> = (A \o B) \o X
    BY <2>2, <2>5, NothingAdded
  <2>7. ((A \o B) \o X) \o R = (A \o B) \o (X \o R)
    <4>0. Regrouped(A, B, X, R)
      BY <1>4, <2>2, Regroup
    <4> QED
      BY <4>0 DEF Regrouped
  <2> QED
    BY <1>13, <2>1, <2>2, <2>4, <2>6, <2>7
<1>16. CASE TakePieces
  <2>1. /\ phase = "pieces" /\ phase' = "group" /\ at <= Len(item.entries) /\ at' = at + 1 /\ chunked' = chunked
        /\ Kept' /\ cur' = cur /\ cur = <<>>
    BY <1>1, <1>3, <1>16 DEF TakePieces, Batching
  <2>2. X \in Seq(T) /\ R \in Seq(T) /\ Q = X \o R /\ Content(From(item.entries, at - 1))' = R
    BY <1>4, <1>8, <2>1
  <2>3. ValidItem => Content(FlattenSeq(batches))' = A \o X
    BY <1>16, PiecesAdded
  <2>4. B = <<>> /\ Content(cur)' = <<>>
    BY <2>1, ContentEmpty
  <2> HIDE DEF A, B, X, Q, R, T
  <2>5. A \o <<>> = A /\ (A \o X) \o <<>> = A \o X /\ (A \o X) \o R = A \o (X \o R)
    <3>1. (A \o X) \o R = A \o (X \o R)
      BY <1>4, <2>2, ConcatAssociative, SMTT(60)
    <3> QED
      BY <1>4, <2>2, <3>1, NothingAdded
  <2>6. ValidItem => (Content(FlattenSeq(batches))' \o Content(cur)') \o Content(From(item.entries, at - 1))' = (A \o B) \o Q
    BY <2>2, <2>3, <2>4, <2>5
  <2> QED
    BY <1>13, <2>1, <2>6
<1>17. CASE Split
  <2>1. /\ phase = "group" /\ phase' = "pieces" /\ at' = at /\ chunked' = chunked /\ cur' = <<>> /\ batches' = Flushed
        /\ at <= Len(item.entries) /\ Splittable(This) /\ Call(This.val.text, Room(This))
    BY <1>17 DEF Split, Grouping
  <2>2. IsString(This.val) /\ This.val.text \in Seq(Bytes)
    BY <1>1, <2>1, Says DEF IsEntry, Splittable
  <2>3. Kept'
    BY <2>1, <2>2, KeptCalled
  <2>4. This' = This
    BY <1>2, <2>1 DEF This
  <2>5. IsString(This.val)' /\ (text = This.val.text)'
    BY <2>1, <2>2, <2>4 DEF Call, IsString
  <2>6. Content(FlattenSeq(batches))' = A \o B /\ Content(cur)' = <<>> /\ Content(From(item.entries, at - 1))' = Q
    BY <1>4, <1>7, <2>1, ContentEmpty
  <2> HIDE DEF A, B, X, Q, R, T
  <2>7. (A \o B) \o <<>> = A \o B
    BY <1>4, NothingAdded
  <2>8. ValidItem' => Told' = Content(item.entries)'
    BY <1>2, <1>6, <2>1, <2>6, <2>7 DEF Told
  <2> QED
    BY <1>1, <2>1, <2>3, <2>5, <2>8 DEF Telling
<1>18. CASE End
  <2>1. phase = "group" /\ phase' = "done" /\ at' = at /\ batches' = Flushed /\ Kept'
    BY <1>3, <1>18 DEF End
  <2>2. Content(FlattenSeq(batches))' = A \o B /\ Content(From(item.entries, at - 1))' = Q
    BY <1>4, <1>7, <2>1
  <2> HIDE DEF A, B, X, Q, R, T
  <2>3. (A \o B) \o <<>> = A \o B
    BY <1>4, NothingAdded
  <2>4. ValidItem' => Told' = Content(item.entries)'
    BY <1>2, <1>6, <2>1, <2>2, <2>3 DEF Told
  <2> QED
    BY <1>1, <2>1, <2>4 DEF Telling
<1> QED
  BY <1>9, <1>10, <1>11, <1>12, <1>14, <1>15, <1>16, <1>17, <1>18 DEF Next

LEMMA TellingKeeps == Telling => StatesKeep
<1> SUFFICES ASSUME Telling PROVE StatesKeep
  OBVIOUS
<1>1. ContentKept
  BY KeptContent DEF Telling, Batching, Splitting
<1> QED
  BY <1>1 DEF Telling, Told, StatesKeep

\* Nothing of a valid item is lost or moved when it is split, whatever it is made of and whatever
\* the limit, as long as chunkString's inner loop does not come to its cap of 64 iterations.
THEOREM StatesKeepHolds == Spec /\ []InTime => []StatesKeep
BY TellingInit, TellingStep, TellingKeeps, PTL DEF Spec
===============================================================================
