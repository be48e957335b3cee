----------------------------- MODULE ForksProofs -----------------------------
(***************************************************************************)
(* Proofs about Forks, for every number of stacks, blocks and forks: the   *)
(* stacks that share their slots behave like stacks that are copied.       *)
(***************************************************************************)
EXTENDS Forks, Induction, SequenceTheorems, TLAPS

\* The highest slot that is in use for a pair of top and limit.
Reach(f, k) == Larger(f.index[k], f.limit[k])

\* The slots up to the highest in use are in the slices.
InSlices ==
    \A k \in Stacks :
        /\ 0..Larger(index[k], limit[k]) \subseteq DOMAIN data[k]
        /\ DOMAIN view[k] = DOMAIN data[k]

\* Every fork's slots are within the limit of the forks after it, and of the
\* stack.
Nested ==
    \A k \in Stacks : \A j \in 1..Len(forks) :
        /\ Reach(forks[j], k) <= limit[k]
        /\ \A i \in 1..Len(forks) : i < j => Reach(forks[i], k) <= forks[j].limit[k]

IInv == TypeOK /\ InSlices /\ Nested /\ ViewFollowsBlocks

-------------------------------------------------------------------------------
\* The larger of two slots is one of them and bounds both.
LEMMA LargerFacts ==
    ASSUME NEW i \in Slots \cup {-1}, NEW j \in Slots \cup {-1}
    PROVE  /\ Larger(i, j) \in Slots \cup {-1}
           /\ i <= Larger(i, j) /\ j <= Larger(i, j)
           /\ Larger(i, j) = i \/ Larger(i, j) = j
BY BoundsAssumption DEF Larger, Slots

\* Slot i of a slice may be written: it exists or is the one after the last.
Fits(s, i) == 0..i-1 \subseteq DOMAIN s

\* t is the slice s, with elements in X, after x was written to slot i.
Written(s, t, i, x, X) ==
    /\ IsSlice(t, X)
    /\ 0..i \subseteq DOMAIN t
    /\ DOMAIN t = DOMAIN s \cup {i}
    /\ t[i] = x
    /\ \A j \in DOMAIN s : j # i => t[j] = s[j]

\* Writing a slot of a slice, or the one after its last, gives a slice: the slot
\* holds the new element, the others what they held.
LEMMA PutFacts ==
    ASSUME NEW X, NEW s, IsSlice(s, X), NEW x \in X,
           NEW i \in Slots, Fits(s, i)
    PROVE  Written(s, Put(s, i, x), i, x, X)
<1>1. PICK n \in 0..MaxBlocks : s \in [0 .. n-1 -> X]
    BY DEF IsSlice
<1>2. i <= n
    <2>1. CASE i = 0
        BY <2>1, <1>1, BoundsAssumption
    <2>2. CASE i > 0
        <3>1. i - 1 \in 0..i-1
            BY <2>2 DEF Slots
        <3>2. i - 1 \in 0..n-1
            BY <3>1, <1>1 DEF Fits
        <3> QED BY <3>2, <1>1, BoundsAssumption DEF Slots
    <2> QED BY <2>1, <2>2 DEF Slots
<1> DEFINE m == IF i = n THEN n + 1 ELSE n
<1>3. m \in 0..MaxBlocks /\ DOMAIN s \cup {i} = 0..m-1
    BY <1>1, <1>2, BoundsAssumption DEF Slots
<1>4. Put(s, i, x) \in [0..m-1 -> X]
    BY <1>1, <1>3 DEF Put
<1>5. 0..i \subseteq 0..m-1
    BY <1>2, <1>1, BoundsAssumption DEF Slots
<1>6. IsSlice(Put(s, i, x), X) /\ 0..i \subseteq DOMAIN Put(s, i, x)
    BY <1>3, <1>4, <1>5 DEF IsSlice
<1> QED BY <1>6 DEF Put, Written

\* The first m elements of a sequence.
LEMMA FrontFacts ==
    ASSUME NEW S, NEW s \in Seq(S), NEW m \in 0..Len(s)
    PROVE  /\ SubSeq(s, 1, m) \in Seq(S)
           /\ Len(SubSeq(s, 1, m)) = m
           /\ \A i \in 1..m : SubSeq(s, 1, m)[i] = s[i]
<1>1. m \in Int /\ 1 \in Int /\ \A i \in 1..m : s[i] \in S
    OBVIOUS
<1>2. /\ SubSeq(s, 1, m) \in Seq(S)
      /\ Len(SubSeq(s, 1, m)) = IF 1 <= m THEN m - 1 + 1 ELSE 0
      /\ \A i \in 1 .. m - 1 + 1 : SubSeq(s, 1, m)[i] = s[1 + i - 1]
    BY <1>1, SubSeqProperties
<1> QED BY <1>2

\* A sequence with an element appended: its last element and its front.
LEMMA LastAppended ==
    ASSUME NEW S, NEW s \in Seq(S), NEW x \in S
    PROVE  /\ Append(s, x) # <<>>
           /\ Append(s, x)[Len(Append(s, x))] = x
           /\ SubSeq(Append(s, x), 1, Len(Append(s, x)) - 1) = s
<1> DEFINE t == Append(s, x)
           u == SubSeq(t, 1, Len(s))
<1>1. t \in Seq(S) /\ Len(t) = Len(s) + 1 /\ t[Len(s) + 1] = x /\ Len(s) \in Nat
      /\ \A i \in 1..Len(s) : t[i] = s[i]
    OBVIOUS
<1>2. Len(s) \in 0..Len(t)
    BY <1>1
<1> HIDE DEF t
<1>3. u \in Seq(S) /\ Len(u) = Len(s) /\ \A i \in 1..Len(s) : u[i] = t[i]
    BY <1>1, <1>2, FrontFacts
<1>4. u = s
    BY <1>1, <1>3
<1> QED BY <1>1, <1>4 DEF t

\* What the invariant says of the slots a state uses.
LEMMA InUse ==
    ASSUME TypeOK, InSlices, NEW k \in Stacks
    PROVE  /\ index[k] \in Slots \cup {-1}
           /\ limit[k] \in Slots \cup {-1}
           /\ Larger(index[k], limit[k]) \in Slots \cup {-1}
           /\ index[k] <= Larger(index[k], limit[k])
           /\ limit[k] <= Larger(index[k], limit[k])
           /\ \A i \in 0..Larger(index[k], limit[k]) :
                  /\ i \in DOMAIN data[k] /\ i \in DOMAIN view[k]
                  /\ data[k][i] \in Blocks
                  /\ view[k][i] \in Seq(Values)
<1>1. index[k] \in Slots \cup {-1} /\ limit[k] \in Slots \cup {-1}
    BY DEF TypeOK, Tops
<1>2. /\ \A i \in DOMAIN data[k] : data[k][i] \in Blocks
      /\ \A i \in DOMAIN view[k] : view[k][i] \in Seq(Values)
    BY DEF TypeOK, IsSlice
<1> QED BY <1>1, <1>2, LargerFacts DEF InSlices

\* The forks a state holds.
LEMMA ForkTypes ==
    ASSUME TypeOK, NEW k \in Stacks, NEW j \in 1..Len(forks)
    PROVE  /\ forks[j] \in Saved
           /\ forks[j].index[k] \in Slots \cup {-1}
           /\ forks[j].limit[k] \in Slots \cup {-1}
           /\ Reach(forks[j], k) \in Slots \cup {-1}
           /\ forks[j].index[k] <= Reach(forks[j], k)
           /\ forks[j].limit[k] <= Reach(forks[j], k)
<1>1. forks[j] \in Saved
    BY DEF TypeOK
<1>2. forks[j].index \in Tops /\ forks[j].limit \in Tops
    BY <1>1 DEF Saved
<1>3. forks[j].index[k] \in Slots \cup {-1} /\ forks[j].limit[k] \in Slots \cup {-1}
    BY <1>2 DEF Tops
<1>4. LET i == forks[j].index[k]
          l == forks[j].limit[k]
      IN  Larger(i, l) \in Slots \cup {-1} /\ i <= Larger(i, l) /\ l <= Larger(i, l)
    BY <1>3, LargerFacts
<1> QED BY <1>1, <1>3, <1>4 DEF Reach

\* Initially.
LEMMA InitIInv == Init => IInv
<1> SUFFICES ASSUME Init PROVE IInv
    OBVIOUS
<1>1. TypeOK
    <2>1. \A X : IsSlice(<<>>, X)
        <3> SUFFICES ASSUME NEW X PROVE IsSlice(<<>>, X)
            OBVIOUS
        <3>1. <<>> \in [0 .. 0-1 -> X]
            OBVIOUS
        <3>2. 0 \in 0..MaxBlocks
            BY BoundsAssumption
        <3> QED BY <3>1, <3>2 DEF IsSlice
    <2> QED BY <2>1 DEF Init, TypeOK, Tops
<1>2. \A k \in Stacks : Larger(index[k], limit[k]) = -1
    BY DEF Init, Larger
<1>3. InSlices
    <2>1. 0..-1 = {}
        OBVIOUS
    <2> QED BY <1>2, <2>1 DEF Init, InSlices
<1>4. Nested
    BY DEF Init, Nested
<1>5. ViewFollowsBlocks
    BY <1>2 DEF ViewFollowsBlocks
<1> QED BY <1>1, <1>3, <1>4, <1>5 DEF IInv

\* A push writes a slot nobody needs.
LEMMA PushIInv ==
    ASSUME IInv, NEW k \in Stacks, NEW v \in Values, Push(k, v)
    PROVE  IInv'
<1> USE DEF IInv
<1> DEFINE n == Slot(k)
           b == [value |-> v, next |-> index[k]]
           w == Append(Contents(k, index[k]), v)
<1>1. /\ index[k] \in Slots \cup {-1} /\ limit[k] \in Slots \cup {-1}
      /\ n \in Slots /\ n > index[k] /\ n > limit[k]
      /\ 0..n-1 = 0..Larger(index[k], limit[k])
      /\ 0..n-1 \subseteq DOMAIN data[k]
      /\ 0..n-1 \subseteq DOMAIN view[k]
    <2>1. /\ index[k] \in Slots \cup {-1} /\ limit[k] \in Slots \cup {-1}
          /\ Larger(index[k], limit[k]) \in Slots \cup {-1}
          /\ index[k] <= Larger(index[k], limit[k])
          /\ limit[k] <= Larger(index[k], limit[k])
        BY InUse
    <2>2. n = Larger(index[k], limit[k]) + 1 /\ n < MaxBlocks
        BY DEF Push, Slot
    <2>3. n \in Slots /\ n > index[k] /\ n > limit[k] /\ n - 1 = Larger(index[k], limit[k])
        BY <2>1, <2>2, BoundsAssumption DEF Slots
    <2>4. 0..n-1 \subseteq DOMAIN data[k] /\ 0..n-1 \subseteq DOMAIN view[k]
        BY <2>3 DEF InSlices
    <2> QED BY <2>1, <2>3, <2>4
<1>2. /\ data' = [data EXCEPT ![k] = Put(data[k], n, b)]
      /\ view' = [view EXCEPT ![k] = Put(view[k], n, w)]
      /\ index' = [index EXCEPT ![k] = n]
      /\ limit' = limit /\ forks' = forks /\ returned' = returned
    BY DEF Push
<1>3. b \in Blocks
    BY <1>1 DEF Blocks
<1>4. w \in Seq(Values)
    <2>1. Contents(k, index[k]) \in Seq(Values)
        BY <1>1, InUse DEF Contents, Slots
    <2> QED BY <2>1
<1> HIDE DEF n, b, w
<1>5. /\ data'[k] = Put(data[k], n, b)
      /\ view'[k] = Put(view[k], n, w)
      /\ \A j \in Stacks : j # k => data'[j] = data[j] /\ view'[j] = view[j]
      /\ data' = [j \in Stacks |-> data'[j]]
      /\ view' = [j \in Stacks |-> view'[j]]
    BY <1>2 DEF TypeOK
<1>6. /\ index'[k] = n
      /\ \A j \in Stacks : j # k => index'[j] = index[j]
      /\ index' \in Tops
    BY <1>1, <1>2 DEF TypeOK, Tops
<1>7. Written(data[k], data'[k], n, b, Blocks)
    <2>1. IsSlice(data[k], Blocks)
        BY DEF TypeOK
    <2>2. n \in Slots /\ Fits(data[k], n)
        BY <1>1 DEF Fits
    <2>3. Written(data[k], Put(data[k], n, b), n, b, Blocks)
        BY <1>3, <2>1, <2>2, PutFacts
    <2> QED BY <1>5, <2>3
<1>8. Written(view[k], view'[k], n, w, Seq(Values))
    <2>1. IsSlice(view[k], Seq(Values))
        BY DEF TypeOK
    <2>2. n \in Slots /\ Fits(view[k], n)
        BY <1>1 DEF Fits
    <2>3. Written(view[k], Put(view[k], n, w), n, w, Seq(Values))
        BY <1>4, <2>1, <2>2, PutFacts
    <2> QED BY <1>5, <2>3
<1> USE DEF Written
<1>9. TypeOK'
    BY <1>2, <1>5, <1>6, <1>7, <1>8 DEF TypeOK
<1>10. Larger(index'[k], limit'[k]) = n
    BY <1>1, <1>2, <1>6 DEF Larger, Slots
<1>11. InSlices'
    <2>1. DOMAIN view'[k] = DOMAIN data'[k]
        BY <1>7, <1>8 DEF InSlices
    <2> QED BY <1>2, <1>5, <1>6, <1>7, <1>10, <2>1 DEF InSlices
<1>12. Nested'
    BY <1>2 DEF Nested, Reach
<1>13. ViewFollowsBlocks'
    <2> DEFINE Below(j, i) == IF i = -1 THEN <<>> ELSE view'[j][i]
    <2> SUFFICES ASSUME NEW j \in Stacks, NEW i \in 0..Larger(index'[j], limit'[j])
                 PROVE  /\ data'[j][i].next < i
                        /\ view'[j][i] = Append(Below(j, data'[j][i].next), data'[j][i].value)
        BY DEF ViewFollowsBlocks, Contents
    <2>1. CASE j # k
        <3>1. /\ data'[j] = data[j] /\ view'[j] = view[j]
              /\ Larger(index'[j], limit'[j]) = Larger(index[j], limit[j])
            BY <2>1, <1>2, <1>5, <1>6
        <3>2. /\ data[j][i].next < i
              /\ view[j][i] = Append(Contents(j, data[j][i].next), data[j][i].value)
            BY <3>1 DEF ViewFollowsBlocks
        <3> QED BY <3>1, <3>2 DEF Contents
    <2>2. CASE j = k /\ i = n
        <3>2. data'[j][i].next = index[k] /\ data'[j][i].value = v
            BY <2>2, <1>7 DEF b
        <3>3. index[k] # -1 => view'[k][index[k]] = view[k][index[k]]
            BY <1>1, <1>8 DEF Slots
        <3>4. Below(k, index[k]) = Contents(k, index[k])
            BY <3>3 DEF Contents
        <3> QED BY <2>2, <3>2, <3>4, <1>1, <1>8 DEF w
    <2>3. CASE j = k /\ i # n
        <3>1. i \in 0..Larger(index[k], limit[k])
            <4>1. i \in 0..n /\ n \in Int
                BY <2>3, <1>1, <1>10 DEF Slots
            <4>2. i \in 0..n-1
                BY <2>3, <4>1
            <4> QED BY <4>2, <1>1
        <3>2. data'[k][i] = data[k][i] /\ view'[k][i] = view[k][i]
            BY <2>3, <3>1, <1>1, <1>7, <1>8
        <3>3. data[k][i].next < i
              /\ view[k][i] = Append(Contents(k, data[k][i].next), data[k][i].value)
            BY <3>1 DEF ViewFollowsBlocks
        <3>4. data[k][i].next \in Slots \cup {-1}
            BY <3>1, InUse DEF Blocks
        <3>5. data[k][i].next # -1 =>
                 view'[k][data[k][i].next] = view[k][data[k][i].next]
            <4> SUFFICES ASSUME data[k][i].next # -1
                         PROVE  view'[k][data[k][i].next] = view[k][data[k][i].next]
                OBVIOUS
            <4>1. i \in 0..n-1 /\ n \in Int
                <5>1. i \in 0..n-1
                    BY <3>1, <1>1
                <5> QED BY <5>1, <1>1 DEF Slots
            <4>2. data[k][i].next \in 0..n-1
                BY <3>3, <3>4, <4>1 DEF Slots
            <4>3. data[k][i].next \in DOMAIN view[k] /\ data[k][i].next # n
                BY <4>1, <4>2, <1>1
            <4> QED BY <4>3, <1>8
        <3> QED BY <2>3, <3>2, <3>3, <3>5 DEF Contents
    <2> QED BY <2>1, <2>2, <2>3
<1> QED BY <1>9, <1>11, <1>12, <1>13

\* A step that writes no block and reaches no higher keeps what holds of the
\* blocks in use.
LEMMA ReachNoHigher ==
    ASSUME IInv, data' = data, view' = view, index' \in Tops, limit' \in Tops,
           \A k \in Stacks : Larger(index'[k], limit'[k]) <= Larger(index[k], limit[k])
    PROVE  InSlices' /\ ViewFollowsBlocks'
<1> USE DEF IInv
<1>1. \A k \in Stacks : 0..Larger(index'[k], limit'[k]) \subseteq 0..Larger(index[k], limit[k])
    <2> SUFFICES ASSUME NEW k \in Stacks
                 PROVE  0..Larger(index'[k], limit'[k]) \subseteq 0..Larger(index[k], limit[k])
        OBVIOUS
    <2>1. Larger(index[k], limit[k]) \in Slots \cup {-1}
        BY InUse
    <2>2. index'[k] \in Slots \cup {-1} /\ limit'[k] \in Slots \cup {-1}
        BY DEF Tops
    <2>3. Larger(index'[k], limit'[k]) \in Slots \cup {-1}
        BY <2>2, LargerFacts
    <2>4. Larger(index'[k], limit'[k]) <= Larger(index[k], limit[k])
        OBVIOUS
    <2> QED BY <2>1, <2>3, <2>4 DEF Slots
<1>2. InSlices'
    BY <1>1 DEF InSlices
<1>3. ViewFollowsBlocks'
    BY <1>1 DEF ViewFollowsBlocks, Contents
<1> QED BY <1>2, <1>3

\* A pop follows a link, which goes down.
LEMMA PopIInv ==
    ASSUME IInv, NEW k \in Stacks, Pop(k)
    PROVE  IInv'
<1> USE DEF IInv
<1> DEFINE below == data[k][index[k]].next
<1>1. /\ index[k] \in Slots
      /\ data[k][index[k]] \in Blocks
      /\ below < index[k]
    <2>1. index[k] \in Slots /\ index[k] <= Larger(index[k], limit[k])
          /\ Larger(index[k], limit[k]) \in Slots \cup {-1}
        BY InUse DEF Pop
    <2>2. index[k] \in 0..Larger(index[k], limit[k])
        BY <2>1 DEF Slots
    <2> QED BY <2>1, <2>2, InUse DEF ViewFollowsBlocks
<1>2. below \in Slots \cup {-1} /\ returned' \in Values
    BY <1>1 DEF Blocks, Pop
<1>3. index' \in Tops /\ index'[k] = below /\ \A j \in Stacks : j # k => index'[j] = index[j]
    BY <1>2 DEF Pop, TypeOK, Tops
<1>4. TypeOK'
    BY <1>2, <1>3 DEF Pop, TypeOK
<1>5. \A j \in Stacks : Larger(index'[j], limit'[j]) <= Larger(index[j], limit[j])
    <2> SUFFICES ASSUME NEW j \in Stacks
                 PROVE  Larger(index'[j], limit'[j]) <= Larger(index[j], limit[j])
        OBVIOUS
    <2>1. index[j] \in Slots \cup {-1} /\ limit[j] \in Slots \cup {-1} /\ limit' = limit
        BY InUse DEF Pop
    <2>2. index'[j] \in Slots \cup {-1} /\ index'[j] <= index[j]
        BY <1>1, <1>2, <1>3, <2>1 DEF Slots
    <2> QED BY <2>1, <2>2 DEF Larger, Slots
<1>6. InSlices' /\ ViewFollowsBlocks'
    BY <1>3, <1>4, <1>5, ReachNoHigher DEF Pop, TypeOK
<1>7. Nested'
    BY DEF Nested, Reach, Pop
<1> QED BY <1>4, <1>6, <1>7

\* A fork protects all that is in use.
LEMMA PushForkIInv ==
    ASSUME IInv, PushFork
    PROVE  IInv'
<1> USE DEF IInv
<1> DEFINE f == [index |-> index, limit |-> limit]
           n == Len(forks)
<1>1. /\ forks' = Append(forks, f) /\ limit' = [k \in Stacks |-> Larger(index[k], limit[k])]
      /\ UNCHANGED <<data, index, returned, view>>
    BY DEF PushFork, Protected
<1>2. limit' \in Tops
    <2>1. \A k \in Stacks : Larger(index[k], limit[k]) \in Slots \cup {-1}
        BY InUse
    <2> QED BY <1>1, <2>1 DEF Tops
<1>3. TypeOK'
    <2>1. f \in Saved
        BY DEF Saved, TypeOK
    <2>2. forks' \in Seq(Saved)
        BY <1>1, <2>1 DEF TypeOK
    <2> QED BY <1>1, <1>2, <2>2 DEF TypeOK
<1>4. /\ n \in Nat
      /\ Len(forks') = n + 1
      /\ forks'[n + 1] = f
      /\ \A j \in 1..n : forks'[j] = forks[j]
    BY <1>1 DEF TypeOK
<1>5. \A k \in Stacks : limit'[k] = Larger(index[k], limit[k]) /\ Reach(f, k) = limit'[k]
    BY <1>1 DEF Reach
<1>6. InSlices' /\ ViewFollowsBlocks'
    <2>1. \A k \in Stacks : Larger(index'[k], limit'[k]) <= Larger(index[k], limit[k])
        <3> SUFFICES ASSUME NEW k \in Stacks
                     PROVE  Larger(index'[k], limit'[k]) <= Larger(index[k], limit[k])
            OBVIOUS
        <3>1. index[k] \in Slots \cup {-1} /\ limit[k] \in Slots \cup {-1}
            BY InUse
        <3> QED BY <1>1, <1>5, <3>1 DEF Larger, Slots
    <2> QED BY <1>1, <1>2, <2>1, ReachNoHigher DEF TypeOK
<1>7. Nested'
    <2> SUFFICES ASSUME NEW k \in Stacks, NEW j \in 1..n + 1
                 PROVE  /\ Reach(forks'[j], k) <= limit'[k]
                        /\ \A i \in 1..n + 1 : i < j => Reach(forks'[i], k) <= forks'[j].limit[k]
        BY <1>4 DEF Nested, Reach
    <2>1. /\ limit[k] <= limit'[k]
          /\ limit[k] \in Slots \cup {-1} /\ limit'[k] \in Slots \cup {-1}
        BY <1>5, InUse
    <2>2. \A i \in 1..n : /\ Reach(forks'[i], k) <= limit[k]
                          /\ Reach(forks'[i], k) \in Slots \cup {-1}
        <3> SUFFICES ASSUME NEW i \in 1..n
                     PROVE  Reach(forks[i], k) <= limit[k] /\ Reach(forks[i], k) \in Slots \cup {-1}
            BY <1>4
        <3> QED BY ForkTypes DEF Nested
    <2>3. CASE j = n + 1
        <3>1. Reach(forks'[j], k) = limit'[k] /\ forks'[j].limit[k] = limit[k]
            BY <2>3, <1>4, <1>5
        <3>2. \A i \in 1..n + 1 : i < j => i \in 1..n
            BY <2>3, <1>4
        <3> QED BY <2>1, <2>2, <3>1, <3>2 DEF Slots
    <2>4. CASE j \in 1..n
        <3>1. Reach(forks'[j], k) <= limit'[k]
            BY <2>1, <2>2, <2>4 DEF Slots
        <3>2. \A i \in 1..n + 1 : i < j => i \in 1..n
            BY <2>4, <1>4
        <3>3. \A i \in 1..n : i < j => Reach(forks[i], k) <= forks[j].limit[k]
            BY <2>4 DEF Nested
        <3> QED BY <1>4, <2>4, <3>1, <3>2, <3>3
    <2> QED BY <1>4, <2>3, <2>4
<1> QED BY <1>3, <1>6, <1>7

\* Backtracking returns to what the last fork protected, within what the forks
\* before it protect.
LEMMA PopForkIInv ==
    ASSUME IInv, PopFork
    PROVE  IInv'
<1> USE DEF IInv
<1> DEFINE n == Len(forks)
<1>1. /\ index' = forks[n].index /\ limit' = forks[n].limit
      /\ forks' = SubSeq(forks, 1, n - 1)
      /\ UNCHANGED <<data, returned, view>>
    BY DEF PopFork
<1>2. n \in Nat /\ n > 0 /\ n \in 1..n
    BY DEF PopFork, TypeOK
<1>3. /\ Len(forks') = n - 1 /\ forks' \in Seq(Saved)
      /\ \A j \in 1..n - 1 : forks'[j] = forks[j]
    <2>1. forks \in Seq(Saved) /\ n - 1 \in 0..Len(forks)
        BY <1>2 DEF TypeOK
    <2> QED BY <1>1, <2>1, FrontFacts
<1>4. index' \in Tops /\ limit' \in Tops
    <2>1. forks[n] \in Saved
        BY <1>2 DEF TypeOK
    <2> QED BY <1>1, <2>1 DEF Saved
<1>5. TypeOK'
    BY <1>1, <1>3, <1>4 DEF TypeOK
<1>6. InSlices' /\ ViewFollowsBlocks'
    <2>1. \A k \in Stacks : Larger(index'[k], limit'[k]) <= Larger(index[k], limit[k])
        <3> SUFFICES ASSUME NEW k \in Stacks
                     PROVE  Larger(index'[k], limit'[k]) <= Larger(index[k], limit[k])
            OBVIOUS
        <3>1. Reach(forks[n], k) <= limit[k] /\ Reach(forks[n], k) \in Slots \cup {-1}
            BY <1>2, ForkTypes DEF Nested
        <3>2. Larger(index'[k], limit'[k]) = Reach(forks[n], k)
            BY <1>1 DEF Reach
        <3>3. /\ limit[k] <= Larger(index[k], limit[k]) /\ limit[k] \in Slots \cup {-1}
              /\ Larger(index[k], limit[k]) \in Slots \cup {-1}
            BY InUse
        <3> QED BY <3>1, <3>2, <3>3 DEF Slots
    <2> QED BY <1>1, <1>4, <2>1, ReachNoHigher
<1>7. Nested'
    <2> SUFFICES ASSUME NEW k \in Stacks, NEW j \in 1..n - 1
                 PROVE  /\ Reach(forks'[j], k) <= limit'[k]
                        /\ \A i \in 1..n - 1 : i < j => Reach(forks'[i], k) <= forks'[j].limit[k]
        BY <1>3 DEF Nested, Reach
    <2>1. j \in 1..n /\ j < n /\ \A i \in 1..n - 1 : i \in 1..n
        BY <1>2
    <2>2. Reach(forks[j], k) <= forks[n].limit[k]
        BY <1>2, <2>1 DEF Nested
    <2>3. \A i \in 1..n - 1 : i < j => Reach(forks[i], k) <= forks[j].limit[k]
        BY <2>1 DEF Nested
    <2> QED BY <1>1, <1>3, <2>2, <2>3
<1> QED BY <1>5, <1>6, <1>7

-------------------------------------------------------------------------------
\* The invariant holds in every reachable state.
LEMMA Invariance == Spec => []IInv
<1>1. IInv /\ [Next]_vars => IInv'
    <2> SUFFICES ASSUME IInv, [Next]_vars PROVE IInv'
        OBVIOUS
    <2>1. ASSUME NEW k \in Stacks, Pop(k) PROVE IInv'
        BY <2>1, PopIInv
    <2>2. ASSUME NEW k \in Stacks, NEW v \in Values, Push(k, v) PROVE IInv'
        BY <2>2, PushIInv
    <2>3. CASE PushFork
        BY <2>3, PushForkIInv
    <2>4. CASE PopFork
        BY <2>4, PopForkIInv
    <2>5. CASE UNCHANGED vars
        BY <2>5 DEF vars, IInv, TypeOK, InSlices, Nested, Reach, ViewFollowsBlocks, Contents
    <2> QED BY <2>1, <2>2, <2>3, <2>4, <2>5 DEF Next
<1> QED BY <1>1, InitIInv, PTL DEF Spec

\* Every slot, limit and saved fork has its type, for any number of stacks,
\* blocks and forks (stack.go).
THEOREM TypeCorrect == Spec => []TypeOK
<1>1. IInv => TypeOK
    BY DEF IInv
<1> QED BY <1>1, Invariance, PTL

\* No push of stack.go writes a slot that a pending fork, however deep, may need,
\* and no access is out of the slice.
THEOREM ForksProtectedHolds == Spec => []ForksProtected
<1>1. IInv => ForksProtected
    <2> SUFFICES ASSUME IInv, NEW k \in Stacks
                 PROVE  /\ \A j \in DOMAIN forks : forks[j].index[k] <= limit[k]
                        /\ Larger(index[k], limit[k]) >= 0 =>
                               Larger(index[k], limit[k]) \in DOMAIN data[k]
        BY DEF ForksProtected
    <2> USE DEF IInv
    <2>1. ASSUME NEW j \in DOMAIN forks PROVE forks[j].index[k] <= limit[k]
        <3>1. j \in 1..Len(forks)
            BY <2>1 DEF TypeOK
        <3>2. /\ forks[j].index[k] \in Slots \cup {-1}
              /\ Reach(forks[j], k) \in Slots \cup {-1}
              /\ forks[j].index[k] <= Reach(forks[j], k)
            BY <3>1, ForkTypes
        <3>3. Reach(forks[j], k) <= limit[k] /\ limit[k] \in Slots \cup {-1}
            BY <3>1, InUse DEF Nested
        <3> QED BY <3>2, <3>3 DEF Slots
    <2>2. ASSUME Larger(index[k], limit[k]) >= 0
          PROVE  Larger(index[k], limit[k]) \in DOMAIN data[k]
        <3>1. Larger(index[k], limit[k]) \in Slots \cup {-1}
            BY InUse
        <3>2. Larger(index[k], limit[k]) \in 0..Larger(index[k], limit[k])
            BY <2>2, <3>1 DEF Slots
        <3> QED BY <3>2, InUse
    <2> QED BY <2>1, <2>2
<1> QED BY <1>1, Invariance, PTL

\* The blocks in use are never overwritten (push of stack.go).
THEOREM ViewFollowsBlocksHolds == Spec => []ViewFollowsBlocks
<1>1. IInv => ViewFollowsBlocks
    BY DEF IInv
<1> QED BY <1>1, Invariance, PTL

-------------------------------------------------------------------------------
(* Refinement.                                                             *)

\* The stacks a state stands for, and the copies its forks stand for.
MappedStacks == [k \in Stacks |-> Contents(k, index[k])]
MappedCopies  == [j \in DOMAIN forks |-> [k \in Stacks |-> Contents(k, forks[j].index[k])]]

\* They are sequences of values.
LEMMA ContentsTypes ==
    ASSUME IInv, NEW k \in Stacks, NEW i \in -1..Larger(index[k], limit[k])
    PROVE  Contents(k, i) \in Seq(Values)
<1>1. CASE i = -1
    BY <1>1 DEF Contents
<1>2. CASE i # -1
    <2>1. i \in 0..Larger(index[k], limit[k])
        BY <1>2, InUse DEF IInv, Slots
    <2> QED BY <2>1, InUse DEF IInv, Contents
<1> QED BY <1>1, <1>2

\* A push disturbs neither the other stacks nor what is in use of its own.
LEMMA PushKeeps ==
    ASSUME IInv, NEW k \in Stacks, NEW v \in Values, Push(k, v),
           NEW j \in Stacks, NEW i \in -1..Larger(index[j], limit[j])
    PROVE  (IF i = -1 THEN <<>> ELSE view'[j][i]) = Contents(j, i)
<1> USE DEF IInv
<1>1. CASE i = -1
    BY <1>1 DEF Contents
<1>2. CASE i # -1
    <2>1. i \in 0..Larger(index[j], limit[j]) /\ i < Slot(j)
        BY <1>2, InUse DEF Slots, Slot
    <2>2. i \in DOMAIN view[j]
        BY <2>1, InUse
    <2>3. view'[j][i] = view[j][i]
        BY <2>1, <2>2 DEF Push, Put, TypeOK
    <2> QED BY <1>2, <2>3 DEF Contents
<1> QED BY <1>1, <1>2

\* What is read through a fork is in use.
LEMMA ForkInUse ==
    ASSUME IInv, NEW k \in Stacks, NEW j \in DOMAIN forks
    PROVE  forks[j].index[k] \in -1..Larger(index[k], limit[k])
<1> USE DEF IInv
<1>1. j \in 1..Len(forks)
    BY DEF TypeOK
<1>2. /\ forks[j].index[k] \in Slots \cup {-1}
      /\ Reach(forks[j], k) \in Slots \cup {-1}
      /\ forks[j].index[k] <= Reach(forks[j], k)
      /\ Reach(forks[j], k) <= limit[k]
    BY <1>1, ForkTypes DEF Nested
<1>3. /\ limit[k] \in Slots \cup {-1} /\ limit[k] <= Larger(index[k], limit[k])
      /\ Larger(index[k], limit[k]) \in Slots \cup {-1}
    BY InUse
<1> QED BY <1>2, <1>3 DEF Slots

LEMMA RefinesPush ==
    ASSUME IInv, NEW k \in Stacks, NEW v \in Values, Push(k, v)
    PROVE  Copies!Push(k, v)
<1> USE DEF IInv
<1> DEFINE w == Append(Contents(k, index[k]), v)
<1>1. index[k] \in -1..Larger(index[k], limit[k])
    BY InUse DEF Slots
<1>2. view'[k][index'[k]] = w /\ index'[k] # -1
    <2>1. index'[k] = Slot(k)
        BY DEF Push, TypeOK, Tops
    <2>2. view'[k] = Put(view[k], Slot(k), w)
        BY DEF Push, TypeOK
    <2>3. Slot(k) # -1
        BY InUse DEF Slot, Slots
    <2> QED BY <2>1, <2>2, <2>3 DEF Put
<1>3. ASSUME NEW j \in Stacks
      PROVE  Contents(j, index[j])' = [MappedStacks EXCEPT ![k] = Append(@, v)][j]
    <2>1. CASE j = k
        BY <2>1, <1>2 DEF Contents, MappedStacks
    <2>2. CASE j # k
        <3>1. index'[j] = index[j]
            BY <2>2 DEF Push, TypeOK, Tops
        <3>2. index[j] \in -1..Larger(index[j], limit[j])
            BY InUse DEF Slots
        <3>3. (IF index[j] = -1 THEN <<>> ELSE view'[j][index[j]]) = Contents(j, index[j])
            BY <3>2, PushKeeps
        <3> QED BY <2>2, <3>1, <3>3 DEF Contents, MappedStacks
    <2> QED BY <2>1, <2>2
<1>4. MappedStacks' = [MappedStacks EXCEPT ![k] = Append(@, v)]
    BY <1>3 DEF MappedStacks
<1>5. ASSUME NEW j \in DOMAIN forks, NEW h \in Stacks
      PROVE  (IF forks[j].index[h] = -1 THEN <<>> ELSE view'[h][forks[j].index[h]])
             = Contents(h, forks[j].index[h])
    BY ForkInUse, PushKeeps
<1>6. MappedCopies' = MappedCopies
    BY <1>5 DEF MappedCopies, Contents, Push
<1> QED BY <1>4, <1>6 DEF Copies!Push, Push, MappedStacks, MappedCopies

LEMMA RefinesPop ==
    ASSUME IInv, NEW k \in Stacks, Pop(k)
    PROVE  Copies!Pop(k)
<1> USE DEF IInv
<1> DEFINE below == data[k][index[k]].next
           value == data[k][index[k]].value
           s == Contents(k, below)
<1>1. /\ index[k] \in 0..Larger(index[k], limit[k])
      /\ data[k][index[k]] \in Blocks
    BY InUse DEF Pop, Slots
<1>2. below < index[k] /\ view[k][index[k]] = Append(s, value)
    BY <1>1 DEF ViewFollowsBlocks
<1>3. below \in -1..Larger(index[k], limit[k]) /\ value \in Values
  <2> HIDE DEF IInv
  <2>1. value \in Values /\ below \in Slots \cup {-1}
    BY <1>1 DEF Blocks
  <2>2. Larger(index[k], limit[k]) \in Slots \cup {-1} /\ index[k] \in 0..Larger(index[k], limit[k])
    <3> USE DEF IInv
    <3> QED BY <1>1, InUse
  <2> HIDE DEF below, value
  <2> QED BY <1>2, <2>1, <2>2 DEF Slots
<1>4. s \in Seq(Values)
    BY <1>3, ContentsTypes
<1>5. MappedStacks[k] = Append(s, value)
    BY <1>1, <1>2 DEF MappedStacks, Contents, Pop
<1>6. /\ MappedStacks[k] # <<>>
      /\ MappedStacks[k][Len(MappedStacks[k])] = value
      /\ SubSeq(MappedStacks[k], 1, Len(MappedStacks[k]) - 1) = s
  <2> HIDE DEF s, value
  <2> QED BY <1>3, <1>4, <1>5, LastAppended
<1>7. /\ index' = [index EXCEPT ![k] = below] /\ returned' = value
      /\ UNCHANGED <<view, forks>>
    BY DEF Pop
<1>8. MappedStacks' = [j \in Stacks |-> Contents(j, index'[j])]
    BY <1>7 DEF MappedStacks, Contents
<1>9. MappedStacks' = [MappedStacks EXCEPT ![k] = s]
    BY <1>7, <1>8 DEF MappedStacks, TypeOK, Tops
<1>10. MappedCopies' = MappedCopies
    BY <1>7 DEF MappedCopies, Contents
<1> QED BY <1>6, <1>7, <1>9, <1>10 DEF Copies!Pop, MappedStacks, MappedCopies

LEMMA RefinesPushFork ==
    ASSUME IInv, PushFork
    PROVE  Copies!PushFork
<1> USE DEF IInv
<1> DEFINE f == [index |-> index, limit |-> limit]
           n == Len(forks)
<1>1. forks' = Append(forks, f) /\ UNCHANGED <<index, returned, view>>
    BY DEF PushFork
<1>2. /\ n \in Nat /\ DOMAIN forks = 1..n /\ DOMAIN forks' = 1..n + 1
      /\ forks'[n + 1] = f
      /\ \A j \in 1..n : forks'[j] = forks[j]
    BY <1>1 DEF TypeOK
<1>3. MappedStacks' = MappedStacks
    BY <1>1 DEF MappedStacks, Contents
<1>4. MappedCopies' = [j \in 1..n + 1 |-> IF j = n + 1 THEN MappedStacks ELSE MappedCopies[j]]
    <2>1. MappedCopies' = [j \in 1..n + 1 |-> [k \in Stacks |-> Contents(k, forks'[j].index[k])]]
        BY <1>1, <1>2 DEF MappedCopies, Contents
    <2>2. [k \in Stacks |-> Contents(k, forks'[n + 1].index[k])] = MappedStacks
        BY <1>2 DEF MappedStacks
    <2>3. ASSUME NEW j \in 1..n + 1, j # n + 1
          PROVE  [k \in Stacks |-> Contents(k, forks'[j].index[k])] = MappedCopies[j]
        <3>1. j \in 1..n
            BY <1>2, <2>3
        <3> QED BY <1>2, <3>1 DEF MappedCopies
    <2> QED BY <2>1, <2>2, <2>3
<1>5. MappedCopies' = Append(MappedCopies, MappedStacks)
    <2>1. MappedCopies = [j \in 1..n |-> MappedCopies[j]]
        BY <1>2 DEF MappedCopies
    <2>2. Len(MappedCopies) = n
        BY <1>2, <2>1
    <2> QED BY <1>2, <1>4, <2>1, <2>2
<1> QED BY <1>1, <1>3, <1>5 DEF Copies!PushFork, MappedStacks, MappedCopies

LEMMA RefinesPopFork ==
    ASSUME IInv, PopFork
    PROVE  Copies!PopFork
<1> USE DEF IInv
<1> DEFINE n == Len(forks)
<1>1. /\ index' = forks[n].index /\ forks' = SubSeq(forks, 1, n - 1) /\ forks # <<>>
      /\ UNCHANGED <<returned, view>>
    BY DEF PopFork
<1>2. n \in Nat /\ n > 0 /\ DOMAIN forks = 1..n
    BY <1>1 DEF TypeOK
<1>3. DOMAIN forks' = 1..n - 1 /\ \A j \in 1..n - 1 : forks'[j] = forks[j]
    <2>1. forks \in Seq(Saved) /\ n - 1 \in 0..Len(forks)
        BY <1>2 DEF TypeOK
    <2> QED BY <1>1, <2>1, FrontFacts
<1>4. MappedCopies = [j \in 1..n |-> MappedCopies[j]] /\ Len(MappedCopies) = n /\ MappedCopies # <<>>
    BY <1>2 DEF MappedCopies
<1>5. MappedStacks' = MappedCopies[n]
    BY <1>1, <1>2 DEF MappedStacks, MappedCopies, Contents
<1>6. MappedCopies' = [j \in 1..n - 1 |-> MappedCopies[j]]
    <2>1. MappedCopies' = [j \in 1..n - 1 |-> [k \in Stacks |-> Contents(k, forks'[j].index[k])]]
        BY <1>1, <1>3 DEF MappedCopies, Contents
    <2> QED BY <1>2, <1>3, <2>1 DEF MappedCopies
<1>7. SubSeq(MappedCopies, 1, n - 1) = [j \in 1..n - 1 |-> MappedCopies[j]]
    BY <1>2, <1>4
<1> QED BY <1>1, <1>4, <1>5, <1>6, <1>7 DEF Copies!PopFork, MappedStacks, MappedCopies

\* The stacks of stack.go with pushfork and popfork of execute.go implement
\* stacks that are copied at every fork, for any number of stacks, any values and
\* any nesting of forks.
THEOREM ImplementsCopies == Spec => SavedLikeCopies
<1>1. Init => Copies!Init
    <2> SUFFICES ASSUME Init PROVE Copies!Init
        OBVIOUS
    <2>1. MappedStacks = [k \in Stacks |-> <<>>]
        BY DEF Init, MappedStacks, Contents
    <2>2. MappedCopies = <<>>
        BY DEF Init, MappedCopies
    <2> QED BY <2>1, <2>2 DEF Init, Copies!Init, MappedStacks, MappedCopies
<1>2. IInv /\ [Next]_vars => [Copies!Next]_(Copies!vars)
    <2> SUFFICES ASSUME IInv, [Next]_vars PROVE [Copies!Next]_(Copies!vars)
        OBVIOUS
    <2>1. ASSUME NEW k \in Stacks, Pop(k) PROVE Copies!Next
        BY <2>1, RefinesPop DEF Copies!Next
    <2>2. ASSUME NEW k \in Stacks, NEW v \in Values, Push(k, v) PROVE Copies!Next
        BY <2>2, RefinesPush DEF Copies!Next
    <2>3. CASE PushFork
        BY <2>3, RefinesPushFork DEF Copies!Next
    <2>4. CASE PopFork
        BY <2>4, RefinesPopFork DEF Copies!Next
    <2>5. CASE UNCHANGED vars
        BY <2>5 DEF vars, Copies!vars, Contents
    <2> QED BY <2>1, <2>2, <2>3, <2>4, <2>5 DEF Next
<1> QED BY <1>1, <1>2, Invariance, PTL DEF Spec, SavedLikeCopies, Copies!Spec
-------------------------------------------------------------------------------
(* FreeWhenUnshared: popscope may free the variables of a scope above      *)
(* limit, and no others, since just these are reached by no pending fork.  *)

\* Every block of every slice is linked to one below it.
Linked == \A k \in Stacks : Descending(data[k])

\* What the top of stack k may no longer write, some pending fork reaches; the
\* same held of every pending fork when it was pushed, with the forks before it.
SharedOf(k) ==
    /\ \A x \in Chain(k)[index[k]] : x <= limit[k] =>
           \E j \in 1..Len(forks) : x \in Chain(k)[forks[j].index[k]]
    /\ \A i \in 1..Len(forks) : \A x \in Chain(k)[forks[i].index[k]] : x <= forks[i].limit[k] =>
           \E j \in 1..i-1 : x \in Chain(k)[forks[j].index[k]]

Shared == \A k \in Stacks : SharedOf(k)

SInv == IInv /\ Linked /\ Shared

\* Chain follows the blocks of its stack.
LEMMA ChainFollows ==
    ASSUME NEW k \in Stacks, Descending(data[k])
    PROVE  Follows(Chain(k), data[k])
<1>1. PICK f : f = [i \in DOMAIN data[k] \cup {-1} |->
                       IF i = -1 THEN {} ELSE {i} \cup f[data[k][i].next]]
  BY FollowsExists DEF Follows
<1> QED
  BY <1>1, Zenon DEF Chain, Follows

\* The slots of the forks, and of the top, are slots of the slice.
LEMMA TopsInSlices ==
    ASSUME IInv, NEW k \in Stacks
    PROVE  /\ index[k] \in Slots \cup {-1} /\ limit[k] \in Slots \cup {-1}
           /\ index[k] \in DOMAIN data[k] \cup {-1}
           /\ \A j \in 1..Len(forks) :
                  /\ forks[j].index[k] \in -1..limit[k]
                  /\ forks[j].index[k] \in DOMAIN data[k] \cup {-1}
<1> USE DEF IInv
<1>1. /\ index[k] \in Slots \cup {-1} /\ limit[k] \in Slots \cup {-1}
      /\ Larger(index[k], limit[k]) \in Slots \cup {-1}
      /\ index[k] <= Larger(index[k], limit[k]) /\ limit[k] <= Larger(index[k], limit[k])
      /\ \A i \in 0..Larger(index[k], limit[k]) : i \in DOMAIN data[k]
  BY InUse
<1>2. index[k] \in DOMAIN data[k] \cup {-1}
  <2>1. index[k] = -1 \/ index[k] \in 0..Larger(index[k], limit[k])
    BY <1>1 DEF Slots
  <2> QED
    BY <1>1, <2>1
<1>3. ASSUME NEW j \in 1..Len(forks)
      PROVE  /\ forks[j].index[k] \in -1..limit[k]
             /\ forks[j].index[k] \in DOMAIN data[k] \cup {-1}
  <2>1. /\ forks[j].index[k] \in Slots \cup {-1}
        /\ Reach(forks[j], k) \in Slots \cup {-1}
        /\ forks[j].index[k] <= Reach(forks[j], k)
        /\ Reach(forks[j], k) <= limit[k]
    BY ForkTypes DEF Nested
  <2>2. forks[j].index[k] \in -1..limit[k]
    BY <1>1, <2>1 DEF Slots
  <2>3. forks[j].index[k] = -1 \/ forks[j].index[k] \in 0..Larger(index[k], limit[k])
    BY <1>1, <2>1 DEF Slots
  <2> QED
    BY <1>1, <2>2, <2>3
<1> QED
  BY <1>1, <1>2, <1>3

-------------------------------------------------------------------------------
(* Every step keeps it.                                                    *)

\* A push writes the slot above every chain a fork or the top can reach.
LEMMA PushSharing ==
    ASSUME SInv, NEW k \in Stacks, NEW v \in Values, Push(k, v)
    PROVE  Linked' /\ Shared'
<1> USE DEF SInv, IInv
<1> DEFINE n == Slot(k)
           b == [value |-> v, next |-> index[k]]
<1>1. /\ index[k] \in -1 .. n - 1 /\ limit[k] \in -1 .. n - 1
      /\ n \in Slots /\ 0..n-1 \subseteq DOMAIN data[k]
  <2>1. /\ index[k] \in Slots \cup {-1} /\ limit[k] \in Slots \cup {-1}
        /\ Larger(index[k], limit[k]) \in Slots \cup {-1}
        /\ index[k] <= Larger(index[k], limit[k])
        /\ limit[k] <= Larger(index[k], limit[k])
    BY InUse
  <2>2. n = Larger(index[k], limit[k]) + 1 /\ n < MaxBlocks
    BY DEF Push, Slot
  <2>3. /\ n \in Slots /\ n - 1 = Larger(index[k], limit[k])
        /\ index[k] \in -1 .. n - 1 /\ limit[k] \in -1 .. n - 1
    BY <2>1, <2>2, BoundsAssumption DEF Slots
  <2> QED
    BY <2>3 DEF InSlices
<1>2. /\ data' = [data EXCEPT ![k] = Put(data[k], n, b)]
      /\ index' = [index EXCEPT ![k] = n]
      /\ limit' = limit /\ forks' = forks
  BY DEF Push
<1>3. b \in Blocks /\ b.next = index[k]
  BY <1>1, InUse DEF Blocks
<1> HIDE DEF n, b
<1>4. /\ data'[k] = Put(data[k], n, b) /\ index'[k] = n
      /\ \A j \in Stacks : j # k => data'[j] = data[j] /\ index'[j] = index[j]
  BY <1>2 DEF TypeOK, Tops
<1>5. Written(data[k], data'[k], n, b, Blocks)
  <2>1. IsSlice(data[k], Blocks)
    BY DEF TypeOK
  <2>2. Fits(data[k], n)
    BY <1>1 DEF Fits
  <2> QED
    BY <1>1, <1>3, <1>4, <2>1, <2>2, PutFacts
<1>6. Descending(data[k]) /\ Descending(data'[k])
  <2>1. PICK m \in Nat : /\ DOMAIN data[k] = 0 .. m - 1
                         /\ \A i \in 0 .. m - 1 : data[k][i].next \in -1 .. i - 1
    BY DEF Linked, Descending
  <2>2. n \in 0 .. m
    <3>1. n \in Int /\ 0 <= n
      BY <1>1 DEF Slots
    <3>2. n - 1 \in 0..n-1 \/ n = 0
      BY <3>1
    <3>3. n - 1 \in 0 .. m - 1 \/ n = 0
      BY <1>1, <2>1, <3>2
    <3> QED
      BY <2>1, <3>1, <3>3
  <2>3. \E l \in Nat : DOMAIN data'[k] = 0 .. l - 1
    <3>1. CASE n = m
      <4>1. m + 1 \in Nat /\ (0 .. m - 1) \cup {m} = 0 .. (m + 1) - 1
        BY <2>1
      <4> QED
        BY <1>5, <2>1, <3>1, <4>1 DEF Written
    <3>2. CASE n # m
      <4>1. n \in 0 .. m - 1
        BY <2>1, <2>2, <3>2
      <4> QED
        BY <1>5, <2>1, <4>1 DEF Written
    <3> QED
      BY <3>1, <3>2
  <2>4. \A i \in DOMAIN data'[k] : data'[k][i].next \in -1 .. i - 1
    BY <1>1, <1>3, <1>5, <2>1 DEF Written
  <2> QED
    BY <2>3, <2>4 DEF Descending, Linked
<1>7. Linked'
  BY <1>4, <1>6 DEF Linked
<1>8. \A j \in Stacks : Follows(Chain(j), data[j]) /\ Follows(Chain(j)', data'[j])
  <2>1. ASSUME NEW j \in Stacks PROVE Follows(Chain(j), data[j])
    BY ChainFollows DEF Linked
  <2>2. ASSUME NEW j \in Stacks PROVE Follows(Chain(j)', data'[j])
    <3>1. Descending(data'[j])
      BY <1>7 DEF Linked
    <3>2. PICK f : f = [i \in DOMAIN data'[j] \cup {-1} |->
                           IF i = -1 THEN {} ELSE {i} \cup f[data'[j][i].next]]
      BY <3>1, FollowsExists DEF Follows
    <3> QED
      BY <3>2, Zenon DEF Chain, Follows
  <2> QED
    BY <2>1, <2>2
<1>9. \A i \in -1 .. n - 1 : Chain(k)'[i] = Chain(k)[i]
  <2>1. \A i \in 0 .. n - 1 : /\ i \in DOMAIN data[k] /\ i \in DOMAIN data'[k]
                              /\ data'[k][i] = data[k][i]
    BY <1>1, <1>5 DEF Written, Slots
  <2>2. n - 1 \in Int
    BY <1>1 DEF Slots
  <2> DEFINE f == Chain(k)
             g == Chain(k)'
  <2>3. Follows(f, data[k]) /\ Follows(g, data'[k])
    BY <1>8
  <2> HIDE DEF f, g
  <2>4. \A i \in -1 .. n - 1 : g[i] = f[i]
    BY <1>6, <2>1, <2>2, <2>3, SameChains
  <2> QED
    BY <2>4 DEF f, g
<1>10. Chain(k)'[n] = {n} \cup Chain(k)[index[k]]
  <2> DEFINE g == Chain(k)'
  <2>1. Follows(g, data'[k]) /\ n \in DOMAIN data'[k] /\ data'[k][n].next = index[k]
    BY <1>3, <1>5, <1>8 DEF Written
  <2> HIDE DEF g
  <2>2. g[n] = {n} \cup g[index[k]]
    BY <1>6, <2>1, ChainFacts
  <2>3. g[index[k]] = Chain(k)[index[k]]
    BY <1>1, <1>9 DEF g
  <2> QED
    BY <2>2, <2>3 DEF g
<1>11. SharedOf(k)'
  <2>1. \A j \in 1..Len(forks) : forks[j].index[k] \in -1 .. n - 1
    <3>1. \A j \in 1..Len(forks) : forks[j].index[k] \in -1..limit[k]
      BY TopsInSlices
    <3> QED
      BY <1>1, <3>1 DEF Slots
  <2>2. \A j \in 1..Len(forks) : Chain(k)'[forks[j].index[k]] = Chain(k)[forks[j].index[k]]
    BY <1>9, <2>1
  <2>3. ASSUME NEW x \in Chain(k)'[n], x <= limit[k]
        PROVE  \E j \in 1..Len(forks) : x \in Chain(k)'[forks[j].index[k]]
    <3>1. x # n
      BY <1>1, <2>3 DEF Slots
    <3>2. x \in Chain(k)[index[k]]
      BY <1>10, <3>1
    <3> QED
      BY <2>2, <2>3, <3>2 DEF Shared, SharedOf
  <2>4. ASSUME NEW i \in 1..Len(forks), NEW x \in Chain(k)'[forks[i].index[k]],
               x <= forks[i].limit[k]
        PROVE  \E j \in 1..i-1 : x \in Chain(k)'[forks[j].index[k]]
    <3>1. \A j \in 1..i-1 : j \in 1..Len(forks)
      BY DEF TypeOK
    <3>2. PICK j \in 1..i-1 : x \in Chain(k)[forks[j].index[k]]
      BY <2>2, <2>4 DEF Shared, SharedOf
    <3> QED
      BY <2>2, <3>1, <3>2
  <2> QED
    BY <1>2, <1>4, <2>3, <2>4 DEF SharedOf
<1>12. ASSUME NEW j \in Stacks, j # k PROVE SharedOf(j)'
  <2>1. Chain(j)' = Chain(j)
    BY <1>4, <1>12 DEF Chain
  <2> QED
    BY <1>2, <1>4, <1>12, <2>1 DEF Shared, SharedOf
<1> QED
  BY <1>7, <1>11, <1>12 DEF Shared

\* A step that leaves the blocks alone keeps the links and the chains.
LEMMA SameData ==
    ASSUME SInv, data' = data
    PROVE  Linked' /\ \A k \in Stacks : Chain(k)' = Chain(k)
BY DEF SInv, Linked, Chain

\* What is below the top was in its chain.
LEMMA PopSharing ==
    ASSUME SInv, NEW k \in Stacks, Pop(k)
    PROVE  Linked' /\ Shared'
<1> USE DEF SInv, IInv
<1> DEFINE below == data[k][index[k]].next
<1>1. /\ index'[k] = below /\ \A j \in Stacks : j # k => index'[j] = index[j]
      /\ data' = data /\ limit' = limit /\ forks' = forks
  BY DEF Pop, TypeOK, Tops
<1>2. Linked' /\ \A j \in Stacks : Chain(j)' = Chain(j)
  BY <1>1, SameData
<1>3. Chain(k)[below] \subseteq Chain(k)[index[k]]
  <2>1. index[k] \in DOMAIN data[k]
    BY TopsInSlices DEF Pop
  <2>2. Descending(data[k]) /\ Follows(Chain(k), data[k])
    BY ChainFollows DEF Linked
  <2>3. Chain(k)[index[k]] = {index[k]} \cup Chain(k)[below]
    BY <2>1, <2>2, ChainFacts
  <2> QED
    BY <2>3
<1> HIDE DEF below
<1>4. ASSUME NEW j \in Stacks PROVE SharedOf(j)'
  <2>1. Chain(j)[index'[j]] \subseteq Chain(j)[index[j]]
    BY <1>1, <1>3
  <2> QED
    BY <1>1, <1>2, <2>1 DEF Shared, SharedOf
<1> QED
  BY <1>2, <1>4 DEF Shared

\* The fork that is pushed reaches all that the top reaches.
LEMMA PushForkSharing ==
    ASSUME SInv, PushFork
    PROVE  Linked' /\ Shared'
<1> USE DEF SInv, IInv
<1> DEFINE f == [index |-> index, limit |-> limit]
           n == Len(forks)
<1>1. forks' = Append(forks, f) /\ data' = data /\ index' = index
  BY DEF PushFork
<1>2. Linked' /\ \A k \in Stacks : Chain(k)' = Chain(k)
  BY <1>1, SameData
<1>3. /\ n \in Nat /\ Len(forks') = n + 1 /\ forks'[n + 1] = f
      /\ \A j \in 1..n : forks'[j] = forks[j]
  BY <1>1 DEF TypeOK
<1>4. f.index = index /\ f.limit = limit
  OBVIOUS
<1> HIDE DEF f, n
<1>5. ASSUME NEW k \in Stacks PROVE SharedOf(k)'
  <2> DEFINE c == Chain(k)
  <2>1. Chain(k)' = c
    BY <1>2
  <2>2. /\ \A x \in c[index[k]] : x <= limit[k] => \E j \in 1..n : x \in c[forks[j].index[k]]
        /\ \A i \in 1..n : \A x \in c[forks[i].index[k]] : x <= forks[i].limit[k] =>
               \E j \in 1..i-1 : x \in c[forks[j].index[k]]
    BY DEF Shared, SharedOf, n
  <2> HIDE DEF c
  <2>3. \A x \in c[index[k]] : \E j \in 1..n + 1 : x \in c[forks'[j].index[k]]
    <3>1. n + 1 \in 1..n + 1
      BY <1>3
    <3> QED
      BY <1>3, <1>4, <3>1
  <2>4. ASSUME NEW i \in 1..n + 1, NEW x \in c[forks'[i].index[k]], x <= forks'[i].limit[k]
        PROVE  \E j \in 1..i-1 : x \in c[forks'[j].index[k]]
    <3>1. CASE i = n + 1
      <4>1. PICK j \in 1..n : x \in c[forks[j].index[k]]
        BY <1>3, <1>4, <2>2, <2>4, <3>1
      <4>2. j \in 1..i-1
        BY <1>3, <3>1
      <4> QED
        BY <1>3, <4>1, <4>2
    <3>2. CASE i # n + 1
      <4>1. i \in 1..n
        BY <1>3, <3>2
      <4>2. PICK j \in 1..i-1 : x \in c[forks[j].index[k]]
        BY <1>3, <2>2, <2>4, <4>1
      <4>3. j \in 1..n
        BY <1>3, <4>1
      <4> QED
        BY <1>3, <4>2, <4>3
    <3> QED
      BY <3>1, <3>2
  <2> QED
    BY <1>1, <1>3, <2>1, <2>3, <2>4 DEF SharedOf
<1> QED
  BY <1>2, <1>5 DEF Shared

\* The top that comes back was saved with the forks before its own.
LEMMA PopForkSharing ==
    ASSUME SInv, PopFork
    PROVE  Linked' /\ Shared'
<1> USE DEF SInv, IInv
<1> DEFINE n == Len(forks)
<1>1. /\ index' = forks[n].index /\ limit' = forks[n].limit
      /\ forks' = SubSeq(forks, 1, n - 1) /\ data' = data
  BY DEF PopFork
<1>2. Linked' /\ \A k \in Stacks : Chain(k)' = Chain(k)
  BY <1>1, SameData
<1>3. n \in Nat /\ n > 0 /\ n \in 1..n
  BY DEF PopFork, TypeOK
<1>4. Len(forks') = n - 1 /\ \A j \in 1..n - 1 : forks'[j] = forks[j]
  <2>1. forks \in Seq(Saved) /\ n - 1 \in 0..Len(forks)
    BY <1>3 DEF TypeOK
  <2> QED
    BY <1>1, <2>1, FrontFacts
<1> HIDE DEF n
<1>5. ASSUME NEW k \in Stacks PROVE SharedOf(k)'
  <2> DEFINE c == Chain(k)
  <2>1. Chain(k)' = c
    BY <1>2
  <2>2. \A i \in 1..n : \A x \in c[forks[i].index[k]] : x <= forks[i].limit[k] =>
            \E j \in 1..i-1 : x \in c[forks[j].index[k]]
    BY DEF Shared, SharedOf, n
  <2> HIDE DEF c
  <2>3. \A x \in c[index'[k]] : x <= limit'[k] =>
            \E j \in 1..n - 1 : x \in c[forks'[j].index[k]]
    BY <1>1, <1>3, <1>4, <2>2
  <2>4. \A i \in 1..n - 1 : \A x \in c[forks'[i].index[k]] : x <= forks'[i].limit[k] =>
            \E j \in 1..i-1 : x \in c[forks'[j].index[k]]
    <3>1. \A i \in 1..n - 1 : i \in 1..n /\ \A j \in 1..i-1 : j \in 1..n - 1
      BY <1>3
    <3> QED
      BY <1>4, <2>2, <3>1
  <2> QED
    BY <1>4, <2>1, <2>3, <2>4 DEF SharedOf
<1> QED
  BY <1>2, <1>5 DEF Shared

\* At first nothing is pushed.
LEMMA InitSharing == Init => Linked /\ Shared
<1> SUFFICES ASSUME Init, NEW k \in Stacks PROVE Descending(data[k]) /\ SharedOf(k)
  BY DEF Linked, Shared
<1>1. data[k] = <<>> /\ index[k] = -1 /\ forks = <<>>
  BY DEF Init
<1>2. Descending(data[k])
  <2>1. DOMAIN data[k] = 0 .. 0 - 1 /\ 0 \in Nat
    BY <1>1
  <2>2. \A i \in 0 .. 0 - 1 : data[k][i].next \in -1 .. i - 1
    OBVIOUS
  <2> QED
    BY <2>1, <2>2 DEF Descending
<1>3. Chain(k)[-1] = {}
  BY <1>2, ChainFollows, ChainFacts
<1> QED
  BY <1>1, <1>2, <1>3 DEF SharedOf

\* The invariant holds in every reachable state.
LEMMA SharingInvariance == Spec => []SInv
<1>1. Init => SInv
  BY InitSharing, InitIInv DEF SInv
<1>2. SInv /\ IInv' /\ [Next]_vars => SInv'
  <2> SUFFICES ASSUME SInv, IInv', [Next]_vars PROVE SInv'
    OBVIOUS
  <2>1. ASSUME NEW k \in Stacks, Pop(k) PROVE Linked' /\ Shared'
    BY <2>1, PopSharing
  <2>2. ASSUME NEW k \in Stacks, NEW v \in Values, Push(k, v) PROVE Linked' /\ Shared'
    BY <2>2, PushSharing
  <2>3. CASE PushFork
    BY <2>3, PushForkSharing DEF SInv
  <2>4. CASE PopFork
    BY <2>4, PopForkSharing DEF SInv
  <2>5. CASE UNCHANGED vars
    <3>1. Linked'
      BY <2>5 DEF SInv, Linked, vars
    <3>2. \A k \in Stacks : Chain(k)' = Chain(k)
      BY <2>5 DEF Chain, vars
    <3>3. Shared'
      BY <2>5, <3>2 DEF SInv, Shared, SharedOf, vars
    <3> QED
      BY <3>1, <3>3 DEF SInv
  <2> QED
    BY <2>1, <2>2, <2>3, <2>4, <2>5 DEF Next, SInv
<1> QED
  BY <1>1, <1>2, Invariance, PTL DEF Spec

\* popscope of execute.go frees the variables of the scope it pops when index is
\* above limit: no pending fork comes back to that scope then, and one does
\* whenever it keeps them.
THEOREM FreeWhenUnsharedHolds == Spec => []FreeWhenUnshared
<1>1. SInv => FreeWhenUnshared
  <2> SUFFICES ASSUME SInv, NEW k \in Stacks, index[k] # -1
               PROVE  index[k] > limit[k] <=>
                          \A j \in DOMAIN forks : index[k] \notin Chain(k)[forks[j].index[k]]
    BY DEF FreeWhenUnshared
  <2> USE DEF SInv, IInv
  <2> DEFINE c == Chain(k)
             top == index[k]
  <2>1. DOMAIN forks = 1..Len(forks)
    BY DEF TypeOK
  <2>2. /\ top \in Int /\ limit[k] \in Int /\ top \in DOMAIN data[k]
        /\ \A j \in 1..Len(forks) : /\ forks[j].index[k] \in -1..limit[k]
                                    /\ forks[j].index[k] \in DOMAIN data[k] \cup {-1}
    <3>1. Slots \cup {-1} \subseteq Int
      BY BoundsAssumption DEF Slots
    <3> QED
      BY <3>1, TopsInSlices
  <2>3. /\ \A i \in DOMAIN data[k] : c[i] = {i} \cup c[data[k][i].next]
        /\ \A i \in DOMAIN data[k] \cup {-1} : c[i] \subseteq 0 .. i
    <3>1. Descending(data[k]) /\ Follows(c, data[k])
      BY ChainFollows DEF Linked
    <3> HIDE DEF c
    <3> QED
      BY <3>1, ChainFacts
  <2>4. \A x \in c[top] : x <= limit[k] => \E j \in 1..Len(forks) : x \in c[forks[j].index[k]]
    BY DEF Shared, SharedOf
  <2> HIDE DEF c, top
  <2>5. ASSUME top > limit[k], NEW j \in 1..Len(forks) PROVE top \notin c[forks[j].index[k]]
    <3>1. c[forks[j].index[k]] \subseteq 0 .. forks[j].index[k]
      BY <2>2, <2>3
    <3> QED
      BY <2>2, <2>5, <3>1
  <2>6. ASSUME ~ (top > limit[k])
        PROVE  \E j \in 1..Len(forks) : top \in c[forks[j].index[k]]
    <3>1. top \in c[top] /\ top <= limit[k]
      BY <2>2, <2>3, <2>6
    <3> QED
      BY <2>4, <3>1
  <2> QED
    BY <2>1, <2>5, <2>6 DEF c, top
<1> QED
  BY <1>1, SharingInvariance, PTL
===============================================================================
