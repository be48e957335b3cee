-------------------------------- MODULE Updates --------------------------------
(***************************************************************************)
(* The updates of func.go and the loops around them that compiler.go       *)
(* generates: p = x, p |= f and delpaths.  Values are shared until they    *)
(* are updated; an allocator knows what one such loop has made itself and  *)
(* may therefore change in place.                                          *)
(*                                                                         *)
(* Memory is a sequence of blocks, the cells of an array or the fields of  *)
(* an object.  An array is a Go slice: a block, an offset, a length and a  *)
(* capacity; a part of it shares its cells.  The first block is the one    *)
(* that every array without cells has.                                     *)
(***************************************************************************)
EXTENDS Data, SequencesExt, TLC

CONSTANTS
    Inputs,     \* values
    Ops,        \* [op, f, arg, spare]: what is done with them, and how much larger than its length
                \* the capacity of the arrays of an input is
    PathLists,  \* the paths for which it is done
    MaxDepth    \* deeper than all that comes out right

VARIABLES problem,
          mem,      \* [heap, own, wrote]: the blocks, what the allocator has, which blocks were changed
          root,     \* the input
          cur,      \* the variable that holds the value so far
          todo,     \* the paths to come
          dels,     \* d of _modify: the paths for which f had no result
          hand,     \* the value that f is applied to, or its result, or none
          held,     \* what f was given, which it may have kept, and what that meant
          stage     \* "path", "call", "set", "done" or "failed"

updVars == <<problem, mem, root, cur, todo, dels, hand, held, stage>>

Gone   == [t |-> "gone"]                \* struct{}{}
Obj(b) == [t |-> "obj", at |-> b]
Arr(b, off, len, cap) == [t |-> "arr", at |-> b, off |-> off, len |-> len, cap |-> cap]

Length(v)   == IF v.t = "null" THEN 0 ELSE v.len
Capacity(v) == IF v.t = "null" THEN 0 ELSE v.cap
Cells(m, v) == IF v.t = "null" THEN <<>> ELSE SubSeq(m.heap[v.at], v.off + 1, v.off + v.len)
Fields(m, v) == IF v.t = "null" THEN <<>> ELSE m.heap[v.at]

\* vs[start:end]: no cells are left to point to when the capacity is 0.
Part(v, start, end) ==
    LET cap == Capacity(v) - start
    IN  IF v.t = "null" THEN v
        ELSE Arr(v.at, IF cap = 0 THEN v.off ELSE v.off + start, end - start, cap)

\* reflect.Value.Pointer
Pointer(v) == IF v.t = "arr" THEN <<v.at, v.off>> ELSE <<v.at, 0>>

Allocated(m, v) == v.t \in {"arr", "obj"} /\ Pointer(v) \in m.own

\* Mutant: a value that is handed out may still be changed in place.
ReleaseNothing(m, v) == m

Release(m, v) == IF Allocated(m, v) THEN [m EXCEPT !.own = {}] ELSE m

Write(m, b, block) == [m EXCEPT !.heap[b] = block, !.wrote = @ \cup {b}]

\* makeArray, with what is copied to it.
MakeArray(m, cells, c) ==
    LET cap == Max({Len(cells), c})
        b   == IF cap = 0 THEN 1 ELSE Len(m.heap) + 1
        all == [i \in 1 .. cap |-> IF i <= Len(cells) THEN cells[i] ELSE Null]
    IN  [m |-> [m EXCEPT !.own = @ \cup {<<b, 0>>}, !.heap = IF cap = 0 THEN @ ELSE Append(@, all)],
         v |-> Arr(b, 0, Len(cells), cap)]

MakeObject(m, fields) ==
    LET b == Len(m.heap) + 1
    IN  [m |-> [m EXCEPT !.own = @ \cup {<<b, 0>>}, !.heap = Append(@, fields)], v |-> Obj(b)]

Done(m, v) == [m |-> m, v |-> v]
Fail(m)    == Done(m, Fault)

-------------------------------------------------------------------------------
(* Paths: <<"key", k>>, <<"index", i>>, <<"slice", s, e>>.                 *)

\* funcIndex2 and funcSlice
Index(m, v, p) ==
    IF v = Null THEN Null
    ELSE CASE p[1] = "key" /\ v.t = "obj" -> IF p[2] \in DOMAIN m.heap[v.at] THEN m.heap[v.at][p[2]] ELSE Null
           [] p[1] = "index" /\ v.t = "arr" ->
                 LET i == Clamp(p[2], -1, v.len) IN IF i \in 0 .. v.len - 1 THEN Cells(m, v)[i + 1] ELSE Null
           [] p[1] = "slice" /\ v.t = "arr" ->
                 Part(v, SliceStart(p[2], v.len), SliceEnd(p[2], p[3], v.len))
           [] OTHER -> Fault

GetPath(m, v, path) == FoldLeft(LAMBDA w, p : Index(m, w, p), v, path)

\* Mutant: an array that grows in place keeps its length.
StoreCellShort(m, v, i, u) ==
    LET len == Length(v)
        l   == Max({len, i + 1})
    IN  IF Allocated(m, v) /\ i < v.cap
        THEN Done(Write(m, v.at, [m.heap[v.at] EXCEPT ![v.off + i + 1] = u]), v)
        ELSE MakeArray(m,
                       [k \in 1 .. l |-> IF k = i + 1 THEN u ELSE IF k <= len THEN Cells(m, v)[k] ELSE Null],
                       IF Allocated(m, v) THEN 2 * v.cap ELSE Capacity(v))

\* Put u in cell i of v, in place if that is allowed and there is room for it.
StoreCell(m, v, i, u) ==
    LET len == Length(v)
        l   == Max({len, i + 1})
    IN  IF Allocated(m, v) /\ i < v.cap
        THEN Done(Write(m, v.at, [m.heap[v.at] EXCEPT ![v.off + i + 1] = u]), [v EXCEPT !.len = l])
        ELSE MakeArray(m,
                       [k \in 1 .. l |-> IF k = i + 1 THEN u ELSE IF k <= len THEN Cells(m, v)[k] ELSE Null],
                       IF Allocated(m, v) THEN 2 * v.cap ELSE Capacity(v))

StoreField(m, v, k, u) ==
    IF Allocated(m, v) THEN Done(Write(m, v.at, (k :> u) @@ m.heap[v.at]), v)
    ELSE MakeObject(m, (k :> u) @@ Fields(m, v))

\* Put the cells of u in the place of those from start to end.
StoreSlice(m, v, start, end, u) ==
    LET new == IF u = Gone THEN [i \in 1 .. end - start |-> Gone] ELSE Cells(m, u)
        all == SubSeq(Cells(m, v), 1, start) \o new \o SubSeq(Cells(m, v), end + 1, Length(v))
    IN  IF u.t \notin {"arr", "gone"} THEN Fail(m)
        ELSE IF Len(new) = end - start /\ Allocated(m, v)
        THEN Done(Write(m, v.at, [i \in DOMAIN m.heap[v.at] |->
                     IF i - v.off \in DOMAIN all THEN all[i - v.off] ELSE m.heap[v.at][i]]), v)
        ELSE MakeArray(m, all, 0)

RECURSIVE Update(_, _, _, _)
Update(m, v, path, n) ==
    LET p    == Head(path)
        Into(x, Store(_, _)) == LET r == Update(m, x, Tail(path), n)
                                IN  IF r.v = Fault THEN r ELSE Store(r.m, r.v)
    IN  IF path = <<>> THEN Done(m, n)
        ELSE IF v = Gone THEN Done(m, v)
        ELSE CASE p[1] = "key" /\ v.t \in {"null", "obj"} ->
                     LET has == p[2] \in DOMAIN Fields(m, v)
                     IN  IF ~has /\ n = Gone THEN Done(m, v)
                         ELSE Into(IF has THEN Fields(m, v)[p[2]] ELSE Null,
                                   LAMBDA m2, u : StoreField(m2, v, p[2], u))
               [] p[1] = "index" /\ v.t \in {"null", "arr"} ->
                     LET len    == Length(v)
                         i      == Clamp(p[2], -1, len)
                         within == i \in 0 .. len - 1
                     IN  IF ~within /\ n = Gone THEN Done(m, v)
                         ELSE IF i < 0 THEN Fail(m)
                         ELSE Into(IF within THEN Cells(m, v)[i + 1] ELSE Null,
                                   LAMBDA m2, u : StoreCell(m2, v, IF within THEN i ELSE p[2], u))
               [] p[1] = "slice" /\ v.t \in {"null", "arr"} ->
                     LET start == SliceStart(p[2], Length(v))
                         end   == SliceEnd(p[2], p[3], Length(v))
                     IN  IF start = end /\ n = Gone THEN Done(m, v)
                         ELSE Into(Part(v, start, end), LAMBDA m2, u : StoreSlice(m2, v, start, end, u))
               [] OTHER -> Fail(m)

\* deleteEmpty: it writes to everything that it walks through.
RECURSIVE DeleteEmpty(_, _)
DeleteEmpty(m, v) ==
    LET Field(s, k) ==
            LET w == s.heap[v.at][k]
            IN  IF w = Gone THEN Write(s, v.at, [j \in DOMAIN s.heap[v.at] \ {k} |-> s.heap[v.at][j]])
                ELSE LET r == DeleteEmpty(s, w) IN Write(r.m, v.at, [r.m.heap[v.at] EXCEPT ![k] = r.v])
        Cell(s, i) ==
            LET w == s.m.heap[v.at][v.off + i]
            IN  IF w = Gone THEN s
                ELSE LET r == DeleteEmpty(s.m, w)
                     IN  [m |-> Write(r.m, v.at, [r.m.heap[v.at] EXCEPT ![v.off + s.j + 1] = r.v]), j |-> s.j + 1]
        Clear(s) ==
            Done([s.m EXCEPT !.heap[v.at] = [i \in DOMAIN @ |->
                     IF i - v.off \in s.j + 1 .. v.len THEN Null ELSE @[i]]], [v EXCEPT !.len = s.j])
    IN  CASE v = Gone -> Done(m, Null)
          [] v.t = "obj" -> Done(FoldLeft(Field, m, SetToSeq(DOMAIN m.heap[v.at])), v)
          [] v.t = "arr" -> Clear(FoldLeft(Cell, [m |-> m, j |-> 0], [i \in 1 .. v.len |-> i]))
          [] OTHER -> Done(m, v)

DelPaths(m, v, paths) ==
    LET Fill(r, q) == IF r.v = Fault THEN r ELSE Update(r.m, r.v, q, Gone)
        filled == FoldLeft(Fill, Done(m, v), paths)
    IN  IF paths = <<>> \/ filled.v = Fault THEN filled ELSE DeleteEmpty(filled.m, filled.v)

-------------------------------------------------------------------------------
(* The values that memory holds.                                           *)

Deep == [t |-> "deep"]

RECURSIVE Meaning(_, _, _)
Meaning(heap, v, depth) ==
    IF v.t \notin {"arr", "obj"} THEN v
    ELSE IF depth = 0 THEN Deep
    ELSE IF v.t = "arr" THEN List([i \in 1 .. v.len |-> Meaning(heap, heap[v.at][v.off + i], depth - 1)])
    ELSE Map([k \in DOMAIN heap[v.at] |-> Meaning(heap, heap[v.at][k], depth - 1)])

Means(v) == Meaning(mem.heap, v, MaxDepth)

\* A value built of new blocks that no allocator knows, with spare cells in each array.
RECURSIVE Built(_, _, _)
Built(heap, val, spare) ==
    LET Add(r, w) == LET b == Built(r.heap, w, spare) IN [heap |-> b.heap, vs |-> Append(r.vs, b.v)]
        Sub(ws)   == FoldLeft(Add, [heap |-> heap, vs |-> <<>>], ws)
        keys      == SetToSeq(DOMAIN val.f)
    IN  CASE val.t = "list" /\ val.s = <<>> -> [heap |-> heap, v |-> Arr(1, 0, 0, 0)]
          [] val.t = "list" /\ val.s # <<>> ->
                LET r == Sub(val.s)
                IN  [heap |-> Append(r.heap, r.vs \o [i \in 1 .. spare |-> Null]),
                     v |-> Arr(Len(r.heap) + 1, 0, Len(val.s), Len(val.s) + spare)]
          [] val.t = "map" ->
                LET r == Sub([i \in DOMAIN keys |-> val.f[keys[i]]])
                IN  [heap |-> Append(r.heap, [k \in DOMAIN val.f |-> r.vs[CHOOSE i \in DOMAIN keys : keys[i] = k]]),
                     v |-> Obj(Len(r.heap) + 1)]
          [] OTHER -> [heap |-> heap, v |-> val]

\* The queries f of p |= f: what they make of a value, or none.
NoHand == [t |-> "none"]
Apply(m, f, v) ==
    CASE f = "same" -> Done(m, v)
      [] f = "wrap" -> Done([m EXCEPT !.heap = Append(@, <<v>>)], Arr(Len(m.heap) + 1, 0, 1, 1))
      [] f = "pair" -> Done([m EXCEPT !.heap = Append(@, <<v, v>>)], Arr(Len(m.heap) + 1, 0, 2, 2))
      [] f = "one" -> Done(m, Num(1))
      [] f = "leaf" -> Done(m, IF v.t \in {"arr", "obj"} THEN v ELSE Num(1))   \* if iterables then . else 1 end
      [] f = "empty" -> Done(m, NoHand)
      [] f = "number" -> IF v.t = "num" THEN Done(m, v) ELSE Done(m, NoHand)   \* numbers

-------------------------------------------------------------------------------
(* What is meant, on values: reduce path(p) as $q (.; setpath($q; ...)),   *)
(* as the comments in compiler.go have it.                                 *)

Elems(val) == IF val.t = "list" THEN val.s ELSE <<>>

PureIndex(val, p) ==
    IF val = Null THEN Null
    ELSE CASE p[1] = "key" /\ val.t = "map" -> IF p[2] \in DOMAIN val.f THEN val.f[p[2]] ELSE Null
           [] p[1] = "index" /\ val.t = "list" ->
                 LET i == IF p[2] < 0 THEN p[2] + Len(val.s) ELSE p[2]
                 IN  IF i \in 0 .. Len(val.s) - 1 THEN val.s[i + 1] ELSE Null
           [] p[1] = "slice" /\ val.t = "list" ->
                 LET s == SliceStart(p[2], Len(val.s))
                 IN  List(SubSeq(val.s, s + 1, SliceEnd(p[2], p[3], Len(val.s))))
           [] OTHER -> Fault

PureGet(val, path) == FoldLeft(PureIndex, val, path)

RECURSIVE PureSet(_, _, _)
PureSet(val, path, n) ==
    LET p   == Head(path)
        sub == PureIndex(val, p)
        new == PureSet(sub, Tail(path), n)
        len == Len(Elems(val))
        i   == IF p[2] < 0 THEN p[2] + len ELSE p[2]
        s   == SliceStart(p[2], len)
        e   == SliceEnd(p[2], p[3], len)
    IN  IF path = <<>> THEN n
        ELSE IF sub = Fault \/ new = Fault THEN Fault
        ELSE CASE p[1] = "key" -> Map((p[2] :> new) @@ (IF val.t = "map" THEN val.f ELSE <<>>))
               [] p[1] = "index" ->
                     IF i < 0 THEN Fault
                     ELSE List([k \in 1 .. Max({len, i + 1}) |->
                              IF k = i + 1 THEN new ELSE IF k <= len THEN val.s[k] ELSE Null])
               [] p[1] = "slice" ->
                     IF new.t # "list" THEN Fault
                     ELSE List(SubSeq(Elems(val), 1, s) \o new.s \o SubSeq(Elems(val), e + 1, len))

\* The places that a path leads to.
RECURSIVE Places(_, _)
Places(val, path) ==
    LET p     == Head(path)
        sub   == PureIndex(val, p)
        below == Places(sub, Tail(path))
        i     == IF p[2] < 0 THEN p[2] + Len(Elems(val)) ELSE p[2]
        s     == SliceStart(p[2], Len(Elems(val)))
    IN  IF path = <<>> THEN {<<>>}
        ELSE CASE p[1] = "key" -> IF val # Null /\ p[2] \in DOMAIN val.f THEN {<<p[2]>> \o q : q \in below} ELSE {}
               [] p[1] = "index" -> IF i \in 0 .. Len(Elems(val)) - 1 THEN {<<i>> \o q : q \in below} ELSE {}
               [] p[1] = "slice" /\ Len(path) = 1 -> {<<s + k - 1>> : k \in DOMAIN Elems(sub)}
               [] p[1] = "slice" /\ Len(path) > 1 -> {<<s + Head(q)>> \o Tail(q) : q \in below}

\* The value without what is at any of these places.
RECURSIVE Without(_, _)
Without(val, places) ==
    LET At(k) == {Tail(q) : q \in {q \in places : Head(q) = k}}
        Keep(k) == <<>> \notin At(k)
        kept  == SelectSeq([k \in DOMAIN Elems(val) |-> k - 1], Keep)
    IN  IF places = {} THEN val
        ELSE IF <<>> \in places THEN Null
        ELSE IF val.t = "list" THEN List([j \in DOMAIN kept |-> Without(val.s[kept[j] + 1], At(kept[j]))])
        ELSE Map([k \in {k \in DOMAIN val.f : Keep(k)} |-> Without(val.f[k], At(k))])

PureApply(f, val) ==
    CASE f = "same" -> val
      [] f = "wrap" -> List(<<val>>)
      [] f = "pair" -> List(<<val, val>>)
      [] f = "one" -> Num(1)
      [] f = "leaf" -> IF val.t \in {"list", "map"} THEN val ELSE Num(1)
      [] f = "number" -> val

Skips(f, val) == f = "empty" \/ (f = "number" /\ val.t # "num")

\* One path of p |= f: [val, dels].
PureModify(f, r, q) ==
    LET w == PureGet(r.val, q)
    IN  IF w = Fault \/ r.val = Fault THEN [r EXCEPT !.val = Fault]
        ELSE IF Skips(f, w) THEN [r EXCEPT !.dels = Append(@, q)]
        ELSE [r EXCEPT !.val = PureSet(@, q, PureApply(f, w))]

Reduced(pr) ==
    FoldLeft(LAMBDA r, q : IF pr.op = "assign" THEN [r EXCEPT !.val = IF @ = Fault THEN @ ELSE PureSet(@, q, pr.arg)]
                           ELSE PureModify(pr.f, r, q),
             [val |-> pr.input, dels |-> <<>>], IF pr.op = "delete" THEN <<>> ELSE pr.paths)

-------------------------------------------------------------------------------
\* The allocator of a loop is empty at first.
UpdStart(pr) ==
    /\ problem = pr
    /\ LET b == Built(<<<<>>>>, pr.input, pr.spare)
           a == Built(b.heap, pr.arg, 0)
       IN  /\ mem = [heap |-> a.heap, own |-> {}, wrote |-> {}]
           /\ root = b.v
           /\ cur = b.v
           /\ hand = IF pr.op = "assign" THEN a.v ELSE NoHand
    /\ todo = pr.paths
    /\ dels = <<>>
    /\ held = {}
    /\ stage = "path"

\* The paths are those of a path expression on the input: it can be followed along each.
UpdInit ==
    \E v \in Inputs, ps \in PathLists :
        /\ \A i \in DOMAIN ps : PureGet(v, ps[i]) # Fault
        /\ \E o \in Ops : UpdStart([input |-> v, paths |-> ps, op |-> o.op, f |-> o.f, arg |-> o.arg, spare |-> o.spare])

Path == Head(todo)

\* What a step leaves behind: r.v is the value so far.
Went(r, next) ==
    /\ mem' = r.m
    /\ IF r.v = Fault THEN stage' = "failed" /\ UNCHANGED cur
       ELSE stage' = next /\ cur' = r.v

\* compileAssign: setpath($q; $x)
AssignPath ==
    /\ problem.op = "assign" /\ stage = "path" /\ todo # <<>>
    /\ Went(Update(mem, cur, Path, hand), "path")
    /\ todo' = Tail(todo)
    /\ UNCHANGED <<problem, root, dels, hand, held>>

\* compileModify: getpath($p), which the query f gets
HandOver ==
    /\ problem.op = "modify" /\ stage = "path" /\ todo # <<>>
    /\ LET w == GetPath(mem, cur, Path)
       IN  IF w = Fault THEN stage' = "failed" /\ UNCHANGED <<mem, hand, held>>
           ELSE /\ mem' = Release(mem, w)
                /\ hand' = w
                /\ held' = held \cup {[v |-> w, meant |-> Means(w)]}
                /\ stage' = "call"
    /\ UNCHANGED <<problem, root, cur, todo, dels>>

CallF ==
    /\ stage = "call"
    /\ LET r == Apply(mem, problem.f, hand)
       IN  /\ mem' = r.m
           /\ hand' = r.v
    /\ stage' = "set"
    /\ UNCHANGED <<problem, root, cur, todo, dels, held>>

\* setpath($p; ...), or the path is kept for later
SetResult ==
    /\ stage = "set"
    /\ \/ /\ hand # NoHand
          /\ Went(Update(mem, cur, Path, hand), "path")
          /\ UNCHANGED dels
       \/ /\ hand = NoHand
          /\ dels' = Append(dels, Path)
          /\ stage' = "path"
          /\ UNCHANGED <<mem, cur>>
    /\ hand' = NoHand
    /\ todo' = Tail(todo)
    /\ UNCHANGED <<problem, root, held>>

\* _delpaths at the end of _modify, or delpaths with an allocator of its own
DeletePaths ==
    /\ stage = "path"
    /\ \/ problem.op = "modify" /\ todo = <<>>
       \/ problem.op = "delete"
    /\ Went(DelPaths(mem, cur, IF problem.op = "delete" THEN todo ELSE dels), "done")
    /\ todo' = <<>>
    /\ UNCHANGED <<problem, root, dels, hand, held>>

AssignEnds ==
    /\ problem.op = "assign" /\ stage = "path" /\ todo = <<>>
    /\ stage' = "done"
    /\ UNCHANGED <<problem, mem, root, cur, todo, dels, hand, held>>

UpdNext ==
    \/ AssignPath
    \/ HandOver
    \/ CallF
    \/ SetResult
    \/ DeletePaths
    \/ AssignEnds

UpdSpec == UpdInit /\ [][UpdNext]_updVars

-------------------------------------------------------------------------------
Expected ==
    LET r == Reduced(problem)
        d == IF problem.op = "delete" THEN problem.paths ELSE r.dels
    IN  IF r.val = Fault \/ \E i \in DOMAIN d : PureGet(r.val, d[i]) = Fault THEN Fault
        ELSE Without(r.val, UNION {Places(r.val, d[i]) : i \in DOMAIN d})

\* Paths through slices share the cells of what they are taken from.
HasSlice(path) == \E i \in DOMAIN path : path[i][1] = "slice"
Unshared == \A i \in 2 .. Len(problem.paths) : ~HasSlice(problem.paths[i])

-------------------------------------------------------------------------------
UpdatesTypeOK ==
    /\ \A p \in mem.own : p[1] \in DOMAIN mem.heap
    /\ todo \in Seq(Range(problem.paths)) /\ dels \in Seq(Range(problem.paths))
    /\ stage \in {"path", "call", "set", "done", "failed"}

Outcome == IF stage = "failed" THEN Fault ELSE Means(cur)

\* p = x, p |= f and delpaths come to what the definitions in jq come to, which copy at each step
\* (compiler.go:1029 has that of _assign), whatever was changed in place on the way.
MeansReduce == Unshared /\ stage \in {"done", "failed"} => Outcome = Expected

\* A value that a query was given, and may have kept, is not changed afterwards, nor is the value that
\* is assigned to several places (func.go:1528, "it must not be modified in place afterwards").
HeldKeptAlways ==
    /\ \A h \in held : Means(h.v) = h.meant
    /\ problem.op = "assign" => Means(hand) = problem.arg

\* The same where no part of an array that the loop has made itself is handed out.
HeldKept == Unshared => HeldKeptAlways

\* Constants of a query and the values of variables are shared by all who run it, so that none of their blocks may
\* be written to, not even with what it holds (compiler.go:39, "safe to call this method in goroutines").
OwnWrites == \A b \in mem.wrote \ {1} : b > Len(Built(<<<<>>>>, problem.input, 0).heap)

\* The input, which others may hold, is never changed; until the deletions it is not even written to, as a block
\* that is changed in place is always one that the loop has made (allocator.allocated).
InputKept ==
    /\ Means(root) = problem.input
    /\ stage # "done" => OwnWrites
\* Changing values in place is not seen by anybody else who has them (updateObject, updateArrayIndex, updateArraySlice,
\* deleteEmpty, the release in funcGetpathWithAllocator).
OthersKept == UpdatesTypeOK /\ HeldKept /\ InputKept
===============================================================================
