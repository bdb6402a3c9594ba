------------------------------- MODULE Sorting -------------------------------
(***************************************************************************)
(* The sorts of BBEL's library: sorting.hpp, the members of Vec that call  *)
(* them and the sort of Rope (types.hpp).  One sort of one input per       *)
(* behaviour.  An item is a key and its place in the input; the place is   *)
(* not compared and only tells items with equal keys apart.                *)
(*                                                                         *)
(* merge_sort and quick_sort work on an array indexed from 0, and the      *)
(* merge sort on a second one that starts as raw memory.  For a type that  *)
(* is not trivially copyable, reading an item out of a buffer destroys it  *)
(* there: the cell becomes raw memory again.  The trees are sorted through *)
(* erase and insert, that is, as sequences.                                *)
(***************************************************************************)
EXTENDS Integers, Sequences, SequencesExt, FiniteSets, FiniteSetsExt

CONSTANTS
    Inputs,         \* set of sequences of natural numbers, the keys
    BlockSize,      \* get_default_insertion_sort_size: 32 or 8
    Linear,         \* how many items insertion sort inserts linearly: 128
    Small           \* a Vec up to this size is sorted by insertion

ASSUME SizesAssumption ==
    /\ BlockSize \in Nat /\ BlockSize >= 2 /\ BlockSize % 2 = 0
    /\ Linear \in Nat /\ Small \in Nat /\ Small >= 1

Algorithms == {"merge_sort", "insertion_sort", "quick_sort", "rope_sort", "tree_sort"}

VARIABLES
    alg,        \* the member that was called
    trivial,    \* whether the item type is trivially copyable
    input,      \* the items as they were, a sequence
    pc,         \* where the code is
    buf,        \* the two buffers of the merge sort: data and temp
    ins,        \* insertion_sort_impl: [i, start, end, back]
    chunk,      \* merge_sort_bottomup_impl: [size, blocks, tiers, i, prev]
    up,         \* its current merge: [n, width, at, cap, from]
    merge,      \* merge_parts: [i, mid, j, hi, k, lo, end]
    ranges,     \* quick_sort_impl: the ranges still to sort, the next one first
    part,       \* its partitioning: [lo, hi, k, i, j]
    tree        \* rope_sort and tree_sort: [s, lower, upper]

call == <<alg, trivial, input>>
mergeVars == <<chunk, up, merge>>
quickVars == <<ranges, part>>
vars == <<call, pc, buf, ins, mergeVars, quickVars, tree>>

N == Len(input)
Indices == 0 .. N - 1
Raw == <<-1, 0>>                         \* memory without an item
f(a, b) == a[1] < b[1]                   \* the comparator
Items == {input[i] : i \in DOMAIN input}
data == buf["data"]

InOrder(s) == IsSorted(s, LAMBDA a, b : ~f(b, a))
-----------------------------------------------------------------------------
(* Helpers. *)

\* The first place from a on, below b, that is not in yes, the places where the
\* predicate holds, if it holds up to a point.
bsearch_up(a, b, yes) ==
    LET search[x \in a .. b, y \in a .. b] ==
            LET avg == (x + y) \div 2
            IN  CASE x >= y -> x
                  [] x < y /\ avg \in yes -> search[avg + 1, y]
                  [] x < y /\ avg \notin yes -> search[x, avg]
    IN  IF a < b THEN search[a, b] ELSE a

\* The first place from b on, below a, that is in yes, if the predicate then
\* holds on.
bsearch_down(a, b, yes) ==
    LET search[x \in b .. a, y \in b .. a] ==
            LET avg == (x + y) \div 2
            IN  CASE x <= y -> x
                  [] x > y /\ avg \in yes -> search[avg, y]
                  [] x > y /\ avg \notin yes -> search[x, avg + 1]
    IN  IF a > b THEN search[a, b] ELSE a

\* Where the sorts start: at the last item if the array is seen to be sorted.
shrink_sort_bounds ==
    LET obviously_not == N < 4 \/ f(data[N - 1], data[0]) \/ f(data[N - 2], data[0]) \/ f(data[N - 1], data[1])
    IN  IF ~obviously_not /\ \A i \in 0 .. N - 2 : ~f(data[i + 1], data[i]) THEN N - 1 ELSE 0

\* Item i goes up to place p of d and what was between moves down.
MovedUp(d, i, p) ==
    [x \in DOMAIN d |-> IF x = p THEN d[i] ELSE IF i <= x /\ x < p THEN d[x + 1] ELSE d[x]]

\* Mutant: <= in place of <.
linear_place_past_equal(d, i, end) ==
    CHOOSE p \in i .. end - 1 :
        /\ \A x \in i + 1 .. p : ~f(d[i], d[x])
        /\ p < end - 1 => f(d[i], d[p + 1])

\* The first place, from item i upwards, whose successor is not below it.
linear_place(d, i, end) ==
    CHOOSE p \in i .. end - 1 :
        /\ \A x \in i + 1 .. p : f(d[x], d[i])
        /\ p < end - 1 => ~f(d[p + 1], d[i])

binary_place(d, i, end) == bsearch_up(i + 1, end - 1, {avg \in i + 1 .. end - 2 : f(d[avg], d[i])})
-----------------------------------------------------------------------------
(* Insertion sort. *)

\* insertion_sort_impl of the items from start to end; then on at pc back.
insertion_sort_impl(start, end, back) ==
    /\ ins' = [i |-> end - 2, start |-> start, end |-> end, back |-> back]
    /\ pc' = "insert"

\* From the last but one down, each item is inserted into the sorted ones
\* behind it: the first few linearly, the others by a search.
InsertItem ==
    /\ pc = "insert" /\ ins.i >= ins.start
    /\ LET i == ins.i
           count_2 == IF trivial THEN Min({Linear, ins.end - ins.start - 1}) ELSE 0
           place == IF i > ins.end - 2 - count_2
                    THEN linear_place(data, i, ins.end) ELSE binary_place(data, i, ins.end)
       IN  /\ buf' = IF f(data[i + 1], data[i]) THEN [buf EXCEPT !["data"] = MovedUp(@, i, place)] ELSE buf
           /\ ins' = [ins EXCEPT !.i = @ - 1]
    /\ UNCHANGED <<call, pc, mergeVars, quickVars, tree>>

InsertEnd ==
    /\ pc = "insert" /\ ins.i < ins.start
    /\ pc' = ins.back
    /\ UNCHANGED <<call, ins, buf, mergeVars, quickVars, tree>>

\* Vec::insertion_sort.  Without items the count of insertions wraps around
\* and the array is left.
insertion_sort ==
    /\ pc = "insertion" \/ (pc = "begin" /\ alg = "insertion_sort")
    /\ IF N = 0 THEN pc' = "wild" /\ UNCHANGED ins
                ELSE insertion_sort_impl(0, N, "done")
    /\ UNCHANGED <<call, buf, mergeVars, quickVars, tree>>
-----------------------------------------------------------------------------
(* Merge sort: Vec::merge_sort and merge_sort_bottomup_impl. *)

Other(b) == IF b = "data" THEN "temp" ELSE "data"

\* Mutant: the items stay in the first buffer as well.
transfer_into_uninit_copy(bs, from, src, dst, n) ==
    [bs EXCEPT ![Other(from)] = [x \in Indices |-> IF x \in dst .. dst + n - 1 THEN bs[from][x - dst + src] ELSE @[x]]]

\* Items src .. src + n - 1 of one buffer are moved to dst and on in the other.
transfer_into_uninit(bs, from, src, dst, n) ==
    [bs EXCEPT
        ![from] = [x \in Indices |-> IF ~trivial /\ x \in src .. src + n - 1 THEN Raw ELSE @[x]],
        ![Other(from)] = [x \in Indices |-> IF x \in dst .. dst + n - 1
                                            THEN bs[from][x - dst + src] ELSE @[x]]]

\* The size of the blocks and how many tiers of merges there will be: an even
\* number, so that the last merge is into data.
BlocksFor(size) ==
    LET t == Min({k \in 0 .. size : BlockSize * 2 ^ k >= size})
    IN  IF t % 2 = 1 THEN [size |-> BlockSize \div 2, tiers |-> t + 1] ELSE [size |-> BlockSize, tiers |-> t]

merge_sort ==
    /\ pc = "begin" /\ alg = "merge_sort"
    /\ pc' = IF N <= Small THEN "insertion" ELSE "chunk"
    /\ LET b == BlocksFor(N - shrink_sort_bounds)
       IN  chunk' = IF N <= Small THEN chunk
                    ELSE [size |-> b.size, tiers |-> b.tiers, blocks |-> 0, i |-> shrink_sort_bounds, prev |-> "data"]
    /\ UNCHANGED <<call, ins, buf, up, merge, quickVars, tree>>

\* The next block is sorted by insertion.
SortBlock ==
    /\ pc = "chunk" /\ chunk.i < N
    /\ LET cap == Min({chunk.i + chunk.size, N})
       IN  /\ insertion_sort_impl(chunk.i, cap, "cascade")
           /\ up' = [n |-> chunk.blocks, width |-> chunk.size, at |-> chunk.i, cap |-> cap, from |-> "data"]
    /\ UNCHANGED <<call, buf, chunk, merge, quickVars, tree>>

\* merge_parts up to its loop: what is below everything of the right half and
\* what is above everything of the left half is moved over at once.
merge_parts(from, start, end, mid) ==
    LET rd == buf[from]
        lo == IF mid > start /\ ~f(rd[mid], rd[start])
              THEN bsearch_up(start + 1, mid - 1, {avg \in start + 1 .. mid - 2 : ~f(rd[mid], rd[avg])})
              ELSE start
        hi == IF end > mid /\ ~f(rd[end - 1], rd[mid - 1])
              THEN bsearch_down(end - 1, mid, {avg \in mid .. end - 2 : ~f(rd[avg], rd[mid - 1])})
              ELSE end
    IN  /\ buf' = transfer_into_uninit(transfer_into_uninit(buf, from, start, start, lo - start),
                                       from, hi, hi, end - hi)
        /\ merge' = [i |-> lo, mid |-> mid, j |-> mid, hi |-> hi, k |-> lo, lo |-> start, end |-> end]

\* The block is merged with its left neighbours as far as they are complete.
MergeLeft ==
    /\ pc = "cascade" /\ up.n % 2 = 1
    /\ merge_parts(up.from, up.at - up.width, up.cap, up.at)
    /\ up' = [up EXCEPT !.n = @ \div 2, !.at = @ - up.width, !.width = 2 * @]
    /\ pc' = "merging_left"
    /\ UNCHANGED <<call, ins, chunk, quickVars, tree>>

NextBlock ==
    /\ pc = "cascade" /\ up.n % 2 = 0
    /\ chunk' = [chunk EXCEPT !.blocks = @ + 1, !.i = @ + chunk.size]
    /\ pc' = "chunk"
    /\ UNCHANGED <<call, ins, buf, up, merge, quickVars, tree>>

\* The loop of merge_parts: the lower one of the two next items; of two that
\* are equal the left one.
MergeItem ==
    /\ pc \in {"merging_left", "merging_rest"}
    /\ merge.i < merge.mid /\ merge.j < merge.hi
    /\ LET right == f(buf[up.from][merge.j], buf[up.from][merge.i])
       IN  /\ buf' = transfer_into_uninit(buf, up.from, IF right THEN merge.j ELSE merge.i, merge.k, 1)
           /\ merge' = [merge EXCEPT !.k = @ + 1,
                                     !.i = IF right THEN @ ELSE @ + 1, !.j = IF right THEN @ + 1 ELSE @]
    /\ UNCHANGED <<call, ins, pc, chunk, up, quickVars, tree>>

\* What is left of one half follows, and the buffers change their roles.
MergeEnd ==
    /\ pc \in {"merging_left", "merging_rest"}
    /\ ~(merge.i < merge.mid /\ merge.j < merge.hi)
    /\ buf' = transfer_into_uninit(buf, up.from, IF merge.j < merge.hi THEN merge.j ELSE merge.i,
                                   merge.k, merge.hi - merge.k)
    /\ up' = [up EXCEPT !.from = Other(@)]
    /\ pc' = IF pc = "merging_left" THEN "cascade" ELSE "rest"
    /\ UNCHANGED <<call, ins, chunk, merge, quickVars, tree>>

\* All blocks are sorted.  If their number is no power of two, the last merges
\* are still to do; the ones that were done on the way are skipped.
BlocksDone ==
    /\ pc = "chunk" /\ chunk.i >= N
    /\ IF chunk.blocks = 2 ^ chunk.tiers
       THEN pc' = "done" /\ UNCHANGED <<chunk, up>>
       ELSE LET n == chunk.blocks - 1
                skipped == Max({k \in 0 .. n : n % (2 ^ k) = 2 ^ k - 1})
            IN  /\ up' = [n |-> n \div 2 ^ skipped, width |-> chunk.size * 2 ^ skipped,
                          at |-> chunk.i - chunk.size - chunk.size * (2 ^ skipped - 1),
                          cap |-> N,
                          from |-> IF skipped % 2 = 1 THEN "temp" ELSE "data"]
                /\ chunk' = [chunk EXCEPT !.prev = IF skipped % 2 = 1 THEN "temp" ELSE "data"]
                /\ pc' = "rest"
    /\ UNCHANGED <<call, ins, buf, merge, quickVars, tree>>

\* One turn of the last loop without a merge: only the buffers change roles.
SkipTier ==
    /\ pc = "rest" /\ up.n > 0 /\ up.n % 2 = 0
    /\ up' = [up EXCEPT !.n = @ \div 2, !.width = 2 * @, !.from = Other(@)]
    /\ UNCHANGED <<call, ins, pc, buf, chunk, merge, quickVars, tree>>

\* The items of the right edge are brought into the buffer of the left part.
FlipBuffer ==
    /\ pc = "rest" /\ up.n % 2 = 1 /\ chunk.prev # up.from
    /\ buf' = transfer_into_uninit(buf, Other(up.from), up.at, up.at, N - up.at)
    /\ chunk' = [chunk EXCEPT !.prev = up.from]
    /\ UNCHANGED <<call, ins, pc, up, merge, quickVars, tree>>

MergeRest ==
    /\ pc = "rest" /\ up.n % 2 = 1 /\ chunk.prev = up.from
    /\ merge_parts(up.from, up.at - up.width, N, up.at)
    /\ up' = [up EXCEPT !.n = @ \div 2, !.at = @ - up.width, !.width = 2 * @]
    /\ chunk' = [chunk EXCEPT !.prev = Other(up.from)]
    /\ pc' = "merging_rest"
    /\ UNCHANGED <<call, ins, quickVars, tree>>
-----------------------------------------------------------------------------
(* Quicksort: Vec::quick_sort and quick_sort_impl. *)

quick_sort ==
    /\ pc = "begin" /\ alg = "quick_sort"
    /\ ranges' = <<[start |-> shrink_sort_bounds, end |-> N]>>
    /\ pc' = "quick"
    /\ UNCHANGED <<call, ins, buf, mergeVars, part, tree>>

\* A call for a range.
quick_sort_impl ==
    /\ pc = "quick" /\ ranges # <<>>
    /\ LET r == Head(ranges)
       IN  IF r.end - r.start <= BlockSize
           THEN /\ IF r.end - r.start >= 2
                   THEN insertion_sort_impl(r.start, r.end, "quick")
                   ELSE UNCHANGED <<pc, ins>>
                /\ ranges' = Tail(ranges)
                /\ UNCHANGED part
           ELSE /\ part' = [lo |-> r.start, hi |-> r.end - 1, k |-> 0, i |-> r.start, j |-> r.end - 1]
                /\ pc' = "perturb"
                /\ UNCHANGED <<ranges, ins>>
    /\ UNCHANGED <<call, buf, mergeVars, tree>>

pivot == part.lo + (part.hi - part.lo) \div 2

\* The pivot is the middle, moved up to five times by comparing neighbours.
PerturbPivot ==
    /\ pc = "perturb" /\ part.k < 5 /\ part.lo # part.hi
    /\ part' = IF (part.k % 2 = 0) = ~f(data[pivot], data[pivot + 1])
               THEN [part EXCEPT !.hi = pivot, !.k = @ + 1]
               ELSE [part EXCEPT !.lo = pivot + 1, !.k = @ + 1]
    /\ UNCHANGED <<call, pc, buf, ins, mergeVars, ranges, tree>>

\* Where the scan from the left may stop.
NotBelow(p) == {x \in part.i .. N - 1 : ~f(data[x], p)}

\* One turn of the loop of the partitioning.  The scans look at the item that
\* is at the pivot's place now, and have no other end than an item that is not
\* below, or not above it.
Partition ==
    /\ pc = "partition" \/ (pc = "perturb" /\ (part.k = 5 \/ part.lo = part.hi))
    /\ part.i < part.j
    /\ LET p == data[pivot]
           above == NotBelow(p)
           below == {x \in 0 .. part.j : ~f(p, data[x])}
       IN  IF above = {} \/ below = {}
           THEN pc' = "wild" /\ UNCHANGED <<buf, part>>
           ELSE LET i == Min(above)
                    j == Max(below)
                IN  /\ part' = [part EXCEPT !.i = IF i < j THEN i + 1 ELSE i,
                                            !.j = IF i < j THEN j - 1 ELSE j]
                    /\ buf' = IF i < j THEN [buf EXCEPT !["data"][i] = data[j], !["data"][j] = data[i]]
                                       ELSE buf
                    /\ pc' = "partition"
    /\ UNCHANGED <<call, ins, mergeVars, ranges, tree>>

\* Mutant: the left range takes the item where the scans met.
LeftOf_inclusive(r) == <<[start |-> r.start, end |-> part.i + 1]>>

\* The ranges on both sides of where the scans met.
LeftOf(r) == <<[start |-> r.start, end |-> part.i]>>

RightOf(r) == IF part.i + 1 < r.end THEN <<[start |-> part.i + 1, end |-> r.end]>> ELSE <<>>

\* The two calls for what is left and right of where the scans met.
Recurse ==
    /\ pc = "partition" /\ part.i >= part.j
    /\ ranges' = LeftOf(Head(ranges)) \o RightOf(Head(ranges)) \o Tail(ranges)
    /\ pc' = "quick"
    /\ UNCHANGED <<call, ins, buf, mergeVars, part, tree>>
-----------------------------------------------------------------------------
(* Sorting a tree by erasing and inserting; at(i) is data[i] of the tree. *)

\* The item at place i is taken out and put in again at place p.
Reinserted(s, i, p) == InsertAt(RemoveAt(s, i + 1), p + 1, s[i + 1])

\* inout_tree_insertion_sort_impl: a sorted range grows out of the middle.
rope_sort ==
    /\ pc = "begin" /\ alg = "rope_sort"
    /\ tree' = [s |-> input, lower |-> N \div 2, upper |-> N \div 2]
    /\ pc' = IF N <= 1 THEN "done" ELSE "grow"
    /\ UNCHANGED <<call, ins, buf, mergeVars, quickVars>>

\* The range is extended over what is in order already.
GrowRange ==
    /\ pc = "grow" /\ (tree.lower > 0 \/ tree.upper < N - 1)
    /\ LET at(i) == tree.s[i + 1]
       IN  tree' = [tree EXCEPT
                !.lower = Min({x \in 0 .. @ : \A y \in x + 1 .. @ : ~f(at(y), at(y - 1))}),
                !.upper = Max({x \in @ .. N - 1 : \A y \in @ + 1 .. x : ~f(at(y), at(y - 1))})]
    /\ pc' = "insert_below"
    /\ UNCHANGED <<call, ins, buf, mergeVars, quickVars>>

\* The item below the range goes to its place in it.
InsertBelow ==
    /\ pc = "insert_below"
    /\ tree' = IF tree.lower = 0 THEN tree
               ELSE LET item == tree.s[tree.lower]
                        rest == RemoveAt(tree.s, tree.lower)
                        place == bsearch_up(tree.lower, tree.upper, {avg \in tree.lower .. tree.upper - 1 : f(rest[avg + 1], item)})
                    IN  [tree EXCEPT !.s = Reinserted(@, tree.lower - 1, place)]
    /\ pc' = "insert_above"
    /\ UNCHANGED <<call, ins, buf, mergeVars, quickVars>>

\* The item above the range goes to its place in it.
InsertAbove ==
    /\ pc = "insert_above"
    /\ tree' = IF tree.upper = N - 1 THEN tree
               ELSE LET item == tree.s[tree.upper + 2]
                        place == bsearch_down(tree.upper, tree.lower, {avg \in tree.lower .. tree.upper - 1 : ~f(tree.s[avg + 1], item)})
                    IN  [tree EXCEPT !.s = Reinserted(@, tree.upper + 1, place)]
    /\ pc' = "grow"
    /\ UNCHANGED <<call, ins, buf, mergeVars, quickVars>>

\* tree_insertion_sort_impl: the sorted range grows from the start; upper is i.
tree_sort ==
    /\ pc = "begin" /\ alg = "tree_sort"
    /\ tree' = [s |-> input, lower |-> 0, upper |-> 1]
    /\ pc' = "tree"
    /\ UNCHANGED <<call, ins, buf, mergeVars, quickVars>>

TreeInsert ==
    /\ pc = "tree" /\ tree.upper < N
    /\ LET i == tree.upper
           at(x) == tree.s[x + 1]
           place == bsearch_up(0, i - 1, {avg \in 0 .. i - 2 : f(at(avg), at(i))})
       IN  tree' = [tree EXCEPT !.upper = i + 1, !.s = IF f(at(i), at(i - 1)) THEN Reinserted(@, i, place) ELSE @]
    /\ UNCHANGED <<call, ins, pc, buf, mergeVars, quickVars>>
-----------------------------------------------------------------------------
\* The loops that end the sorts have nothing left to do.
Return ==
    /\ \/ pc = "rest" /\ up.n = 0
       \/ pc = "quick" /\ ranges = <<>>
       \/ pc = "grow" /\ tree.lower = 0 /\ tree.upper = N - 1
       \/ pc = "tree" /\ tree.upper >= N
    /\ pc' = "done"
    /\ UNCHANGED <<call, buf, ins, mergeVars, quickVars, tree>>

NoChunk == [size |-> 0, blocks |-> 0, tiers |-> 0, i |-> 0, prev |-> "data"]
NoUp == [n |-> 0, width |-> 0, at |-> 0, cap |-> 0, from |-> "data"]
NoMerge == [i |-> 0, mid |-> 0, j |-> 0, hi |-> 0, k |-> 0, lo |-> 0, end |-> 0]

Init ==
    /\ alg \in Algorithms
    /\ trivial \in BOOLEAN
    /\ \E keys \in Inputs : input = [i \in DOMAIN keys |-> <<keys[i], i>>]
    /\ pc = "begin"
    /\ buf = [data |-> [i \in Indices |-> input[i + 1]], temp |-> [i \in Indices |-> Raw]]
    /\ ins = [i |-> 0, start |-> 0, end |-> 0, back |-> "done"]
    /\ chunk = NoChunk /\ up = NoUp /\ merge = NoMerge
    /\ ranges = <<>> /\ part = [lo |-> 0, hi |-> 0, k |-> 0, i |-> 0, j |-> 0]
    /\ tree = [s |-> input, lower |-> 0, upper |-> 0]

Next ==
    \/ merge_sort \/ SortBlock \/ MergeLeft \/ NextBlock \/ MergeItem \/ MergeEnd
    \/ BlocksDone \/ SkipTier \/ FlipBuffer \/ MergeRest
    \/ insertion_sort \/ InsertItem \/ InsertEnd
    \/ quick_sort \/ quick_sort_impl \/ PerturbPivot \/ Partition \/ Recurse
    \/ rope_sort \/ GrowRange \/ InsertBelow \/ InsertAbove
    \/ tree_sort \/ TreeInsert
    \/ Return

\* Nothing but the sort runs, and a sort that can go on does.
Spec == Init /\ [][Next]_vars /\ WF_vars(Next)
-----------------------------------------------------------------------------
(* Properties. *)

InTree == alg \in {"rope_sort", "tree_sort"}
Result == IF InTree THEN tree.s ELSE [i \in 1 .. N |-> data[i - 1]]

\* The state has its shape; a cell holds an item or nothing, and every index
\* of the merges, the scans and the tree is one of the array.
TypeOK ==
    /\ alg \in Algorithms /\ trivial \in BOOLEAN
    /\ buf \in [{"data", "temp"} -> [Indices -> Items \cup {Raw}]]
    /\ 0 <= merge.lo /\ merge.lo <= merge.i /\ merge.i <= merge.mid /\ merge.mid <= merge.j
    /\ merge.j <= merge.hi /\ merge.hi <= merge.end /\ merge.end <= N
    /\ part.i \in 0 .. N /\ part.j \in -1 .. N
    /\ \A k \in DOMAIN ranges : 0 <= ranges[k].start /\ ranges[k].start <= ranges[k].end /\ ranges[k].end <= N

\* An item is never lost, doubled or destroyed twice: at every step every item
\* is in exactly one cell of the two buffers, however often the merge sort of a
\* type that is not trivially copyable moves it across; in the result of any
\* sort of any type, and in a tree at every step, every item is there once.
EveryItemOnce ==
    /\ (~InTree /\ ~trivial) =>
           \A x \in Items : Cardinality({c \in {"data", "temp"} \X Indices : buf[c[1]][c[2]] = x}) = 1
    /\ (InTree \/ pc = "done") =>
           /\ Len(Result) = N
           /\ \A x \in Items : \E i \in 1 .. N : Result[i] = x

\* merge_parts reads items and writes to memory without items: what is still to
\* be merged is in the buffer it reads, in both halves, and for a type that is
\* not trivially copyable the cells it will write are free.
BuffersReady ==
    pc \in {"merging_left", "merging_rest"} =>
        /\ \A x \in (merge.i .. merge.mid - 1) \cup (merge.j .. merge.hi - 1) : buf[up.from][x] # Raw
        /\ ~trivial => \A x \in merge.k .. merge.hi - 1 : buf[Other(up.from)][x] = Raw

\* Both halves of a merge are sorted when it begins.  Insertion sort leaves them
\* so as long as it inserts linearly.
InsertsLinearly == trivial /\ (N <= Linear + 1 \/ (alg = "merge_sort" /\ N > Small /\ BlockSize <= Linear + 1))

\* A Vec of a trivially copyable type is sorted by merge_sort and insertion_sort,
\* and equal items keep their order; a tree is sorted, whatever the type.
SortsWhereLinear ==
    pc = "done" =>
        /\ InTree => InOrder(Result)
        /\ (alg \in {"merge_sort", "insertion_sort"} /\ InsertsLinearly) =>
               \A i, j \in 1 .. N : i < j => \/ f(Result[i], Result[j])
                                             \/ Result[i][1] = Result[j][1] /\ Result[i][2] < Result[j][2]

\* The array is left only by the insertion sort of an empty Vec: the scans of
\* quick_sort, which have no bound of their own, always meet an item that stops
\* them, although the item at the pivot's place changes while they run.
CrashExplained == pc = "wild" => N = 0 /\ alg \in {"merge_sort", "insertion_sort"}

\* Every sort of every input comes to an end.
Ends == <>(pc \in {"done", "wild"})

\* Memory is used as Vec and its sorts promise: no item is lost, doubled or read
\* where there is none, and the array is left only as explained.
MemoryRight == TypeOK /\ EveryItemOnce /\ BuffersReady /\ CrashExplained
=============================================================================
