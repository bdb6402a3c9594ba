-------------------------------- MODULE Rope --------------------------------
(***************************************************************************)
(* Rope (bbel/types.hpp), a sequence kept in the leaves of a binary tree.  *)
(* A leaf that grows past max_size is split, a subtree that shrinks below  *)
(* min_size becomes one leaf, and the tree is rebalanced, a little, after  *)
(* every change that leaves it too high.  Nodes know their parent, and the *)
(* lengths, heights and numbers of leaves along the path are updated in    *)
(* place.  The leaf found last is cached with the place where it starts.   *)
(*                                                                         *)
(* A rope is brought about by one of a set of scripts of calls and then    *)
(* used freely for a number of calls.  Nodes that nothing refers to any    *)
(* more are dropped from the heap, as Shared does.                         *)
(***************************************************************************)
EXTENDS Integers, Sequences, SequencesExt, FiniteSets, FiniteSetsExt

CONSTANTS
    Scripts,    \* set of [min, max, first, free]: the sizes, the first calls as pairs of a
                \* member and an index, and the number of calls after them
    NodeIds     \* names of nodes, positive numbers

VARIABLES
    script,     \* the script that grew this rope
    step,       \* how many calls were made
    heap,       \* the nodes, by name
    root,       \* a name, or 0
    cache,      \* [node, start, len]: cached_node, cached_node_start, cached_node_len
    num_rebalances,
    op,         \* the last call: [name, i, item]; item is what went in or came out
    skewed,     \* an item in front of the cached leaf was erased since it was found
    crashed,    \* an index left its leaf
    lost        \* a subtree with items was dropped

vars == <<script, step, heap, root, cache, num_rebalances, op, skewed, crashed, lost>>

min_size == script.min
max_size == script.max
Leaf(items) == [items |-> items, left |-> 0, right |-> 0, parent |-> 0,
                mlength |-> Len(items), mheight |-> 0, mleaves |-> 1]
NoCache == [node |-> 0, start |-> 0, len |-> 0]
kill_cache == NoCache

RECURSIVE Contents(_, _), Below(_, _), Ancestors(_, _), LeafOf(_, _, _, _)

\* The items below a node in order, and the nodes.
Contents(h, n) == IF n = 0 THEN <<>> ELSE h[n].items \o Contents(h, h[n].left) \o Contents(h, h[n].right)
Below(h, n) == IF n = 0 THEN {} ELSE {n} \cup Below(h, h[n].left) \cup Below(h, h[n].right)

\* The nodes above a node along the parent pointers, the nearest one first.
Ancestors(h, n) == IF h[n].parent = 0 THEN <<>> ELSE <<h[n].parent>> \o Ancestors(h, h[n].parent)

\* The leaf for index i below n and the index in it; an index between two
\* leaves belongs to the left one when something is inserted.
LeafOf(h, n, i, inserting) ==
    IF h[n].left = 0 THEN [node |-> n, i |-> i]
    ELSE LET l == h[h[n].left].mlength
         IN  IF i < l \/ (inserting /\ i = l) THEN LeafOf(h, h[n].left, i, inserting)
             ELSE LeafOf(h, h[n].right, i - l, inserting)

size == IF root = 0 THEN 0 ELSE heap[root].mlength
Fresh(h) == Min(NodeIds \ DOMAIN h)
Live(h, r, c) == LET keep == Below(h, r) \cup Below(h, c) IN [n \in keep |-> h[n]]

\* mlength of the nodes of a path changes by d.
Lengthened(h, path, d) ==
    [n \in DOMAIN h |-> IF n \in ToSet(path) THEN [h[n] EXCEPT !.mlength = @ + d] ELSE h[n]]

\* The children of n point to it.
Adopted(h, n) ==
    IF h[n].left = 0 THEN h ELSE [h EXCEPT ![h[n].left].parent = n, ![h[n].right].parent = n]

fix_metadata(h, n) ==
    LET l == h[n].left
        r == h[n].right
    IN  IF l = 0 THEN [h EXCEPT ![n].mheight = 0]
        ELSE [h EXCEPT ![n].mheight = Max({h[l].mheight, h[r].mheight}) + 1,
                       ![n].mlength = h[l].mlength + h[r].mlength,
                       ![n].mleaves = h[l].mleaves + h[r].mleaves]
-----------------------------------------------------------------------------
(* RopeNode::insert_at. *)

RECURSIVE Raised(_, _, _)
\* A leaf was split below the path: one more leaf and one more item for each,
\* and the height of the one below at least one less.
Raised(h, path, below) ==
    IF path = <<>> THEN h
    ELSE LET n == Head(path)
             up == Max({h[n].mheight, below + 1})
         IN  Raised([h EXCEPT ![n].mheight = up, ![n].mleaves = @ + 1, ![n].mlength = @ + 1], Tail(path), up)

node_insert_at(h, n, i, item) ==
    LET items == InsertAt(h[n].items, i + 1, item)
        half == Len(items) \div 2
        l == Fresh(h)
        with_l == h @@ (l :> [Leaf(SubSeq(items, 1, half)) EXCEPT !.parent = n])
        r == Fresh(with_l)
        split == with_l @@ (r :> [Leaf(SubSeq(items, half + 1, Len(items))) EXCEPT !.parent = n])
    IN  IF Len(items) <= max_size
        THEN Lengthened([h EXCEPT ![n].items = items], <<n>> \o Ancestors(h, n), 1)
        ELSE Raised([split EXCEPT ![n] = [@ EXCEPT !.items = <<>>, !.left = l, !.right = r,
                                                   !.mlength = @ + 1, !.mheight = 1, !.mleaves = @ + 1]],
                    Ancestors(h, n), 1)
-----------------------------------------------------------------------------
(* RopeNode::erase_at. *)

\* Mutant: only an empty leaf is taken out, and one level up.
Climbed_empty(h, n, climbed) ==
    IF h[n].parent # 0 /\ h[n].mlength = 0 THEN Append(climbed, h[n].parent) ELSE climbed

\* Up to which ancestor the tree is collapsed: while the next one up has fewer
\* than min_size items without the erased one, or the node is empty.
RECURSIVE Climbed(_, _, _)
Climbed(h, n, climbed) ==
    LET p == h[n].parent
    IN  IF p # 0 /\ (h[p].mlength - 1 < min_size \/ h[n].mlength = 0)
        THEN Climbed([h EXCEPT ![p].mlength = @ - 1], p, Append(climbed, p))
        ELSE climbed

\* One subtree takes the place of n, the other one is empty.
Replaced(h, n) ==
    LET next == IF h[h[n].left].mlength = 0 THEN h[n].right ELSE h[n].left
    IN  Adopted([h EXCEPT ![n] = [h[next] EXCEPT !.parent = h[n].parent]], n)

\* n becomes a leaf with everything that is below it.
Collapsed(h, n) ==
    [h EXCEPT ![n] = [@ EXCEPT !.items = Contents(h, n), !.left = 0, !.right = 0, !.mheight = 0, !.mleaves = 1]]

RECURSIVE Refreshed(_, _)
\* Heights, leaves and lengths of the nodes above.
Refreshed(h, path) ==
    IF path = <<>> THEN h
    ELSE LET n == Head(path)
             l == h[h[n].left]
             r == h[h[n].right]
         IN  Refreshed([h EXCEPT ![n].mheight = Max({l.mheight, r.mheight}) + 1,
                                 ![n].mleaves = l.mleaves + r.mleaves, ![n].mlength = @ - 1], Tail(path))

\* The leaf n without its item i.
Without(h, n, i) == [h EXCEPT ![n].items = RemoveAt(@, i + 1), ![n].mlength = @ - 1]

node_erase_at(h, n, i) ==
    LET h1 == Without(h, n, i)
        climbed == Climbed(h1, n, <<>>)
        h2 == Lengthened(h1, climbed, -1)
        top == Last(climbed)
    IN  IF h1[n].mlength < min_size /\ climbed # <<>>
        THEN LET h3 == IF h1[n].mlength = 0 THEN Replaced(h2, top) ELSE Collapsed(h2, top)
             IN  Refreshed(h3, Ancestors(h3, top))
        ELSE Lengthened(h1, Ancestors(h, n), -1)

\* An empty leaf takes more than its parent with it: of the topmost node only
\* one child is kept.
LosesItems(h, n, i) ==
    LET h1 == Without(h, n, i) IN h1[n].items = <<>> /\ Len(Climbed(h1, n, <<>>)) > 1
-----------------------------------------------------------------------------
(* rebalance and rebalance_impl. *)

RECURSIVE rebalance_impl(_, _)

\* Case B: the grandchild a on the outside of the left child is the highest,
\* and moves up: (a b) c becomes a (b c).
RotatedRight(h, n) ==
    LET l == h[n].left
        h1 == [h EXCEPT ![n].left = h[l].left, ![n].right = l,
                        ![l].left = h[l].right, ![l].right = h[n].right]
    IN  fix_metadata(rebalance_impl(fix_metadata(Adopted(h1, l), l), h1[n].left), n)

\* The other way round: a (b c) becomes (a b) c.
RotatedLeft(h, n) ==
    LET r == h[n].right
        h1 == [h EXCEPT ![n].left = r, ![n].right = h[r].right,
                        ![r].left = h[n].left, ![r].right = h[r].left]
    IN  fix_metadata(rebalance_impl(fix_metadata(Adopted(h1, r), r), h1[n].right), n)

\* Case C: the middle grandchild b is the highest; its children are shared out
\* to two new nodes.
Shared(h, n) ==
    LET left_high == h[h[n].left].mheight >= h[h[n].right].mheight
        side == IF left_high THEN h[n].left ELSE h[n].right
        b == IF left_high THEN h[side].right ELSE h[side].left
        outer_l == IF left_high THEN h[side].left ELSE h[n].left
        outer_r == IF left_high THEN h[n].right ELSE h[side].right
        l == Fresh(h)
        h1 == h @@ (l :> [Leaf(<<>>) EXCEPT !.left = outer_l, !.right = h[b].left])
        r == Fresh(h1)
        h2 == h1 @@ (r :> [Leaf(<<>>) EXCEPT !.left = h[b].right, !.right = outer_r])
        h3 == fix_metadata(fix_metadata([h2 EXCEPT ![n].left = l, ![n].right = r], l), r)
        h4 == rebalance_impl(h3, IF h3[l].mheight >= h3[r].mheight THEN l ELSE r)
    IN  fix_metadata(Adopted(Adopted(h4, l), r), n)

rebalance_impl(h, n) ==
    LET h0 == [h EXCEPT ![n].parent = 0]
        l == h[n].left
        r == h[n].right
        left_high == h[l].mheight >= h[r].mheight
        height(m) == IF m = 0 THEN 0 ELSE h[m].mheight + 1
        a == IF left_high THEN height(h[l].left) ELSE h[l].mheight
        b == IF left_high THEN height(h[l].right) ELSE height(h[r].left)
        c == IF left_high THEN h[r].mheight ELSE height(h[r].right)
    IN  Adopted(
          IF h[n].mheight <= 2 THEN fix_metadata(h0, n)
          ELSE CASE a = c /\ a > b -> fix_metadata(rebalance_impl(h0, IF left_high THEN l ELSE r), n)
                 [] ~(a = c /\ a > b) /\ (a > b \/ c > b) -> IF a >= c THEN RotatedRight(h0, n) ELSE RotatedLeft(h0, n)
                 [] OTHER -> Shared(h0, n),
          n)

\* The greatest height that is left alone.
Bits(s) == Min({k \in 1 .. s + 1 : 2 ^ k > s})
logn(leaves) == ((Bits(leaves + 1)) * 23) \div 16
TooHigh(h, n) == h[n].mheight > logn(h[n].mleaves)
rebalance(h, n) == IF TooHigh(h, n) THEN rebalance_impl(h, n) ELSE h
-----------------------------------------------------------------------------
(* The cache. *)

CacheHas(i) == cache.node # 0 /\ i >= cache.start /\ i < cache.start + cache.len
CacheTakes(i) == cache.node # 0 /\ i >= cache.start /\ i <= cache.start + cache.len

\* Mutant: the cache survives a change of the structure.
fix_cache_insert_kept(c, restructured, i) ==
    IF c.node = 0 THEN kill_cache
    ELSE [c EXCEPT !.start = IF i < @ THEN @ + 1 ELSE @,
                   !.len = IF i >= c.start /\ i <= c.start + @ THEN @ + 1 ELSE @]

\* After an insertion.
fix_cache_insert(c, restructured, i) ==
    IF c.node = 0 \/ restructured THEN kill_cache
    ELSE [c EXCEPT !.start = IF i < @ THEN @ + 1 ELSE @,
                   !.len = IF i >= c.start /\ i <= c.start + @ THEN @ + 1 ELSE @]

\* After an erasure: diff is -1, and the start moves away from the items.
fix_cache_erase(c, restructured, i) ==
    IF c.node = 0 \/ restructured \/ i + 1 >= c.start THEN kill_cache
    ELSE [c EXCEPT !.start = @ + 1]

\* operator[] finds the leaf of an index and remembers it.
Found(h, r, i) ==
    LET at == LeafOf(h, r, i, FALSE)
    IN  [node |-> at.node, start |-> i - at.i, len |-> h[at.node].mlength]
-----------------------------------------------------------------------------
(* The members of Rope. *)

Calls == Len(script.first) + script.free

\* The script, or the user, calls a member for index i.
Called(name, i, update_cache) ==
    /\ step < Calls /\ ~crashed /\ ~lost
    /\ step < Len(script.first) => script.first[step + 1] = <<name, i>> /\ ~update_cache
    /\ step' = step + 1
    /\ UNCHANGED script

\* The tree, the cache and the call; what nothing refers to is dropped.
Becomes(h, r, c, o) ==
    /\ heap' = Live(h, r, c.node)
    /\ root' = r
    /\ cache' = c
    /\ op' = o

Crash(o) == crashed' = TRUE /\ op' = o /\ UNCHANGED <<heap, root, cache, num_rebalances, skewed, lost>>

operator_at(i) ==
    /\ Called("operator[]", i, FALSE) /\ i < size
    /\ LET c == IF CacheHas(i) THEN cache ELSE Found(heap, root, i)
           o == [name |-> "operator[]", i |-> i, item |-> 0]
       IN  IF i - c.start >= Len(heap[c.node].items) THEN Crash(o)
           ELSE /\ Becomes(heap, root, c, [o EXCEPT !.item = heap[c.node].items[i - c.start + 1]])
                /\ skewed' = (skewed /\ c = cache)
                /\ UNCHANGED <<num_rebalances, crashed, lost>>

insert_at(i, update_cache) ==
    /\ Called("insert_at", i, update_cache) /\ i <= size
    /\ LET h0 == IF root = 0 THEN (1 :> Leaf(<<>>)) ELSE heap
           r == IF root = 0 THEN 1 ELSE root
           at == IF CacheTakes(i) THEN [node |-> cache.node, i |-> i - cache.start] ELSE LeafOf(h0, r, i, TRUE)
           inserted == node_insert_at(h0, at.node, at.i, step)
           h1 == rebalance(inserted, r)
           c1 == fix_cache_insert(cache, h1[r].mleaves # h0[r].mleaves, i)
           c2 == IF update_cache /\ ~(c1.node # 0 /\ i >= c1.start /\ i < c1.start + c1.len) THEN Found(h1, r, i) ELSE c1
           o == [name |-> "insert_at", i |-> i, item |-> step]
       IN  IF at.i > Len(h0[at.node].items) THEN Crash(o)
           ELSE /\ Becomes(h1, r, c2, o)
                /\ num_rebalances' = num_rebalances + (IF TooHigh(inserted, r) THEN 1 ELSE 0)
                /\ skewed' = (skewed /\ c2 = c1 /\ c2.node # 0)
                /\ UNCHANGED <<crashed, lost>>

erase_at(i, update_cache) ==
    /\ Called("erase_at", i, update_cache) /\ i < size
    /\ LET c0 == IF update_cache /\ ~CacheHas(i) THEN Found(heap, root, i) ELSE cache
           hit == c0.node # 0 /\ i >= c0.start /\ i < c0.start + c0.len
           at == IF hit THEN [node |-> c0.node, i |-> i - c0.start] ELSE LeafOf(heap, root, i, FALSE)
           o == [name |-> "erase_at", i |-> i, item |-> 0]
       IN  IF at.i >= Len(heap[at.node].items) THEN Crash(o)
           ELSE LET erased == node_erase_at(heap, at.node, at.i)
                    h1 == rebalance(erased, root)
                    c1 == fix_cache_erase(c0, h1[root].mleaves # heap[root].mleaves, i)
                IN  /\ Becomes(h1, root, c1, [o EXCEPT !.item = heap[at.node].items[at.i + 1]])
                    /\ num_rebalances' = num_rebalances + (IF TooHigh(erased, root) THEN 1 ELSE 0)
                    /\ skewed' = (c1.node # 0)
                    /\ lost' = LosesItems(heap, at.node, at.i)
                    /\ UNCHANGED crashed

clear ==
    /\ Called("clear", 0, FALSE) /\ root # 0
    /\ heap' = <<>> /\ root' = 0 /\ cache' = kill_cache
    /\ op' = [name |-> "clear", i |-> 0, item |-> 0]
    /\ skewed' = FALSE /\ num_rebalances' = 0
    /\ UNCHANGED <<crashed, lost>>

\* RopeNode::from_copy: a balanced tree for a sequence, below a parent.
RECURSIVE from_copy(_, _, _)
from_copy(h, s, parent) ==
    LET n == Fresh(h)
        half == Len(s) \div 2
        h1 == h @@ (n :> [Leaf(s) EXCEPT !.parent = parent])
        h2 == from_copy(h @@ (n :> [Leaf(<<>>) EXCEPT !.parent = parent]), SubSeq(s, 1, half), n)
        h3 == from_copy(h2, SubSeq(s, half + 1, Len(s)), n)
    IN  IF Len(s) <= max_size THEN h1
        ELSE fix_metadata([h3 EXCEPT ![n].left = n + 1, ![n].right = Min(DOMAIN h3 \ DOMAIN h2)], n)

\* The rope is replaced by a copy of it.
copy ==
    /\ Called("copy", 0, FALSE) /\ root # 0
    /\ Becomes(from_copy(<<>>, Contents(heap, root), 0), 1, kill_cache, [name |-> "copy", i |-> 0, item |-> 0])
    /\ skewed' = FALSE /\ num_rebalances' = 0
    /\ UNCHANGED <<crashed, lost>>

Init ==
    /\ script \in Scripts
    /\ step = 0 /\ heap = <<>> /\ root = 0 /\ cache = NoCache /\ num_rebalances = 0
    /\ op = [name |-> "clear", i |-> 0, item |-> 0]
    /\ skewed = FALSE /\ crashed = FALSE /\ lost = FALSE

Next ==
    \/ \E i \in 0 .. size, u \in BOOLEAN : insert_at(i, u)
    \/ \E i \in 0 .. size, u \in BOOLEAN : erase_at(i, u)
    \/ \E i \in 0 .. size : operator_at(i)
    \/ clear
    \/ copy

Spec == Init /\ [][Next]_vars
-----------------------------------------------------------------------------
(* Properties. *)

Nodes == Below(heap, root)
Now == Contents(heap, root)

\* Where the items of a leaf begin; all items are different.
StartOf(n) == (CHOOSE k \in 1 .. Len(Now) : Now[k] = heap[n].items[1]) - 1

\* The state has its shape, and a cache without a leaf says nothing.
TypeOK ==
    /\ root \in DOMAIN heap \cup {0}
    /\ DOMAIN heap \subseteq NodeIds
    /\ cache.node \in DOMAIN heap \cup {0}
    /\ cache.node = 0 => cache = NoCache /\ ~skewed
    /\ step \in 0 .. Calls

\* What every node says of its subtree is so after any mix of splits, merges,
\* replacements and rotations: its length, its height, its number of leaves and
\* the parent of its children; inner nodes hold no items, and only the root may
\* be an empty leaf.  A wrong length sends every later index astray.
TreeSound ==
    ~lost => \A n \in Nodes :
        LET nd == heap[n]
            l == nd.left
            r == nd.right
        IN  /\ nd.mlength = Len(Contents(heap, n))
            /\ l = 0 => /\ r = 0 /\ nd.mheight = 0 /\ nd.mleaves = 1
                        /\ nd.items = <<>> => n = root
                        /\ Len(nd.items) <= max_size
            /\ l # 0 => /\ r # 0 /\ nd.items = <<>> /\ heap[l].parent = n /\ heap[r].parent = n
                        /\ nd.mheight = Max({heap[l].mheight, heap[r].mheight}) + 1
                        /\ nd.mleaves = heap[l].mleaves + heap[r].mleaves
            /\ n = root => nd.parent = 0

\* The cached leaf is one of the tree and starts where the cache says, through
\* insertions anywhere, splits, merges and rotations, unless an item in front
\* of it was erased: fix_cache then moves the start the wrong way.
CacheRight ==
    (cache.node # 0 /\ ~skewed) =>
        /\ cache.node \in Nodes /\ heap[cache.node].left = 0
        /\ cache.start = StartOf(cache.node)
        /\ cache.len = Len(heap[cache.node].items)

\* The rope is the sequence it stands for: every call, whether it goes through
\* the cached leaf or from the root, changes, and returns, what the same call of
\* a plain sequence does, unless the cache is skewed or items are lost.
ActsAsSequence ==
    [][ (~skewed /\ ~lost') =>
        LET before == Contents(heap, root)
            after == Contents(heap', root')
        IN  CASE op'.name = "insert_at" -> after = InsertAt(before, op'.i + 1, op'.item)
              [] op'.name = "erase_at" -> after = RemoveAt(before, op'.i + 1) /\ op'.item = before[op'.i + 1]
              [] op'.name = "operator[]" -> after = before /\ op'.item = before[op'.i + 1]
              [] op'.name = "copy" -> after = before
              [] op'.name = "clear" -> after = <<>>
      ]_vars

\* Erasing the last item of a leaf drops other items with it only where the
\* subtree around it has fewer than min_size items and yet several leaves.  The
\* calls themselves leave no such subtree; rebalancing, which puts small leaves
\* together, does, but not with a min_size of two or less.
LossExplained ==
    IF num_rebalances > 0 /\ min_size > 2 THEN TRUE
    ELSE ~lost /\ \A n \in Nodes : heap[n].left # 0 => heap[n].mlength >= min_size

\* No index leaves its leaf unless the cache is skewed.
CrashExplained == crashed => skewed

\* The tree and the cache of the last leaf stay right.
RopeSound == TypeOK /\ TreeSound /\ CacheRight

\* Items are lost, and memory outside a leaf is touched, only as explained.
FailsAsExplained == LossExplained /\ CrashExplained
=============================================================================
