------------------------------ MODULE AllocList ------------------------------
(***************************************************************************)
(* src/memory.h: the allocator of the compiler.  Every allocation carries  *)
(* a header (next, prev, size) and is linked into one global list, so that *)
(* free_all_compiler_allocs can free everything without knowing who owns   *)
(* what.  Nothing is freed one by one.  zero_realloc may move a block; it  *)
(* has to patch the list around it.                                        *)
(*                                                                         *)
(* Addresses are opaque.  Sizes and indices count elements (the items of   *)
(* the array_* macros), which stands for bytes with item_size = 1.         *)
(***************************************************************************)
EXTENDS Naturals, Sequences, FiniteSets

CONSTANTS
  Addr,     \* addresses the C heap can hand out
  NULL,     \* the null pointer
  Owner,    \* fields and locals that hold an array pointer
  Zero,     \* a zeroed element
  Junk,     \* an element of memory nobody initialised
  Value,    \* elements the clients store
  MaxSize   \* bound on the length of one array

ASSUME AddrAssumption == NULL \notin Addr
ASSUME ElemAssumption == Zero \in Value /\ Junk \notin Value
ASSUME SizeAssumption == MaxSize \in Nat
ASSUME NullAssumption == NULL \notin Seq(Value \cup {Junk})

VARIABLES
  list,   \* alloc_list (head) and the next/prev words of every header
  size,   \* the size word of every header
  live,   \* blocks obtained from the C heap and not freed yet
  buf,    \* the data area of every block
  ref,    \* the pointer each owner holds
  phase,  \* "run", or "freeing" inside free_all_compiler_allocs
  order   \* auxiliary: the live blocks, oldest first

vars == <<list, size, live, buf, ref, phase, order>>

Elem == Value \cup {Junk}
Ptr == Addr \cup {NULL}
Lists == [head : Ptr, next : [Addr -> Ptr], prev : [Addr -> Ptr]]
Blank == <<>>

-----------------------------------------------------------------------------
(* The C library.  realloc keeps the common prefix; the rest of the new    *)
(* block is uninitialised.  memset and memmove do what the callers in      *)
(* memory.h ask of them.                                                   *)

realloc(c, n) == [i \in 1..n |-> IF i \in DOMAIN c THEN c[i] ELSE Junk]

memset0(c, from) == [i \in DOMAIN c |-> IF i > from THEN Zero ELSE c[i]]

\* memmove of n elements inside c, from index src + 1 to index dst + 1
memmove(c, dst, src, n) ==
  [i \in DOMAIN c |-> IF i \in (dst + 1)..(dst + n) THEN c[i - dst + src] ELSE c[i]]

-----------------------------------------------------------------------------
(* The list surgery, as functions of a list.                               *)

\* zero_alloc: the new block becomes the head.
Pushed(L, a) ==
  [head |-> a,
   next |-> [L.next EXCEPT ![a] = L.head],
   prev |-> [x \in Addr |-> IF x = a THEN NULL
                            ELSE IF x = L.head THEN a ELSE L.prev[x]]]

\* Mutant: zero_realloc forgets the prev word of the following block.
Relinked_no_prev_fix(L, old, new) ==
  [head |-> IF L.head = old THEN new ELSE L.head,
   next |-> [x \in Addr |-> IF x = new THEN L.next[old]
                            ELSE IF x = L.prev[old] THEN new
                            ELSE IF x = old THEN NULL ELSE L.next[x]],
   prev |-> [x \in Addr |-> IF x = new THEN L.prev[old]
                            ELSE IF x = old THEN NULL ELSE L.prev[x]]]

\* Mutant: zero_realloc forgets the next word of the preceding block.
Relinked_no_next_fix(L, old, new) ==
  [head |-> IF L.head = old THEN new ELSE L.head,
   next |-> [x \in Addr |-> IF x = new THEN L.next[old]
                            ELSE IF x = old THEN NULL ELSE L.next[x]],
   prev |-> [x \in Addr |-> IF x = new THEN L.prev[old]
                            ELSE IF x = L.next[old] THEN new
                            ELSE IF x = old THEN NULL ELSE L.prev[x]]]

\* zero_realloc: realloc moved the header of old to new; head and both
\* neighbours are made to point at new.  The words of a freed header are not
\* meaningful; the model keeps them at NULL.
Relinked(L, old, new) ==
  [head |-> IF L.head = old THEN new ELSE L.head,
   next |-> [x \in Addr |-> IF x = new THEN L.next[old]
                            ELSE IF x = L.prev[old] THEN new
                            ELSE IF x = old THEN NULL ELSE L.next[x]],
   prev |-> [x \in Addr |-> IF x = new THEN L.prev[old]
                            ELSE IF x = L.next[old] THEN new
                            ELSE IF x = old THEN NULL ELSE L.prev[x]]]

Replaced(s, old, new) == [i \in DOMAIN s |-> IF s[i] = old THEN new ELSE s[i]]

\* Mutant: zero_realloc does not clear what it adds.
Resized_not_cleared(c, from, n) == realloc(c, n)

\* The contents zero_realloc leaves: growth beyond the recorded size is zeroed.
Resized(c, from, n) == memset0(realloc(c, n), from)

-----------------------------------------------------------------------------
Init ==
  /\ list = [head |-> NULL,
             next |-> [a \in Addr |-> NULL],
             prev |-> [a \in Addr |-> NULL]]
  /\ size = [a \in Addr |-> 0]
  /\ live = {}
  /\ buf = [a \in Addr |-> Blank]
  /\ ref = [o \in Owner |-> NULL]
  /\ phase = "run"
  /\ order = <<>>

Free == Addr \ live

\* A new block at a with contents c, owned by o (what o held is abandoned,
\* not freed).
Alloc(o, a, c) ==
  /\ phase = "run"
  /\ a \in Free
  /\ list' = Pushed(list, a)
  /\ size' = [size EXCEPT ![a] = Len(c)]
  /\ live' = live \cup {a}
  /\ buf' = [buf EXCEPT ![a] = c]
  /\ ref' = [ref EXCEPT ![o] = a]
  /\ order' = Append(order, a)
  /\ UNCHANGED phase

\* Mutant: the caller keeps the pointer it had before the move.
Realloc_stale_owner(o, new, n, c) ==
  LET old == ref[o] IN
  /\ phase = "run"
  /\ new \in Free \cup {old}
  /\ list' = Relinked(list, old, new)
  /\ size' = [size EXCEPT ![old] = 0, ![new] = n]
  /\ live' = (live \ {old}) \cup {new}
  /\ buf' = [buf EXCEPT ![old] = Blank, ![new] = c]
  /\ order' = Replaced(order, old, new)
  /\ UNCHANGED <<ref, phase>>

\* zero_realloc(*o) to size n, moving the block to new, after which the
\* caller leaves contents c in it.  The old block is gone if it moved.
Realloc(o, new, n, c) ==
  LET old == ref[o] IN
  /\ phase = "run"
  /\ new \in Free \cup {old}
  /\ list' = Relinked(list, old, new)
  /\ size' = [size EXCEPT ![old] = 0, ![new] = n]
  /\ live' = (live \ {old}) \cup {new}
  /\ buf' = [buf EXCEPT ![old] = Blank, ![new] = c]
  /\ ref' = [ref EXCEPT ![o] = new]
  /\ order' = Replaced(order, old, new)
  /\ UNCHANGED phase

Holds(o) == ref[o] # NULL

array_len(o) == size[ref[o]]

zero_alloc(o, a, n) == Alloc(o, a, [i \in 1..n |-> Zero])

zero_realloc(o, new, n) ==
  /\ Holds(o)
  /\ Realloc(o, new, n, Resized(buf[ref[o]], array_len(o), n))

zero_alloc_clone(o, p, a) ==
  /\ Holds(o)
  /\ Alloc(p, a, SubSeq(buf[ref[o]], 1, array_len(o)))

array_push(o, new, v) ==
  LET n == array_len(o) + 1 IN
  /\ Holds(o)
  /\ n <= MaxSize
  /\ Realloc(o, new, n, [Resized(buf[ref[o]], n - 1, n) EXCEPT ![n] = v])

\* index is 0-based, as in the code; the callers pass an index in range
array_erase(o, new, index) ==
  LET n == array_len(o) IN
  /\ Holds(o)
  /\ index < n
  /\ Realloc(o, new, n - 1,
             Resized(memmove(buf[ref[o]], index, index + 1, n - index - 1), n, n - 1))

array_insert(o, new, index, v) ==
  LET n == array_len(o) + 1
      grown == Resized(buf[ref[o]], n - 1, n)
  IN
  /\ Holds(o)
  /\ n <= MaxSize
  /\ index < n
  /\ Realloc(o, new, n, [memmove(grown, index + 1, index, n - index - 1) EXCEPT ![index + 1] = v])

\* The tail moves into a new block at a, owned by p; then o is shrunk.
array_chop(o, p, a, new, index) ==
  LET old == ref[o]
      n == array_len(o)
      tail == SubSeq(buf[old], index + 1, n)
  IN
  /\ Holds(o)
  /\ phase = "run"
  /\ index <= n
  /\ a \in Free
  /\ new \in (Free \ {a}) \cup {old}
  /\ list' = Relinked(Pushed(list, a), old, new)
  /\ size' = [size EXCEPT ![a] = n - index, ![old] = 0, ![new] = index]
  /\ live' = ((live \cup {a}) \ {old}) \cup {new}
  /\ buf' = [buf EXCEPT ![a] = tail, ![old] = Blank,
                        ![new] = Resized(buf[old], n, index)]
  /\ ref' = [ref EXCEPT ![o] = new, ![p] = a]
  /\ order' = Replaced(Append(order, a), old, new)
  /\ UNCHANGED phase

\* ((TYPE *)ARRAY)[index] = v
write(o, index, v) ==
  /\ phase = "run"
  /\ Holds(o)
  /\ index < array_len(o)
  /\ buf' = [buf EXCEPT ![ref[o]][index + 1] = v]
  /\ UNCHANGED <<list, size, live, ref, phase, order>>

\* The API user calls free_all_compiler_allocs and forgets every pointer.
free_all_begin ==
  /\ phase = "run"
  /\ phase' = "freeing"
  /\ ref' = [o \in Owner |-> NULL]
  /\ UNCHANGED <<list, size, live, buf, order>>

\* One turn of its loop: read next, free the head, advance.
free_all_step ==
  LET a == list.head IN
  /\ phase = "freeing"
  /\ a # NULL
  /\ list' = [list EXCEPT !.head = list.next[a], !.next[a] = NULL, !.prev[a] = NULL]
  /\ size' = [size EXCEPT ![a] = 0]
  /\ live' = live \ {a}
  /\ buf' = [buf EXCEPT ![a] = Blank]
  /\ order' = SubSeq(order, 1, Len(order) - 1)
  /\ UNCHANGED <<ref, phase>>

\* The loop ends; the process may compile the next program.
free_all_end ==
  /\ phase = "freeing"
  /\ list.head = NULL
  /\ phase' = "run"
  /\ UNCHANGED <<list, size, live, buf, ref, order>>

Next ==
  \/ \E o \in Owner, a \in Addr, n \in 0..MaxSize : zero_alloc(o, a, n)
  \/ \E o \in Owner, a \in Addr, n \in 0..MaxSize : zero_realloc(o, a, n)
  \/ \E o, p \in Owner, a \in Addr : o # p /\ zero_alloc_clone(o, p, a)
  \/ \E o \in Owner, a \in Addr, v \in Value : array_push(o, a, v)
  \/ \E o \in Owner, a \in Addr, i \in 0..MaxSize : array_erase(o, a, i)
  \/ \E o \in Owner, a \in Addr, i \in 0..MaxSize, v \in Value : array_insert(o, a, i, v)
  \/ \E o, p \in Owner, a, b \in Addr, i \in 0..MaxSize : o # p /\ array_chop(o, p, a, b, i)
  \/ \E o \in Owner, i \in 0..MaxSize, v \in Value : write(o, i, v)
  \/ free_all_begin
  \/ free_all_step
  \/ free_all_end

\* free_all_compiler_allocs is a plain loop in a sequential program.
Fairness == WF_vars(free_all_step) /\ WF_vars(free_all_end)

Spec == Init /\ [][Next]_vars

FairSpec == Spec /\ Fairness

-----------------------------------------------------------------------------
(* Properties *)

\* Types of the allocator's state.
TypeOK ==
  /\ list \in Lists
  /\ size \in [Addr -> Nat]
  /\ live \subseteq Addr
  /\ buf \in [Addr -> Seq(Elem)]
  /\ ref \in [Owner -> Ptr]
  /\ phase \in {"run", "freeing"}
  /\ order \in Seq(Addr)

\* Walking next from L.head visits s from its last element to its first, and
\* prev is the inverse of next (at the head itself only if strict: while
\* free_all_compiler_allocs runs, the head's prev dangles).
Threads(L, s, strict) ==
  /\ L.head = IF s = <<>> THEN NULL ELSE s[Len(s)]
  /\ \A i \in 1..Len(s) :
       /\ L.next[s[i]] = IF i = 1 THEN NULL ELSE s[i - 1]
       /\ i < Len(s) => L.prev[s[i]] = s[i + 1]
       /\ i = Len(s) /\ strict => L.prev[s[i]] = NULL

\* s lists the elements of S, each once.
Enumerates(s, S) ==
  /\ \A i \in 1..Len(s) : s[i] \in S
  /\ \A a \in S : \E i \in 1..Len(s) : s[i] = a
  /\ \A i, j \in 1..Len(s) : s[i] = s[j] => i = j

\* The list threads exactly the blocks the heap has handed out, each once, in
\* allocation order, after any sequence of allocations and moving reallocs:
\* no block is lost to free_all_compiler_allocs and no link dangles.
ListInv ==
  /\ Enumerates(order, live)
  /\ Threads(list, order, phase = "run")

\* The recorded size is the extent of the data area (array_len never makes a
\* client run past a block), an owner's pointer is live, and no two owners
\* reach the same block.
OwnersInv ==
  /\ \A a \in live : Len(buf[a]) = size[a]
  /\ \A o \in Owner : ref[o] # NULL => ref[o] \in live
  /\ \A o, p \in Owner : o # p /\ ref[o] # NULL => ref[o] # ref[p]

\* When the loop of free_all_compiler_allocs has ended nothing is left
\* allocated: the blocks whose owner was overwritten are freed too.
NoLeak == phase = "freeing" /\ list.head = NULL => live = {}

\* free_all_compiler_allocs terminates, with the heap empty.
FreeAllEmpties == (phase = "freeing") ~> (live = {} /\ phase = "run")

\* The arrays the owners see.
arrays == [o \in Owner |-> IF ref[o] = NULL THEN NULL ELSE buf[ref[o]]]

Arrays == INSTANCE ArrayStore WITH None <- NULL, val <- arrays

\* memory.h's arrays behave as one sequence per owner: whatever blocks move
\* and whatever junk the heap returns, an owner sees its own elements, and
\* zeros in fresh slots.
ImplementsArrayStore == Arrays!Spec
=============================================================================
