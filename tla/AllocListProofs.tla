--------------------------- MODULE AllocListProofs ---------------------------
(***************************************************************************)
(* Proofs about AllocList, for any set of addresses and owners.            *)
(***************************************************************************)
EXTENDS AllocList, SequenceTheorems, TLAPS

\* zero_alloc keeps the list well threaded: a fresh block becomes its head.
LEMMA PushedThreads ==
  ASSUME NEW L \in Lists, NEW s \in Seq(Addr), NEW S \in SUBSET Addr,
         Enumerates(s, S), Threads(L, s, TRUE), NEW a \in Addr \ S
  PROVE  /\ Pushed(L, a) \in Lists
         /\ Append(s, a) \in Seq(Addr)
         /\ Enumerates(Append(s, a), S \cup {a})
         /\ Threads(Pushed(L, a), Append(s, a), TRUE)
<1> DEFINE t == Append(s, a)
           n == Len(s)
<1>1. /\ t \in Seq(Addr)
      /\ Len(t) = n + 1
      /\ n \in Nat
      /\ t[n + 1] = a
      /\ \A i \in 1..n : t[i] = s[i]
      /\ \A i \in 1..n : s[i] \in S /\ s[i] # a
      /\ t # <<>>
  BY DEF Enumerates
<1>2. Pushed(L, a) \in Lists
  BY AddrAssumption DEF Pushed, Lists, Ptr
<1>3. Enumerates(t, S \cup {a})
  <2>1. \A i \in 1..Len(t) : t[i] \in S \cup {a}
    BY <1>1
  <2>2. \A x \in S \cup {a} : \E i \in 1..Len(t) : t[i] = x
    BY <1>1 DEF Enumerates
  <2>3. \A i, j \in 1..Len(t) : t[i] = t[j] => i = j
    BY <1>1 DEF Enumerates
  <2> QED BY <2>1, <2>2, <2>3 DEF Enumerates
<1>4. Threads(Pushed(L, a), t, TRUE)
  <2> DEFINE P == Pushed(L, a)
  <2>1. /\ P.head = a
        /\ P.next[a] = L.head
        /\ \A x \in Addr : x # a => P.next[x] = L.next[x]
        /\ P.prev[a] = NULL
        /\ \A x \in Addr : x # a /\ x # L.head => P.prev[x] = L.prev[x]
        /\ L.head \in Addr /\ L.head # a => P.prev[L.head] = a
    BY DEF Pushed, Lists
  <2>2. L.head = IF n = 0 THEN NULL ELSE s[n]
    BY <1>1 DEF Threads
  <2>3. ASSUME NEW i \in 1..Len(t)
        PROVE  /\ P.next[t[i]] = IF i = 1 THEN NULL ELSE t[i - 1]
               /\ i < Len(t) => P.prev[t[i]] = t[i + 1]
               /\ i = Len(t) => P.prev[t[i]] = NULL
    <3>1. CASE i = n + 1
      BY <3>1, <1>1, <2>1, <2>2
    <3>2. CASE i = n /\ n > 0
      BY <3>2, <1>1, <2>1, <2>2 DEF Threads
    <3>3. CASE i < n
      <4>1. s[i] # s[n]
        BY <3>3, <1>1 DEF Enumerates
      <4>2. /\ L.next[s[i]] = IF i = 1 THEN NULL ELSE s[i - 1]
            /\ L.prev[s[i]] = s[i + 1]
        BY <3>3, <1>1 DEF Threads
      <4>3. s[i] \in Addr /\ s[i] # a
        BY <3>3, <1>1
      <4>4. t[i] = s[i] /\ t[i + 1] = s[i + 1] /\ (i # 1 => t[i - 1] = s[i - 1])
        BY <3>3, <1>1
      <4> QED BY <4>1, <4>2, <4>3, <4>4, <3>3, <1>1, <2>1, <2>2
    <3> QED BY <3>1, <3>2, <3>3, <1>1
  <2> QED BY <1>1, <2>1, <2>3 DEF Threads
<1> QED BY <1>1, <1>2, <1>3, <1>4

\* zero_realloc keeps the list well threaded when it moves a block, wherever
\* in the list the block is.
LEMMA RelinkedThreads ==
  ASSUME NEW L \in Lists, NEW s \in Seq(Addr), NEW S \in SUBSET Addr,
         Enumerates(s, S), Threads(L, s, TRUE),
         NEW old \in S, NEW new \in (Addr \ S) \cup {old}
  PROVE  /\ Relinked(L, old, new) \in Lists
         /\ Replaced(s, old, new) \in Seq(Addr)
         /\ Enumerates(Replaced(s, old, new), (S \ {old}) \cup {new})
         /\ Threads(Relinked(L, old, new), Replaced(s, old, new), TRUE)
<1> DEFINE t == Replaced(s, old, new)
           n == Len(s)
           P == Relinked(L, old, new)
<1>1. /\ t \in Seq(Addr)
      /\ Len(t) = n
      /\ n \in Nat
      /\ \A i \in 1..n : t[i] = IF s[i] = old THEN new ELSE s[i]
      /\ \A i \in 1..n : s[i] \in S
  BY DEF Replaced, Enumerates
<1>2. PICK k \in 1..n : s[k] = old
  BY DEF Enumerates
<1>3. \A i \in 1..n : (s[i] = old <=> i = k) /\ (i # k => s[i] # new)
  BY <1>1, <1>2 DEF Enumerates
<1>4. P \in Lists
  BY DEF Relinked, Lists, Ptr
<1>5. Enumerates(t, (S \ {old}) \cup {new})
  <2>1. \A i \in 1..Len(t) : t[i] \in (S \ {old}) \cup {new}
    BY <1>1
  <2>2. \A x \in (S \ {old}) \cup {new} : \E i \in 1..Len(t) : t[i] = x
    BY <1>1, <1>2 DEF Enumerates
  <2>3. \A i, j \in 1..Len(t) : t[i] = t[j] => i = j
    BY <1>1, <1>3 DEF Enumerates
  <2> QED BY <2>1, <2>2, <2>3 DEF Enumerates
<1>6. Threads(P, t, TRUE)
  <2>1. /\ P.head = IF L.head = old THEN new ELSE L.head
        /\ \A x \in Addr : P.next[x] = IF x = new THEN L.next[old]
                                       ELSE IF x = L.prev[old] THEN new
                                       ELSE IF x = old THEN NULL ELSE L.next[x]
        /\ \A x \in Addr : P.prev[x] = IF x = new THEN L.prev[old]
                                       ELSE IF x = L.next[old] THEN new
                                       ELSE IF x = old THEN NULL ELSE L.prev[x]
    BY DEF Relinked, Lists
  <2>2. /\ L.next[old] = IF k = 1 THEN NULL ELSE s[k - 1]
        /\ L.prev[old] = IF k = n THEN NULL ELSE s[k + 1]
    BY <1>1, <1>2 DEF Threads
  <2>3. /\ L.head = s[n]
        /\ s # <<>> /\ t # <<>>
    BY <1>1, <1>2 DEF Threads
  <2>4. P.head = t[n]
    BY <1>1, <1>2, <2>1, <2>3
  <2>5. ASSUME NEW i \in 1..n
        PROVE  P.next[t[i]] = IF i = 1 THEN NULL ELSE t[i - 1]
    <3>1. CASE i = k
      BY <3>1, <1>1, <1>2, <1>3, <2>1, <2>2
    <3>2. CASE i = k + 1
      BY <3>2, <1>1, <1>2, <1>3, <2>1, <2>2
    <3>3. CASE i # k /\ i # k + 1
      <4>1. /\ s[i] # new /\ s[i] # old
            /\ s[i] # L.prev[old]
        BY <3>3, <1>1, <1>2, <1>3, <2>2, AddrAssumption DEF Enumerates
      <4>2. L.next[s[i]] = IF i = 1 THEN NULL ELSE s[i - 1]
        BY <1>1 DEF Threads
      <4>3. i # 1 => s[i - 1] # old
        BY <3>3, <1>1, <1>3
      <4> QED BY <4>1, <4>2, <4>3, <1>1, <2>1
    <3> QED BY <3>1, <3>2, <3>3
  <2>6. ASSUME NEW i \in 1..n
        PROVE  /\ i < n => P.prev[t[i]] = t[i + 1]
               /\ i = n => P.prev[t[i]] = NULL
    <3>1. CASE i = k
      BY <3>1, <1>1, <1>2, <1>3, <2>1, <2>2
    <3>2. CASE i = k - 1
      BY <3>2, <1>1, <1>2, <1>3, <2>1, <2>2
    <3>3. CASE i # k /\ i # k - 1
      <4>1. /\ s[i] # new /\ s[i] # old
            /\ s[i] # L.next[old]
        BY <3>3, <1>1, <1>2, <1>3, <2>2, AddrAssumption DEF Enumerates
      <4>2. /\ i < n => L.prev[s[i]] = s[i + 1]
            /\ i = n => L.prev[s[i]] = NULL
        BY <1>1 DEF Threads
      <4>3. i < n => s[i + 1] # old
        BY <3>3, <1>1, <1>3
      <4> QED BY <4>1, <4>2, <4>3, <1>1, <2>1
    <3> QED BY <3>1, <3>2, <3>3
  <2> QED BY <1>1, <2>3, <2>4, <2>5, <2>6 DEF Threads
<1> QED BY <1>1, <1>4, <1>5, <1>6

-----------------------------------------------------------------------------
(* The inductive invariant: the list is only well threaded if the pointers *)
(* the owners pass to zero_realloc are live, and those are only live if    *)
(* moves update their owner.                                               *)
IInv == TypeOK /\ ListInv /\ OwnersInv

\* Every operation that obtains a new block (zero_alloc, zero_alloc_clone)
\* preserves the invariant.
LEMMA AllocPreserves ==
  ASSUME IInv, NEW o \in Owner, NEW a \in Addr, NEW c \in Seq(Elem), Alloc(o, a, c)
  PROVE  IInv'
<1>1. a \in Addr \ live /\ phase = "run" /\ phase' = "run" /\ Len(c) \in Nat
  BY DEF Alloc, Free
<1>2. /\ list' \in Lists
      /\ order' \in Seq(Addr)
      /\ Enumerates(order', live')
      /\ Threads(list', order', TRUE)
  BY <1>1, PushedThreads DEF IInv, TypeOK, ListInv, Alloc
<1>3. TypeOK'
  BY <1>1, <1>2 DEF IInv, TypeOK, Alloc, Ptr
<1>4. OwnersInv'
  BY <1>1, AddrAssumption DEF IInv, TypeOK, OwnersInv, Alloc
<1> QED BY <1>1, <1>2, <1>3, <1>4 DEF IInv, ListInv

\* Every operation that resizes an owner's block (zero_realloc, array_push,
\* array_erase, array_insert) preserves the invariant, moved or not.
LEMMA ReallocPreserves ==
  ASSUME IInv, NEW o \in Owner, NEW new \in Addr, NEW n \in Nat, NEW c \in Seq(Elem),
         Len(c) = n, Holds(o), Realloc(o, new, n, c)
  PROVE  IInv'
<1> DEFINE old == ref[o]
<1>1. /\ old \in live /\ new \in (Addr \ live) \cup {old}
      /\ phase = "run" /\ phase' = "run"
  BY DEF Realloc, Free, IInv, OwnersInv, Holds
<1>2. /\ list' \in Lists
      /\ order' \in Seq(Addr)
      /\ Enumerates(order', live')
      /\ Threads(list', order', TRUE)
  BY <1>1, RelinkedThreads DEF IInv, TypeOK, ListInv, Realloc
<1>3. TypeOK'
  <2>1. old \in Addr /\ Blank \in Seq(Elem)
    BY <1>1 DEF IInv, TypeOK, Blank
  <2>2. buf' \in [Addr -> Seq(Elem)] /\ size' \in [Addr -> Nat]
    BY <2>1 DEF IInv, TypeOK, Realloc
  <2>3. ref' \in [Owner -> Ptr] /\ live' \subseteq Addr
    BY DEF IInv, TypeOK, Realloc, Ptr
  <2> QED BY <1>1, <1>2, <2>2, <2>3 DEF TypeOK
<1>4. OwnersInv'
  BY <1>1, AddrAssumption DEF IInv, TypeOK, OwnersInv, Realloc
<1> QED BY <1>1, <1>2, <1>3, <1>4 DEF IInv, ListInv

\* The contents zero_realloc leaves are a sequence of the requested length.
LEMMA ResizedType ==
  ASSUME NEW c \in Seq(Elem), NEW from \in Nat, NEW n \in Nat
  PROVE  Resized(c, from, n) \in Seq(Elem) /\ Len(Resized(c, from, n)) = n
<1>1. realloc(c, n) \in [1..n -> Elem]
  BY DEF realloc, Elem
<1>2. Resized(c, from, n) \in [1..n -> Elem]
  BY <1>1, ElemAssumption DEF Resized, memset0, Elem
<1> QED BY <1>2

\* memmove inside a block leaves a sequence of the same length.
LEMMA MemmoveType ==
  ASSUME NEW c \in Seq(Elem), NEW d \in Nat, NEW s \in Nat, NEW n \in Nat,
         d + n <= Len(c), s + n <= Len(c)
  PROVE  memmove(c, d, s, n) \in Seq(Elem) /\ Len(memmove(c, d, s, n)) = Len(c)
<1>1. memmove(c, d, s, n) \in [1..Len(c) -> Elem]
  BY DEF memmove
<1> QED BY <1>1

\* array_chop, which allocates and then resizes, preserves the invariant.
LEMMA ChopPreserves ==
  ASSUME IInv, NEW o \in Owner, NEW p \in Owner, o # p, NEW a \in Addr, NEW new \in Addr,
         NEW index \in Nat, array_chop(o, p, a, new, index)
  PROVE  IInv'
<1> DEFINE old == ref[o]
           n == size[old]
           L == Pushed(list, a)
           s == Append(order, a)
           S == live \cup {a}
<1>1. /\ old \in live /\ old \in Addr /\ a \in Addr \ live
      /\ new \in (Addr \ S) \cup {old}
      /\ phase = "run" /\ phase' = "run"
      /\ n \in Nat /\ index <= n /\ n = Len(buf[old]) /\ buf[old] \in Seq(Elem)
  BY DEF array_chop, array_len, Free, IInv, TypeOK, OwnersInv, Holds
<1>2. /\ L \in Lists /\ s \in Seq(Addr) /\ S \in SUBSET Addr
      /\ Enumerates(s, S) /\ Threads(L, s, TRUE)
  BY <1>1, PushedThreads DEF IInv, TypeOK, ListInv
<1>3. /\ list' \in Lists
      /\ order' \in Seq(Addr)
      /\ Enumerates(order', live')
      /\ Threads(list', order', TRUE)
  <2>1. /\ list' = Relinked(L, old, new)
        /\ order' = Replaced(s, old, new)
        /\ live' = (S \ {old}) \cup {new}
    BY DEF array_chop
  <2>2. old \in S
    BY <1>1
  <2> HIDE DEF L, s, S, old
  <2>3. /\ Relinked(L, old, new) \in Lists
        /\ Replaced(s, old, new) \in Seq(Addr)
        /\ Enumerates(Replaced(s, old, new), (S \ {old}) \cup {new})
        /\ Threads(Relinked(L, old, new), Replaced(s, old, new), TRUE)
    BY <1>1, <1>2, <2>2, RelinkedThreads
  <2> QED BY <2>1, <2>3
<1>4. /\ SubSeq(buf[old], index + 1, n) \in Seq(Elem)
      /\ Len(SubSeq(buf[old], index + 1, n)) = n - index
  BY <1>1
<1>5. /\ Resized(buf[old], n, index) \in Seq(Elem)
      /\ Len(Resized(buf[old], n, index)) = index
  BY <1>1, ResizedType
<1>6. TypeOK'
  <2>1. Blank \in Seq(Elem) /\ n - index \in Nat
    BY <1>1 DEF Blank
  <2>2. buf' \in [Addr -> Seq(Elem)] /\ size' \in [Addr -> Nat]
    BY <1>1, <1>4, <1>5, <2>1 DEF IInv, TypeOK, array_chop, array_len
  <2>3. ref' \in [Owner -> Ptr] /\ live' \subseteq Addr
    BY DEF IInv, TypeOK, array_chop, Ptr
  <2> QED BY <1>1, <1>3, <2>2, <2>3 DEF TypeOK
<1>7. OwnersInv'
  <2>1. \A x \in live' : Len(buf'[x]) = size'[x]
    BY <1>1, <1>4, <1>5 DEF IInv, TypeOK, OwnersInv, array_chop, array_len
  <2>2. /\ \A x \in Owner : ref'[x] # NULL => ref'[x] \in live'
        /\ \A x, y \in Owner : x # y /\ ref'[x] # NULL => ref'[x] # ref'[y]
    BY <1>1, AddrAssumption DEF IInv, TypeOK, OwnersInv, array_chop
  <2> QED BY <2>1, <2>2 DEF OwnersInv
<1> QED BY <1>1, <1>3, <1>6, <1>7 DEF IInv, ListInv

\* One turn of free_all_compiler_allocs removes the newest block and leaves
\* the rest threaded.
LEMMA FreeStepPreserves ==
  ASSUME IInv, free_all_step, \A o \in Owner : ref[o] = NULL
  PROVE  IInv'
<1> DEFINE a == list.head
           n == Len(order)
           t == SubSeq(order, 1, n - 1)
<1>1. /\ n \in Nat /\ n > 0 /\ a = order[n] /\ a \in live /\ a \in Addr
      /\ phase = "freeing" /\ phase' = "freeing"
      /\ t \in Seq(Addr) /\ Len(t) = n - 1
      /\ \A i \in 1..(n - 1) : t[i] = order[i] /\ t[i] # a /\ t[i] \in Addr
  <2>1. n \in Nat /\ a # NULL /\ phase = "freeing" /\ phase' = "freeing" /\ order \in Seq(Addr)
    BY DEF IInv, TypeOK, free_all_step
  <2>2. order # <<>> /\ a = order[n]
    BY <2>1 DEF IInv, ListInv, Threads
  <2>3. n > 0
    BY <2>1, <2>2
  <2>4. a \in live /\ a \in Addr /\ \A i \in 1..(n - 1) : order[i] # a /\ order[i] \in Addr
    BY <2>1, <2>2, <2>3 DEF IInv, TypeOK, ListInv, Enumerates
  <2>5. t \in Seq(Addr) /\ Len(t) = n - 1 /\ \A i \in 1..(n - 1) : t[i] = order[i]
    <3>1. n - 1 \in Int /\ 1 \in Int /\ \A i \in 1..(n - 1) : order[i] \in Addr
      BY <2>1, <2>4
    <3>2. /\ t \in Seq(Addr)
          /\ Len(t) = IF 1 <= n - 1 THEN n - 1 - 1 + 1 ELSE 0
          /\ \A i \in 1..(n - 1 - 1 + 1) : t[i] = order[1 + i - 1]
      BY <3>1, SubSeqProperties
    <3> HIDE DEF t, n
    <3>3. Len(t) = n - 1
      <4>1. Len(t) = IF 1 <= n - 1 THEN n - 1 - 1 + 1 ELSE 0
        BY <3>2
      <4> QED BY <2>1, <2>3, <4>1
    <3>4. ASSUME NEW i \in 1..(n - 1) PROVE t[i] = order[i]
      <4>1. i \in 1..(n - 1 - 1 + 1) /\ 1 + i - 1 = i
        BY <2>1
      <4> QED BY <3>2, <4>1
    <3> QED BY <3>2, <3>3, <3>4
  <2> QED BY <2>1, <2>2, <2>3, <2>4, <2>5
<1>2. list.next[a] = IF n = 1 THEN NULL ELSE order[n - 1]
  BY <1>1 DEF IInv, ListInv, Threads
<1>3. Enumerates(t, live \ {a})
  BY <1>1 DEF IInv, ListInv, Enumerates
<1>4. /\ list' \in Lists
      /\ list'.head = list.next[a]
      /\ \A x \in Addr : x # a => list'.next[x] = list.next[x] /\ list'.prev[x] = list.prev[x]
  BY <1>1 DEF IInv, TypeOK, Lists, Ptr, free_all_step
<1>5. Threads(list', t, FALSE)
  <2>1. list'.head = IF t = <<>> THEN NULL ELSE t[Len(t)]
    <3> HIDE DEF t, n
    <3>1. t = <<>> <=> n = 1
      BY <1>1, EmptySeq
    <3>2. n # 1 => t[n - 1] = order[n - 1]
      BY <1>1
    <3> QED BY <3>1, <3>2, <1>1, <1>2, <1>4
  <2>2. ASSUME NEW i \in 1..Len(t)
        PROVE  /\ list'.next[t[i]] = IF i = 1 THEN NULL ELSE t[i - 1]
               /\ i < Len(t) => list'.prev[t[i]] = t[i + 1]
    <3>1. /\ list.next[order[i]] = IF i = 1 THEN NULL ELSE order[i - 1]
          /\ i < n => list.prev[order[i]] = order[i + 1]
      BY <1>1 DEF IInv, ListInv, Threads
    <3> QED BY <3>1, <1>1, <1>4
  <2> QED BY <2>1, <2>2 DEF Threads
<1>6. TypeOK'
  BY <1>1, <1>4 DEF IInv, TypeOK, free_all_step, Blank
<1>7. OwnersInv'
  BY <1>1 DEF IInv, TypeOK, OwnersInv, free_all_step
<1> QED BY <1>1, <1>3, <1>5, <1>6, <1>7 DEF IInv, ListInv, free_all_step

-----------------------------------------------------------------------------
\* While free_all_compiler_allocs runs, its caller holds no pointer.
NoOwners == phase = "freeing" => \A o \in Owner : ref[o] = NULL

\* The list starts empty.
LEMMA InitIInv == Init => IInv /\ NoOwners
<1> SUFFICES ASSUME Init PROVE IInv /\ NoOwners
  OBVIOUS
<1>1. TypeOK
  BY DEF Init, TypeOK, Lists, Ptr, Blank
<1>2. ListInv
  BY DEF Init, ListInv, Enumerates, Threads
<1>3. OwnersInv /\ NoOwners
  BY DEF Init, OwnersInv, NoOwners
<1> QED BY <1>1, <1>2, <1>3 DEF IInv

\* Each operation of memory.h, by the lemma of its kind.
LEMMA NextIInv == IInv /\ NoOwners /\ [Next]_vars => IInv' /\ NoOwners'
<1> SUFFICES ASSUME IInv, NoOwners, [Next]_vars PROVE IInv' /\ NoOwners'
  OBVIOUS
<1>0. \A o \in Owner : Holds(o) => /\ ref[o] \in Addr
                                 /\ array_len(o) \in Nat
                                 /\ buf[ref[o]] \in Seq(Elem)
                                 /\ Len(buf[ref[o]]) = array_len(o)
  BY DEF IInv, TypeOK, OwnersInv, Holds, array_len
<1>1. ASSUME NEW o \in Owner, NEW a \in Addr, NEW n \in 0..MaxSize, zero_alloc(o, a, n)
      PROVE  IInv' /\ NoOwners'
  <2>1. [i \in 1..n |-> Zero] \in Seq(Elem)
    BY ElemAssumption, SizeAssumption DEF Elem
  <2>2. Alloc(o, a, [i \in 1..n |-> Zero])
    BY <1>1 DEF zero_alloc
  <2> QED BY <2>1, <2>2, AllocPreserves DEF Alloc, NoOwners
<1>2. ASSUME NEW o \in Owner, NEW a \in Addr, NEW n \in 0..MaxSize, zero_realloc(o, a, n)
      PROVE  IInv' /\ NoOwners'
  <2> DEFINE c == Resized(buf[ref[o]], array_len(o), n)
  <2>1. n \in Nat /\ Holds(o) /\ Realloc(o, a, n, c)
    BY <1>2, SizeAssumption DEF zero_realloc
  <2>2. c \in Seq(Elem) /\ Len(c) = n
    BY <1>0, <2>1, ResizedType
  <2> QED BY <2>1, <2>2, ReallocPreserves DEF Realloc, NoOwners
<1>3. ASSUME NEW o \in Owner, NEW p \in Owner, NEW a \in Addr, zero_alloc_clone(o, p, a)
      PROVE  IInv' /\ NoOwners'
  <2> DEFINE c == SubSeq(buf[ref[o]], 1, array_len(o))
  <2>1. Holds(o) /\ Alloc(p, a, c)
    BY <1>3 DEF zero_alloc_clone
  <2>2. c \in Seq(Elem)
    BY <1>0, <2>1
  <2> QED BY <2>1, <2>2, AllocPreserves DEF Alloc, NoOwners
<1>4. ASSUME NEW o \in Owner, NEW a \in Addr, NEW v \in Value, array_push(o, a, v)
      PROVE  IInv' /\ NoOwners'
  <2> DEFINE n == array_len(o) + 1
             g == Resized(buf[ref[o]], n - 1, n)
             c == [g EXCEPT ![n] = v]
  <2>1. Holds(o) /\ Realloc(o, a, n, c)
    BY <1>4 DEF array_push
  <2>2. n \in Nat /\ n - 1 \in Nat
    BY <1>0, <2>1
  <2>3. g \in Seq(Elem) /\ Len(g) = n
    BY <1>0, <2>1, <2>2, ResizedType
  <2>4. v \in Elem
    BY DEF Elem
  <2> HIDE DEF g, n
  <2>5. c \in Seq(Elem) /\ Len(c) = n
    BY <2>2, <2>3, <2>4
  <2> QED BY <2>1, <2>2, <2>5, ReallocPreserves DEF Realloc, NoOwners
<1>5. ASSUME NEW o \in Owner, NEW a \in Addr, NEW i \in 0..MaxSize, array_erase(o, a, i)
      PROVE  IInv' /\ NoOwners'
  <2> DEFINE n == array_len(o)
             m == memmove(buf[ref[o]], i, i + 1, n - i - 1)
             c == Resized(m, n, n - 1)
  <2>1. Holds(o) /\ i < n /\ Realloc(o, a, n - 1, c)
    BY <1>5 DEF array_erase
  <2>2. i \in Nat /\ n \in Nat /\ n - 1 \in Nat /\ n - i - 1 \in Nat /\ i + 1 \in Nat
    BY <1>0, <2>1, SizeAssumption
  <2>3. m \in Seq(Elem)
    <3>1. i + (n - i - 1) <= n /\ (i + 1) + (n - i - 1) <= n
      BY <2>2
    <3>2. buf[ref[o]] \in Seq(Elem) /\ Len(buf[ref[o]]) = n
      BY <1>0, <2>1
    <3> QED BY <3>1, <3>2, <2>2, MemmoveType
  <2>4. c \in Seq(Elem) /\ Len(c) = n - 1
    BY <2>2, <2>3, ResizedType
  <2> QED BY <2>1, <2>2, <2>4, ReallocPreserves DEF Realloc, NoOwners
<1>6. ASSUME NEW o \in Owner, NEW a \in Addr, NEW i \in 0..MaxSize, NEW v \in Value,
             array_insert(o, a, i, v)
      PROVE  IInv' /\ NoOwners'
  <2> DEFINE n == array_len(o) + 1
             g == Resized(buf[ref[o]], n - 1, n)
             m == memmove(g, i + 1, i, n - i - 1)
             c == [m EXCEPT ![i + 1] = v]
  <2>1. Holds(o) /\ i < n /\ Realloc(o, a, n, c)
    BY <1>6 DEF array_insert
  <2>2. i \in Nat /\ n \in Nat /\ n - 1 \in Nat /\ n - i - 1 \in Nat /\ i + 1 \in Nat
    BY <1>0, <2>1, SizeAssumption
  <2>3. g \in Seq(Elem) /\ Len(g) = n
    BY <1>0, <2>1, <2>2, ResizedType
  <2> HIDE DEF g, n
  <2>4. m \in Seq(Elem) /\ Len(m) = n
    <3>1. (i + 1) + (n - i - 1) <= n /\ i + (n - i - 1) <= n
      BY <2>2
    <3> QED BY <3>1, <2>2, <2>3, MemmoveType
  <2>5. v \in Elem
    BY DEF Elem
  <2> HIDE DEF m
  <2>6. c \in Seq(Elem) /\ Len(c) = n
    BY <2>4, <2>5, <2>2
  <2> QED BY <2>1, <2>2, <2>6, ReallocPreserves DEF Realloc, NoOwners
<1>7. ASSUME NEW o \in Owner, NEW p \in Owner, o # p, NEW a \in Addr, NEW b \in Addr,
             NEW i \in 0..MaxSize, array_chop(o, p, a, b, i)
      PROVE  IInv' /\ NoOwners'
  <2>1. i \in Nat
    BY SizeAssumption
  <2>2. IInv'
    BY <1>7, <2>1, ChopPreserves
  <2> QED BY <1>7, <2>2 DEF array_chop, NoOwners
<1>8. ASSUME NEW o \in Owner, NEW i \in 0..MaxSize, NEW v \in Value, write(o, i, v)
      PROVE  IInv' /\ NoOwners'
  <2> DEFINE b == buf[ref[o]]
             c == [b EXCEPT ![i + 1] = v]
  <2>1. Holds(o) /\ buf' = [buf EXCEPT ![ref[o]] = c]
    BY <1>8 DEF write
  <2>2. c \in Seq(Elem) /\ Len(c) = Len(b)
    <3>1. v \in Elem
      BY DEF Elem
    <3>2. b \in Seq(Elem)
      BY <1>0, <2>1
    <3>3. i + 1 \in Nat
      BY SizeAssumption
    <3> HIDE DEF b
    <3>4. Len(b) \in Nat /\ b \in [1..Len(b) -> Elem]
      BY <3>2
    <3>5. c \in [1..Len(b) -> Elem]
      BY <3>1, <3>3, <3>4
    <3> HIDE DEF c
    <3> QED BY <3>4, <3>5
  <2>3. TypeOK'
    BY <1>0, <1>8, <2>1, <2>2 DEF write, IInv, TypeOK
  <2>4. OwnersInv'
    BY <1>0, <1>8, <2>1, <2>2 DEF write, IInv, TypeOK, OwnersInv
  <2>5. ListInv' /\ NoOwners'
    BY <1>8 DEF write, IInv, ListInv, NoOwners
  <2> QED BY <2>3, <2>4, <2>5 DEF IInv
<1>9. CASE free_all_begin
  <2>1. TypeOK' /\ OwnersInv' /\ NoOwners'
    BY <1>9 DEF free_all_begin, IInv, TypeOK, OwnersInv, NoOwners, Ptr
  <2>2. ListInv'
    BY <1>9 DEF free_all_begin, IInv, ListInv, Threads
  <2> QED BY <2>1, <2>2 DEF IInv
<1>10. CASE free_all_step
  <2>1. \A o \in Owner : ref[o] = NULL
    BY <1>10 DEF free_all_step, NoOwners
  <2> QED BY <1>10, <2>1, FreeStepPreserves DEF free_all_step, NoOwners
<1>11. CASE free_all_end
  <2>1. order = <<>> /\ Len(order) = 0
    <3>1. order # <<>> => order[Len(order)] \in Addr
      BY EmptySeq DEF IInv, TypeOK
    <3>2. order = <<>>
      BY <1>11, <3>1, AddrAssumption DEF free_all_end, IInv, ListInv, Threads
    <3> QED BY <3>2
  <2>2. TypeOK' /\ OwnersInv' /\ NoOwners'
    BY <1>11 DEF free_all_end, IInv, TypeOK, OwnersInv, NoOwners
  <2>3. ListInv'
    BY <1>11, <2>1 DEF free_all_end, IInv, ListInv, Threads, Enumerates
  <2> QED BY <2>2, <2>3 DEF IInv
<1>12. CASE UNCHANGED vars
  BY <1>12 DEF vars, IInv, TypeOK, ListInv, OwnersInv, NoOwners
<1> QED
  BY <1>1, <1>2, <1>3, <1>4, <1>5, <1>6, <1>7, <1>8, <1>9, <1>10, <1>11, <1>12 DEF Next

\* An ended free_all_compiler_allocs has freed every block.
LEMMA NoLeakFollows == IInv => NoLeak
<1> SUFFICES ASSUME IInv, phase = "freeing", list.head = NULL PROVE live = {}
  BY DEF NoLeak
<1>1. order # <<>> => order[Len(order)] \in Addr
  BY EmptySeq DEF IInv, TypeOK
<1>2. order = <<>>
  BY <1>1, AddrAssumption DEF IInv, ListInv, Threads
<1> QED BY <1>2 DEF IInv, ListInv, Enumerates

\* The allocator list of memory.h always threads exactly the live blocks,
\* each once: moving reallocs never lose a block or leave a dangling link.
THEOREM ListCorrect == Spec => [](TypeOK /\ ListInv)
<1>1. IInv => TypeOK /\ ListInv
  BY DEF IInv
<1> QED BY <1>1, InitIInv, NextIInv, PTL DEF Spec

\* No owner's pointer is stale or shared, and array_len is the true extent.
THEOREM OwnersCorrect == Spec => []OwnersInv
<1>1. IInv => OwnersInv
  BY DEF IInv
<1> QED BY <1>1, InitIInv, NextIInv, PTL DEF Spec

\* free_all_compiler_allocs leaks nothing.
THEOREM FreeAllCorrect == Spec => []NoLeak
<1> QED BY InitIInv, NextIInv, NoLeakFollows, PTL DEF Spec

-----------------------------------------------------------------------------
(* The refinement: what each operation leaves in a block is what the       *)
(* abstract operation makes of the array.                                  *)

\* zero_realloc keeps the common prefix and clears the rest, whatever the heap
\* left in the memory it added.
LEMMA ResizedIs ==
  ASSUME NEW c \in Seq(Elem), NEW n \in Nat, NEW from \in Nat, from = Len(c)
  PROVE  /\ Resized(c, from, n) = [i \in 1..n |-> IF i <= Len(c) THEN c[i] ELSE Zero]
         /\ n <= Len(c) => Resized(c, from, n) = SubSeq(c, 1, n)
<1> DEFINE r == [i \in 1..n |-> IF i <= Len(c) THEN c[i] ELSE Zero]
<1>1. Resized(c, from, n) = r
  BY DEF Resized, memset0, realloc
<1>2. ASSUME n <= Len(c) PROVE r = SubSeq(c, 1, n)
  BY <1>2
<1> QED BY <1>1, <1>2

\* array_push.
LEMMA PushIs ==
  ASSUME NEW c \in Seq(Elem), NEW n \in Nat, n = Len(c) + 1, NEW v \in Elem
  PROVE  [Resized(c, n - 1, n) EXCEPT ![n] = v] = Append(c, v)
<1> DEFINE g == Resized(c, n - 1, n)
           s == [g EXCEPT ![n] = v]
           t == Append(c, v)
<1>1. n - 1 \in Nat /\ n - 1 = Len(c) /\ n \in 1..n
  OBVIOUS
<1>2. g \in Seq(Elem) /\ Len(g) = n
  BY <1>1, ResizedType
<1>3. \A i \in 1..n : i # n => g[i] = c[i]
  BY <1>1, ResizedIs
<1> HIDE DEF g
<1>4. s \in Seq(Elem) /\ Len(s) = n /\ \A i \in 1..n : s[i] = IF i = n THEN v ELSE c[i]
  BY <1>1, <1>2, <1>3, ExceptSeq
<1>5. t \in Seq(Elem) /\ Len(t) = n /\ \A i \in 1..n : t[i] = IF i = n THEN v ELSE c[i]
  BY <1>1
<1> HIDE DEF s, t
<1>6. s = t
  BY <1>4, <1>5, SeqEqual
<1> QED BY <1>6 DEF s, t, g

\* array_erase: the tail moves down by one, then the block shrinks.
LEMMA EraseIs ==
  ASSUME NEW c \in Seq(Elem), NEW n \in Nat, n = Len(c), NEW k \in 1..n
  PROVE  Resized(memmove(c, k - 1, k, n - k), n, n - 1)
           = SubSeq(c, 1, k - 1) \o SubSeq(c, k + 1, n)
<1> DEFINE m == memmove(c, k - 1, k, n - k)
           r == Resized(m, n, n - 1)
           s == SubSeq(c, 1, k - 1)
           t == SubSeq(c, k + 1, n)
           u == s \o t
<1>1. n - 1 \in Nat /\ k \in Nat /\ k - 1 \in Nat /\ n - k \in Nat
  OBVIOUS
<1>2. m \in Seq(Elem) /\ Len(m) = n
  BY <1>1, MemmoveType
<1>3. \A i \in 1..n : m[i] = IF i \in k..(n - 1) THEN c[i + 1] ELSE c[i]
  BY <1>1 DEF memmove
<1>4. s \in Seq(Elem) /\ Len(s) = k - 1 /\ \A i \in 1..(k - 1) : s[i] = c[i]
  BY <1>1
<1>5. t \in Seq(Elem) /\ Len(t) = n - k /\ \A i \in 1..(n - k) : t[i] = c[k + i]
  BY <1>1
<1> HIDE DEF m
<1>6. r \in Seq(Elem) /\ Len(r) = n - 1 /\ \A i \in 1..(n - 1) : r[i] = m[i]
  <2>1. r \in Seq(Elem) /\ Len(r) = n - 1
    BY <1>1, <1>2, ResizedType
  <2>2. r = [i \in 1..(n - 1) |-> IF i <= Len(m) THEN m[i] ELSE Zero]
    BY <1>1, <1>2, ResizedIs
  <2> QED BY <1>1, <1>2, <2>1, <2>2
<1> HIDE DEF s, t, r
<1>7. /\ u \in Seq(Elem) /\ Len(u) = Len(s) + Len(t)
      /\ \A i \in 1..(Len(s) + Len(t)) : u[i] = IF i <= Len(s) THEN s[i] ELSE t[i - Len(s)]
  BY <1>4, <1>5, ConcatProperties
<1> HIDE DEF u
<1>8. Len(s) + Len(t) = n - 1
  BY <1>1, <1>4, <1>5
<1>9. ASSUME NEW i \in 1..(n - 1) PROVE u[i] = r[i]
  <2>0. u[i] = IF i <= k - 1 THEN s[i] ELSE t[i - (k - 1)]
    BY <1>4, <1>7, <1>8
  <2>1. CASE i <= k - 1
    BY <2>0, <2>1, <1>1, <1>3, <1>4, <1>6
  <2>2. CASE i > k - 1
    <3>1. i - (k - 1) \in 1..(n - k) /\ k + (i - (k - 1)) = i + 1 /\ i \in k..(n - 1) /\ i \in 1..n
      BY <2>2, <1>1
    <3>2. u[i] = t[i - (k - 1)]
      BY <2>0, <2>2, <1>1
    <3> QED BY <3>1, <3>2, <1>3, <1>5, <1>6
  <2> QED BY <2>1, <2>2, <1>1
<1>10. u = r
  BY <1>6, <1>7, <1>8, <1>9, SeqEqual
<1> QED BY <1>10 DEF s, t, m, r, u

\* array_insert: the block grows, the tail moves up by one, the gap is filled.
LEMMA InsertIs ==
  ASSUME NEW c \in Seq(Elem), NEW n \in Nat, n = Len(c) + 1, NEW k \in 1..n, NEW v \in Elem
  PROVE  [memmove(Resized(c, n - 1, n), k, k - 1, n - k) EXCEPT ![k] = v]
           = SubSeq(c, 1, k - 1) \o <<v>> \o SubSeq(c, k, Len(c))
<1> DEFINE g == Resized(c, n - 1, n)
           m == memmove(g, k, k - 1, n - k)
           r == [m EXCEPT ![k] = v]
           s == SubSeq(c, 1, k - 1)
           t == SubSeq(c, k, Len(c))
           u == s \o <<v>>
           w == u \o t
<1>1. n - 1 \in Nat /\ n - 1 = Len(c) /\ k \in Nat /\ k - 1 \in Nat /\ n - k \in Nat
  OBVIOUS
<1>2. g \in Seq(Elem) /\ Len(g) = n /\ \A i \in 1..(n - 1) : g[i] = c[i]
  <2>1. g \in Seq(Elem) /\ Len(g) = n
    BY <1>1, ResizedType
  <2>2. g = [i \in 1..n |-> IF i <= Len(c) THEN c[i] ELSE Zero]
    BY <1>1, ResizedIs
  <2> QED BY <1>1, <2>1, <2>2
<1> HIDE DEF g
<1>3. m \in Seq(Elem) /\ Len(m) = n
  BY <1>1, <1>2, MemmoveType
<1>4. \A i \in 1..n : i # k => m[i] = IF i < k THEN c[i] ELSE c[i - 1]
  <2>1. \A i \in 1..n : m[i] = IF i \in (k + 1)..n THEN g[i - 1] ELSE g[i]
    BY <1>1, <1>2 DEF memmove
  <2> QED BY <1>1, <1>2, <2>1
<1>5. s \in Seq(Elem) /\ Len(s) = k - 1 /\ \A i \in 1..(k - 1) : s[i] = c[i]
  BY <1>1
<1>6. t \in Seq(Elem) /\ Len(t) = n - k /\ \A i \in 1..(n - k) : t[i] = c[k - 1 + i]
  BY <1>1
<1> HIDE DEF s, t, m
<1>7. u \in Seq(Elem) /\ Len(u) = k /\ u[k] = v /\ \A i \in 1..(k - 1) : u[i] = c[i]
  BY <1>1, <1>5
<1>8. r \in Seq(Elem) /\ Len(r) = n /\ \A i \in 1..n : r[i] = IF i = k THEN v ELSE m[i]
  BY <1>1, <1>3, ExceptSeq
<1> HIDE DEF u, r
<1>9. /\ w \in Seq(Elem) /\ Len(w) = Len(u) + Len(t)
      /\ \A i \in 1..(Len(u) + Len(t)) : w[i] = IF i <= Len(u) THEN u[i] ELSE t[i - Len(u)]
  BY <1>6, <1>7, ConcatProperties
<1> HIDE DEF w
<1>10. Len(u) + Len(t) = n
  BY <1>1, <1>6, <1>7
<1>11. ASSUME NEW i \in 1..n PROVE w[i] = r[i]
  <2>1. CASE i < k
    BY <2>1, <1>1, <1>4, <1>7, <1>8, <1>9, <1>10
  <2>2. CASE i = k
    BY <2>2, <1>7, <1>8, <1>9, <1>10
  <2>3. CASE i > k
    <3>1. i - k \in 1..(n - k) /\ k - 1 + (i - k) = i - 1
      BY <2>3, <1>1
    <3>2. w[i] = t[i - k]
      BY <2>3, <1>1, <1>7, <1>9, <1>10
    <3>3. t[i - k] = c[i - 1]
      BY <3>1, <1>6
    <3> QED BY <3>2, <3>3, <2>3, <1>1, <1>4, <1>8
  <2> QED BY <2>1, <2>2, <2>3, <1>1
<1>12. w = r
  BY <1>8, <1>9, <1>10, <1>11, SeqEqual
<1> QED BY <1>12 DEF s, t, u, w, m, g, r

-----------------------------------------------------------------------------
\* The sequences the owners hold are no null pointers.
LEMMA ArraysHold ==
  ASSUME IInv, NEW o \in Owner
  PROVE  /\ Holds(o) <=> Arrays!Holds(o)
         /\ Holds(o) => /\ arrays[o] = buf[ref[o]] /\ ref[o] \in live /\ ref[o] \in Addr
                        /\ arrays[o] \in Seq(Elem) /\ Len(arrays[o]) = array_len(o)
<1>1. Holds(o) => /\ arrays[o] = buf[ref[o]] /\ ref[o] \in live /\ ref[o] \in Addr
                  /\ arrays[o] \in Seq(Elem) /\ Len(arrays[o]) = array_len(o)
  BY DEF IInv, TypeOK, OwnersInv, Holds, array_len, arrays
<1>2. ~Holds(o) => arrays[o] = NULL
  BY DEF Holds, arrays
<1> QED BY <1>1, <1>2, NullAssumption DEF Arrays!Holds, Elem

\* A new block changes what its owner sees and nothing else.
LEMMA AllocSeen ==
  ASSUME IInv, NEW o \in Owner, NEW a \in Addr, NEW c, Alloc(o, a, c)
  PROVE  arrays' = [arrays EXCEPT ![o] = c]
<1>1. a \notin live /\ a # NULL
  BY AddrAssumption DEF Alloc, Free
<1>2. ASSUME NEW p \in Owner PROVE arrays'[p] = IF p = o THEN c ELSE arrays[p]
  BY <1>1 DEF IInv, TypeOK, OwnersInv, Alloc, arrays
<1> QED BY <1>2 DEF arrays

\* So does a moved block, because no other owner holds it.
LEMMA ReallocSeen ==
  ASSUME IInv, NEW o \in Owner, NEW new \in Addr, NEW n, NEW c, Holds(o), Realloc(o, new, n, c)
  PROVE  arrays' = [arrays EXCEPT ![o] = c]
<1>1. new \notin live \ {ref[o]} /\ new # NULL /\ ref[o] \in live /\ ref[o] \in Addr
  BY AddrAssumption DEF Realloc, Free, IInv, TypeOK, OwnersInv, Holds
<1>2. ASSUME NEW p \in Owner PROVE arrays'[p] = IF p = o THEN c ELSE arrays[p]
  <2>1. CASE p = o
    BY <1>1, <2>1 DEF IInv, TypeOK, Realloc, arrays
  <2>2. CASE p # o
    <3>1. ref'[p] = ref[p] /\ (ref[p] # NULL => ref[p] \in Addr /\ ref[p] # ref[o] /\ ref[p] # new)
      BY <1>1, <2>2 DEF IInv, TypeOK, OwnersInv, Realloc, Ptr
    <3> QED BY <1>1, <2>2, <3>1 DEF IInv, TypeOK, Realloc, arrays
  <2> QED BY <2>1, <2>2
<1> QED BY <1>2 DEF arrays

\* array_chop leaves its owner the first elements and hands the rest over.
LEMMA ChopSeen ==
  ASSUME IInv, NEW o \in Owner, NEW p \in Owner, o # p, NEW a \in Addr, NEW new \in Addr, NEW i \in Nat,
         array_chop(o, p, a, new, i)
  PROVE  arrays' = [arrays EXCEPT ![o] = SubSeq(@, 1, i),
                                  ![p] = SubSeq(arrays[o], i + 1, Len(arrays[o]))]
<1> DEFINE b == buf[ref[o]]
           n == Len(b)
<1>1. /\ a \notin live /\ a # NULL /\ new # NULL /\ new # a /\ new \notin live \ {ref[o]}
      /\ ref[o] \in live /\ ref[o] \in Addr /\ a # ref[o]
      /\ b = arrays[o] /\ b \in Seq(Elem) /\ n = array_len(o) /\ i <= n
  BY AddrAssumption, ArraysHold DEF array_chop, Free, IInv, TypeOK, OwnersInv, Holds
<1>2. Resized(b, n, i) = SubSeq(b, 1, i)
  <2>1. n \in Nat
    BY <1>1
  <2> HIDE DEF b
  <2> QED BY <1>1, <2>1, ResizedIs
<1>3. ASSUME NEW q \in Owner
      PROVE  arrays'[q] = IF q = p THEN SubSeq(b, i + 1, n)
                          ELSE IF q = o THEN SubSeq(b, 1, i) ELSE arrays[q]
  <2>1. /\ ref' = [ref EXCEPT ![o] = new, ![p] = a]
        /\ buf' = [buf EXCEPT ![a] = SubSeq(b, i + 1, n), ![ref[o]] = Blank, ![new] = SubSeq(b, 1, i)]
    BY <1>1, <1>2 DEF array_chop
  <2>2. CASE q = p
    BY <1>1, <2>1, <2>2 DEF IInv, TypeOK, arrays
  <2>3. CASE q = o
    BY <1>1, <2>1, <2>3 DEF IInv, TypeOK, arrays
  <2>4. CASE q # o /\ q # p
    <3>1. ref'[q] = ref[q] /\ (ref[q] # NULL => ref[q] \in Addr /\ ref[q] # ref[o] /\ ref[q] # new /\ ref[q] # a)
      BY <1>1, <2>1, <2>4 DEF IInv, TypeOK, OwnersInv, Ptr
    <3> QED BY <1>1, <2>1, <2>4, <3>1 DEF IInv, TypeOK, arrays
  <2> QED BY <2>2, <2>3, <2>4
<1> QED BY <1>1, <1>3 DEF arrays

\* No array outgrows the bound of the model.
Bounded == \A a \in live : size[a] <= MaxSize

\* Nothing grows beyond the bounds of the model.
LEMMA NextBounded == IInv /\ Bounded /\ [Next]_vars => Bounded'
<1> SUFFICES ASSUME IInv, Bounded, [Next]_vars PROVE Bounded'
  OBVIOUS
<1> USE SizeAssumption
<1>0. \A o \in Owner : Holds(o) => /\ ref[o] \in live /\ array_len(o) \in Nat /\ array_len(o) <= MaxSize
                                 /\ buf[ref[o]] \in Seq(Elem) /\ Len(buf[ref[o]]) = array_len(o)
  BY DEF IInv, TypeOK, OwnersInv, Holds, array_len, Bounded
<1>1. ASSUME NEW o \in Owner, NEW a \in Addr, NEW c, Len(c) \in 0..MaxSize, Alloc(o, a, c)
      PROVE  Bounded'
  BY <1>1 DEF Alloc, Bounded, IInv, TypeOK
<1>2. ASSUME NEW o \in Owner, NEW a \in Addr, NEW n \in 0..MaxSize, NEW c, Realloc(o, a, n, c)
      PROVE  Bounded'
  BY <1>2 DEF Realloc, Bounded, IInv, TypeOK
<1>3. ASSUME NEW o \in Owner, NEW a \in Addr, NEW n \in 0..MaxSize, zero_alloc(o, a, n)
      PROVE  Bounded'
  <2>1. Len([i \in 1..n |-> Zero]) \in 0..MaxSize
    OBVIOUS
  <2> QED BY <1>1, <1>3, <2>1 DEF zero_alloc
<1>4. ASSUME NEW o \in Owner, NEW a \in Addr, NEW n \in 0..MaxSize, zero_realloc(o, a, n)
      PROVE  Bounded'
  BY <1>2, <1>4 DEF zero_realloc
<1>5. ASSUME NEW o \in Owner, NEW p \in Owner, NEW a \in Addr, zero_alloc_clone(o, p, a)
      PROVE  Bounded'
  <2> DEFINE b == buf[ref[o]]
  <2>1. Alloc(p, a, SubSeq(b, 1, array_len(o)))
    BY <1>5 DEF zero_alloc_clone
  <2>2. b \in Seq(Elem) /\ Len(b) = array_len(o) /\ array_len(o) \in Nat /\ array_len(o) <= MaxSize
    BY <1>0, <1>5 DEF zero_alloc_clone
  <2> HIDE DEF b
  <2>3. Len(SubSeq(b, 1, array_len(o))) \in 0..MaxSize
    BY <2>2
  <2> QED BY <1>1, <2>1, <2>3
<1>6. ASSUME NEW o \in Owner, NEW a \in Addr, NEW v \in Value, array_push(o, a, v)
      PROVE  Bounded'
  <2>1. array_len(o) + 1 \in 0..MaxSize
    BY <1>0, <1>6 DEF array_push
  <2> QED BY <1>2, <1>6, <2>1 DEF array_push
<1>7. ASSUME NEW o \in Owner, NEW a \in Addr, NEW i \in 0..MaxSize, array_erase(o, a, i)
      PROVE  Bounded'
  <2>1. array_len(o) - 1 \in 0..MaxSize
    BY <1>0, <1>7 DEF array_erase
  <2> QED BY <1>2, <1>7, <2>1 DEF array_erase
<1>8. ASSUME NEW o \in Owner, NEW a \in Addr, NEW i \in 0..MaxSize, NEW v \in Value,
             array_insert(o, a, i, v)
      PROVE  Bounded'
  <2>1. array_len(o) + 1 \in 0..MaxSize
    BY <1>0, <1>8 DEF array_insert
  <2> QED BY <1>2, <1>8, <2>1 DEF array_insert
<1>9. ASSUME NEW o \in Owner, NEW p \in Owner, NEW a \in Addr, NEW b \in Addr,
             NEW i \in 0..MaxSize, array_chop(o, p, a, b, i)
      PROVE  Bounded'
  <2>1. array_len(o) - i \in 0..MaxSize
    BY <1>0, <1>9 DEF array_chop
  <2> QED BY <1>9, <2>1 DEF array_chop, array_len, Bounded, IInv, TypeOK
<1>10. ASSUME NEW o \in Owner, NEW i \in 0..MaxSize, NEW v \in Value, write(o, i, v)
       PROVE  Bounded'
  BY <1>10 DEF write, Bounded
<1>11. CASE free_all_begin \/ free_all_end
  BY <1>11 DEF free_all_begin, free_all_end, Bounded
<1>12. CASE free_all_step
  BY <1>12 DEF free_all_step, Bounded, IInv, TypeOK
<1>13. CASE UNCHANGED vars
  BY <1>13 DEF vars, Bounded
<1> QED
  BY <1>3, <1>4, <1>5, <1>6, <1>7, <1>8, <1>9, <1>10, <1>11, <1>12, <1>13 DEF Next

\* Each operation of memory.h is the operation of ArrayStore of its kind on the arrays
\* the owners see; free_all_compiler_allocs is Reset, and the turns of its loop are not
\* seen.
LEMMA NextRefines == IInv /\ Bounded /\ NoOwners /\ [Next]_vars => [Arrays!Next]_arrays
<1> SUFFICES ASSUME IInv, Bounded, NoOwners, [Next]_vars PROVE [Arrays!Next]_arrays
  OBVIOUS
<1>0. \A o \in Owner : Holds(o) => /\ Arrays!Holds(o) /\ arrays[o] = buf[ref[o]] /\ ref[o] \in Addr
                                 /\ arrays[o] \in Seq(Elem) /\ Len(arrays[o]) = array_len(o)
                                 /\ array_len(o) \in 0..MaxSize
  <2> SUFFICES ASSUME NEW o \in Owner, Holds(o) PROVE array_len(o) \in 0..MaxSize
    BY ArraysHold
  <2> QED BY ArraysHold, SizeAssumption DEF Bounded, array_len, IInv, TypeOK
<1>1. ASSUME NEW o \in Owner, NEW a \in Addr, NEW n \in 0..MaxSize, zero_alloc(o, a, n)
      PROVE  Arrays!Next
  <2>1. arrays' = [arrays EXCEPT ![o] = [i \in 1..n |-> Zero]]
    BY <1>1, AllocSeen DEF zero_alloc
  <2>2. Arrays!Fresh(o, n)
    BY <2>1 DEF Arrays!Fresh, Arrays!Zeros
  <2> QED BY <2>2 DEF Arrays!Next
<1>2. ASSUME NEW o \in Owner, NEW a \in Addr, NEW n \in 0..MaxSize, zero_realloc(o, a, n)
      PROVE  Arrays!Next
  <2> DEFINE b == buf[ref[o]]
  <2>1. Holds(o) /\ Realloc(o, a, n, Resized(b, array_len(o), n))
    BY <1>2 DEF zero_realloc
  <2>2. Arrays!Holds(o) /\ arrays[o] = b /\ b \in Seq(Elem) /\ Len(b) = array_len(o) /\ n \in Nat /\ array_len(o) \in Nat
    BY <1>0, <2>1, SizeAssumption
  <2> HIDE DEF b
  <2>3. arrays' = [arrays EXCEPT ![o] = Resized(b, array_len(o), n)]
    BY <2>1, ReallocSeen
  <2>4. Resized(b, array_len(o), n) = [i \in 1..n |-> IF i <= Len(b) THEN b[i] ELSE Zero]
    BY <2>2, ResizedIs
  <2>5. Arrays!Resize(o, n)
    BY <2>2, <2>3, <2>4 DEF Arrays!Resize
  <2> QED BY <2>5 DEF Arrays!Next
<1>3. ASSUME NEW o \in Owner, NEW p \in Owner, o # p, NEW a \in Addr, zero_alloc_clone(o, p, a)
      PROVE  Arrays!Next
  <2> DEFINE b == buf[ref[o]]
  <2>1. Holds(o) /\ Alloc(p, a, SubSeq(b, 1, array_len(o)))
    BY <1>3 DEF zero_alloc_clone
  <2>2. Arrays!Holds(o) /\ arrays[o] = b /\ b \in Seq(Elem) /\ Len(b) = array_len(o)
    BY <1>0, <2>1
  <2> HIDE DEF b
  <2>3. arrays' = [arrays EXCEPT ![p] = SubSeq(b, 1, array_len(o))]
    BY <2>1, AllocSeen
  <2>4. SubSeq(b, 1, array_len(o)) = b
    BY <2>2, SubSeqFull
  <2>5. Arrays!Copy(o, p)
    BY <2>2, <2>3, <2>4 DEF Arrays!Copy
  <2> QED BY <1>3, <2>5 DEF Arrays!Next
<1>4. ASSUME NEW o \in Owner, NEW a \in Addr, NEW v \in Value, array_push(o, a, v)
      PROVE  Arrays!Next
  <2> DEFINE b == buf[ref[o]]
             n == array_len(o) + 1
             c == [Resized(b, n - 1, n) EXCEPT ![n] = v]
  <2>1. Holds(o) /\ Realloc(o, a, n, c)
    BY <1>4 DEF array_push
  <2>2. Arrays!Holds(o) /\ arrays[o] = b /\ b \in Seq(Elem) /\ n = Len(b) + 1 /\ n \in Nat /\ v \in Elem
    BY <1>0, <2>1 DEF Elem
  <2> HIDE DEF b, n
  <2>3. arrays' = [arrays EXCEPT ![o] = c]
    BY <2>1, ReallocSeen
  <2>4. c = Append(b, v)
    BY <2>2, PushIs
  <2>5. Arrays!Push(o, v)
    BY <2>2, <2>3, <2>4 DEF Arrays!Push
  <2> QED BY <2>5 DEF Arrays!Next
<1>5. ASSUME NEW o \in Owner, NEW a \in Addr, NEW i \in 0..MaxSize, array_erase(o, a, i)
      PROVE  Arrays!Next
  <2> DEFINE b == buf[ref[o]]
             n == array_len(o)
             k == i + 1
             c == Resized(memmove(b, k - 1, k, n - k), n, n - 1)
  <2>1. Holds(o) /\ i < n /\ Realloc(o, a, n - 1, Resized(memmove(b, i, i + 1, n - i - 1), n, n - 1))
    BY <1>5 DEF array_erase
  <2>2. /\ Arrays!Holds(o) /\ arrays[o] = b /\ b \in Seq(Elem) /\ n = Len(b) /\ n \in Nat
        /\ k \in 1..n /\ k \in 1..MaxSize /\ i = k - 1 /\ n - i - 1 = n - k
    BY <1>0, <2>1, SizeAssumption
  <2>3. Realloc(o, a, n - 1, c)
    BY <2>1, <2>2
  <2> HIDE DEF b, n, k
  <2>4. arrays' = [arrays EXCEPT ![o] = c]
    BY <2>1, <2>3, ReallocSeen
  <2>5. c = SubSeq(b, 1, k - 1) \o SubSeq(b, k + 1, n)
    BY <2>2, EraseIs
  <2>6. Arrays!Erase(o, k)
    BY <2>2, <2>4, <2>5 DEF Arrays!Erase, Arrays!RemoveAt
  <2> QED BY <2>2, <2>6 DEF Arrays!Next
<1>6. ASSUME NEW o \in Owner, NEW a \in Addr, NEW i \in 0..MaxSize, NEW v \in Value,
             array_insert(o, a, i, v)
      PROVE  Arrays!Next
  <2> DEFINE b == buf[ref[o]]
             n == array_len(o) + 1
             k == i + 1
             c == [memmove(Resized(b, n - 1, n), k, k - 1, n - k) EXCEPT ![k] = v]
  <2>1. /\ Holds(o) /\ i < n /\ n <= MaxSize
        /\ Realloc(o, a, n, [memmove(Resized(b, n - 1, n), i + 1, i, n - i - 1) EXCEPT ![i + 1] = v])
    BY <1>6 DEF array_insert
  <2>2. /\ Arrays!Holds(o) /\ arrays[o] = b /\ b \in Seq(Elem) /\ n = Len(b) + 1 /\ n \in Nat /\ v \in Elem
        /\ k \in 1..n /\ k \in 1..MaxSize /\ i = k - 1 /\ n - i - 1 = n - k
    BY <1>0, <2>1, SizeAssumption DEF Elem
  <2>3. Realloc(o, a, n, c)
    BY <2>1, <2>2
  <2> HIDE DEF b, n, k
  <2>4. arrays' = [arrays EXCEPT ![o] = c]
    BY <2>1, <2>3, ReallocSeen
  <2>5. c = SubSeq(b, 1, k - 1) \o <<v>> \o SubSeq(b, k, Len(b))
    <3>1. b \in Seq(Elem) /\ n \in Nat /\ n = Len(b) + 1 /\ k \in 1..n /\ v \in Elem
      BY <2>2
    <3> QED BY <3>1, InsertIs, Zenon
  <2>6. Arrays!Insert(o, k, v)
    BY <2>2, <2>4, <2>5 DEF Arrays!Insert, Arrays!InsertAt
  <2> QED BY <2>2, <2>6 DEF Arrays!Next
<1>7. ASSUME NEW o \in Owner, NEW p \in Owner, o # p, NEW a \in Addr, NEW b \in Addr,
             NEW i \in 0..MaxSize, array_chop(o, p, a, b, i)
      PROVE  Arrays!Next
  <2>1. i \in Nat /\ Holds(o) /\ i <= array_len(o)
    BY <1>7, SizeAssumption DEF array_chop
  <2>2. Arrays!Holds(o) /\ i \in 0..Len(arrays[o])
    BY <1>0, <2>1
  <2>3. Arrays!Chop(o, p, i)
    BY <1>7, <2>1, <2>2, ChopSeen DEF Arrays!Chop
  <2> QED BY <1>7, <2>3 DEF Arrays!Next
<1>8. ASSUME NEW o \in Owner, NEW i \in 0..MaxSize, NEW v \in Value, write(o, i, v)
      PROVE  Arrays!Next
  <2> DEFINE b == buf[ref[o]]
             c == [b EXCEPT ![i + 1] = v]
  <2>1. Holds(o) /\ i < array_len(o) /\ buf' = [buf EXCEPT ![ref[o]] = c] /\ ref' = ref
    BY <1>8 DEF write
  <2>2. /\ Arrays!Holds(o) /\ arrays[o] = b /\ ref[o] \in Addr
        /\ i + 1 \in 1..Len(arrays[o]) /\ i + 1 \in 1..MaxSize
    BY <1>0, <2>1, SizeAssumption
  <2>3. arrays' = [arrays EXCEPT ![o] = c]
    <3>1. ASSUME NEW p \in Owner PROVE arrays'[p] = IF p = o THEN c ELSE arrays[p]
      BY <2>1, <2>2 DEF IInv, TypeOK, OwnersInv, arrays, Holds
    <3> QED BY <3>1 DEF arrays
  <2>4. Arrays!Write(o, i + 1, v)
    BY <2>2, <2>3 DEF Arrays!Write
  <2> QED BY <2>2, <2>4 DEF Arrays!Next
<1>9. CASE free_all_begin
  <2>1. Arrays!Reset
    BY <1>9 DEF free_all_begin, arrays, Arrays!Reset
  <2> QED BY <2>1 DEF Arrays!Next
<1>10. CASE free_all_step
  BY <1>10 DEF free_all_step, NoOwners, arrays
<1>11. CASE free_all_end
  BY <1>11 DEF free_all_end, arrays
<1>12. CASE UNCHANGED vars
  BY <1>12 DEF vars, arrays
<1> QED
  BY <1>1, <1>2, <1>3, <1>4, <1>5, <1>6, <1>7, <1>8, <1>9, <1>10, <1>11, <1>12 DEF Next

\* The arrays of memory.h are private zero-initialised sequences, one for each owner,
\* whatever blocks move and whatever the heap leaves in new memory.
THEOREM ArraysCorrect == Spec => ImplementsArrayStore
<1>1. Init => Arrays!Init /\ Bounded
  BY DEF Init, Arrays!Init, arrays, Bounded
<1>2. IInv /\ Bounded /\ NoOwners /\ [Next]_vars => [Arrays!Next]_arrays
  BY NextRefines
<1> QED BY <1>1, <1>2, InitIInv, NextIInv, NextBounded, PTL DEF Spec, ImplementsArrayStore, Arrays!Spec
=============================================================================
