--------------------------- MODULE CloningProofs ---------------------------
(* That func_clone and its kin make a copy of the same shape, whatever the *)
(* graph: an object in the table has, at each place the call for it has    *)
(* passed, the new object of what it points at, and the old pointer at the *)
(* places still ahead.                                                     *)
EXTENDS Cloning, SequenceTheorems, TLAPS

\* The call for object o has yet to come to its n-th pointer.
Ahead(o, n) == \E j \in 1..Len(stack) : stack[j].obj = o /\ stack[j].at <= n

Filled(o, n) ==
  LET p == OldPointers(o)[n]
      q == copy[-info[o]][n]
  IN IF Ahead(o, n) THEN q = p ELSE (p # 0 => info[p] # 0) /\ q = Image(p)

InTable(o) ==
  /\ Len(copy[-info[o]]) = Len(OldPointers(o))
  /\ \A n \in 1..Len(OldPointers(o)) : Filled(o, n)

Frames ==
  /\ \A j \in 1..Len(stack) : info[stack[j].obj] # 0
  /\ \A j, k \in 1..Len(stack) : stack[j].obj = stack[k].obj => j = k

IInv ==
  /\ TypeOK
  /\ old \in Graphs
  /\ OneEach
  /\ Frames
  /\ \A o \in Copied : InTable(o)

LEMMA OldPointersType ==
  ASSUME old \in Graphs, NEW o \in Objects
  PROVE  /\ OldPointers(o) \in Seq(0..Len(old))
         /\ OldPointers(o) \in Seq(Int)
         /\ Len(OldPointers(o)) \in Nat
         /\ \A n \in 1..Len(OldPointers(o)) : OldPointers(o)[n] \in 0..Len(old)
<1>1. OldPointers(o) \in Seq(0..Len(old))
  BY GraphsAssumption DEF Objects, OldPointers
<1>2. Len(OldPointers(o)) \in Nat /\ \A n \in 1..Len(OldPointers(o)) : OldPointers(o)[n] \in 0..Len(old)
  BY <1>1, LenProperties, ElementOfSeq
<1>3. OldPointers(o) = [n \in 1..Len(OldPointers(o)) |-> OldPointers(o)[n]]
  BY <1>1, LenProperties
<1>4. OldPointers(o) \in Seq(Int)
  <2>2. \A n \in 1..Len(OldPointers(o)) : OldPointers(o)[n] \in Int
    BY <1>2
  <2>. QED BY <1>2, <1>3, <2>2, IsASeq
<1>. QED BY <1>1, <1>2, <1>4

\* What the facts about one step share.
LEMMA Facts ==
  ASSUME IInv
  PROVE  /\ Len(copy) \in Nat /\ Len(stack) \in Nat
         /\ \A o \in Objects : info[o] \in Int /\ (info[o] # 0 => -info[o] \in 1..Len(copy))
         /\ \A k \in 1..Len(copy) : copy[k] \in Seq(Int) /\ Len(copy[k]) \in Nat
         /\ \A j \in 1..Len(stack) : stack[j].obj \in Objects /\ stack[j].at \in Nat \ {0}
<1>1. Len(copy) \in Nat /\ Len(stack) \in Nat
  BY LenProperties DEF IInv, TypeOK
<1>2. \A o \in Objects : info[o] \in Int /\ (info[o] # 0 => -info[o] \in 1..Len(copy))
  BY <1>1 DEF IInv, TypeOK
<1>3. \A k \in 1..Len(copy) : copy[k] \in Seq(Int)
  BY ElementOfSeq DEF IInv, TypeOK
<1>4. \A j \in 1..Len(stack) : stack[j] \in [obj : Objects, at : Nat \ {0}]
  BY ElementOfSeq DEF IInv, TypeOK
<1>. QED BY <1>1, <1>2, <1>3, <1>4, LenProperties

LEMMA InitInv == Init => IInv
<1> SUFFICES ASSUME Init PROVE IInv
  OBVIOUS
<1> USE DEF Init
<1>1. copy \in Seq(Seq(Int)) /\ stack \in Seq([obj : Objects, at : Nat \ {0}]) /\ Len(copy) = 0 /\ Len(stack) = 0
  BY EmptySeq
<1>2. TypeOK
  BY <1>1 DEF TypeOK
<1>3. Copied = {}
  BY DEF Copied
<1>4. OneEach
  BY <1>1, <1>3 DEF OneEach
<1>5. Frames
  BY <1>1 DEF Frames
<1>. QED BY <1>2, <1>3, <1>4, <1>5 DEF IInv

\* An object is entered in the table and its pointers are next.
LEMMA AllocatedInv ==
  ASSUME IInv, NEW x \in Objects, info[x] = 0, Allocated(x)
  PROVE  IInv'
<1> DEFINE m == Len(copy) + 1
<1>0. /\ Len(copy) \in Nat /\ Len(stack) \in Nat
      /\ \A o \in Objects : info[o] \in Int /\ (info[o] # 0 => -info[o] \in 1..Len(copy))
      /\ \A j \in 1..Len(stack) : stack[j].obj \in Objects /\ stack[j].at \in Nat \ {0}
  BY Facts
<1>1. /\ old' = old /\ root' = root /\ Objects' = Objects
      /\ copy' = Append(copy, OldPointers(x))
      /\ info' = [info EXCEPT ![x] = -m]
      /\ stack' = Append(stack, [obj |-> x, at |-> 1])
      /\ m \in Nat \ {0}
  BY <1>0 DEF Allocated, Objects
<1>2. \A o \in Objects : OldPointers(o)' = OldPointers(o)
  BY <1>1 DEF OldPointers
<1>t. /\ info \in [Objects -> -Len(copy)..0] /\ copy \in Seq(Seq(Int))
      /\ stack \in Seq([obj : Objects, at : Nat \ {0}]) /\ root \in Objects /\ old \in Graphs
  BY DEF IInv, TypeOK
<1>3. OldPointers(x) \in Seq(Int) /\ Len(OldPointers(x)) \in Nat
  BY <1>t, OldPointersType
<1>4. /\ copy' \in Seq(Seq(Int)) /\ Len(copy') = m
      /\ copy'[m] = OldPointers(x)
      /\ \A k \in 1..Len(copy) : copy'[k] = copy[k]
  BY <1>1, <1>t, <1>3, <1>0, AppendProperties
<1>5. [obj |-> x, at |-> 1] \in [obj : Objects, at : Nat \ {0}]
  OBVIOUS
<1>6. /\ stack' \in Seq([obj : Objects, at : Nat \ {0}]) /\ Len(stack') = Len(stack) + 1
      /\ stack'[Len(stack) + 1] = [obj |-> x, at |-> 1]
      /\ \A j \in 1..Len(stack) : stack'[j] = stack[j]
  BY <1>1, <1>t, <1>5, <1>0, AppendProperties
<1>7. /\ info'[x] = -m
      /\ \A o \in Objects \ {x} : info'[o] = info[o]
      /\ DOMAIN info' = Objects
  BY <1>1, <1>t
<1>u. ASSUME NEW q \in Objects, q # x PROVE info'[q] # -m
  <2>1. info'[q] = info[q] /\ info[q] \in Int /\ (info[q] # 0 => -info[q] <= Len(copy))
    BY <1>u, <1>7, <1>0
  <2>. QED BY <2>1, <1>0
<1>8. TypeOK'
  <2>1. info' \in [Objects -> -m..0]
    BY <1>1, <1>t, <1>0
  <2>. QED BY <2>1, <1>1, <1>4, <1>6, <1>t DEF TypeOK
<1>9. \A o \in Objects : o \in Copied' <=> (o = x \/ o \in Copied)
  BY <1>1, <1>7 DEF Copied
<1>10. OneEach'
  <2>1. ASSUME NEW o \in Copied', NEW q \in Copied', info'[o] = info'[q] PROVE o = q
    <3>1. o \in Objects /\ q \in Objects
      BY <1>1 DEF Copied
    <3>2. CASE o = x /\ q # x
      BY <3>1, <3>2, <2>1, <1>7, <1>u
    <3>3. CASE q = x /\ o # x
      BY <3>1, <3>3, <2>1, <1>7, <1>u
    <3>4. CASE o # x /\ q # x
      <4>1. o \in Copied /\ q \in Copied /\ info[o] = info[q]
        BY <3>1, <3>4, <2>1, <1>7, <1>9
      <4>. QED BY <4>1 DEF IInv, OneEach
    <3>5. CASE o = x /\ q = x
      BY <3>5
    <3>. QED BY <3>2, <3>3, <3>4, <3>5
  <2>2. ASSUME NEW k \in 1..Len(copy') PROVE \E o \in Copied' : info'[o] = -k
    <3>1. CASE k = m
      BY <3>1, <1>7, <1>9, <1>1 DEF Copied
    <3>2. CASE k # m
      <4>1. k \in 1..Len(copy)
        BY <3>2, <1>4, <1>0
      <4>2. PICK o \in Copied : info[o] = -k
        BY <4>1 DEF IInv, OneEach
      <4>3. o \in Objects /\ info[o] # 0
        BY DEF Copied
      <4>4. o # x
        BY <4>3
      <4>. QED BY <4>2, <4>3, <4>4, <1>7, <1>9
    <3>. QED BY <3>1, <3>2
  <2>. QED BY <2>1, <2>2 DEF OneEach
<1>11. Frames'
  <2>1. ASSUME NEW j \in 1..Len(stack') PROVE info'[stack'[j].obj] # 0
    BY <1>6, <1>7, <1>0, <1>1 DEF IInv, Frames
  <2>2. ASSUME NEW j \in 1..Len(stack'), NEW k \in 1..Len(stack'), stack'[j].obj = stack'[k].obj PROVE j = k
    <3>1. \A i \in 1..Len(stack) : stack'[i].obj # x
      BY <1>6, <1>0 DEF IInv, Frames
    <3>2. stack'[Len(stack) + 1].obj = x
      BY <1>6
    <3>3. CASE j = Len(stack) + 1 /\ k # Len(stack) + 1
      BY <3>1, <3>2, <3>3, <2>2, <1>6, <1>0
    <3>4. CASE k = Len(stack) + 1 /\ j # Len(stack) + 1
      BY <3>1, <3>2, <3>4, <2>2, <1>6, <1>0
    <3>5. CASE j # Len(stack) + 1 /\ k # Len(stack) + 1
      <4>1. j \in 1..Len(stack) /\ k \in 1..Len(stack)
        BY <3>5, <1>6, <1>0
      <4>2. stack[j].obj = stack[k].obj
        BY <4>1, <1>6, <2>2
      <4>. QED BY <4>1, <4>2 DEF IInv, Frames
    <3>. QED BY <3>3, <3>4, <3>5
  <2>. QED BY <2>1, <2>2 DEF Frames
<1>12. ASSUME NEW o \in Copied' PROVE InTable(o)'
  <2>0. o \in Objects
    BY <1>1 DEF Copied
  <2>1. CASE o = x
    <3>1. -info'[o] = m /\ copy'[-info'[o]] = OldPointers(x)
      BY <2>1, <1>7, <1>4, <1>1
    <3>2. ASSUME NEW n \in 1..Len(OldPointers(x)) PROVE Ahead(x, n)'
      <4>1. /\ Len(stack) + 1 \in 1..Len(stack')
            /\ stack'[Len(stack) + 1].obj = x /\ stack'[Len(stack) + 1].at = 1 /\ 1 <= n
        BY <1>6, <1>0, <1>3
      <4>. QED BY <4>1 DEF Ahead
    <3>3. \A n \in 1..Len(OldPointers(x)) : Filled(x, n)'
      BY <3>1, <3>2, <2>1, <1>2, <2>0 DEF Filled
    <3>. QED BY <3>1, <3>3, <2>1, <1>2, <2>0 DEF InTable
  <2>2. CASE o # x
    <3>1. o \in Copied /\ info'[o] = info[o] /\ InTable(o)
      BY <2>0, <2>2, <1>7, <1>9 DEF IInv
    <3>2. -info[o] \in 1..Len(copy) /\ copy'[-info'[o]] = copy[-info[o]]
      BY <3>1, <2>0, <1>0, <1>4 DEF Copied
    <3>3. ASSUME NEW n \in 1..Len(OldPointers(o)) PROVE Filled(o, n)'
      <4>1. Ahead(o, n)' <=> Ahead(o, n)
        <5>1. ASSUME NEW j \in 1..Len(stack'), stack'[j].obj = o PROVE j \in 1..Len(stack)
          <6>1. stack'[Len(stack) + 1].obj # o
            BY <1>6, <2>2
          <6>. QED BY <5>1, <6>1, <1>6, <1>0
        <5>2. Ahead(o, n)' => Ahead(o, n)
          BY <5>1, <1>6 DEF Ahead
        <5>3. \A j \in 1..Len(stack) : j \in 1..Len(stack')
          BY <1>6, <1>0
        <5>4. Ahead(o, n) => Ahead(o, n)'
          BY <5>3, <1>6 DEF Ahead
        <5>. QED BY <5>2, <5>4
      <4>2. Filled(o, n)
        BY <3>1 DEF InTable
      <4>3. OldPointers(o)[n] \in 0..Len(old)
        BY <1>t, <2>0, OldPointersType
      <4>5. OldPointers(o)[n] # 0 => OldPointers(o)[n] \in Objects
        BY <4>3 DEF Objects
      <4>6. CASE Ahead(o, n)
        BY <4>1, <4>2, <4>6, <3>2, <1>2, <2>0 DEF Filled
      <4>7. CASE ~Ahead(o, n)
        <5> DEFINE p == OldPointers(o)[n]
        <5>1. (p # 0 => info[p] # 0) /\ copy[-info[o]][n] = Image(p)
          BY <4>2, <4>7 DEF Filled
        <5>2. (p # 0 => info'[p] = info[p])
          BY <5>1, <4>5, <1>7
        <5>3. Image(p)' = Image(p)
          BY <5>2, <1>2, <2>0 DEF Image
        <5>4. (p # 0 => info'[p] # 0) /\ copy'[-info'[o]][n] = Image(p)'
          BY <5>1, <5>2, <5>3, <3>2
        <5>5. OldPointers(o)[n]' = p
          BY <1>2, <2>0
        <5>. QED BY <5>3, <5>4, <5>5, <4>1, <4>7 DEF Filled
      <4>. QED BY <4>6, <4>7
    <3>. QED BY <3>1, <3>2, <3>3, <1>2, <2>0 DEF InTable
  <2>. QED BY <2>1, <2>2
<1>. QED BY <1>8, <1>10, <1>11, <1>12, <1>t, <1>1 DEF IInv

\* A pointer is replaced by the new object of what it points at, and passed.
LEMMA CopyPointerInv ==
  ASSUME IInv, CopyPointer
  PROVE  IInv'
<1> DEFINE L == Len(stack)
<1>0. /\ Len(copy) \in Nat /\ L \in Nat
      /\ \A o \in Objects : info[o] \in Int /\ (info[o] # 0 => -info[o] \in 1..Len(copy))
      /\ \A k \in 1..Len(copy) : copy[k] \in Seq(Int) /\ Len(copy[k]) \in Nat
      /\ \A j \in 1..Len(stack) : stack[j].obj \in Objects /\ stack[j].at \in Nat \ {0}
  BY Facts
<1>t. /\ info \in [Objects -> -Len(copy)..0] /\ copy \in Seq(Seq(Int))
      /\ stack \in Seq([obj : Objects, at : Nat \ {0}]) /\ root \in Objects /\ old \in Graphs
  BY DEF IInv, TypeOK
<1>p. L \in 1..L /\ Top = stack[L]
  <2>1. L # 0
    BY <1>t, EmptySeq DEF CopyPointer
  <2>. QED BY <2>1, <1>0 DEF Top
<1>x. PICK x \in Objects, c \in Nat \ {0} : Top.obj = x /\ Top.at = c /\ stack[L].obj = x /\ stack[L].at = c
  BY <1>p, <1>0
<1>m. info[x] # 0 /\ -info[x] \in 1..Len(copy) /\ Mine = -info[x]
  BY <1>x, <1>p, <1>0 DEF Mine, IInv, Frames
<1>c. PICK m \in 1..Len(copy) : m = -info[x] /\ m = Mine
  BY <1>m
<1>1. /\ old' = old /\ root' = root /\ Objects' = Objects /\ info' = info /\ Copied' = Copied
      /\ copy' = IF Pointer = 0 THEN copy ELSE [copy EXCEPT ![m][c] = info[Pointer]]
      /\ stack' = [stack EXCEPT ![L].at = c + 1]
      /\ stack # <<>> /\ c <= Len(copy[m])
      /\ Pointer # 0 => info[Pointer] # 0
  BY <1>c, <1>x DEF CopyPointer, Objects, Copied, Top
<1>2. L \in 1..L /\ Top = stack[L] /\ x \in Objects /\ c \in Nat \ {0} /\ info[x] # 0 /\ stack[L].obj = x /\ stack[L].at = c
  BY <1>p, <1>x, <1>m
<1>3. x \in Copied /\ m = -info[x] /\ m \in 1..Len(copy) /\ InTable(x)
  BY <1>2, <1>c DEF Copied, IInv
<1>4. c \in 1..Len(OldPointers(x)) /\ Len(copy[m]) = Len(OldPointers(x)) /\ c \in 1..Len(copy[m])
  BY <1>1, <1>2, <1>3, <1>0 DEF InTable
<1>5. Ahead(x, c) /\ Filled(x, c)
  BY <1>2, <1>3, <1>4, <1>0 DEF Ahead, InTable
<1>6. Pointer = OldPointers(x)[c]
  BY <1>5, <1>3, <1>c, <1>x DEF Filled, Pointer
<1>7. Pointer \in 0..Len(old) /\ (Pointer # 0 => Pointer \in Objects)
  <2>1. \A n \in 1..Len(OldPointers(x)) : OldPointers(x)[n] \in 0..Len(old)
    BY <1>t, <1>2, OldPointersType
  <2>2. Pointer \in 0..Len(old)
    BY <2>1, <1>4, <1>6
  <2>. QED BY <2>2 DEF Objects
<1>8. Image(Pointer) \in Int /\ (Pointer = 0 => Image(Pointer) = Pointer)
  BY <1>7, <1>0 DEF Image
<1>9. /\ copy' \in Seq(Seq(Int)) /\ Len(copy') = Len(copy)
      /\ \A k \in 1..Len(copy) : k # m => copy'[k] = copy[k]
      /\ Len(copy'[m]) = Len(copy[m])
      /\ copy'[m][c] = Image(Pointer)
      /\ \A n \in 1..Len(copy[m]) : n # c => copy'[m][n] = copy[m][n]
  <2>1. CASE Pointer = 0
    <3>1. copy[m][c] = Pointer
      BY <1>c, <1>x DEF Pointer
    <3>. QED BY <2>1, <3>1, <1>1, <1>8, <1>t
  <2>2. CASE Pointer # 0
    <3>1. copy' = [copy EXCEPT ![m] = [copy[m] EXCEPT ![c] = Image(Pointer)]]
      BY <2>2, <1>1 DEF Image
    <3> DEFINE row == [copy[m] EXCEPT ![c] = Image(Pointer)]
    <3>2. copy[m] \in Seq(Int)
      BY <1>3, <1>0
    <3>3. row \in Seq(Int) /\ Len(row) = Len(copy[m]) /\ row[c] = Image(Pointer)
          /\ \A n \in 1..Len(copy[m]) : n # c => row[n] = copy[m][n]
      BY <3>2, <1>4, <1>8, ExceptSeq
    <3> HIDE DEF row
    <3>4. copy' = [copy EXCEPT ![m] = row]
      BY <3>1 DEF row
    <3>5. copy' \in Seq(Seq(Int)) /\ Len(copy') = Len(copy) /\ copy'[m] = row
          /\ \A k \in 1..Len(copy) : k # m => copy'[k] = copy[k]
      BY <3>3, <3>4, <1>3, <1>t, ExceptSeq
    <3>. QED BY <3>3, <3>5
  <2>. QED BY <2>1, <2>2
<1>10. /\ stack' \in Seq([obj : Objects, at : Nat \ {0}]) /\ Len(stack') = L
       /\ stack'[L].obj = x /\ stack'[L].at = c + 1
       /\ \A j \in 1..L : j # L => stack'[j] = stack[j]
  <2> DEFINE fr == [stack[L] EXCEPT !.at = c + 1]
  <2>1. stack[L] \in [obj : Objects, at : Nat \ {0}]
    BY <1>2, <1>t, ElementOfSeq
  <2>2. fr \in [obj : Objects, at : Nat \ {0}] /\ fr.obj = x /\ fr.at = c + 1
    BY <2>1, <1>2
  <2>3. stack' = [stack EXCEPT ![L] = fr]
    BY <1>1
  <2> HIDE DEF fr
  <2>. QED BY <2>2, <2>3, <1>2, <1>t, ExceptSeq
<1>11. TypeOK'
  BY <1>1, <1>9, <1>10, <1>t DEF TypeOK
<1>12. OneEach'
  BY <1>1, <1>9 DEF IInv, OneEach
<1>13. \A j \in 1..L : stack'[j].obj = stack[j].obj
  BY <1>10, <1>2
<1>14. Frames'
  BY <1>1, <1>10, <1>13 DEF IInv, Frames
<1>15. ASSUME NEW o \in Copied PROVE InTable(o)'
  <2>0. o \in Objects /\ info[o] # 0 /\ -info[o] \in 1..Len(copy) /\ InTable(o) /\ OldPointers(o)' = OldPointers(o)
    BY <1>0, <1>1 DEF Copied, IInv, OldPointers
  <2>i. \A p : Image(p)' = Image(p)
    BY <1>1 DEF Image
  <2>1. CASE o # x
    <3>1. -info[o] # m /\ copy'[-info[o]] = copy[-info[o]]
      <4>1. info[o] # info[x]
        BY <2>0, <2>1, <1>3 DEF IInv, OneEach
      <4>2. info[o] \in Int /\ info[x] \in Int
        BY <2>0, <1>2, <1>0
      <4>3. -info[o] # m
        BY <4>1, <4>2, <1>3
      <4>. QED BY <4>3, <2>0, <1>9
    <3>2. ASSUME NEW n \in 1..Len(OldPointers(o)) PROVE Filled(o, n)'
      <4>1. Ahead(o, n)' <=> Ahead(o, n)
        BY <1>10, <1>13, <1>2, <2>1 DEF Ahead
      <4>2. Filled(o, n)
        BY <2>0 DEF InTable
      <4>. QED BY <4>1, <4>2, <3>1, <2>0, <2>i, <1>1 DEF Filled
    <3>. QED BY <3>1, <3>2, <2>0, <1>1 DEF InTable
  <2>2. CASE o = x
    <3>1. Len(copy'[-info'[o]]) = Len(OldPointers(o))
      BY <2>2, <1>1, <1>3, <1>4, <1>9
    <3>2. ASSUME NEW n \in 1..Len(OldPointers(o)) PROVE Filled(o, n)'
      <4>0. n \in Nat /\ n \in 1..Len(copy[m]) /\ Filled(o, n)
        BY <2>2, <1>4, <2>0 DEF InTable
      <4>1. \A j \in 1..L : stack[j].obj = x => j = L
        BY <1>2 DEF IInv, Frames
      <4>2. Ahead(x, n) <=> c <= n
        BY <4>1, <1>2 DEF Ahead
      <4>3. Ahead(x, n)' <=> c + 1 <= n
        BY <4>1, <1>2, <1>10, <1>13 DEF Ahead
      <4>4. CASE n = c
        <5>1. ~Ahead(x, n)'
          BY <4>3, <4>4, <1>2, <4>0
        <5>2. copy'[-info'[o]][n] = Image(OldPointers(o)[n])
          BY <4>4, <2>2, <1>1, <1>3, <1>6, <1>9
        <5>3. OldPointers(o)[n] # 0 => info'[OldPointers(o)[n]] # 0
          BY <4>4, <2>2, <1>1, <1>6
        <5>. QED BY <5>1, <5>2, <5>3, <2>2, <2>0, <2>i DEF Filled
      <4>5. CASE n # c
        <5>1. Ahead(x, n)' <=> Ahead(x, n)
          BY <4>2, <4>3, <4>5, <4>0, <1>2
        <5>2. copy'[-info'[o]][n] = copy[-info[o]][n]
          BY <4>5, <4>0, <2>2, <1>1, <1>3, <1>9
        <5>. QED BY <5>1, <5>2, <4>0, <2>2, <2>0, <2>i, <1>1 DEF Filled
      <4>. QED BY <4>4, <4>5
    <3>. QED BY <3>1, <3>2, <2>0 DEF InTable
  <2>. QED BY <2>1, <2>2
<1>. QED BY <1>1, <1>11, <1>12, <1>14, <1>15, <1>t DEF IInv

\* The innermost call has come to its last pointer.
LEMMA ReturnInv ==
  ASSUME IInv, Return
  PROVE  IInv'
<1> DEFINE L == Len(stack)
<1>0. /\ Len(copy) \in Nat /\ L \in Nat
      /\ \A o \in Objects : info[o] \in Int /\ (info[o] # 0 => -info[o] \in 1..Len(copy))
      /\ \A j \in 1..Len(stack) : stack[j].obj \in Objects /\ stack[j].at \in Nat \ {0}
  BY Facts
<1>t. /\ stack \in Seq([obj : Objects, at : Nat \ {0}])
  BY DEF IInv, TypeOK
<1>1. /\ old' = old /\ root' = root /\ Objects' = Objects /\ info' = info /\ copy' = copy /\ Copied' = Copied
      /\ stack' = SubSeq(stack, 1, L - 1) /\ Top.at > Len(copy[Mine])
  BY DEF Return, Objects, Copied
<1>2. L \in 1..L /\ Top = stack[L]
  <2>1. L # 0
    BY <1>t, EmptySeq DEF Return
  <2>. QED BY <2>1, <1>0 DEF Top
<1>3. /\ stack' \in Seq([obj : Objects, at : Nat \ {0}]) /\ Len(stack') = L - 1
      /\ \A j \in 1..(L - 1) : stack'[j] = stack[j]
  <2> DEFINE K == L - 1
             T == [obj : Objects, at : Nat \ {0}]
  <2>1. K \in Nat /\ 1 \in Int /\ K \in Int
    BY <1>2, <1>0
  <2>2. ASSUME NEW j \in 1..K PROVE stack[j] \in T
    <3>1. j \in 1..Len(stack)
      BY <2>1, <1>0
    <3>. QED BY <3>1, <1>t, ElementOfSeq
  <2> HIDE DEF K, T
  <2>3. /\ SubSeq(stack, 1, K) \in Seq(T)
        /\ Len(SubSeq(stack, 1, K)) = IF 1 <= K THEN K - 1 + 1 ELSE 0
        /\ \A j \in 1..(K - 1 + 1) : SubSeq(stack, 1, K)[j] = stack[1 + j - 1]
    BY <2>1, <2>2, SubSeqProperties
  <2>4. Len(SubSeq(stack, 1, K)) = K
    BY <2>1, <2>3
  <2>5. ASSUME NEW j \in 1..K PROVE SubSeq(stack, 1, K)[j] = stack[j]
    <3>1. j \in 1..(K - 1 + 1) /\ 1 + j - 1 = j
      BY <2>1
    <3>. QED BY <3>1, <2>3
  <2>. QED BY <2>3, <2>4, <2>5, <1>1 DEF K, T
<1>4. TypeOK' /\ OneEach'
  BY <1>1, <1>3 DEF IInv, TypeOK, OneEach
<1>5. Frames'
  BY <1>0, <1>1, <1>3 DEF IInv, Frames
<1>6. ASSUME NEW o \in Copied, NEW n \in 1..Len(OldPointers(o)) PROVE Ahead(o, n)' <=> Ahead(o, n)
  <2>0. o \in Objects /\ Len(OldPointers(o)) \in Nat /\ Len(copy[-info[o]]) = Len(OldPointers(o))
    BY OldPointersType DEF IInv, Copied, InTable
  <2>1. stack[L].obj = o => stack[L].at > n
    <3>1. stack[L].obj = o => Mine = -info[o]
      BY <1>2 DEF Mine
    <3>2. stack[L].at \in Nat /\ stack[L].at > Len(copy[Mine])
      BY <1>0, <1>1, <1>2
    <3>. QED BY <3>1, <3>2, <2>0
  <2>2. ASSUME NEW j \in 1..L, stack[j].obj = o, stack[j].at <= n PROVE j \in 1..(L - 1)
    BY <2>1, <2>2, <2>0, <1>0
  <2>3. Ahead(o, n) => Ahead(o, n)'
    BY <2>2, <1>3 DEF Ahead
  <2>4. Ahead(o, n)' => Ahead(o, n)
    BY <1>3, <1>0 DEF Ahead
  <2>. QED BY <2>3, <2>4
<1>7. ASSUME NEW o \in Copied PROVE InTable(o)'
  <2>1. InTable(o) /\ OldPointers(o)' = OldPointers(o) /\ \A p : Image(p)' = Image(p)
    BY <1>1 DEF IInv, OldPointers, Image
  <2>2. \A n \in 1..Len(OldPointers(o)) : Filled(o, n)'
    BY <2>1, <1>6, <1>1 DEF InTable, Filled
  <2>. QED BY <2>1, <2>2, <1>1 DEF InTable
<1>. QED BY <1>1, <1>4, <1>5, <1>7 DEF IInv

LEMMA NextInv ==
  ASSUME IInv, [Next]_vars
  PROVE  IInv'
<1>1. CASE Begin
  <2>1. root \in Objects /\ Len(copy) = 0
    BY <1>1, EmptySeq DEF IInv, TypeOK, Begin
  <2>2. info[root] = 0
    BY <2>1 DEF IInv, TypeOK
  <2>. QED BY <1>1, <2>1, <2>2, AllocatedInv DEF Begin
<1>2. CASE CopyPointer
  BY <1>2, CopyPointerInv
<1>3. CASE Descend
  <2>1. Pointer # 0 /\ info[Pointer] = 0 /\ Allocated(Pointer)
    BY <1>3 DEF Descend
  <2>2. Pointer \in Objects
    <3>t. /\ stack \in Seq([obj : Objects, at : Nat \ {0}]) /\ Len(stack) \in Nat /\ old \in Graphs
      BY LenProperties DEF IInv, TypeOK
    <3>1. Len(stack) \in 1..Len(stack) /\ Top = stack[Len(stack)]
      <4>1. Len(stack) # 0
        BY <3>t, <1>3, EmptySeq DEF Descend
      <4>. QED BY <4>1, <3>t DEF Top
    <3>2. PICK x \in Objects, c \in Nat \ {0} : Top.obj = x /\ Top.at = c
      BY <3>1, <3>t, Facts
    <3>3. x \in Copied /\ InTable(x) /\ Mine = -info[x]
      BY <3>1, <3>2 DEF IInv, Frames, Copied, Mine
    <3>4. c \in 1..Len(OldPointers(x))
      <4>1. c <= Len(copy[Mine]) /\ Len(OldPointers(x)) \in Nat
        BY <1>3, <3>2, <3>t, OldPointersType DEF Descend
      <4>. QED BY <4>1, <3>2, <3>3 DEF InTable
    <3>5. Filled(x, c) /\ Ahead(x, c)
      BY <3>1, <3>2, <3>3, <3>4 DEF InTable, Ahead
    <3>6. Pointer = OldPointers(x)[c]
      BY <3>2, <3>3, <3>5 DEF Filled, Pointer
    <3>7. \A n \in 1..Len(OldPointers(x)) : OldPointers(x)[n] \in 0..Len(old)
      BY <3>t, <3>2, OldPointersType
    <3>. QED BY <2>1, <3>4, <3>6, <3>7 DEF Objects
  <2>. QED BY <2>1, <2>2, AllocatedInv
<1>4. CASE Return
  BY <1>4, ReturnInv
<1>5. CASE Finished \/ UNCHANGED vars
  <2>1. vars' = vars
    BY <1>5 DEF Finished, vars
  <2>. QED BY <2>1 DEF vars, IInv, TypeOK, Objects, OneEach, Copied, Frames, InTable, Filled, Ahead, OldPointers, Image
<1>. QED BY <1>1, <1>2, <1>3, <1>4, <1>5 DEF Next

\* The table is one to one: func_clone makes one new object of each old one.
THEOREM CloneOneEach == Spec => []OneEach
<1>1. IInv => OneEach
  BY DEF IInv
<1>. QED BY InitInv, NextInv, <1>1, PTL DEF Spec

\* For any graph of objects, with any circles: when the outermost call returns, the
\* copy has the shape of the original and shares nothing with it.
THEOREM CloneCorrect == Spec => []Isomorphic
<1>1. ASSUME IInv PROVE Isomorphic
  <2>1. SUFFICES ASSUME Done, NEW o \in Copied
                 PROVE  /\ \A n \in 1..Len(OldPointers(o)) : OldPointers(o)[n] # 0 => OldPointers(o)[n] \in Copied
                        /\ copy[-info[o]] = [n \in 1..Len(OldPointers(o)) |-> Image(OldPointers(o)[n])]
    BY DEF Isomorphic
  <2>2. Len(stack) = 0
    BY <2>1, EmptySeq DEF Done
  <2>3. o \in Objects /\ InTable(o)
    BY <1>1 DEF IInv, Copied
  <2>4. ASSUME NEW n \in 1..Len(OldPointers(o))
        PROVE  /\ OldPointers(o)[n] # 0 => info[OldPointers(o)[n]] # 0
               /\ copy[-info[o]][n] = Image(OldPointers(o)[n])
    <3>1. ~Ahead(o, n) /\ Filled(o, n)
      BY <2>2, <2>3 DEF Ahead, InTable
    <3>. QED BY <3>1 DEF Filled
  <2>5. \A n \in 1..Len(OldPointers(o)) : OldPointers(o)[n] # 0 => OldPointers(o)[n] \in Copied
    <3>1. \A n \in 1..Len(OldPointers(o)) : OldPointers(o)[n] \in 0..Len(old)
      BY <1>1, <2>3, OldPointersType DEF IInv
    <3>. QED BY <3>1, <2>4 DEF Copied, Objects
  <2>6. -info[o] \in 1..Len(copy) /\ copy[-info[o]] \in Seq(Int)
    BY <1>1, <2>3, Facts DEF Copied
  <2>7. copy[-info[o]] = [n \in 1..Len(copy[-info[o]]) |-> copy[-info[o]][n]]
    BY <2>6, LenProperties
  <2>8. Len(copy[-info[o]]) = Len(OldPointers(o))
    BY <2>3 DEF InTable
  <2>. QED BY <2>4, <2>5, <2>7, <2>8
<1>. QED BY InitInv, NextInv, <1>1, PTL DEF Spec
=============================================================================
