----------------------------- MODULE ArrayStore -----------------------------
(***************************************************************************)
(* What the compiler's growable arrays promise their users: every owner    *)
(* (a field such as block->statements, func->blocks, statement->args) has  *)
(* a sequence of its own, fresh elements are zero, and an operation on one *)
(* owner's array is not seen through any other owner.                      *)
(*                                                                         *)
(* AllocList is shown to implement this specification.                     *)
(***************************************************************************)
EXTENDS Naturals, Sequences, SequencesExt

CONSTANTS
  Owner,    \* the fields and locals that hold an array
  Zero,     \* the element a fresh slot holds
  Value,    \* the elements the clients store (Zero is one of them)
  MaxSize,  \* bound on an array's length
  None      \* an owner that holds no array

VARIABLE val  \* val[o] is the array of owner o, or None

Init == val = [o \in Owner |-> None]

Zeros(n) == [i \in 1..n |-> Zero]

Holds(o) == val[o] # None

Fresh(o, n) == val' = [val EXCEPT ![o] = Zeros(n)]

\* Growing appends zeros, shrinking keeps a prefix.
Resize(o, n) ==
  /\ Holds(o)
  /\ val' = [val EXCEPT ![o] = [i \in 1..n |-> IF i <= Len(@) THEN @[i] ELSE Zero]]

Copy(o, p) ==
  /\ Holds(o)
  /\ val' = [val EXCEPT ![p] = val[o]]

Push(o, v) ==
  /\ Holds(o)
  /\ val' = [val EXCEPT ![o] = Append(@, v)]

Erase(o, i) ==
  /\ Holds(o)
  /\ i \in 1..Len(val[o])
  /\ val' = [val EXCEPT ![o] = RemoveAt(@, i)]

Insert(o, i, v) ==
  /\ Holds(o)
  /\ i \in 1..(Len(val[o]) + 1)
  /\ val' = [val EXCEPT ![o] = InsertAt(@, i, v)]

\* p receives the elements after the first n, o keeps the first n.
Chop(o, p, n) ==
  /\ Holds(o)
  /\ n \in 0..Len(val[o])
  /\ val' = [val EXCEPT ![o] = SubSeq(@, 1, n),
                        ![p] = SubSeq(val[o], n + 1, Len(val[o]))]

Write(o, i, v) ==
  /\ Holds(o)
  /\ i \in 1..Len(val[o])
  /\ val' = [val EXCEPT ![o][i] = v]

Reset == val' = [o \in Owner |-> None]

Next ==
  \/ Reset
  \/ \E o \in Owner, n \in 0..MaxSize : Fresh(o, n) \/ Resize(o, n)
  \/ \E o \in Owner, v \in Value : Push(o, v)
  \/ \E o \in Owner, i \in 1..MaxSize : Erase(o, i)
  \/ \E o \in Owner, i \in 1..MaxSize, v \in Value : Insert(o, i, v) \/ Write(o, i, v)
  \/ \E o, p \in Owner : o # p /\ (Copy(o, p) \/ \E n \in 0..MaxSize : Chop(o, p, n))

Spec == Init /\ [][Next]_val
=============================================================================
