------------------------------- MODULE Cloning -------------------------------
(***************************************************************************)
(* src/compiler_type_cloning.h: the deep copy of a function, a statement   *)
(* or a value, which inlining is built on.  The objects point at each      *)
(* other in circles (a block at its statements, a statement at its block   *)
(* and its output, a value at the statements that use it), so the          *)
(* functions *_clone call each other to any depth and keep a table of what *)
(* they have copied: remap_add before the pointers of the new object are   *)
(* followed, remap_lookup before anything is copied.                       *)
(*                                                                         *)
(* Old objects are 1..Len(old), the null pointer is 0, the k-th new object *)
(* is -k.  Strings are leaves that nothing points back from; they are left *)
(* out.                                                                    *)
(***************************************************************************)
EXTENDS Integers, Sequences, FiniteSets

CONSTANT Graphs  \* what is copied: sequences of objects, see Pointers

\* The pointers of an object, in the order in which they are followed.
Pointers(o) ==
  CASE o.kind = "statement" -> <<o.output, o.block>> \o o.args
    [] o.kind = "block" -> o.args \o o.edges_in \o o.statements
    [] o.kind = "value" -> <<o.ssa, o.slotinfo, o.spilled>> \o o.edges_out
    [] o.kind = "function" -> o.args \o o.blocks \o o.stack_slots \o <<o.entry_block>>
    [] OTHER -> <<>>

ASSUME GraphsAssumption ==
  \A g \in Graphs : \A o \in 1..Len(g) : Pointers(g[o]) \in Seq(0..Len(g))

VARIABLES
  old,    \* the objects
  root,   \* the one that is copied
  copy,   \* the pointers of the new objects
  info,   \* the table: 0, or the new object of an old one
  stack   \* the calls under way: [obj, at], the old object and the pointer it is at

vars == <<old, root, copy, info, stack>>

Objects == 1..Len(old)
OldPointers(o) == Pointers(old[o])
Top == stack[Len(stack)]

\* The new object whose pointers the innermost call fills in, and the one it is at:
\* still that of the old object.
Mine == -info[Top.obj]
Pointer == copy[Mine][Top.at]

Init ==
  /\ old \in Graphs
  /\ root \in Objects
  /\ copy = <<>>
  /\ info = [o \in Objects |-> 0]
  /\ stack = <<>>

\* Mutant: the object before this one is entered.
Allocated_previous(o) ==
  /\ copy' = Append(copy, OldPointers(o))
  /\ info' = [info EXCEPT ![o] = -Len(copy)]
  /\ stack' = Append(stack, [obj |-> o, at |-> 1])
  /\ UNCHANGED <<old, root>>

\* memcpy, remap_add, and on to the pointers.
Allocated(o) ==
  /\ copy' = Append(copy, OldPointers(o))
  /\ info' = [info EXCEPT ![o] = -(Len(copy) + 1)]
  /\ stack' = Append(stack, [obj |-> o, at |-> 1])
  /\ UNCHANGED <<old, root>>

\* The first call.
Begin ==
  /\ copy = <<>>
  /\ Allocated(root)

\* Mutant: the pointer to an object that is still being copied is left alone.
CopyPointer_open ==
  /\ stack # <<>> /\ Top.at <= Len(copy[Mine])
  /\ Pointer # 0 => info[Pointer] # 0
  /\ copy' = IF Pointer = 0 \/ \E k \in DOMAIN stack : stack[k].obj = Pointer THEN copy
             ELSE [copy EXCEPT ![Mine][Top.at] = info[Pointer]]
  /\ stack' = [stack EXCEPT ![Len(stack)].at = @ + 1]
  /\ UNCHANGED <<old, root, info>>

\* Mutant: a null pointer is not passed over.
CopyPointer_null ==
  /\ stack # <<>> /\ Top.at <= Len(copy[Mine])
  /\ Pointer # 0 => info[Pointer] # 0
  /\ copy' = IF Pointer = 0 THEN copy ELSE [copy EXCEPT ![Mine][Top.at] = info[Pointer]]
  /\ stack' = IF Pointer = 0 THEN stack ELSE [stack EXCEPT ![Len(stack)].at = @ + 1]
  /\ UNCHANGED <<old, root, info>>

\* A null pointer, or one that is in the table: the call for it returns at once.
CopyPointer ==
  /\ stack # <<>> /\ Top.at <= Len(copy[Mine])
  /\ Pointer # 0 => info[Pointer] # 0
  /\ copy' = IF Pointer = 0 THEN copy ELSE [copy EXCEPT ![Mine][Top.at] = info[Pointer]]
  /\ stack' = [stack EXCEPT ![Len(stack)].at = @ + 1]
  /\ UNCHANGED <<old, root, info>>

\* One that is not: it is copied first, and found in the table when the call returns.
Descend ==
  /\ stack # <<>> /\ Top.at <= Len(copy[Mine])
  /\ Pointer # 0 /\ info[Pointer] = 0
  /\ Allocated(Pointer)

Return ==
  /\ stack # <<>> /\ Top.at > Len(copy[Mine])
  /\ stack' = SubSeq(stack, 1, Len(stack) - 1)
  /\ UNCHANGED <<old, root, copy, info>>

Done == stack = <<>> /\ copy # <<>>
Finished == Done /\ UNCHANGED vars

Next == Begin \/ CopyPointer \/ Descend \/ Return \/ Finished

Spec == Init /\ [][Next]_vars
FairSpec == Spec /\ WF_vars(Begin \/ CopyPointer \/ Descend \/ Return)
-----------------------------------------------------------------------------
TypeOK ==
  /\ root \in Objects
  /\ copy \in Seq(Seq(Int))
  /\ info \in [Objects -> -Len(copy)..0]
  /\ stack \in Seq([obj : Objects, at : Nat \ {0}])

Copied == {o \in Objects : info[o] # 0}
Image(p) == IF p = 0 THEN 0 ELSE info[p]

\* No two old objects share a new one, and no new object is lost.
OneEach ==
  /\ \A o, q \in Copied : info[o] = info[q] => o = q
  /\ \A k \in 1..Len(copy) : \E o \in Copied : info[o] = -k

\* The copy, when the outermost call has returned: the new object of every copied object
\* points at the new objects of what the old one points at, at each place, and all of
\* those have been copied.  So the copy has the shape of the original and no pointer
\* into it: rewriting the one never shows in the other, which is what inlining needs.
Isomorphic ==
  Done => \A o \in Copied :
            /\ \A n \in 1..Len(OldPointers(o)) : OldPointers(o)[n] # 0 => OldPointers(o)[n] \in Copied
            /\ copy[-info[o]] = [n \in 1..Len(OldPointers(o)) |-> Image(OldPointers(o)[n])]

\* Every call returns.
Returns == <>Done
=============================================================================
