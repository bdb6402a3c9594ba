------------------------------ MODULE MCCloning ------------------------------
(* A function of one block with two statements, two values and a stack     *)
(* slot, with every choice of pointers between them.                       *)
EXTENDS Cloning

F == 1
B == 2
S1 == 3
S2 == 4
V1 == 5
V2 == 6
Slot == 7

Statement(output, args) == [kind |-> "statement", output |-> output, block |-> B, args |-> args]
Value(ssa, slot, edges) == [kind |-> "value", ssa |-> ssa, slotinfo |-> slot, spilled |-> 0, edges_out |-> edges]

MCGraphs ==
  {<<[kind |-> "function", args |-> fargs, blocks |-> <<B>>, stack_slots |-> slots, entry_block |-> B],
     [kind |-> "block", args |-> bargs, edges_in |-> jumps, statements |-> <<S1, S2>>],
     Statement(out, args1), Statement(0, args2),
     Value(IF out = V1 THEN S1 ELSE 0, 0, edges1), Value(0, Slot, edges2), [kind |-> "slot"]>> :
   fargs \in {<<>>, <<V1>>}, slots \in {<<>>, <<V2>>}, bargs \in {<<>>, <<V1>>}, jumps \in {<<>>, <<S2>>},
   out \in {0, V1}, args1 \in {<<>>, <<V2>>, <<V1, V1>>}, args2 \in {<<0>>, <<0, V1, V2>>},
   edges1 \in {<<>>, <<S1, S2>>}, edges2 \in {<<>>, <<S2>>, <<S2, S1>>}}
=============================================================================
