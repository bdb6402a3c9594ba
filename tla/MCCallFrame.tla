---------------------------- MODULE MCCallFrame ----------------------------
(* Functions to compile and call: argument lists with one small frame, and *)
(* frames with one argument list.                                          *)
EXTENDS CallFrame

CONSTANTS
  Sizes,     \* sizes of stack slots
  MaxSlots,  \* slots per function
  Outputs    \* registers statement outputs may get

Upto(S, n) == UNION {[1..k -> S] : k \in 0..n}

Params == [float : BOOLEAN, used : BOOLEAN]

\* enough parameters to run out of integer, then of float registers
Long == {[i \in 1..n |-> [float |-> f, used |-> TRUE]] : n \in 4..9, f \in BOOLEAN}

Function(args, slots, outputs, params) ==
  [args |-> args, slots |-> slots, outputs |-> outputs, params |-> params]

ByArgs == {Function(a, <<8>>, {0, 3}, {}) : a \in Upto(Params, 4) \cup Long}

\* block parameters get registers that are outputs elsewhere, or a callee's own
ByFrame ==
  {Function(<<>>, s, o, o \cup {0, 1}) : s \in Upto(Sizes, MaxSlots), o \in SUBSET Outputs}

\* the allocator moves a block parameter to RBX when a division needs its
\* register, and no output is there
MovedParams == {Function(<<>>, <<>>, o, {3}) : o \in SUBSET {0, 12}}

\* frames that just fit into the stack, and frames that do not
Large == {Function(<<>>, <<Top - n>>, {3}, {}) : n \in {0, 16, 24, 32, 64}}

MCFunctions == ByArgs \cup ByFrame \cup MovedParams \cup Large
=============================================================================
