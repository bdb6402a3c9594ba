----------------------------- MODULE MCRegAlloc -----------------------------
(* Blocks that put every kind of statement under pressure: the statements  *)
(* that want particular registers, in an entry block and in a block with   *)
(* three parameters; and both banks.                                       *)
EXTENDS RegAlloc

IntParam(wants) == [float |-> FALSE, wants |-> wants]
FloatParam(wants) == [float |-> TRUE, wants |-> wants]
Shape(entry, params, ops, max) == [entry |-> entry, params |-> params, ops |-> ops, max |-> max]

MCShapes ==
  {Shape(TRUE, <<IntParam(<<>>), IntParam(<<>>)>>, {"sub", "div", "rem", "shl", "call_eval", "store"}, 2),
   Shape(FALSE, <<IntParam(<<>>), IntParam(<<2, 0>>), IntParam(<<2, 1>>)>>, {"add", "div", "shl", "call_eval"}, 2),
   Shape(FALSE, <<IntParam(<<>>), FloatParam(<<16>>), IntParam(<<>>), FloatParam(<<16>>)>>,
         {"fadd", "fsub", "store", "uint_to_float", "load", "call_eval"}, 2)}

\* The Windows convention.
MCArgRegs == <<1, 2, 8, 9>>
MCFloatArgRegs == <<16, 17, 18, 19>>
MCClobbered == {0, 1, 2, 8, 9, 10, 11} \cup 16..21
=============================================================================
