-------------------------------- MODULE CFG --------------------------------
(***************************************************************************)
(* What emitted code promises: running a function walks its control-flow   *)
(* graph.  A block's statements run, its terminator picks an edge by the   *)
(* value of its condition, the arguments of that edge are put in place     *)
(* (the "shuffle", which an edge whose values are there already may leave  *)
(* out), the target's statements run.                                      *)
(*                                                                         *)
(* A program is a record [funcs, statics, globals]; a function             *)
(* [name, blocks]; a block [name, refs, term].  A terminator is one of     *)
(*   [op |-> "return"]                                                     *)
(*   [op |-> "goto", yes |-> edge]                                         *)
(*   [op |-> "if", cond |-> ..., yes |-> edge, no |-> edge]                *)
(* and an edge is [to |-> block name, moves |-> BOOLEAN]: moves is whether *)
(* some argument is not yet in the register the target expects it in.      *)
(***************************************************************************)
EXTENDS Integers, Sequences

VARIABLES program, at

Idle == [kind |-> "idle", f |-> 0, b |-> 0, cond |-> FALSE]
Returned == [kind |-> "returned", f |-> 0, b |-> 0, cond |-> FALSE]

\* Block b of function f has run its statements; cond is the value its
\* condition got.
Ran(f, b, c) == [kind |-> "block", f |-> f, b |-> b, cond |-> c]

\* The arguments of the edge taken for condition c out of that block are in place.
Shuffled(f, b, c) == [kind |-> "shuffle", f |-> f, b |-> b, cond |-> c]

\* find_block: blocks are named within their function.
FindBlock(func, name) == CHOOSE b \in 1..Len(func.blocks) : func.blocks[b].name = name

Taken(term, c) == IF c THEN term.yes ELSE term.no

\* Only a conditional jump has a condition that can fail.
Outcomes(term) == IF term.op = "if" THEN BOOLEAN ELSE {TRUE}

NoProgram == [funcs |-> <<>>, statics |-> <<>>, globals |-> <<>>]

Init == program = NoProgram /\ at = Idle

Run(f, b) ==
  /\ \E c \in Outcomes(program.funcs[f].blocks[b].term) : at' = Ran(f, b, c)
  /\ UNCHANGED program

Call(f) == at = Idle /\ Run(f, 1)

Term == program.funcs[at.f].blocks[at.b].term

Arrive == Run(at.f, FindBlock(program.funcs[at.f], Taken(Term, at.cond).to))

Jump ==
  /\ at.kind = "block" /\ Term.op # "return" /\ ~Taken(Term, at.cond).moves
  /\ Arrive

PassArguments ==
  /\ at.kind = "block" /\ Term.op # "return"
  /\ at' = Shuffled(at.f, at.b, at.cond)
  /\ UNCHANGED program

JumpAfterPassing == at.kind = "shuffle" /\ Arrive

Return ==
  /\ at.kind = "block" /\ Term.op = "return"
  /\ at' = Returned
  /\ UNCHANGED program

\* Another program, any program, takes its place, whether it was run or not.
NextProgram ==
  /\ at \in {Idle, Returned}
  /\ at' = Idle

Next ==
  \/ \E f \in 1..Len(program.funcs) : Call(f)
  \/ Jump \/ PassArguments \/ JumpAfterPassing \/ Return
  \/ NextProgram

Spec == Init /\ [][Next]_<<program, at>>
=============================================================================
