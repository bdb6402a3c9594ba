-------------------------- MODULE MCBlockEmission --------------------------
(* Programs to compile: all control-flow graphs of one function with up to *)
(* MaxBlocks blocks, and a few programs with several functions and data.   *)
EXTENDS BlockEmission

CONSTANTS
  MaxBlocks,  \* blocks per function in the graphs
  Moves,      \* whether edges move arguments
  Conds       \* where a condition comes from: "value", "compared" just before,
              \* or "other_compared": another comparison stands between

\* byte lengths on x86-64
MCInstLen ==
  [nop |-> 1, prologue |-> 4, body |-> 3, test |-> 3, shuffle |-> 3, jmp |-> 5,
   jz |-> 6, ret |-> 2, lea |-> 7, load |-> 8]

MCTempNames == <<"btemp_1", "btemp_2", "btemp_3", "btemp_4", "btemp_5", "btemp_6">>

Names == <<"__entry__", "one", "two", "three">>

Edges(n) == [to : {Names[i] : i \in 2..n}, moves : Moves]
Returns == {[op |-> "return"]}
Terms(n) ==
  Returns \cup [op : {"goto"}, yes : Edges(n)]
          \cup [op : {"if"}, cond : Conds, yes : Edges(n), no : Edges(n)]

Block(name, refs, term) == [name |-> name, refs |-> refs, term |-> term]
Function(name, blocks) == [name |-> name, blocks |-> blocks]
Program(fs, ss, gs) ==
  [funcs |-> fs, statics |-> ss, globals |-> gs]

Blocks(terms) == [i \in 1..Len(terms) |-> Block(Names[i], <<>>, terms[i])]
Return == [op |-> "return"]

\* functions of n blocks whose last block ends with one of last
Graphs(n, last) ==
  {Function("main", Blocks(Append(t, x))) : t \in [1..(n - 1) -> Terms(n)], x \in last}

\* one function, whose last block returns, or jumps
OneFunction ==
  {Program(<<g>>, <<>>, <<>>) : g \in UNION {Graphs(n, Returns) : n \in 1..MaxBlocks} \cup Graphs(2, Terms(2))}

\* references to data and functions, before a function with jumps
Sym(name) == [kind |-> "symbol", name |-> name]
Const(v) == [kind |-> "constant", name |-> v]
Leaf(name, refs) == Function(name, <<Block("__entry__", refs, Return)>>)
Statics == {<<>>, <<[name |-> "s", size |-> 1, value |-> "5.0"]>>,
            <<[name |-> "s", size |-> 1, value |-> "5.0"], [name |-> "t", size |-> 8, value |-> "7.0"]>>}
Globals == {<<>>, <<[name |-> "g", size |-> 1], [name |-> "h", size |-> 12], [name |-> "i", size |-> 8]>>}
Refs == {<<>>, <<Sym("main"), Const("7.0")>>, <<Const("5.0"), Sym("h"), Const("5.0")>>, <<Const("6.0"), Sym("i"), Const("7.0")>>}
Looping == [op |-> "if", cond |-> "value", yes |-> [to |-> "one", moves |-> TRUE],
            no |-> [to |-> "two", moves |-> FALSE]]
WithData ==
  {Program(<<Leaf("leaf", l), Function("main", <<Block("__entry__", <<>>, Looping),
      Block("one", m, Looping), Block("two", <<Sym("leaf")>>, Return)>>)>>, s, g) :
     l \in Refs, m \in Refs, s \in Statics, g \in Globals}

MCPrograms == OneFunction \cup WithData \cup {Program(<<>>, <<>>, <<>>)}
=============================================================================
