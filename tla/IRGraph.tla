------------------------------ MODULE IRGraph ------------------------------
(***************************************************************************)
(* src/compiler_common.h: operands, and the edges between the values of a  *)
(* function and the statements that use them.  A graph G is a record with  *)
(* at least                                                                *)
(*   st     the statements: [op, args, out, block]                         *)
(*   code   block->statements of every block                               *)
(*   edges  all edges_out: pairs <<value, statement>>, oldest first        *)
(* An operand is a tuple, its kind first: <<"ssa", name>>, <<"arg", ...>>, *)
(* <<"const", c>>, <<"slot", name>>, <<"text", label>>, <<"sep">>,         *)
(* <<"type">>.                                                             *)
(***************************************************************************)
EXTENDS Integers, Sequences, SequencesExt, TLC

Text(b) == <<"text", b>>
Sep == <<"sep">>

\* FoldLeft of SequencesExt, which hands TLC the running value as an expression
\* to evaluate again at every use; here it is evaluated once.
Fold(Op(_, _), base, s) ==
  LET f[n \in 0..Len(s)] ==
        IF n = 0 THEN base ELSE CHOOSE y \in {Op(x, s[n]) : x \in {f[n - 1]}} : TRUE
  IN f[Len(s)]

Tracked(o) == o[1] \in {"ssa", "arg", "slot"}

Out(s) == <<"ssa", s>>

Uses(G, v) == {e[2] : e \in {x \in ToSet(G.edges) : x[1] = v}}

connect(G, s, o) == IF Tracked(o) THEN [G EXCEPT !.edges = Append(@, <<o, s>>)] ELSE G

\* disconnect_statement_from_operand, once
disconnect(G, s, o) == [G EXCEPT !.edges = RemoveFirst(@, <<o, s>>)]

\* and for every edge
disconnect_all(G, s, o) == [G EXCEPT !.edges = Remove(@, <<o, s>>)]

find_separator_index(args) == SelectInSeq(args, LAMBDA o : o = Sep)

\* The operand leaves the statement, or joins it.
erase_arg(G, s, n) ==
  [disconnect(G, s, G.st[s].args[n]) EXCEPT !.st[s].args = RemoveAt(@, n)]
insert_arg(G, s, n, o) == connect([G EXCEPT !.st[s].args = InsertAt(@, n, o)], s, o)

\* The places in a block where a value is used: statement and index.
Places(G, blk, v) ==
  FlattenSeq([k \in DOMAIN G.code[blk] |->
    LET s == G.code[blk][k]
    IN SelectSeq([n \in DOMAIN G.st[s].args |-> <<s, n>>], LAMBDA p : G.st[s].args[p[2]] = v)])

\* Mutant: the edges are not moved along.
block_replace_statement_val_args_no_edges(G, blk, old, new) ==
  Fold(LAMBDA H, p : [H EXCEPT !.st[p[1]].args[p[2]] = new], G, Places(G, blk, old))

block_replace_statement_val_args(G, blk, old, new) ==
  Fold(LAMBDA H, p :
             connect([disconnect(H, p[1], old) EXCEPT !.st[p[1]].args[p[2]] = new], p[1], new),
           G, Places(G, blk, old))
=============================================================================
