----------------------------- MODULE MCFrontend -----------------------------
(* Texts over a few lines, and sequences of builder calls, in which every  *)
(* kind of name can meet every other.                                      *)
EXTENDS Frontend

Line(kind, name, type, op, toks) == [kind |-> kind, name |-> name, type |-> type, op |-> op, toks |-> toks]
Directive(kind, name) == Line(kind, <<name>>, "i64", "none", <<>>)
Stmt(name, op, toks) == Line("stmt", name, "i64", op, toks)
N(n) == <<"name", <<n>>>>
One == <<"const", "1", "i64">>
Half == <<"const", "0.5", "f32">>

MCLines ==
  {Directive("func", "f"), Directive("global", "g"), Directive("arg", "a"), Directive("arg", "b"),
   Directive("stack_slot", "a"), Directive("stack_slot", "s"), Directive("block", "x"), Directive("endfunc", "f"),
   Stmt(<<"a">>, "add", <<N("a"), One>>), Stmt(<<"b">>, "mul", <<One, One>>), Stmt(<<"b">>, "sub", <<N("s"), N("a")>>),
   Stmt(<<"s">>, "load", <<<<"type", "i64">>, N("s")>>), Stmt(NoName, "store", <<N("s"), N("b")>>),
   Stmt(NoName, "return", <<N("b")>>), Stmt(NoName, "return", <<>>), Stmt(NoName, "return", <<Half>>),
   Stmt(NoName, "goto", <<<<"text", "x">>, N("s"), One>>),
   Stmt(<<"b">>, "call_eval", <<<<"type", "i64">>, N("s"), One>>), Stmt(<<"b">>, "call_eval", <<<<"type", "i64">>, One>>),
   Stmt(<<"b">>, "ternary", <<One, One, One>>), Stmt(NoName, "add", <<One, One>>)}

MCCalls ==
  {[op |-> "mul", shape |-> <<"value", "value">>], [op |-> "load", shape |-> <<"type", "value">>],
   [op |-> "cmp_g", shape |-> <<"value", "value">>], [op |-> "div_unsafe", shape |-> <<"value", "value">>],
   [op |-> "trim", shape |-> <<"value">>], [op |-> "return", shape |-> <<"value">>],
   [op |-> "return", shape |-> <<>>], [op |-> "goto", shape |-> <<"text", "value">>],
   [op |-> "if", shape |-> <<"value", "text", "sep", "text">>]}
MCName == <<"a">>
MCGiven == {One, Half, <<"type", "f32">>, <<"text", "x">>, <<"sep">>}
=============================================================================
