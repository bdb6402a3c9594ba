------------------------------- MODULE MCRegex -------------------------------
(* Characters with every quantifier, groups of several shapes with every kind *)
(* of quantifier, followed by more; and patterns that are none.               *)
EXTENDS Regex

MCCode == ("\n" :> 10) @@ (" " :> 32) @@ ("-" :> 45) @@ ("a" :> 97) @@ ("b" :> 98) @@ ("c" :> 99)
             @@ ("]" :> 93) @@ ("n" :> 110)
MCBytes == {"a", "b", " "}
MCCounts ==
    ("{0}" :> [lo |-> 0, hi |-> 0]) @@ ("{2}" :> [lo |-> 2, hi |-> 2]) @@ ("{1,2}" :> [lo |-> 1, hi |-> 2])
        @@ ("{2,}" :> [lo |-> 2, hi |-> NoCount]) @@ ("{0,65535}" :> [lo |-> 0, hi |-> 65535])
        @@ ("{2,1}" :> [lo |-> 2, hi |-> 1]) @@ ("{65536}" :> [lo |-> 65536, hi |-> 65536])

Set(text_, set) == [k |-> "set", text |-> text_, set |-> set]
A == Set(<<"a">>, {"a"})
B == Set(<<"b">>, {"b"})
Dot == Set(<<".">>, MCBytes)
Empty == [k |-> "empty"]
Place(text_, place) == [k |-> "at", text |-> text_, at |-> place]
Cat(x, y) == [k |-> "cat", x |-> x, y |-> y]
Alt(x, y) == [k |-> "alt", x |-> x, y |-> y]
Group(open, x) == [k |-> "group", open |-> open, x |-> x]
Bounds(q) ==
    CASE q = "?" -> <<0, 1>> [] q = "*" -> <<0, NoCount>> [] q = "+" -> <<1, NoCount>>
      [] OTHER -> <<MCCounts[q].lo, MCCounts[q].hi>>
Modes == ("greedy" :> <<>>) @@ ("lazy" :> <<"?">>) @@ ("possessive" :> <<"+">>)
Rep(x, q, mode) ==
    [k |-> "rep", x |-> x, text |-> <<q>> \o Modes[mode], lo |-> Bounds(q)[1], hi |-> Bounds(q)[2], mode |-> mode]

Characters ==
    {Rep(x, q, mode) : x \in {A, Dot}, q \in {"?", "*", "+", "{0}", "{2}", "{1,2}", "{2,}", "{0,65535}"},
                       mode \in DOMAIN Modes}
Written1 ==
    {Set(<<"[", "a", "]">>, {"a"}), Set(<<"[^", "a", "]">>, {"b", " "}), Set(<<"[", "a", "-", "b", "]">>, {"a", "b"}),
     Set(<<"[", "]", "b", "-", "]">>, {"b"}), Set(<<"\\", "w">>, {"a", "b"}), Set(<<"\\", "S">>, {"a", "b"}),
     Set(<<"[", "a", "\\", "s", "]">>, {"a", " "}), Set(<<"\\", ".">>, {}), Set(<<"[", "\\", "-", "a", "]">>, {"a"}),
     Set(<<"\\", "n">>, {})}
Bodies ==
    {Cat(A, B), Alt(A, B), Alt(A, Cat(A, B)), Alt(Cat(A, Dot), A), Rep(A, "+", "greedy"), Rep(Dot, "+", "lazy"),
     Cat(A, Rep(B, "?", "greedy")), Rep(A, "*", "greedy"), Alt(A, Empty), Alt(Empty, B),
     Rep(Group("(", Alt(A, Cat(A, B))), "+", "greedy"), Rep(Group("(?:", A), "?", "lazy"),
     Cat(Group("(", Alt(Dot, Empty)), B)}
Groups ==
    {Rep(Group("(", x), q, mode) : x \in Bodies, q \in {"?", "*", "+", "{2}"}, mode \in DOMAIN Modes}
        \cup {Rep(Group("(?:", x), q, "greedy") : x \in {Alt(A, Cat(A, B)), Rep(A, "*", "greedy")}, q \in {"*", "{2}"}}
        \cup {Group(open, x) : open \in {"(", "(?>"}, x \in Bodies}
        \cup {Rep(Group("(", A), q, "greedy") : q \in {"{0}", "{1,2}", "{2,}"}}
Places ==
    {Cat(x, y) : x \in {Place(<<"^">>, "^"), Place(<<"\\", "b">>, "b"), Place(<<"\\", "B">>, "B"), A, Rep(Dot, "*", "greedy")},
                 y \in {Place(<<"$">>, "$"), Place(<<"\\", "b">>, "b"), Cat(Place(<<"\\", "B">>, "B"), Dot), B}}

\* .{0} takes the parenthesis after it along.
Skipping == Cat(Rep(Dot, "{0}", "greedy"),
                Cat(Rep(Group("(?:", Rep(B, "*", "greedy")), "{2,}", "lazy"), Rep(Dot, "+", "greedy")))

MCTrees ==
    {Cat(x, y) : x \in Characters \cup Groups, y \in {Empty, Dot, Group("(?:", Alt(Cat(A, B), B))}}
        \cup {Alt(x, B) : x \in Groups} \cup Places \cup {Rep(x, "+", "greedy") : x \in Written1 \ {Set(<<"\\", "n">>, {})}}
        \cup Written1 \cup {Empty, Skipping}
MCMalformed ==
    {<<"*">>, <<"(", "a">>, <<"a", ")">>, <<"[", "a">>, <<"\\">>, <<"a", "{2,1}">>, <<"a", "{65536}">>, <<"(", "*", ")">>,
     <<"[", "b", "-", "a", "]">>, <<"\\", "c">>, <<"a", "|", "+">>, <<"a", "*", "*">>, <<"[", "a", "-", "\\", "w", "]">>,
     <<"[", "\\", "c", "]">>, <<"a", "{">>, <<"^", "*">>}
MCTexts == UNION {[1 .. n -> {"a", "b"}] : n \in 0 .. 3} \cup {<<"a", " ", "b">>, <<" ", "a">>, <<" ">>}
=============================================================================
