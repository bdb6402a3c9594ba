---------------------------- MODULE MCOptimizer ----------------------------
(* Functions to optimise: an entry block and blocks "x" and "y" (and the   *)
(* blocks split from them), every combination of a few bodies and ways to  *)
(* leave, with one stack slot; and a few functions of a special shape.     *)
EXTENDS Optimizer

CONSTANTS EntryBodies, XBodies, YBodies  \* which of the bodies below

MCTempBlocks == <<"t1", "t2", "t3", "t4">>

P(blk) == <<"arg", <<"p", blk>>, blk>>
Q(blk) == <<"arg", <<"q", blk>>, blk>>
V(n, blk) == Out(<<n, blk>>)
C(n) == <<"const", n>>
Slot == <<"slot", <<"s", "slot">>>>

Op(n, blk, op, args) == [name |-> <<n, blk>>, op |-> op, args |-> args, out |-> TRUE]
Effect(n, blk, op, args) == [name |-> <<n, blk>>, op |-> op, args |-> args, out |-> FALSE]

\* statements of a block, and the value the block goes on with
Body(kind, blk) ==
  CASE kind = "empty" -> [code |-> <<>>, val |-> P(blk)]
    [] kind = "add"   -> [code |-> <<Op("v", blk, "add", <<P(blk), C("1")>>)>>, val |-> V("v", blk)]
    [] kind = "dead"  -> [code |-> <<Op("d", blk, "add", <<P(blk), C("2")>>),
                                     Op("e", blk, "add", <<V("d", blk), P(blk)>>),
                                     Op("v", blk, "add", <<P(blk), C("1")>>)>>, val |-> V("v", blk)]
    [] kind = "mov"   -> [code |-> <<Op("v", blk, "add", <<P(blk), P(blk)>>),
                                     Op("m", blk, "mov", <<V("v", blk)>>)>>, val |-> V("m", blk)]
    [] kind = "same"  -> [code |-> <<Op("k", blk, "mov", <<C("5")>>), Op("l", blk, "mov", <<C("5")>>),
                                     Op("v", blk, "add", <<V("l", blk), V("k", blk)>>)>>, val |-> V("v", blk)]
    [] kind = "slot"  -> [code |-> <<Effect("s", blk, "store", <<Slot, P(blk)>>),
                                     Op("l", blk, "load", <<<<"type">>, Slot>>)>>, val |-> V("l", blk)]
    [] kind = "load"  -> [code |-> <<Op("l", blk, "load", <<<<"type">>, Slot>>),
                                     Op("v", blk, "add", <<V("l", blk), P(blk)>>)>>, val |-> V("v", blk)]
    [] kind = "store" -> [code |-> <<Op("v", blk, "add", <<P(blk), C("1")>>),
                                     Effect("s", blk, "store", <<P(blk), V("v", blk)>>),
                                     Effect("z", blk, "store", <<Slot, V("v", blk)>>)>>, val |-> P(blk)]
    [] kind = "addr"  -> [code |-> <<Op("a", blk, "mov", <<Slot>>),
                                     Effect("s", blk, "store", <<V("a", blk), P(blk)>>),
                                     Op("l", blk, "load", <<<<"type">>, Slot>>)>>, val |-> V("l", blk)]

Return(blk, v) == <<Effect("r", blk, "return", <<v>>)>>
Goto(blk, to, vs) == <<Effect("g", blk, "goto", <<Text(to)>> \o vs)>>
If(blk, v, to, vs) == <<Effect("i", blk, "if", <<v, Text(to)>> \o vs)>>
More(blk, v) == <<Op("w", blk, "add", <<v, C("3")>>)>>

EntryExits(v) ==
  {Goto(Entry, "x", <<v, v>>),
   If(Entry, v, "x", <<v, P(Entry)>>) \o Return(Entry, v),
   If(Entry, v, "x", <<P(Entry), v>>) \o Goto(Entry, "x", <<v, v>>),
   If(Entry, v, "x", <<v, v>>) \o More(Entry, v) \o Goto(Entry, "y", <<V("w", Entry)>>)}
XExits(v) ==
  {Return("x", v),
   Goto("x", "y", <<v>>),
   If("x", v, "x", <<v, Q("x")>>) \o Goto("x", "y", <<Q("x")>>),
   <<Op("c", "x", "cmp", <<v, C("7")>>)>> \o If("x", V("c", "x"), "x", <<v, Q("x")>>)
     \o Goto("x", "x", <<P("x"), Q("x")>>),
   If("x", v, "y", <<v>>) \o More("x", v) \o Return("x", V("w", "x"))}

Make(blks, params, body, slots) ==
  LET Where(n) == CHOOSE blk \in ToSet(blks) : \E k \in DOMAIN body[blk] : body[blk][k].name = n
      names == UNION {{body[blk][k].name : k \in DOMAIN body[blk]} : blk \in ToSet(blks)}
      Stmt(n) == LET c == body[Where(n)] IN c[SelectInSeq(c, LAMBDA s : s.name = n)]
  IN [blocks |-> blks, params |-> params,
      code |-> [blk \in ToSet(blks) |-> [k \in DOMAIN body[blk] |-> body[blk][k].name]],
      in |-> [blk \in ToSet(blks) |-> <<>>],
      st |-> [n \in names |-> [op |-> Stmt(n).op, args |-> Stmt(n).args, out |-> Stmt(n).out, block |-> Where(n)]],
      edges |-> <<>>, slots |-> slots, temps |-> 0]

Shape(eb, xb, yb, ee, xe) ==
  Make(<<Entry, "x", "y">>,
       (Entry :> <<P(Entry)>>) @@ ("x" :> <<P("x"), Q("x")>>) @@ ("y" :> <<P("y")>>),
       (Entry :> Body(eb, Entry).code \o ee) @@ ("x" :> Body(xb, "x").code \o xe)
         @@ ("y" :> Body(yb, "y").code \o Return("y", Body(yb, "y").val)),
       <<Slot>>)

\* x is entered once, then runs for ever; it passes its second parameter back
Forever ==
  Make(<<Entry, "x">>, (Entry :> <<P(Entry)>>) @@ ("x" :> <<P("x"), Q("x")>>),
       (Entry :> Body("add", Entry).code \o Goto(Entry, "x", <<P(Entry), V("v", Entry)>>))
         @@ ("x" :> Body("store", "x").code \o Goto("x", "x", <<P("x"), Q("x")>>)), <<Slot>>)

\* Empty blocks in a row, each with one jump into it but the last.
Add(blk) == Body("add", blk).code
AddGoto(blk, to) == Add(blk) \o Goto(blk, to, <<V("v", blk)>>)
EmptyChain ==
  LET inner == {"x", "y", "e1", "z", "e2", "u"} IN
  Make(<<Entry, "x", "y", "e1", "z", "e2", "u">>,
       [blk \in inner \cup {Entry} |-> <<P(blk)>>],
       (Entry :> Add(Entry) \o If(Entry, V("v", Entry), "x", <<P(Entry)>>)
                  \o <<Op("c", Entry, "cmp", <<P(Entry), C("7")>>),
                       Effect("j", Entry, "if", <<V("c", Entry), Text("z"), P(Entry)>>)>>
                  \o More(Entry, P(Entry)) \o Goto(Entry, "y", <<V("w", Entry)>>))
         @@ ("x" :> AddGoto("x", "u")) @@ ("y" :> AddGoto("y", "e1"))
         @@ ("e1" :> Goto("e1", "e2", <<P("e1")>>))
         @@ ("z" :> AddGoto("z", "e2"))
         @@ ("e2" :> Goto("e2", "u", <<P("e2")>>))
         @@ ("u" :> Add("u") \o Return("u", V("v", "u"))), <<>>)

\* Not here: two loads of the slot that may come to stand in one block, in functions with no other pair of equal statements.
MCFunctions ==
  {Forever, EmptyChain} \cup
  UNION {{Shape(eb, xb, yb, ee, xe) : ee \in EntryExits(Body(eb, Entry).val), xe \in XExits(Body(xb, "x").val)} :
          <<eb, xb, yb>> \in {t \in EntryBodies \X XBodies \X YBodies :
            /\ t[2] = "load" => t[3] # "load"
            /\ t[1] = "addr" => "load" \notin {t[2], t[3]}}}
=============================================================================
