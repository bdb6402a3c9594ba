----------------------------- MODULE MCInliner -----------------------------
(* Programs of three functions: main calls f (and perhaps g, or f again),  *)
(* f is one of several bodies and may call g or itself.                    *)
EXTENDS Inliner

CONSTANTS MainKinds, CalleeKinds

Arg(fn, n) == <<"arg", Name(fn \o n)>>
X(fn) == Arg(fn, "_x")
Y(fn) == Arg(fn, "_y")
V(fn, n) == Out(Name(fn \o n))
K == <<"const", "1">>
SlotOf(fn) == <<"slot", Name(fn \o "_slot")>>
Stm(fn, n, op, args, out) == [id |-> Name(fn \o n), op |-> op, args |-> args, out |-> out]
Op(fn, n, op, args) == Stm(fn, n, op, args, TRUE)
Effect(fn, n, op, args) == Stm(fn, n, op, args, FALSE)
Lookup(fn, n, callee) == Op(fn, n, "symbol_lookup", <<Text(Name(callee))>>)
CallOf(fn, n, target, args) == Effect(fn, n, "call", <<target>> \o args)
Return(fn, n, v) == Effect(fn, n, "return", <<v>>)
CallBy(fn, l, c, callee, args) == <<Lookup(fn, l, callee), CallOf(fn, c, V(fn, l), args)>>

\* The blocks of a callee
Callee(kind, fn) ==
  CASE kind = "leaf"   -> << <<Effect(fn, "s", "store", <<X(fn), Y(fn)>>), Return(fn, "r", K)>> >>
    [] kind = "slot"   -> << <<Effect(fn, "s", "store", <<SlotOf(fn), Y(fn)>>),
                               Op(fn, "l", "load", <<<<"type">>, SlotOf(fn)>>),
                               Op(fn, "a", "add", <<V(fn, "l"), X(fn)>>),
                               Effect(fn, "t", "store", <<X(fn), V(fn, "a")>>),
                               Return(fn, "r", V(fn, "a"))>> >>
    [] kind = "nested" -> << <<Op(fn, "a", "add", <<Y(fn), K>>)>> \o CallBy(fn, "k", "c", "g", <<X(fn), V(fn, "a")>>)
                               \o <<Effect(fn, "s", "store", <<Y(fn), V(fn, "a")>>), Return(fn, "r", V(fn, "a"))>> >>
    [] kind = "self"   -> << CallBy(fn, "k", "c", fn, <<X(fn), Y(fn)>>) \o <<Return(fn, "r", K)>> >>
    [] kind = "blocks" -> << <<Effect(fn, "j", "goto", <<Text(Name(fn \o "2"))>>)>>,
                             <<Effect(fn, "s", "store", <<X(fn), Y(fn)>>), Return(fn, "r", K)>> >>
    [] kind = "long"   -> << <<Op(fn, "a", "add", <<X(fn), Y(fn)>>), Op(fn, "b", "add", <<X(fn), V(fn, "a")>>),
                               Op(fn, "c", "add", <<X(fn), V(fn, "b")>>), Op(fn, "d", "add", <<X(fn), V(fn, "c")>>),
                               Effect(fn, "s", "store", <<X(fn), V(fn, "d")>>), Effect(fn, "t", "store", <<Y(fn), V(fn, "d")>>),
                               Return(fn, "r", V(fn, "d"))>> >>

M == "main"
Sum == <<Op(M, "v", "add", <<X(M), K>>)>>
Val == V(M, "v")
End == <<Effect(M, "e", "store", <<Y(M), Val>>), Return(M, "r", Val)>>
CallF == CallBy(M, "k", "c", "f", <<X(M), Val>>)
Main(kind) ==
  CASE kind = "once"  -> Sum \o CallF \o End
    \* the value is used on both sides of the call
    [] kind = "both"  -> Sum \o <<Effect(M, "u", "store", <<X(M), Val>>)>> \o CallF \o End
    \* the lookup is used on both sides
    [] kind = "twice" -> Sum \o CallF \o <<CallOf(M, "c2", V(M, "k"), <<Y(M), Y(M)>>)>> \o End
    \* the second lookup is already above the first call, the value in use in between
    [] kind = "fg"    -> Sum \o <<Lookup(M, "kg", "g")>> \o CallF
                           \o <<Effect(M, "u", "store", <<X(M), Val>>), CallOf(M, "c2", V(M, "kg"), <<Y(M), Val>>)>> \o End
    [] kind = "gone"  -> Sum \o CallBy(M, "k", "c", "nowhere", <<X(M)>>) \o End
    \* the call through a pointer hides the call below it
    [] kind = "dyn"   -> Sum \o <<CallOf(M, "c2", X(M), <<Val>>)>> \o CallF \o End
    [] kind = "dyn2"  -> Sum \o <<CallOf(M, "c2", Val, <<Val>>)>> \o CallF \o End
    [] kind = "eval"  -> Sum \o <<Lookup(M, "k", "f"),
                                  Op(M, "c", "call_eval", <<<<"type">>, V(M, "k"), X(M), Val>>)>> \o End

Program(order, body) ==
  LET blks(fn) == [k \in DOMAIN body[fn] |-> Name(fn \o (IF k = 1 THEN "" ELSE ToString(k)))]
      all == UNION {{<<fn, k>> : k \in DOMAIN body[fn]} : fn \in ToSet(order)}
      At(blk) == CHOOSE c \in all : blks(c[1])[c[2]] = blk
      Code(blk) == body[At(blk)[1]][At(blk)[2]]
      names == {blks(c[1])[c[2]] : c \in all}
      sts == UNION {{Code(blk)[k].id : k \in DOMAIN Code(blk)} : blk \in names}
      Where(s) == CHOOSE blk \in names : \E k \in DOMAIN Code(blk) : Code(blk)[k].id = s
      St(s) == LET c == Code(Where(s)) IN c[SelectInSeq(c, LAMBDA y : y.id = s)]
      G == [funcs |-> order, blocks |-> [fn \in ToSet(order) |-> blks(fn)],
            slots |-> [fn \in ToSet(order) |-> IF fn = M THEN <<>> ELSE <<SlotOf(fn)>>],
            params |-> [blk \in names |-> IF At(blk)[2] = 1 THEN <<X(At(blk)[1]), Y(At(blk)[1])>> ELSE <<>>],
            code |-> [blk \in names |-> [k \in DOMAIN Code(blk) |-> Code(blk)[k].id]],
            name |-> [blk \in names |-> blk],
            st |-> [s \in sts |-> NewStatement(St(s).op, St(s).args, St(s).out, Where(s))],
            edges |-> <<>>, copies |-> 0]
  IN Fold(LAMBDA H, s : Fold(LAMBDA I, o : connect(I, s, o), H, H.st[s].args), G,
          FlattenSeq(FlattenSeq([i \in DOMAIN order |-> [k \in DOMAIN blks(order[i]) |-> G.code[blks(order[i])[k]]]])))

MCPrograms ==
  {Program(order, (M :> <<Main(m)>>) @@ ("f" :> Callee(cf, "f")) @@ ("g" :> Callee(cg, "g"))) :
    order \in {<<M, "f", "g">>, <<"g", "f", M>>}, m \in MainKinds, cf \in CalleeKinds, cg \in CalleeKinds \ {"nested"}}
=============================================================================
