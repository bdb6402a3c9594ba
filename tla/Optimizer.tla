------------------------------ MODULE Optimizer ------------------------------
(***************************************************************************)
(* The IR graph of one function and the passes over it: construction       *)
(* (split_blocks, block_statements_connect, block_edges_connect of         *)
(* src/bbae_construction.h), the pipeline of do_optimization               *)
(* (src/bbae_optimization.h) and the checks do_lowering starts with        *)
(* (validate_links, verify_coherency of src/compiler_common.h).            *)
(*                                                                         *)
(* Every value knows the statements that use it (edges_out), every block   *)
(* the jumps into it (edges_in).  The passes edit operands, statements and *)
(* blocks and repair both by hand.                                         *)
(*                                                                         *)
(* A name is a pair of strings.  An operand is a tuple:                    *)
(*   <<"ssa", name>>, <<"arg", name, block>>, <<"const", c>>,              *)
(*   <<"slot", name>>, <<"text", block>>, <<"sep">>, <<"type">>            *)
(* A statement is named by its output name; statements without an output   *)
(* are given a name too.                                                   *)
(***************************************************************************)
EXTENDS IRGraph, FiniteSets

CONSTANTS
  Functions,   \* functions as parsed (see TypeOK)
  TempBlocks,  \* names for the blocks that split_blocks makes, in order
  Decisions,   \* Meaning follows this many conditional jumps
  Fuel         \* and runs at most this many blocks

Entry == "__entry__"
Const0 == <<"const", "0">>

VARIABLES
  g,      \* the function, a record:
          \*   blocks  func->blocks, names in order
          \*   params  block->args (of the entry block: func->args)
          \*   code    block->statements
          \*   in      block->edges_in
          \*   st      the statements: [op, args, out, block]
          \*   edges   all edges_out: pairs <<value, statement>>, oldest first
          \*   slots   func->stack_slots
          \*   temps   temporary names made so far
  pass,   \* index of the pass under way
  step,   \* the loop of the pass under way, or "crash" or "spin"
  b, i,   \* its counters (from 1)
  work,   \* did_work
  meant   \* auxiliary: what the function as parsed does

vars == <<g, pass, step, b, i, work, meant>>

-----------------------------------------------------------------------------
(* compiler_common.h: statements *)

statement_has_side_effects(x) == ~x.out \/ x.op = "call_eval"

statements_same(x, y) ==
  /\ x.out /\ y.out
  /\ x.op = y.op /\ x.args = y.args
  /\ ~statement_has_side_effects(x)

EraseStatement(G, blk, k) == [G EXCEPT !.code[blk] = RemoveAt(@, k)]

\* The labels of a jump.
Labels(x) ==
  IF x.op = "goto" THEN <<x.args[1][2]>>
  ELSE IF x.op = "if" THEN <<x.args[2][2], x.args[find_separator_index(x.args) + 1][2]>>
  ELSE <<>>

AllStatements(G) == FlattenSeq([k \in DOMAIN G.blocks |-> G.code[G.blocks[k]]])

\* block_edges_connect asserts that every label is that of a block.
LabelsFound(G) ==
  \A s \in ToSet(AllStatements(G)) : ToSet(Labels(G.st[s])) \subseteq ToSet(G.blocks)

\* block_edges_disconnect (which spares the entry block), block_edges_connect
block_edges_fix(G) ==
  LET all == AllStatements(G)
      jumps == FlattenSeq([k \in DOMAIN all |->
                 [n \in DOMAIN Labels(G.st[all[k]]) |-> <<Labels(G.st[all[k]])[n], all[k]>>]])
      Into(blk) == LET js == SelectSeq(jumps, LAMBDA j : j[1] = blk)
                   IN [n \in DOMAIN js |-> js[n][2]]
  IN [G EXCEPT !.in = [blk \in DOMAIN G.in |->
                         IF blk \in ToSet(G.blocks) \ {Entry} THEN Into(blk) ELSE G.in[blk]]]

\* The assertions of validate_links.  Arguments are compared by name.
LinksValid(G) ==
  \A k \in DOMAIN G.blocks :
    LET blk == G.blocks[k] IN
    \A s \in ToSet(G.code[blk]) :
      LET x == G.st[s] IN
      /\ x.block = blk
      /\ x.op = "goto" =>
           /\ x.args[1][2] \in ToSet(G.blocks)
           /\ Len(x.args) - 1 = Len(G.params[x.args[1][2]])
      /\ x.out => \A u \in Uses(G, Out(s)) :
           /\ G.st[u].block = blk
           /\ Out(s) \in ToSet(G.st[u].args)
           /\ u \in ToSet(G.code[blk])
      /\ \A o \in ToSet(x.args) :
           /\ o[1] = "ssa" => G.st[o[2]].block = blk
           /\ o[1] = "arg" => \E p \in ToSet(G.params[blk]) : p[2] = o[2]

\* The assertions of verify_coherency.
Coherent(G) ==
  \A blk \in ToSet(G.blocks) :
    /\ G.code[blk] # <<>>
    /\ \A k \in DOMAIN G.code[blk] :
         (G.st[G.code[blk][k]].op \in {"if", "goto", "return"}) <=> (k = Len(G.code[blk]))

-----------------------------------------------------------------------------
(* What a function does: the stores through pointers, the conditions of    *)
(* its conditional jumps and what it returns, as terms over its arguments, *)
(* for every outcome of the first Decisions conditions.  A stack slot that *)
(* was never stored to may hold anything; 0 is the choice of mem2reg.      *)

Term(env, o) ==
  IF o[1] \in {"const", "slot"} THEN o
  ELSE IF o \in DOMAIN env THEN env[o] ELSE <<"undefined">>

Passed(env, x, from, n) == [k \in 1..n |-> Term(env, x.args[from + k])]

\* m: the machine. m.next is the block to run next, with its arguments; m.ran
\* says that control has left the block under way.
Do(G, m, s, choice) ==
  LET x == G.st[s]
      T(n) == Term(m.env, x.args[n])
      sep == find_separator_index(x.args)
      Goto(k, n) == [m EXCEPT !.ran = TRUE, !.at = x.args[k][2], !.args = Passed(m.env, x, k, n)]
      Given(v) == [m EXCEPT !.env = (Out(s) :> v) @@ @]
      cond == [m EXCEPT !.trace = Append(@, <<"if", T(1)>>), !.ifs = @ + 1]
      end == IF sep = 0 THEN Len(x.args) ELSE sep - 1
  IN
  IF m.ran THEN m
  ELSE IF x.op = "goto" THEN Goto(1, Len(x.args) - 1)
  ELSE IF x.op = "return"
    THEN [m EXCEPT !.ran = TRUE, !.over = TRUE, !.trace = Append(@, <<"return", T(1)>>)]
  ELSE IF x.op = "if"
    THEN IF m.ifs = Decisions THEN [cond EXCEPT !.ran = TRUE, !.over = TRUE]
         ELSE IF choice[m.ifs + 1]
           THEN [Goto(2, end - 2) EXCEPT !.trace = cond.trace, !.ifs = cond.ifs]
         ELSE IF sep = 0 THEN cond
         ELSE [Goto(sep + 1, Len(x.args) - sep - 1) EXCEPT !.trace = cond.trace, !.ifs = cond.ifs]
  ELSE IF x.op = "store"
    THEN [m EXCEPT !.mem = (T(1) :> T(2)) @@ @,
                   !.trace = IF T(1)[1] = "slot" THEN @ ELSE Append(@, <<"store", T(1), T(2)>>)]
  ELSE IF x.op = "load"
    THEN Given(IF T(2) \in DOMAIN m.mem THEN m.mem[T(2)]
               ELSE IF T(2)[1] = "slot" THEN Const0 ELSE <<"loaded", T(2)>>)
  ELSE IF x.op = "mov" THEN Given(T(1))
  ELSE Given(<<x.op>> \o [n \in DOMAIN x.args |-> T(n)])

RunBlock(G, m, choice) ==
  IF m.over THEN m
  ELSE IF m.at \notin ToSet(G.blocks) \/ Len(m.args) # Len(G.params[m.at])
    THEN [m EXCEPT !.over = TRUE, !.trace = Append(@, <<"lost">>)]
  ELSE LET ps == G.params[m.at]
           here == [m EXCEPT !.ran = FALSE,
                      !.env = [v \in ToSet(ps) |-> m.args[SelectInSeq(ps, LAMBDA p : p = v)]]]
       IN Fold(LAMBDA n, s : Do(G, n, s, choice), here, G.code[m.at])

Meaning(G) ==
  LET start == [at |-> Entry, args |-> [k \in DOMAIN G.params[Entry] |-> <<"in", G.params[Entry][k][2]>>],
                env |-> <<>>, mem |-> <<>>, trace |-> <<>>, ifs |-> 0, ran |-> FALSE, over |-> FALSE]
  IN [choice \in [1..Decisions -> BOOLEAN] |->
        Fold(LAMBDA m, n : RunBlock(G, m, choice), start, [n \in 1..Fuel |-> n]).trace]

-----------------------------------------------------------------------------
(* The passes, by their first loop. *)

Pipeline == <<"split", "connect", "validate", "dead", "unentered", "inline", "slot",
              "dead", "unentered", "splice", "cse", "dead", "lower", "done">>

\* Begin the loop l at block k.  Some loops run over a block from its end, the
\* terminator excluded.
Enter(G, l, k) ==
  /\ step' = l
  /\ b' = k
  /\ i' = IF k \notin DOMAIN G.blocks THEN 0
          ELSE IF l \in {"dead", "mov"} THEN Len(G.code[G.blocks[k]]) - 1
          ELSE IF l = "param" THEN Len(G.params[G.blocks[k]])
          ELSE IF l = "cse" THEN 2 ELSE 1

Leave(G) ==
  /\ g' = G
  /\ pass' = pass + 1
  /\ work' = FALSE
  /\ Enter(g', Pipeline[pass + 1], IF Pipeline[pass + 1] = "unentered" THEN Len(g'.blocks) ELSE 1)
  /\ UNCHANGED meant

\* An assertion fails.
Crash == step' = "crash" /\ UNCHANGED <<g, pass, b, i, work, meant>>

LeaveIf(test, G) == IF test THEN Leave(G) ELSE Crash

\* The next turn of the loop under way.
Turn(G, k, n) == g' = G /\ b' = k /\ i' = n /\ UNCHANGED <<pass, step, meant>>

AtBlock(l) == step = l /\ b \in DOMAIN g.blocks
PastBlocks(l) == step = l /\ b > Len(g.blocks)

block == g.blocks[b]
code == g.code[block]
stmt == g.st[code[i]]

Init ==
  /\ g \in Functions
  /\ pass = 1 /\ step = "split" /\ b = 1 /\ i = 1
  /\ work = FALSE
  /\ meant = Meaning(g)

-----------------------------------------------------------------------------
(* program_finish_construction *)

\* Mutant: what the jump itself uses is not passed on.
Live_before(G, blk, n) ==
  LET c == G.code[blk]
      outs == SelectSeq(SubSeq(c, 1, n), LAMBDA s : G.st[s].out)
      defined == G.params[blk] \o [k \in DOMAIN outs |-> Out(outs[k])]
  IN SelectSeq(defined, LAMBDA v : /\ v \notin ToSet(G.st[c[n]].args)
                                   /\ \E k \in (n + 1)..Len(c) : v \in ToSet(G.st[c[k]].args))

\* What is defined in the block before position n and used after it.
Live(G, blk, n) ==
  LET c == G.code[blk]
      outs == SelectSeq(SubSeq(c, 1, n), LAMBDA s : G.st[s].out)
      defined == G.params[blk] \o [k \in DOMAIN outs |-> Out(outs[k])]
  IN SelectSeq(defined, LAMBDA v : \E k \in (n + 1)..Len(c) : v \in ToSet(G.st[c[k]].args))

\* The statements after the conditional jump at position n become a block of
\* their own, which gets what it uses as arguments.
Split(G, k, n) ==
  LET blk == G.blocks[k]
      branch == G.code[blk][n]
      rest == SubSeq(G.code[blk], n + 1, Len(G.code[blk]))
      next == TempBlocks[G.temps + 1]
      live == Live(G, blk, n)
      args == [m \in DOMAIN live |-> <<"arg", live[m][2], next>>]
      H == [G EXCEPT
             !.blocks = InsertAt(@, k + 1, next),
             !.params = (next :> args) @@ @,
             !.code = (next :> rest) @@ [@ EXCEPT ![blk] = SubSeq(@, 1, n)],
             !.in = (next :> <<>>) @@ @,
             !.st = [s \in DOMAIN @ |->
                       IF s = branch THEN [@[s] EXCEPT !.args = @ \o <<Sep, Text(next)>> \o live]
                       ELSE IF s \in ToSet(rest) THEN [@[s] EXCEPT !.block = next] ELSE @[s]],
             !.temps = @ + 1]
  IN Fold(LAMBDA K, m : block_replace_statement_val_args(K, next, live[m], args[m]),
              H, [m \in DOMAIN live |-> m])

IsOpenIf(s) == g.st[s].op = "if" /\ find_separator_index(g.st[s].args) = 0

split_block ==
  LET n == SelectInSeq(code, LAMBDA s : g.st[s].op = "if") IN
  /\ AtBlock("split")
  /\ Turn(IF \E s \in ToSet(code) : IsOpenIf(s) THEN Split(g, b, n) ELSE g, b + 1, i)
  /\ UNCHANGED work

split_blocks_end == PastBlocks("split") /\ Leave(g)

\* block_statements_connect, then block_edges_connect
connect_all ==
  LET Operands(s) == [n \in DOMAIN g.st[s].args |-> <<g.st[s].args[n], s>>]
      all == AllStatements(g)
      uses == SelectSeq(FlattenSeq([k \in DOMAIN all |-> Operands(all[k])]), LAMBDA e : Tracked(e[1]))
  IN
  /\ step = "connect"
  /\ LeaveIf(LabelsFound(g), block_edges_fix([g EXCEPT !.edges = @ \o uses]))

validate_links == step = "validate" /\ LeaveIf(LinksValid(g), g)

-----------------------------------------------------------------------------
(* optimization_unused_value_removal *)

IsUnused(s) == g.st[s].out /\ Uses(g, Out(s)) = {} /\ ~statement_has_side_effects(g.st[s])

\* Mutant: the operands keep their edges to the erased statement.
remove_unused_statement_only ==
  /\ AtBlock("dead") /\ i >= 1
  /\ IF IsUnused(code[i])
     THEN Turn(EraseStatement(g, block, i), b, i - 2) /\ work' = TRUE
     ELSE Turn(g, b, i - 1) /\ UNCHANGED work

\* A turn of the first loop: a statement nobody needs.  The counter skips the
\* statement before it, which the next sweep comes back to.
remove_unused_statement ==
  LET s == code[i] IN
  /\ AtBlock("dead") /\ i >= 1
  /\ IF IsUnused(s)
     THEN /\ Turn(EraseStatement(Fold(LAMBDA G, o : disconnect(G, s, o), g, stmt.args), block, i), b, i - 2)
          /\ work' = TRUE
     ELSE Turn(g, b, i - 1) /\ UNCHANGED work

remove_unused_statement_end ==
  /\ AtBlock("dead") /\ i < 1
  /\ Enter(g, "mov", b)
  /\ UNCHANGED <<g, pass, work, meant>>

RemoveMov(s, o) ==
  EraseStatement(block_replace_statement_val_args(disconnect_all(g, s, o), block, Out(s), o), block, i)

\* Mutant: did_work = 1 whether or not a mov was found.
remove_mov_always ==
  LET o == stmt.args[1] IN
  /\ AtBlock("mov") /\ i >= 1
  /\ work' = TRUE
  /\ IF stmt.op = "mov" /\ o[1] = "ssa"
     THEN Turn(RemoveMov(code[i], o), b, i - 2)
     ELSE Turn(g, b, i - 1)

\* A turn of the second loop: a mov from one SSA value to another.
remove_mov ==
  LET o == stmt.args[1] IN
  /\ AtBlock("mov") /\ i >= 1
  /\ IF stmt.op # "mov" \/ o[1] # "ssa" THEN Turn(g, b, i - 1) /\ UNCHANGED work
     ELSE IF stmt.block # g.st[o[2]].block THEN Crash
     ELSE Turn(RemoveMov(code[i], o), b, i - 2) /\ work' = TRUE

remove_mov_end ==
  /\ AtBlock("mov") /\ i < 1
  /\ IF b = 1 THEN Enter(g, "dead", b + 1) ELSE Enter(g, "param", b)
  /\ UNCHANGED <<g, pass, work, meant>>

CountIn(args, v, from, to) == Len(SelectSeq(SubSeq(args, from, to), LAMBDA o : o = v))

\* The statement does nothing with parameter v, number a, of its block but pass
\* it back to the block.  An if that does is not asked in which position.
OnlyPassesBack(y, blk, v, a) ==
  LET sep == find_separator_index(y.args) IN
  \/ /\ y.op = "goto" /\ y.args[1] = Text(blk)
     /\ y.args[a + 1] = v /\ CountIn(y.args, v, 2, Len(y.args)) = 1
  \/ /\ y.op = "if" /\ y.args[2] = Text(blk) /\ y.args[sep + 1] = Text(blk)
     /\ CountIn(y.args, v, 3, sep - 1) = 1 /\ CountIn(y.args, v, sep + 2, Len(y.args)) = 1

\* Argument a of every jump to blk that statement s makes.
erase_jump_arg(G, s, blk, a) ==
  LET y == G.st[s]
      H == IF y.args[2] = Text(blk) THEN erase_arg(G, s, 2 + a) ELSE G
      other == find_separator_index(H.st[s].args) + 1
  IN IF y.op = "goto"
     THEN IF y.args[1] = Text(blk) THEN erase_arg(G, s, 1 + a) ELSE G
     ELSE IF H.st[s].args[other] = Text(blk) THEN erase_arg(H, s, other + a) ELSE H

\* Each statement once (its temp field is the mark).
Once(ss) == [k \in DOMAIN ss |-> <<k, ss[k]>>]
Firsts(ss) == SelectSeq(Once(ss), LAMBDA p : \A k \in 1..(p[1] - 1) : ss[k] # p[2])

\* A turn of the third loop: a parameter that is not used, or only passed back.
\* The count in the second half of an if reads one operand too many, the memory
\* after the last one, where an erased operand may still stand.
remove_unused_param ==
  LET v == g.params[block][i]
      users == SelectSeq(g.edges, LAMBDA e : e[1] = v)
      jumps == Firsts([k \in DOMAIN users |-> users[k][2]] \o g.in[block])
      removable == \A e \in ToSet(users) : OnlyPassesBack(g.st[e[2]], block, v, i)
      stray == \E e \in ToSet(users) : g.st[e[2]].op = "if"
  IN
  /\ AtBlock("param") /\ i >= 1
  /\ \/ /\ removable
        /\ Turn(Fold(LAMBDA G, p : erase_jump_arg(G, p[2], block, i),
                     [g EXCEPT !.params[block] = RemoveAt(@, i)], jumps), b, i - 1)
        /\ work' = TRUE
     \/ (removable => stray) /\ Turn(g, b, i - 1) /\ UNCHANGED work

remove_unused_param_end ==
  /\ AtBlock("param") /\ i < 1
  /\ Enter(g, "dead", b + 1)
  /\ UNCHANGED <<g, pass, work, meant>>

\* while (did_work)
sweep_end ==
  /\ PastBlocks("dead")
  /\ IF work THEN Enter(g, "dead", 1) /\ work' = FALSE /\ UNCHANGED <<g, pass, meant>>
     ELSE Leave(g)

-----------------------------------------------------------------------------
(* optimization_empty_block_removal *)

\* A turn of the first loop, from the last block to the second: a block that
\* nothing jumps to, or only itself.  Jumps out of it stay where they are noted.
remove_unentered_block ==
  /\ AtBlock("unentered") /\ b >= 2
  /\ Turn(IF \A s \in ToSet(g.in[block]) : g.st[s].block = block
          THEN [g EXCEPT !.blocks = RemoveAt(@, b)] ELSE g, b - 1, i)
  /\ UNCHANGED work

remove_unentered_block_end ==
  /\ step = "unentered" /\ b < 2
  /\ Enter(g, "empty", 2)
  /\ UNCHANGED <<g, pass, work, meant>>

\* _remap_args_span: the jump of s whose label is at position n leads to the
\* target of exit, past a block with parameters ps that only passes them on.
remap_args_span(G, ps, exit, s, n) ==
  LET args == G.st[s].args
      new == [k \in 1..(Len(exit) - 1) |->
                args[n + SelectInSeq(ps, LAMBDA p : p = exit[k + 1])]]
      erased == Fold(LAMBDA H, k : erase_arg(H, s, n + 1),
                         [G EXCEPT !.st[s].args[n] = exit[1]], ps)
  IN Fold(LAMBDA H, k : insert_arg(H, s, n + k, new[k]), erased, [k \in DOMAIN new |-> k])

\* A jump into the removed block blk becomes one into t, and takes the place k
\* among the jumps into t that the exit of blk had.
redirect(G, blk, exit, t, k, s) ==
  LET ps == G.params[blk]
      y == G.st[s]
      first == y.args[2] = Text(blk)
      H == IF first THEN [remap_args_span(G, ps, exit, s, 2) EXCEPT !.in[t][k] = s] ELSE G
      other == find_separator_index(H.st[s].args) + 1
  IN
  IF y.op = "goto" THEN [remap_args_span(G, ps, exit, s, 1) EXCEPT !.in[t][k] = s]
  ELSE IF H.st[s].args[other] # Text(blk) THEN H
  ELSE [remap_args_span(H, ps, exit, s, other) EXCEPT
          !.in[t] = IF first THEN InsertAt(@, k, s) ELSE [@ EXCEPT ![k] = s]]

\* A turn of the second loop, from the second block on: a block that is one
\* goto.  The block that moves into its place is not looked at.
remove_empty_block ==
  LET s == Last(code)
      exit == g.st[s].args
      t == exit[1][2]
      k == SelectInSeq(g.in[t], LAMBDA e : e = s)
      bare == Fold(LAMBDA G, o : disconnect_all(G, s, o),
                       [g EXCEPT !.blocks = RemoveAt(@, b)], Tail(exit))
  IN
  /\ AtBlock("empty")
  /\ IF Len(code) # 1 \/ g.st[s].op # "goto" THEN Turn(g, b + 1, i) /\ UNCHANGED work
     ELSE IF \/ t \notin ToSet(g.blocks) \/ k = 0
             \/ g.in[block] # <<>> /\ ~(ToSet(Tail(exit)) \subseteq ToSet(g.params[block]))
       THEN Crash
     ELSE /\ Turn(Fold(LAMBDA G, e : redirect(G, block, exit, t, k, e), bare, g.in[block]), b + 1, i)
          /\ UNCHANGED work

remove_empty_block_end ==
  PastBlocks("empty") /\ LeaveIf(LabelsFound(g), block_edges_fix(g))

\* optimization_function_inlining of a function without calls
inline == step = "inline" /\ LeaveIf(LabelsFound(g), block_edges_fix(g))

-----------------------------------------------------------------------------
(* optimization_global_mem2reg *)

\* A slot that is never loaded: its stores go.
drop_stores(G, v) ==
  Fold(LAMBDA H, s :
             LET y == H.st[s] IN
             IF y.op = "store" /\ y.args[1] = v
             THEN [disconnect(disconnect(H, s, v), s, y.args[2]) EXCEPT !.code[y.block] = Remove(@, s)]
             ELSE H,
           G, AllStatements(G))

\* The slot as a value of block blk: given at its start by a mov of 0 in the
\* entry block, elsewhere by a new parameter, then by the stores.
promote_in_block(G, v, blk) ==
  LET entry == blk = Entry
      given == IF entry THEN Out(v[2]) ELSE <<"arg", v[2], blk>>
      H0 == IF entry
            THEN [G EXCEPT !.st = (v[2] :> [op |-> "mov", args |-> <<Const0>>, out |-> TRUE, block |-> blk]) @@ @,
                           !.code[blk] = <<v[2]>> \o @]
            ELSE [G EXCEPT !.params[blk] = Append(@, given)]
      Rewrite(c, s) ==
        LET H == c.graph
            y == H.st[s]
            end == insert_arg(H, s, Len(y.args) + 1, c.val)
        IN
        IF y.op = "load" /\ y.args[2] = v
          THEN [c EXCEPT !.graph = connect([disconnect(H, s, v) EXCEPT
                  !.st[s].op = "mov", !.st[s].args = <<c.val>>], s, c.val)]
        ELSE IF y.op = "store" /\ y.args[1] = v
          THEN [graph |-> [disconnect(H, s, v) EXCEPT
                  !.st[s] = [y EXCEPT !.op = "mov", !.out = TRUE, !.args = Tail(@)]], val |-> Out(s)]
        ELSE IF y.op = "goto" THEN [c EXCEPT !.graph = end]
        ELSE IF y.op = "if"
          THEN [c EXCEPT !.graph = insert_arg(end, s, find_separator_index(y.args), c.val)]
        ELSE c
  IN Fold(Rewrite, [graph |-> H0, val |-> given], H0.code[blk]).graph

promote(G, v) == Fold(LAMBDA H, blk : promote_in_block(H, v, blk), G, G.blocks)

\* A turn of the loop over the slots.  A slot whose address is used for anything
\* but loads and stores is left alone.
mem2reg ==
  LET v == g.slots[i]
      ops == {g.st[s].op : s \in Uses(g, v)}
      G == [g EXCEPT !.slots = RemoveAt(@, i)]
  IN
  /\ step = "slot" /\ i \in DOMAIN g.slots
  /\ IF ~(ops \subseteq {"load", "store"}) THEN Turn(g, b, i + 1)
     ELSE Turn(IF "load" \in ops THEN promote(G, v) ELSE drop_stores(G, v), b, i)
  /\ UNCHANGED work

mem2reg_end == step = "slot" /\ i > Len(g.slots) /\ Leave(g)

-----------------------------------------------------------------------------
(* optimization_trivial_block_splicing, optimization_local_CSE *)

\* The statements of t, which only s jumps to, replace that jump.
Splice(G, blk, s, t) ==
  LET args == Tail(G.st[s].args)
      bound == Fold(LAMBDA H, k :
                 block_replace_statement_val_args(disconnect(H, s, args[k]), t, G.params[t][k], args[k]),
                 G, [k \in DOMAIN args |-> k])
  IN [bound EXCEPT !.blocks = Remove(@, t),
                   !.code[blk] = Front(@) \o bound.code[t],
                   !.st = [q \in DOMAIN @ |->
                             IF q \in ToSet(bound.code[t]) THEN [@[q] EXCEPT !.block = blk] ELSE @[q]]]

\* A turn of the loop: the counter stays, the block may be spliced again.  A
\* block spliced to itself appends its statements to the list it is reading.
splice_block ==
  LET s == Last(code)
      t == g.st[s].args[1][2]
  IN
  /\ AtBlock("splice")
  /\ UNCHANGED work
  /\ IF g.st[s].op # "goto" THEN Turn(g, b + 1, i)
     ELSE IF t \notin ToSet(g.blocks) THEN step' = "crash" /\ UNCHANGED <<g, pass, b, i, meant>>
     ELSE IF Len(g.in[t]) # 1 THEN Turn(g, b + 1, i)
     ELSE IF t # block THEN Turn(Splice(g, block, s, t), b, i)
     ELSE IF Len(code) > 1 THEN step' = "spin" /\ UNCHANGED <<g, pass, b, i, meant>>
     ELSE Turn([g EXCEPT !.blocks = RemoveAt(@, b)], b, i)

splice_end == PastBlocks("splice") /\ LeaveIf(LabelsFound(g), block_edges_fix(g))

\* A turn of the inner loop: a statement computed before is replaced by the
\* earlier one.  Its operands keep their edges to it.
local_CSE ==
  LET s == code[i]
      j == SelectInSeq(SubSeq(code, 1, i - 1), LAMBDA q : statements_same(g.st[q], stmt))
  IN
  /\ AtBlock("cse") /\ i <= Len(code) - 1
  /\ IF statement_has_side_effects(stmt) \/ j = 0 THEN Turn(g, b, i + 1)
     ELSE Turn(block_replace_statement_val_args(EraseStatement(g, block, i), block, Out(s), Out(code[j])), b, i)
  /\ UNCHANGED work

local_CSE_next ==
  /\ AtBlock("cse") /\ i > Len(code) - 1
  /\ Enter(g, "cse", b + 1)
  /\ UNCHANGED <<g, pass, work, meant>>

local_CSE_end == PastBlocks("cse") /\ Leave(g)

\* do_lowering: validate_links, verify_coherency
lower == step = "lower" /\ LeaveIf(LinksValid(g) /\ Coherent(g), g)

\* The function is handed to the register allocator.
finished == step = "done" /\ UNCHANGED vars

Next ==
  \/ split_block \/ split_blocks_end \/ connect_all \/ validate_links
  \/ remove_unused_statement \/ remove_unused_statement_end
  \/ remove_mov \/ remove_mov_end
  \/ remove_unused_param \/ remove_unused_param_end \/ sweep_end
  \/ remove_unentered_block \/ remove_unentered_block_end
  \/ remove_empty_block \/ remove_empty_block_end \/ inline
  \/ mem2reg \/ mem2reg_end
  \/ splice_block \/ splice_end
  \/ local_CSE \/ local_CSE_next \/ local_CSE_end \/ lower \/ finished

Spec == Init /\ [][Next]_vars

-----------------------------------------------------------------------------
(* Properties *)

\* Types of the graph and bounds of the counters.
TypeOK ==
  /\ pass \in DOMAIN Pipeline
  /\ b \in 0..(Len(g.blocks) + 2) /\ work \in BOOLEAN
  /\ ToSet(g.blocks) \subseteq DOMAIN g.code
  /\ DOMAIN g.code = DOMAIN g.params /\ DOMAIN g.code = DOMAIN g.in
  /\ \A blk \in DOMAIN g.code : ToSet(g.code[blk]) \subseteq DOMAIN g.st
  /\ \A e \in ToSet(g.edges) : Tracked(e[1]) /\ e[2] \in DOMAIN g.st
  /\ g.blocks[1] = Entry

Running == step \notin {"crash", "spin"}

\* After every turn of every loop of every pass the function does what it did
\* when it was parsed.
MeaningKept == Running => Meaning(g) = meant

\* No pass loses track of a use: a value has an edge for every operand that
\* reads it.  A statement is thrown away when its output has no edges.
UsesCounted ==
  pass > 2 =>
    \A s \in ToSet(AllStatements(g)) : \A v \in ToSet(g.st[s].args) :
      Tracked(v) => CountIn(g.st[s].args, v, 1, Len(g.st[s].args))
                      <= Len(SelectSeq(g.edges, LAMBDA e : e = <<v, s>>))

\* No assertion fails: every label is found when the jumps into blocks are noted
\* again, and what is handed to the register allocator passes validate_links.
NoCrash == step # "crash"

OpenIfs == {s \in ToSet(AllStatements(g)) : IsOpenIf(s)}
Size == Len(g.blocks) + Len(AllStatements(g))
          + Len(FlattenSeq([k \in DOMAIN g.blocks |-> g.params[g.blocks[k]]]))
Rank == [dead |-> 3, mov |-> 2, param |-> 1]

\* How far the program is from its end, the most significant number first.
Left ==
  LET down == step \in DOMAIN Rank
      here == IF AtBlock(step) THEN Len(code) ELSE 0
  IN <<Len(Pipeline) - pass, Cardinality(OpenIfs), Len(g.slots), Size,
       IF work THEN 1 ELSE 0,
       IF step = "unentered" THEN 1 ELSE 0,
       IF step = "unentered" THEN b ELSE Len(g.blocks) + 2 - b,
       IF down THEN Rank[step] ELSE 0,
       IF down THEN i + 1 ELSE IF step = "slot" THEN Len(g.slots) + 1 - i ELSE here + 2 - i>>

Before(x, y) ==
  \E n \in DOMAIN x : x[n] < y[n] /\ \A k \in 1..(n - 1) : x[k] = y[k]

\* Every turn of every loop brings the end nearer: while (did_work) goes round
\* again only after something was removed, the loops that step their counter
\* back or leave it do so only after a removal, a block is spliced again only
\* after it has swallowed another.
EndNearer ==
  [][\/ step' = "crash"
     \/ Before(Left', Left) /\ \A n \in DOMAIN Left' : Left'[n] \in Nat]_vars

\* The graph is well-formed and its edges are complete after every turn.
GraphSound == TypeOK /\ UsesCounted
=============================================================================
