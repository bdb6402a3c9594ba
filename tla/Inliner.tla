------------------------------ MODULE Inliner ------------------------------
(***************************************************************************)
(* src/bbae_optimization.h, optimization_function_inlining: a call of a    *)
(* function that is looked up by name is replaced by a copy of the blocks  *)
(* of the function.  The block is split behind the call; values that live  *)
(* across it go through stack slots, which mem2reg takes away again; the   *)
(* copy of the function (Cloning) is renamed, its returns become jumps     *)
(* behind the call, the call becomes a jump to the copy.                   *)
(*                                                                         *)
(* Only statements `call' without an output get this far: the parser has   *)
(* none (a builder makes them), and a call_eval still has its type as its  *)
(* first operand when the pass looks at it, because add_statement_output   *)
(* takes it for a conversion to f32 (a missing == 0 at                     *)
(* compiler_common.h:883), so that assert(call_arg) fails.                 *)
(*                                                                         *)
(* Names of blocks, statements and slots are pairs <<text, copies>>: the   *)
(* n-th inlining appends n to the names of what it copies, where the code  *)
(* puts a temporary name in front.                                         *)
(***************************************************************************)
EXTENDS IRGraph, FiniteSets

CONSTANTS
  Programs,   \* programs to start from
  TooLong,    \* functions of more statements are not inlined: 100 in the code
  MaxCopies,  \* bound: the model stops after this many inlined calls
  Fuel        \* Meaning runs at most this many statements

VARIABLES
  P,       \* the program, a record: funcs, the names of the functions in order; by
           \* function blocks and slots; by block params, code and name (its label);
           \* st and edges as in IRGraph; copies, the calls inlined so far
  count,   \* func->statement_count, as it was when the pass began
  pc,      \* "inline", "done", "crash", or "stopped" at the bound
  f, b,    \* the counters of the loops over functions and blocks
  broken,  \* auxiliary: a function of several blocks has been inlined
  meant    \* auxiliary: what the program did at first, and whether it was recursive

vars == <<P, count, pc, f, b, broken, meant>>

Name(s) == <<s, <<>>>>
IsCall(x) == x.op \in {"call", "call_eval"}
IsLookup(x) == x.op = "symbol_lookup"
StatementsOf(Q, fn) == UNION {ToSet(Q.code[blk]) : blk \in ToSet(Q.blocks[fn])}
Find(Q, fn, label) == SelectInSeq(Q.blocks[fn], LAMBDA blk : Q.name[blk] = label)
JumpLabels(x) == {k \in DOMAIN x.args : x.args[k][1] = "text" /\ ~IsLookup(x)}

-----------------------------------------------------------------------------
(* What the function main does: the stores through pointers, the calls of  *)
(* unknown functions and what it returns, as terms over its arguments.     *)
(* No program here has an `if': a function that has one has several blocks. *)

Frame(Q, fn, args) ==
  LET blk == Q.blocks[fn][1]
      ps == Q.params[blk]
  IN [func |-> fn, block |-> blk, k |-> 1, env |-> [v \in ToSet(ps) |-> args[SelectInSeq(ps, LAMBDA p : p = v)]]]

Step(Q, m) ==
  LET n == Len(m.stack)
      fr == m.stack[n]
      s == Q.code[fr.block][fr.k]
      x == Q.st[s]
      T(k) == LET o == x.args[k] IN
              IF o[1] \in {"const", "slot"} THEN o
              ELSE IF o \in DOMAIN fr.env THEN fr.env[o] ELSE <<"undefined">>
      Terms(from) == [k \in 1..(Len(x.args) - from) |-> T(from + k)]
      on == [m EXCEPT !.stack[n].k = @ + 1]
      Lost == [m EXCEPT !.over = TRUE, !.trace = Append(@, <<"lost">>)]
      Given(v) == [on EXCEPT !.stack[n].env = (Out(s) :> v) @@ @]
      Jump ==
        LET to == Find(Q, fr.func, x.args[1][2])
            blk == Q.blocks[fr.func][to]
            ps == Q.params[blk]
        IN IF to = 0 THEN Lost
           ELSE IF Len(ps) # Len(x.args) - 1 THEN Lost
           ELSE [m EXCEPT !.stack[n].block = blk, !.stack[n].k = 1,
                          !.stack[n].env = [v \in ToSet(ps) |-> T(1 + SelectInSeq(ps, LAMBDA p : p = v))] @@ @]
  IN
  IF m.over THEN m
  ELSE IF fr.k > Len(Q.code[fr.block]) THEN Lost
  ELSE CASE x.op = "goto" -> Jump
         [] x.op = "return" -> IF n > 1 THEN [m EXCEPT !.stack = SubSeq(@, 1, n - 1)]
                               ELSE [m EXCEPT !.over = TRUE, !.trace = Append(@, <<"return", T(1)>>)]
         [] IsCall(x) -> IF T(1)[1] = "symbol" /\ T(1)[2] \in ToSet(Q.funcs)
                         THEN [on EXCEPT !.stack = Append(@, Frame(Q, T(1)[2], Terms(1)))]
                         ELSE [on EXCEPT !.trace = Append(@, <<"call", T(1), Terms(1)>>)]
         [] IsLookup(x) -> Given(<<"symbol", x.args[1][2][1]>>)
         [] x.op = "store" -> [on EXCEPT !.mem = (T(1) :> T(2)) @@ @,
                                         !.trace = IF T(1)[1] = "slot" THEN @ ELSE Append(@, <<"store", T(1), T(2)>>)]
         [] x.op = "load" -> Given(IF T(2) \in DOMAIN m.mem THEN m.mem[T(2)] ELSE <<"loaded", T(2)>>)
         [] OTHER -> Given(<<x.op, T(1), T(2)>>)

Meaning(Q) ==
  LET ps == Q.params[Q.blocks["main"][1]]
      start == [stack |-> <<Frame(Q, "main", [k \in DOMAIN ps |-> <<"in", ps[k][2][1]>>])>>,
                mem |-> <<>>, trace |-> <<>>, over |-> FALSE]
  IN Fold(LAMBDA m, k : Step(Q, m), start, [k \in 1..Fuel |-> k]).trace

\* The functions a function looks up by name; a function that gets back to itself.
Calls(Q, fn) ==
  {Q.st[s].args[1][2][1] : s \in {s \in StatementsOf(Q, fn) : IsLookup(Q.st[s])}} \cap ToSet(Q.funcs)
Recursive(Q) ==
  LET reach == Fold(LAMBDA R, n : R \cup UNION {{<<c[1], gn>> : gn \in Calls(Q, c[2])} : c \in R},
                    UNION {{<<fn, gn>> : gn \in Calls(Q, fn)} : fn \in ToSet(Q.funcs)}, Q.funcs)
  IN \E fn \in ToSet(Q.funcs) : <<fn, fn>> \in reach

-----------------------------------------------------------------------------
Init ==
  /\ P \in Programs
  /\ count = [fn \in ToSet(P.funcs) |-> Cardinality(StatementsOf(P, fn))]
  /\ pc = "inline" /\ f = 1 /\ b = 1
  /\ broken = FALSE
  /\ meant = [trace |-> Meaning(P), recursive |-> Recursive(P)]

func == P.funcs[f]
block == P.blocks[func][b]

\* call_index: the first call of the block, 0 if there is none.
CallIndex == SelectInSeq(P.code[block], LAMBDA s : IsCall(P.st[s]))
call == P.st[P.code[block][CallIndex]]
call_arg == call.args[1]

Turn == b' = b + 1 /\ UNCHANGED <<P, count, pc, f, broken, meant>>
Crash == pc' = "crash" /\ UNCHANGED <<P, count, f, b, broken, meant>>

NoCall ==
  /\ pc = "inline" /\ f <= Len(P.funcs) /\ b <= Len(P.blocks[func])
  /\ CallIndex = 0
  /\ Turn

HasCall == pc = "inline" /\ f <= Len(P.funcs) /\ b <= Len(P.blocks[func]) /\ CallIndex # 0

\* assert(call_arg)
CallOfType == HasCall /\ call_arg[1] = "type" /\ Crash

\* The function is a value that is computed, or too long; the calls after it in the
\* block are passed over with it.
Known == call_arg[1] = "ssa" /\ IsLookup(P.st[call_arg[2]])

\* Mutant: find_func compares names with strcmp and forgets == 0.
called_strcmp == SelectSeq(P.funcs, LAMBDA fn : fn # P.st[call_arg[2]].args[1][2][1])[1]

called == P.st[call_arg[2]].args[1][2][1]

CallDynamic == HasCall /\ call_arg[1] # "type" /\ ~Known /\ Turn
\* performs_calls, which would end the turn as well, is set by the emitter and still 0.
CallLong == HasCall /\ Known /\ called \in ToSet(P.funcs) /\ count[called] > TooLong /\ Turn

\* find_func finds nothing, and its result is used.
CallUnknown == HasCall /\ Known /\ called \notin ToSet(P.funcs) /\ Crash

\* The values of the block above the call that no statement above it uses.  One that is
\* used on both sides is not among them: the lower half goes on using the value itself.
AcrossCall(Q, blk, c) ==
  LET above == SubSeq(Q.code[blk], 1, c - 1)
      outs == SelectSeq(above, LAMBDA s : Q.st[s].out)
      values == Q.params[blk] \o [k \in DOMAIN outs |-> Out(outs[k])]
  IN SelectSeq(values, LAMBDA v : \A s \in ToSet(above) : v \notin ToSet(Q.st[s].args))

NewStatement(op, args, out, blk) == [op |-> op, args |-> args, out |-> out, block |-> blk]

\* array_chop: the statements below the call move to the block next.
Chopped(Q, blk, c, next) ==
  LET below == SubSeq(Q.code[blk], c + 1, Len(Q.code[blk])) IN
  [Q EXCEPT !.code = (blk :> SubSeq(Q.code[blk], 1, c)) @@ (next :> below) @@ @,
            !.params = (next :> <<>>) @@ @,
            !.name = (next :> next) @@ @,
            !.st = [s \in DOMAIN @ |-> IF s \in ToSet(below) THEN [@[s] EXCEPT !.block = next] ELSE @[s]]]

\* A value that lives across the call: a lookup is repeated below it, anything else is
\* stored above the call and loaded below it.
Saved(Q, fn, blk, next, v, n, k) ==
  LET lookup == <<"lookup", <<n, k>>>>
      load == <<"load", <<n, k>>>>
      slot == <<"slot", <<"slot", <<n, k>>>>>>
      store == <<"store", <<n, k>>>>
      again == v[1] = "ssa" /\ IsLookup(Q.st[v[2]])
      G == [Q EXCEPT !.st = (store :> NewStatement("store", <<slot, v>>, FALSE, blk))
                              @@ (load :> NewStatement("load", <<<<"type">>, slot>>, TRUE, next)) @@ @,
                     !.code[blk] = InsertAt(@, Len(@), store),
                     !.code[next] = <<load>> \o @,
                     !.slots[fn] = Append(@, slot)]
  IN IF again
     THEN block_replace_statement_val_args(
            [Q EXCEPT !.st = (lookup :> [Q.st[v[2]] EXCEPT !.block = next]) @@ @,
                      !.code[next] = <<lookup>> \o @],
            next, v, Out(lookup))
     ELSE block_replace_statement_val_args(
            connect(connect(connect(G, store, slot), store, v), load, slot), next, v, Out(load))

Split(Q, fn, k, c, next, n) ==
  LET blk == Q.blocks[fn][k]
      across == AcrossCall(Q, blk, c)
      G == Fold(LAMBDA H, j : Saved(H, fn, blk, next, across[j], n, j), Chopped(Q, blk, c, next),
                [j \in DOMAIN across |-> j])
  IN [G EXCEPT !.blocks[fn] = InsertAt(@, k + 1, next)]

\* func_clone: every name of the copy gets the number of the copy.
CopyName(name, n) == <<name[1], Append(name[2], n)>>

CopyOperand(o, n) == IF Tracked(o) THEN <<o[1], CopyName(o[2], n)>> ELSE o

\* Mutant: the copy has no edges.
func_clone_edgeless(Q, g, n) ==
  LET blks == ToSet(Q.blocks[g])
      sts == StatementsOf(Q, g)
      Names(seq) == [k \in DOMAIN seq |-> CopyName(seq[k], n)]
      Operands(seq) == [k \in DOMAIN seq |-> CopyOperand(seq[k], n)]
      Source(S, name) == CHOOSE y \in S : CopyName(y, n) = name
      Onto(S) == {CopyName(y, n) : y \in S}
  IN [Q EXCEPT
        !.code = [blk \in Onto(blks) |-> Names(Q.code[Source(blks, blk)])] @@ @,
        !.params = [blk \in Onto(blks) |-> Operands(Q.params[Source(blks, blk)])] @@ @,
        !.name = [blk \in Onto(blks) |-> Q.name[Source(blks, blk)]] @@ @,
        !.st = [s \in Onto(sts) |-> LET x == Q.st[Source(sts, s)] IN
                  NewStatement(x.op, Operands(x.args), x.out, CopyName(x.block, n))] @@ @]

func_clone(Q, g, n) ==
  LET blks == ToSet(Q.blocks[g])
      sts == StatementsOf(Q, g)
      Names(seq) == [k \in DOMAIN seq |-> CopyName(seq[k], n)]
      Operands(seq) == [k \in DOMAIN seq |-> CopyOperand(seq[k], n)]
      Source(S, name) == CHOOSE y \in S : CopyName(y, n) = name
      Onto(S) == {CopyName(y, n) : y \in S}
      edges == SelectSeq(Q.edges, LAMBDA e : e[2] \in sts)
  IN [Q EXCEPT
        !.code = [blk \in Onto(blks) |-> Names(Q.code[Source(blks, blk)])] @@ @,
        !.params = [blk \in Onto(blks) |-> Operands(Q.params[Source(blks, blk)])] @@ @,
        !.name = [blk \in Onto(blks) |-> Q.name[Source(blks, blk)]] @@ @,
        !.st = [s \in Onto(sts) |-> LET x == Q.st[Source(sts, s)] IN
                  NewStatement(x.op, Operands(x.args), x.out, CopyName(x.block, n))] @@ @,
        !.edges = @ \o [k \in DOMAIN edges |-> <<CopyOperand(edges[k][1], n), CopyName(edges[k][2], n)>>]]

\* Mutant: the returns of the copy are left alone.
Rewritten_returns(Q, g, n, next) ==
  LET blks == {CopyName(blk, n) : blk \in ToSet(Q.blocks[g])} IN
  [Q EXCEPT !.name = [blk \in DOMAIN @ |-> IF blk \in blks THEN <<g, <<n>>>> ELSE @[blk]]]

\* The blocks of the copy: all of them are named after the function; labels get the
\* prefix; a return drops its operand and jumps to the block next.
Rewritten(Q, g, n, next) ==
  LET blks == {CopyName(blk, n) : blk \in ToSet(Q.blocks[g])}
      sts == UNION {ToSet(Q.code[blk]) : blk \in blks}
      returns == SetToSeq({s \in sts : Q.st[s].op = "return"})
      G == Fold(LAMBDA H, s : Fold(LAMBDA K, o : disconnect_all(K, s, o), H, H.st[s].args), Q, returns)
      Prefixed(x) == [x EXCEPT !.args = [k \in DOMAIN @ |-> IF k \in JumpLabels(x) THEN Text(CopyName(@[k][2], n)) ELSE @[k]]]
  IN [G EXCEPT
        !.name = [blk \in DOMAIN @ |-> IF blk \in blks THEN <<g, <<n>>>> ELSE @[blk]],
        !.st = [s \in DOMAIN @ |->
                  IF s \notin sts THEN @[s]
                  ELSE IF @[s].op = "return" THEN [@[s] EXCEPT !.op = "goto", !.args = <<Text(next)>>]
                  ELSE Prefixed(@[s])]]

\* Mutant: the jump goes to the name without the prefix.
Called_plain(Q, fn, k, s, g, n) ==
  LET copies == [j \in DOMAIN Q.blocks[g] |-> CopyName(Q.blocks[g][j], n)]
      G == disconnect(Q, s, Q.st[s].args[1])
  IN [G EXCEPT !.st[s].op = "goto", !.st[s].args[1] = Text(Name(g)),
               !.blocks[fn] = SubSeq(@, 1, k) \o copies \o SubSeq(@, k + 1, Len(@)),
               !.slots[fn] = @ \o [j \in DOMAIN Q.slots[g] |-> CopyOperand(Q.slots[g][j], n)],
               !.copies = n]

\* The call jumps to the copy, whose blocks come right after its own.
Called(Q, fn, k, s, g, n) ==
  LET copies == [j \in DOMAIN Q.blocks[g] |-> CopyName(Q.blocks[g][j], n)]
      G == disconnect(Q, s, Q.st[s].args[1])
  IN [G EXCEPT !.st[s].op = "goto", !.st[s].args[1] = Text(<<g, <<n>>>>),
               !.blocks[fn] = SubSeq(@, 1, k) \o copies \o SubSeq(@, k + 1, Len(@)),
               !.slots[fn] = @ \o [j \in DOMAIN Q.slots[g] |-> CopyOperand(Q.slots[g][j], n)],
               !.copies = n]

Inline ==
  LET n == P.copies + 1
      next == <<"temp", <<n>>>>
      s == P.code[block][CallIndex]
      split == Split(P, func, b, CallIndex, next, n)
  IN
  /\ HasCall /\ Known /\ called \in ToSet(P.funcs) /\ count[called] <= TooLong
  /\ P.copies < MaxCopies
  /\ P' = Called(Rewritten(func_clone(split, called, n), called, n, next), func, b, s, called, n)
  /\ broken' = (broken \/ Len(split.blocks[called]) > 1)
  /\ b' = b + 1
  /\ UNCHANGED <<count, pc, f, meant>>

\* Where the model stops; the code goes on.
AtBound ==
  /\ HasCall /\ Known /\ called \in ToSet(P.funcs) /\ count[called] <= TooLong
  /\ P.copies = MaxCopies
  /\ pc' = "stopped"
  /\ UNCHANGED <<P, count, f, b, broken, meant>>

NextFunction ==
  /\ pc = "inline" /\ f <= Len(P.funcs) /\ b > Len(P.blocks[func])
  /\ f' = f + 1 /\ b' = 1
  /\ UNCHANGED <<P, count, pc, broken, meant>>

\* _block_edges_fix asserts that every label is found.
Finish ==
  /\ pc = "inline" /\ f > Len(P.funcs)
  /\ pc' = IF \A fn \in ToSet(P.funcs) : \A s \in StatementsOf(P, fn) : \A k \in JumpLabels(P.st[s]) :
                Find(P, fn, P.st[s].args[k][2]) # 0
           THEN "done" ELSE "crash"
  /\ UNCHANGED <<P, count, f, b, broken, meant>>

Stop == pc \in {"done", "crash", "stopped"} /\ UNCHANGED vars

Next == NoCall \/ CallOfType \/ CallDynamic \/ CallLong \/ CallUnknown \/ Inline \/ AtBound \/ NextFunction \/ Finish \/ Stop

Spec == Init /\ [][Next]_vars
-----------------------------------------------------------------------------
(* Properties *)

TypeOK ==
  /\ pc \in {"inline", "done", "crash", "stopped"}
  /\ f \in 1..(Len(P.funcs) + 1)
  /\ b \in 1..(IF f > Len(P.funcs) THEN 1 ELSE Len(P.blocks[func]) + 1)
  /\ \A fn \in ToSet(P.funcs) : ToSet(P.blocks[fn]) \subseteq DOMAIN P.code
  /\ \A blk \in DOMAIN P.code : ToSet(P.code[blk]) \subseteq DOMAIN P.st
  /\ \A e \in ToSet(P.edges) : Tracked(e[1]) /\ e[2] \in DOMAIN P.st

\* A program without calls of functions of several blocks does the same after every
\* inlined call: the arguments arrive, the stores of the function happen where the call
\* stood, what lives across the call survives it, two copies share nothing.
MeaningKept == ~broken => Meaning(P) = meant.trace

\* Every operand keeps its edge through the split, the copy and the rewriting.
UsesCounted ==
  \A fn \in ToSet(P.funcs) : \A s \in StatementsOf(P, fn) : \A v \in ToSet(P.st[s].args) :
    Tracked(v) => \E k \in DOMAIN P.edges : P.edges[k] = <<v, s>>

\* The blocks of one function are not shared with another, and a statement is in the
\* block it says it is in: rewriting one copy leaves the others alone.
CopiesDisjoint ==
  /\ \A fn, gn \in ToSet(P.funcs) : fn # gn => ToSet(P.blocks[fn]) \cap ToSet(P.blocks[gn]) = {}
  /\ \A fn \in ToSet(P.funcs) : \A blk \in ToSet(P.blocks[fn]) : \A s \in ToSet(P.code[blk]) : P.st[s].block = blk

\* An assertion fails, or a null pointer is used, for three reasons only: a call that
\* gives a value, a call of a function that is not in the program, or a function of
\* several blocks, all of which get the same name.
CrashExplained ==
  pc = "crash" =>
    \/ broken
    \/ f <= Len(P.funcs) /\ CallIndex # 0 /\ (call_arg[1] # "type" => Known /\ called \notin ToSet(P.funcs))

\* The pass comes to its end unless a function of the program is recursive: what it
\* copies is looked at again, and nothing stops it from inlining a function into a copy
\* of itself.
EndsUnlessRecursive == pc = "stopped" => meant.recursive

\* The graph is well-formed, its edges are complete and its functions apart.
GraphSound == TypeOK /\ UsesCounted /\ CopiesDisjoint
=============================================================================
