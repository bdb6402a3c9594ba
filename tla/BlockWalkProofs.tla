-------------------------- MODULE BlockWalkProofs --------------------------
(***************************************************************************)
(* The code that BlockEmission emits walks the control-flow graph, for     *)
(* every program that is a graph (IsGraph), and the compiler gives up for  *)
(* no other reason than CrashJustified names.                              *)
(*                                                                         *)
(* Every instruction has a position: a block of a function and a part of   *)
(* the block.  The invariant says what stands at a position, which         *)
(* position may follow which, and what the machine must have done when it  *)
(* gets there.                                                             *)
(***************************************************************************)
EXTENDS BlockEmissionProofs

-----------------------------------------------------------------------------
(* Positions *)

Parts == {"start", "refs", "body", "test", "jz", "yes", "toyes", "no", "tono", "ret"}

Pos(f, b, part) == [f |-> f, b |-> b, part |-> part]

BlocksOf(p) == program.funcs[p.f].blocks
TermAt(p) == BlocksOf(p)[p.b].term

\* A jump of a block to the block of this name in the same function.
IsJump(i, p, name) ==
  i.op = "jmp" /\ i.ref = Ref("label", name) /\ i.want = <<p.f, Graph!FindBlock(program.funcs[p.f], name)>>

\* A reference of a block.
IsReference(i, p) ==
  \/ i.op = "load" /\ i.ref.kind = "static"
  \/ i.op = "lea" /\ i.ref.kind = "symbol" /\ i.ref \in ToSet(BlocksOf(p)[p.b].refs)

\* What stands at a position.
Stands(i, p) ==
  /\ p.part \in Parts /\ p.f \in 1..Len(program.funcs) /\ p.b \in 1..Len(BlocksOf(p))
  /\ p.part \notin {"refs", "toyes", "tono"} => i.ref.kind = "none"
  /\ p.part = "start" => i.op \in {"nop", "prologue"}
  /\ p.part = "refs" => IsReference(i, p)
  /\ p.part = "body" => i.op = "body" /\ i.want = Graph!Ran(p.f, p.b, FALSE)
  /\ p.part = "test" => i.op = "test"
  /\ p.part = "jz" => i.op = "jz" /\ i.disp = InstLen["shuffle"] + InstLen["jmp"]
  /\ p.part = "yes" => i.op = "shuffle" /\ i.want = Graph!Shuffled(p.f, p.b, TRUE)
  /\ p.part = "toyes" => IsJump(i, p, TermAt(p).yes.to)
  /\ p.part = "no" => i.op = "shuffle" /\ i.want = Graph!Shuffled(p.f, p.b, FALSE)
  /\ p.part = "tono" => IsJump(i, p, TermAt(p).no.to)
  /\ p.part = "ret" => i.op = "ret" /\ TermAt(p).op = "return"
  /\ p.part \in {"test", "jz", "no", "tono"} => TermAt(p).op = "if"
  /\ p.part \in {"yes", "toyes"} => TermAt(p).op \in {"goto", "if"}

\* The beginning of a block.
Enters(q, f, b) == q.f = f /\ q.b = b /\ q.part \in {"refs", "body"}

\* The block b of p's function is entered without a jump.
Falls(p, q, name) ==
  p.b < Len(BlocksOf(p)) /\ BlocksOf(p)[p.b + 1].name = name /\ Enters(q, p.f, p.b + 1)

AfterBody(t) ==
  IF t.op = "return" THEN "ret"
  ELSE IF t.op = "goto" THEN "yes"
  ELSE IF t.cond = "value" THEN "test" ELSE "jz"

\* Which position may follow which.  Anything may follow a return or a last jump.
Follows(p, q) ==
  LET Here(part) == q.f = p.f /\ q.b = p.b /\ q.part = part IN
  /\ p.part = "start" => Here("start") \/ Enters(q, p.f, 1)
  /\ p.part = "refs" => Enters(q, p.f, p.b)
  /\ p.part = "body" => Here(AfterBody(TermAt(p)))
  /\ p.part = "test" => Here("jz")
  /\ p.part = "jz" => Here("yes")
  /\ p.part = "yes" => Here("toyes") \/ (TermAt(p).op = "goto" /\ Falls(p, q, TermAt(p).yes.to))
  /\ p.part = "toyes" /\ TermAt(p).op = "if" => Here("no")
  /\ p.part = "no" => Here("tono") \/ Falls(p, q, TermAt(p).no.to)

\* Where the next instruction will be.
Awaited(q) ==
  \/ pc = "function" /\ q.f = loop.f /\ q.b = 1 /\ q.part = "start"
  \/ pc = "block" /\ loop.b <= Len(func.blocks) /\ Enters(q, loop.f, loop.b)
  \/ pc = "block" /\ loop.b > Len(func.blocks)
  \/ pc = "statement" /\ Enters(q, loop.f, loop.b)

\* Blocks that have a start offset.
Begun(f, b) ==
  /\ f \in 1..Len(program.funcs) /\ b \in 1..Len(program.funcs[f].blocks)
  /\ \/ f < loop.f
     \/ f = loop.f /\ pc = "block" /\ b < loop.b
     \/ f = loop.f /\ pc = "statement" /\ b <= loop.b

\* What the machine has done when it gets to a position.
Arriving(p) ==
  \/ at = Graph!Idle /\ p.b = 1
  \/ /\ at.kind = "shuffle" /\ at.f = p.f
     /\ Graph!FindBlock(program.funcs[p.f], Graph!Taken(Graph!Term, at.cond).to) = p.b

Expected(p) ==
  /\ p.part = "start" => at = Graph!Idle
  /\ p.part \in {"refs", "body"} => Arriving(p)
  /\ p.part \in {"test", "ret"} => \E c \in BOOLEAN : at = Graph!Ran(p.f, p.b, c)
  /\ p.part = "jz" => at = Graph!Ran(p.f, p.b, flags)
  /\ p.part = "yes" => at = Graph!Ran(p.f, p.b, TRUE)
  /\ p.part = "no" => at = Graph!Ran(p.f, p.b, FALSE)
  /\ p.part = "toyes" => at = Graph!Shuffled(p.f, p.b, TRUE)
  /\ p.part = "tono" => at = Graph!Shuffled(p.f, p.b, FALSE)

-----------------------------------------------------------------------------
(* The invariant *)

Standing(pos) == DOMAIN pos = DOMAIN code /\ \A k \in DOMAIN code : Stands(code[k], pos[k])

InOrder(pos) == \A k \in 1..(Len(code) - 1) : Follows(pos[k], pos[k + 1])

Open(pos) == Emitting /\ Len(code) > 0 => \A q : Awaited(q) => Follows(pos[Len(code)], q)

StartsLead(pos) ==
  \A f, b : Begun(f, b) => \A k \in DOMAIN code : code[k].at = starts[f][b] => Enters(pos[k], f, b)

SymbolsLead(pos) ==
  \A i \in DOMAIN symbols : \A k \in DOMAIN code : code[k].at = symbols[i].loc => pos[k].part = "start"

Walking(pos) ==
  pc = "running" => \A k \in DOMAIN code : ip = jit[1] + code[k].at => Expected(pos[k])

Described(pos) ==
  Standing(pos) /\ InOrder(pos) /\ Open(pos) /\ StartsLead(pos) /\ SymbolsLead(pos) /\ Walking(pos)

\* Start offsets and symbols point into the code, a start offset to its end only as
\* long as the block is empty.
Marks ==
  Emitting =>
    /\ \A f, b : Begun(f, b) =>
         /\ starts[f][b] <= code_len
         /\ starts[f][b] = code_len => f = loop.f /\ b = loop.b /\ pc = "statement"
    /\ \A i \in DOMAIN symbols : symbols[i].loc < code_len

\* Symbols and globals have the names of the program's functions and globals.
NamesKept ==
  /\ pc \notin {"idle", "freed", "crash"} =>
       /\ Len(symbols) = IF pc \in {"block", "statement"} THEN loop.f ELSE loop.f - 1
       /\ \A i \in DOMAIN symbols : symbols[i].name = program.funcs[i].name
       /\ Len(globals) <= Len(program.globals)
       /\ \A i \in DOMAIN globals : globals[i].name = program.globals[i].name
       /\ pc # "globals" => Len(globals) = Len(program.globals)
  /\ pc = "idle" => symbols = <<>> /\ globals = <<>>

\* Nothing has been run yet, or all of it.
AtRest ==
  /\ pc \notin {"running", "ran", "freed"} => at = Graph!Idle
  /\ pc # "running" => at \in {Graph!Idle, Graph!Returned}

Walk ==
  /\ IsGraph(program) /\ Marks /\ NamesKept /\ AtRest /\ CrashJustified
  /\ pc \notin {"freed", "crash"} => \E pos : Described(pos)

-----------------------------------------------------------------------------
(* Graphs and emitted code *)

\* What IsGraph says, by index.
LEMMA GraphIs ==
  ASSUME IsProgram(program), IsGraph(program), NEW f \in 1..Len(program.funcs)
  PROVE  LET bs == program.funcs[f].blocks IN
         /\ Len(bs) \in Nat /\ Len(bs) >= 1 /\ DOMAIN bs = 1..Len(bs)
         /\ \A i, j \in 1..Len(bs) : bs[i].name = bs[j].name => i = j
         /\ \A b \in 1..Len(bs) :
              /\ bs[b].term.op \in {"goto", "if"} => \E j \in 1..Len(bs) : bs[j].name = bs[b].term.yes.to
              /\ bs[b].term.op = "if" => /\ \E j \in 1..Len(bs) : bs[j].name = bs[b].term.no.to
                                         /\ bs[b].term.cond \in {"value", "compared"}
<1> DEFINE bs == program.funcs[f].blocks
<1>1. IsSeq(bs) /\ Len(bs) \in Nat /\ DOMAIN bs = 1..Len(bs)
  BY ProgramIs, SeqIs
<1>2. program.funcs[f] \in ToSet(program.funcs)
  <2>1. DOMAIN program.funcs = 1..Len(program.funcs)
    BY ProgramIs, SeqIs
  <2> QED BY <2>1 DEF ToSet
<1>3. /\ bs # <<>>
      /\ \A i, j \in DOMAIN bs : bs[i].name = bs[j].name => i = j
      /\ \A b \in ToSet(bs) :
           /\ b.term.op \in {"goto", "if"} => b.term.yes.to \in {c.name : c \in ToSet(bs)}
           /\ b.term.op = "if" => /\ b.term.no.to \in {c.name : c \in ToSet(bs)}
                                  /\ b.term.cond \in {"value", "compared"}
  BY <1>2 DEF IsGraph
<1> HIDE DEF bs
<1>4. Len(bs) >= 1
  BY <1>1, <1>3 DEF IsSeq
<1>5. \A x : x \in {c.name : c \in ToSet(bs)} => \E j \in 1..Len(bs) : bs[j].name = x
  BY <1>1 DEF ToSet
<1>6. \A b \in 1..Len(bs) : bs[b] \in ToSet(bs)
  BY <1>1 DEF ToSet
<1> QED BY <1>1, <1>3, <1>4, <1>5, <1>6 DEF bs

\* A block is found by its name.
LEMMA FindIs ==
  ASSUME IsProgram(program), IsGraph(program), NEW f \in 1..Len(program.funcs),
         NEW b \in 1..Len(program.funcs[f].blocks)
  PROVE  Graph!FindBlock(program.funcs[f], program.funcs[f].blocks[b].name) = b
BY GraphIs DEF Graph!FindBlock

\* The target of a jump is a block.
LEMMA FoundIs ==
  ASSUME IsProgram(program), IsGraph(program), NEW f \in 1..Len(program.funcs),
         NEW name, \E j \in 1..Len(program.funcs[f].blocks) : program.funcs[f].blocks[j].name = name
  PROVE  LET b == Graph!FindBlock(program.funcs[f], name)
         IN b \in 1..Len(program.funcs[f].blocks) /\ program.funcs[f].blocks[b].name = name
BY DEF Graph!FindBlock

\* What Emit adds to the code.
LEMMA EmitIs ==
  ASSUME WellLaid(code, code_len), code_len = EndOf(code), WellLaid(code', code_len'),
         NEW is, IsSeq(is), Len(is) > 0, \A n \in 1..Len(is) : IsBare(is[n]), Emit(is)
  PROVE  /\ Len(code) \in Nat /\ Len(is) \in Nat /\ code_len \in Nat /\ code_len' \in Nat
         /\ DOMAIN code = 1..Len(code) /\ DOMAIN code' = 1..Len(code')
         /\ Len(code') = Len(code) + Len(is)
         /\ \A k \in 1..Len(code) : code'[k] = code[k] /\ code[k].at \in Nat /\ code[k].at < code_len
         /\ \A n \in 1..Len(is) : LET i == code'[Len(code) + n] IN
              /\ i.op = is[n].op /\ i.ref = is[n].ref /\ i.want = is[n].want /\ i.disp = is[n].disp
              /\ i.at \in Nat /\ i.at >= code_len /\ (i.at = code_len => n = 1) /\ i.at < code_len'
         /\ code'[Len(code) + 1].at = code_len
<1> DEFINE p == Placed(code_len, is)
<1>1. IsSeq(code) /\ IsSeq(code') /\ code_len \in Nat /\ code_len' \in Nat
  BY DEF WellLaid
<1>2. /\ Len(code) \in Nat /\ Len(is) \in Nat /\ DOMAIN code = 1..Len(code) /\ DOMAIN code' = 1..Len(code')
      /\ Len(code') \in Nat
  BY <1>1, SeqIs
<1>3. /\ IsSeq(p) /\ Len(p) = Len(is)
      /\ \A n \in 1..Len(is) : /\ IsInst(p[n])
                               /\ p[n].op = is[n].op /\ p[n].ref = is[n].ref /\ p[n].want = is[n].want
                               /\ p[n].at = code_len + Ends(is)[n - 1]
                               /\ End(p[n]) = code_len + Ends(is)[n]
  BY <1>1, PlacedIs
<1>4. \A n \in 1..Len(is) : p[n].disp = is[n].disp
  BY DEF Placed
<1>5. code' = code \o p
  BY DEF Emit
<1>6. Ends(is)[0] = 0
  <2>1. \A n \in 1..Len(is) : InstLen[is[n].op] \in Nat
    BY InstLenIs DEF IsBare
  <2> QED BY <1>2, <2>1, EndsIs
<1> HIDE DEF p
<1>7. /\ Len(code') = Len(code) + Len(is)
      /\ \A k \in 1..Len(code) : code'[k] = code[k]
      /\ \A n \in 1..Len(is) : code'[Len(code) + n] = p[n]
  <2>0. IsSeq(code) /\ IsSeq(p)
    BY <1>1, <1>3
  <2>1. /\ Len(code \o p) = Len(code) + Len(p)
        /\ \A k \in 1..Len(code) : (code \o p)[k] = code[k]
        /\ \A n \in 1..Len(p) : (code \o p)[Len(code) + n] = p[n]
    BY <2>0, ConcatIs
  <2> QED BY <2>1, <1>3, <1>5
<1>8. code'[Len(code) + 1].at = code_len
  <2>1. 1 \in 1..Len(is) /\ 1 - 1 = 0
    BY <1>2
  <2>2. p[1].at = code_len + Ends(is)[1 - 1]
    BY <1>3, <2>1
  <2> QED BY <1>1, <1>6, <1>7, <2>1, <2>2
<1>9. ASSUME NEW k \in 1..Len(code)
      PROVE  code[k].at \in Nat /\ code[k].at < code_len
  <2>1. IsInst(code[k]) /\ End(code[k]) <= code_len
    BY DEF WellLaid
  <2> QED BY <1>1, <2>1, InstEnds
<1>10. ASSUME NEW n \in 1..Len(is)
       PROVE  LET i == code'[Len(code) + n] IN
              i.at \in Nat /\ i.at >= code_len /\ (i.at = code_len => n = 1) /\ i.at < code_len'
  <2> DEFINE k == Len(code) + n
             j == Len(code) + 1
  <2>1. k \in 1..Len(code') /\ j \in 1..Len(code') /\ (n # 1 => j < k)
    BY <1>2, <1>7
  <2> HIDE DEF k
  <2>2. IsInst(code'[k]) /\ IsInst(code'[j])
    BY <2>1 DEF WellLaid
  <2>3. /\ code'[k].at \in Nat /\ End(code'[k]) \in Nat /\ End(code'[k]) > code'[k].at
        /\ End(code'[j]) \in Nat /\ End(code'[j]) > code'[j].at
    BY <2>2, InstEnds
  <2>4. n # 1 => End(code'[j]) <= code'[k].at
    BY <2>1 DEF WellLaid
  <2>5. End(code'[k]) <= code_len'
    BY <2>1 DEF WellLaid
  <2>6. n = 1 => k = j
    BY DEF k
  <2> QED BY <1>1, <1>8, <2>3, <2>4, <2>5, <2>6 DEF k
<1> QED BY <1>1, <1>2, <1>3, <1>4, <1>7, <1>8, <1>9, <1>10

\* The same instruction, or one that was relocated, at the same position.
LEMMA StandsAgain ==
  ASSUME UNCHANGED program, NEW i, NEW p, NEW k, Stands(i, p),
         code'[k].op = i.op, code'[k].ref = i.ref, code'[k].want = i.want,
         i.ref.kind = "none" => code'[k].disp = i.disp
  PROVE  Stands(code[k], p)'
<1>1. BlocksOf(p)' = BlocksOf(p) /\ TermAt(p)' = TermAt(p)
  BY DEF BlocksOf, TermAt
<1>2. IsReference(i, p) => IsReference(code[k], p)'
  BY <1>1 DEF IsReference
<1>3. \A name : IsJump(i, p, name) => IsJump(code[k], p, name)'
  BY DEF IsJump, Graph!FindBlock
<1> QED BY <1>1, <1>2, <1>3 DEF Stands

\* The order of positions is that of the program.
LEMMA FollowsAgain ==
  ASSUME UNCHANGED program, NEW p, NEW q
  PROVE  Follows(p, q)' <=> Follows(p, q)
<1>1. BlocksOf(p)' = BlocksOf(p) /\ TermAt(p)' = TermAt(p)
  BY DEF BlocksOf, TermAt
<1> QED BY <1>1 DEF Follows, Falls, Enters

\* No block begins.
BegunKept == \A f, b : Begun(f, b)' => Begun(f, b)

\* Emission goes on at the positions that are awaited.
LEMMA Extend ==
  ASSUME IInv, IInv', Marks, pc \in {"function", "block", "statement"}, NEW pos, Described(pos),
         UNCHANGED <<program, starts>>, BegunKept,
         NEW is, IsSeq(is), Len(is) > 0, \A n \in 1..Len(is) : IsBare(is[n]), Emit(is),
         NEW more, \A n \in 1..Len(is) : Stands(is[n], more[n]),
         \A n \in 1..(Len(is) - 1) : Follows(more[n], more[n + 1]),
         Awaited(more[1])
  PROVE  \E new : /\ Standing(new)' /\ InOrder(new)' /\ StartsLead(new)'
                  /\ \A k \in 1..Len(code) : new[k] = pos[k]
                  /\ \A n \in 1..Len(is) : new[Len(code) + n] = more[n]
<1> DEFINE N == Len(code)
           M == Len(is)
<1>1. WellLaid(code, code_len) /\ code_len = EndOf(code) /\ WellLaid(code', code_len')
  BY DEF IInv, Layout, Emitting
<1>2. /\ N \in Nat /\ M \in Nat /\ code_len \in Nat
      /\ DOMAIN code = 1..N /\ DOMAIN code' = 1..(N + M) /\ Len(code') = N + M
      /\ \A k \in 1..N : code'[k] = code[k] /\ code[k].at \in Nat /\ code[k].at < code_len
      /\ \A n \in 1..M : LET i == code'[N + n] IN
           /\ i.op = is[n].op /\ i.ref = is[n].ref /\ i.want = is[n].want /\ i.disp = is[n].disp
           /\ i.at \in Nat /\ i.at >= code_len /\ (i.at = code_len => n = 1)
  BY <1>1, EmitIs
<1> HIDE DEF N, M
<1>3. M >= 1
  BY <1>2 DEF M
<1>4. PICK new : new = [k \in 1..(N + M) |-> IF k <= N THEN pos[k] ELSE more[k - N]]
  OBVIOUS
<1>5. DOMAIN new = 1..(N + M) /\ \A k \in 1..N : new[k] = pos[k]
  BY <1>2, <1>4
<1>6. \A n \in 1..M : N + n \in 1..(N + M) /\ new[N + n] = more[n]
  BY <1>2, <1>4
<1>7. \A k \in 1..(N + M) : k \in 1..N \/ \E n \in 1..M : k = N + n
  <2>1. SUFFICES ASSUME NEW k \in 1..(N + M), k \notin 1..N PROVE \E n \in 1..M : k = N + n
    OBVIOUS
  <2>2. k - N \in 1..M /\ k = N + (k - N)
    BY <2>1, <1>2
  <2> QED BY <2>2
<1>8. Standing(new)'
  <2>1. ASSUME NEW k \in 1..N PROVE Stands(code[k], new[k])'
    <3>1. Stands(code[k], pos[k])
      BY <1>2 DEF Described, Standing
    <3> QED BY <3>1, <1>2, <1>5, StandsAgain
  <2>2. ASSUME NEW k, NEW n \in 1..M, k = N + n PROVE Stands(code[k], new[k])'
    <3>1. Stands(is[n], more[n])
      BY DEF M
    <3>2. Stands(code[k], more[n])'
      BY <2>2, <3>1, <1>2, StandsAgain
    <3> QED BY <2>2, <3>2, <1>6
  <2>3. \A k \in 1..(N + M) : Stands(code[k], new[k])'
    BY <2>1, <2>2, <1>7
  <2> QED BY <2>3, <1>2, <1>5 DEF Standing
<1>9. InOrder(new)'
  <2>1. SUFFICES ASSUME NEW k \in 1..((N + M) - 1) PROVE Follows(new[k], new[k + 1])
    BY <1>2, FollowsAgain DEF InOrder
  <2>2. CASE k < N
    <3>1. Follows(pos[k], pos[k + 1])
      BY <1>2, <2>2 DEF Described, InOrder, N
    <3> QED BY <3>1, <1>2, <1>5, <2>2
  <2>3. CASE k = N
    <3>1. N > 0 /\ Emitting
      BY <2>3, <1>2 DEF Emitting
    <3>2. Follows(pos[N], more[1])
      BY <3>1 DEF Described, Open, N
    <3> QED BY <3>1, <3>2, <2>3, <1>2, <1>3, <1>5, <1>6
  <2>4. CASE k > N
    <3> DEFINE n == k - N
    <3>1. n \in 1..(M - 1) /\ n \in 1..M /\ n + 1 \in 1..M /\ k = N + n /\ k + 1 = N + (n + 1)
      BY <2>4, <1>2, <1>3
    <3> HIDE DEF n
    <3>2. Follows(more[n], more[n + 1])
      BY <3>1 DEF M
    <3>3. new[k] = more[n] /\ new[k + 1] = more[n + 1]
      BY <3>1, <1>6
    <3> QED BY <3>2, <3>3
  <2> QED BY <2>2, <2>3, <2>4, <1>2
<1>10. StartsLead(new)'
  <2>1. SUFFICES ASSUME NEW f, NEW b, Begun(f, b), NEW k \in 1..(N + M), code'[k].at = starts[f][b]
                 PROVE  Enters(new[k], f, b)
    BY <1>2 DEF StartsLead, BegunKept, Enters
  <2>2. CASE k \in 1..N
    BY <2>1, <2>2, <1>2, <1>5 DEF Described, StartsLead
  <2>3. CASE k \notin 1..N
    <3>1. PICK n \in 1..M : k = N + n
      BY <2>3, <1>7
    <3>2. /\ starts[f][b] <= code_len
          /\ starts[f][b] = code_len => f = loop.f /\ b = loop.b /\ pc = "statement"
      BY <2>1 DEF Marks, Emitting
    <3>3. code'[k].at \in Nat /\ code'[k].at >= code_len /\ (code'[k].at = code_len => n = 1)
      BY <3>1, <1>2
    <3>4. code'[k].at = code_len
      BY <3>2, <3>3, <2>1, <1>2
    <3>5. n = 1 /\ f = loop.f /\ b = loop.b /\ pc = "statement"
      BY <3>2, <3>3, <3>4, <2>1
    <3>6. Enters(more[1], f, b)
      BY <3>5 DEF Awaited
    <3> QED BY <3>1, <3>5, <3>6, <1>6
  <2> QED BY <2>2, <2>3
<1> QED BY <1>5, <1>6, <1>8, <1>9, <1>10 DEF N, M

\* n instructions take up n bytes or more.
LEMMA EndsGrow ==
  ASSUME NEW is, Len(is) \in Nat, \A n \in 1..Len(is) : IsBare(is[n])
  PROVE  \A n \in 0..Len(is) : Ends(is)[n] \in Nat /\ Ends(is)[n] >= n
<1> DEFINE e == Ends(is)
           S == {n \in 0..Len(is) : ~(e[n] >= n)}
<1>1. \A n \in 1..Len(is) : InstLen[is[n].op] \in Nat /\ InstLen[is[n].op] >= 1
  BY InstLenIs DEF IsBare
<1>2. /\ e \in [0..Len(is) -> Nat]
      /\ e[0] = 0
      /\ \A n \in 1..Len(is) : e[n] = e[n - 1] + InstLen[is[n].op]
  BY <1>1, EndsIs
<1> HIDE DEF e
<1>3. S = {}
  <2>1. SUFFICES ASSUME S # {} PROVE FALSE
    OBVIOUS
  <2>2. S \subseteq Nat
    OBVIOUS
  <2>3. PICK x \in S : \A y \in S : x <= y
    <3> HIDE DEF S
    <3> QED BY <2>1, <2>2, LeastIs
  <2>4. x \in 1..Len(is)
    BY <2>3, <1>2
  <2>5. x - 1 \in 0..Len(is) /\ x - 1 \notin S
    BY <2>3, <2>4
  <2>6. e[x - 1] >= x - 1 /\ e[x - 1] \in Nat
    BY <2>5, <1>2
  <2>7. e[x] = e[x - 1] + InstLen[is[x].op] /\ InstLen[is[x].op] \in Nat /\ InstLen[is[x].op] >= 1
    BY <2>4, <1>1, <1>2
  <2> QED BY <2>3, <2>4, <2>6, <2>7
<1> QED BY <1>2, <1>3 DEF e

\* Symbols are those before, or one is added at the start of a function.
SymbolsGrow(is, more) ==
  \A i \in DOMAIN symbols' :
    \/ i \in DOMAIN symbols /\ symbols'[i] = symbols[i]
    \/ /\ symbols'[i].loc \in code_len..(code_len' - 1)
       /\ \A n \in 1..Len(is) : more[n].part = "start"

\* Emission keeps the description of the code.
LEMMA EmitDescribed ==
  ASSUME IInv, IInv', Marks, pc \in {"function", "block", "statement"}, pc' \in {"block", "statement"},
         NEW pos, Described(pos),
         UNCHANGED <<program, starts>>, BegunKept,
         NEW is, IsSeq(is), Len(is) > 0, \A n \in 1..Len(is) : IsBare(is[n]), Emit(is),
         NEW more, \A n \in 1..Len(is) : Stands(is[n], more[n]),
         \A n \in 1..(Len(is) - 1) : Follows(more[n], more[n + 1]),
         Awaited(more[1]),
         SymbolsGrow(is, more),
         \A q : Awaited(q)' => Follows(more[Len(is)], q)
  PROVE  Marks' /\ \E new : Described(new)'
<1>1. WellLaid(code, code_len) /\ code_len = EndOf(code) /\ WellLaid(code', code_len')
  BY DEF IInv, Layout, Emitting
<1>2. /\ Len(code) \in Nat /\ Len(is) \in Nat /\ code_len \in Nat /\ code_len' \in Nat
      /\ DOMAIN code = 1..Len(code) /\ DOMAIN code' = 1..Len(code') /\ Len(code') = Len(code) + Len(is)
      /\ \A k \in 1..Len(code) : code'[k] = code[k] /\ code[k].at \in Nat /\ code[k].at < code_len
      /\ \A n \in 1..Len(is) : LET i == code'[Len(code) + n] IN i.at \in Nat /\ i.at >= code_len
  BY <1>1, EmitIs
<1>3. code_len' > code_len
  <2>1. code_len' = code_len + Ends(is)[Len(is)]
    BY DEF Emit
  <2>2. \A n \in 0..Len(is) : Ends(is)[n] \in Nat /\ Ends(is)[n] >= n
    BY <1>2, EndsGrow
  <2>3. Len(is) \in 0..Len(is)
    BY <1>2
  <2> QED BY <2>1, <2>2, <2>3, <1>2
<1>4. Marks'
  <2>1. \A f, b : Begun(f, b)' => starts'[f][b] <= code_len
    BY DEF BegunKept, Marks, Emitting
  <2>2. \A f, b : Begun(f, b) => starts[f][b] \in Nat
    BY DEF Begun, IInv, StartsTyped
  <2>3. \A f, b : Begun(f, b)' => starts'[f][b] < code_len'
    BY <2>1, <2>2, <1>2, <1>3 DEF BegunKept
  <2>4. \A i \in DOMAIN symbols' : symbols'[i].loc < code_len'
    <3>1. \A i \in DOMAIN symbols : symbols[i].loc < code_len /\ symbols[i].loc \in Nat
      BY DEF Marks, Emitting, IInv, Data
    <3> QED BY <3>1, <1>2, <1>3 DEF SymbolsGrow
  <2>5. \A f, b : Begun(f, b)' => starts'[f][b] \in Nat
    BY <2>2 DEF BegunKept
  <2>6. \A f, b : Begun(f, b)' => starts'[f][b] <= code_len' /\ ~(starts'[f][b] = code_len')
    BY <2>3, <2>5, <1>2
  <2> QED BY <2>4, <2>6 DEF Marks
<1>5. PICK new : /\ Standing(new)' /\ InOrder(new)' /\ StartsLead(new)'
                 /\ \A k \in 1..Len(code) : new[k] = pos[k]
                 /\ \A n \in 1..Len(is) : new[Len(code) + n] = more[n]
  BY Extend
<1>6. Open(new)'
  <2>1. new[Len(code')] = more[Len(is)]
    BY <1>2, <1>5
  <2> QED BY <2>1, FollowsAgain DEF Open
<1>7. SymbolsLead(new)'
  <2>1. SUFFICES ASSUME NEW i \in DOMAIN symbols', NEW k \in 1..Len(code'), code'[k].at = symbols'[i].loc
                 PROVE  new[k].part = "start"
    BY <1>2 DEF SymbolsLead
  <2>2. CASE i \in DOMAIN symbols /\ symbols'[i] = symbols[i]
    <3>1. symbols[i].loc < code_len /\ symbols[i].loc \in Nat
      BY <2>2 DEF Marks, Emitting, IInv, Data
    <3>2. k \in 1..Len(code)
      <4>1. SUFFICES ASSUME k \notin 1..Len(code) PROVE FALSE
        OBVIOUS
      <4> DEFINE n == k - Len(code)
      <4>2. n \in 1..Len(is) /\ k = Len(code) + n
        BY <4>1, <1>2
      <4> HIDE DEF n
      <4>3. code'[k].at \in Nat /\ code'[k].at >= code_len
        BY <4>2, <1>2
      <4> QED BY <4>3, <3>1, <2>1, <2>2, <1>2
    <3> QED BY <3>2, <2>1, <2>2, <1>2, <1>5 DEF Described, SymbolsLead
  <2>3. CASE ~(i \in DOMAIN symbols /\ symbols'[i] = symbols[i])
    <3>1. symbols'[i].loc >= code_len /\ symbols'[i].loc \in Nat /\ \A n \in 1..Len(is) : more[n].part = "start"
      BY <2>3, <1>2 DEF SymbolsGrow
    <3>2. k \notin 1..Len(code)
      BY <3>1, <2>1, <1>2
    <3> DEFINE n == k - Len(code)
    <3>3. n \in 1..Len(is) /\ k = Len(code) + n
      BY <3>2, <1>2
    <3> HIDE DEF n
    <3> QED BY <3>1, <3>3, <1>5
  <2> QED BY <2>2, <2>3
<1>8. Walking(new)'
  BY DEF Walking
<1> QED BY <1>4, <1>5, <1>6, <1>7, <1>8 DEF Described

-----------------------------------------------------------------------------
(* compile_file *)

\* The code does not run and the compiler has not given up.
LEMMA QuietRest ==
  ASSUME Walk, pc \notin {"running", "ran", "freed"}, pc' \notin {"crash"}, UNCHANGED machine
  PROVE  AtRest' /\ CrashJustified'
BY DEF Walk, AtRest, CrashJustified, machine

\* A function's padding and prologue are its start.
LEMMA BeginFunctionWalks ==
  ASSUME IInv, IInv', Walk, BeginFunction
  PROVE  Walk'
<1> DEFINE pad == (FuncAlign - (code_len % FuncAlign)) % FuncAlign
           nops == [i \in 1..pad |-> Plain("nop")]
           last == <<Plain("prologue")>>
           is == nops \o last
<1>1. code_len \in Nat /\ FuncAlign \in Nat \ {0}
  BY LayoutAssumption DEF IInv, Layout, WellLaid
<1>2. pad \in Nat
  <2> DEFINE r == code_len % FuncAlign
  <2>1. r \in 0..(FuncAlign - 1)
    BY <1>1
  <2> HIDE DEF r
  <2>2. FuncAlign - r \in Nat
    BY <2>1, <1>1
  <2> QED BY <2>2, <1>1 DEF r
<1>3. /\ pc = "function" /\ loop.f <= Len(program.funcs)
      /\ Emit(is)
      /\ symbols' = Append(symbols, [name |-> func.name, loc |-> code_len + pad])
      /\ loop' = [loop EXCEPT !.b = 1]
      /\ pc' = "block"
      /\ UNCHANGED <<program, globals, globals_bytecount, statics, starts, log, jit, session, machine>>
  BY DEF BeginFunction
<1> HIDE DEF pad
<1>4. IsSeq(nops) /\ Len(nops) = pad /\ \A i \in 1..pad : nops[i] = Plain("nop")
  <2>1. nops = [i \in 1..pad |-> nops[i]]
    OBVIOUS
  <2> HIDE DEF nops
  <2>2. IsSeq(nops) /\ Len(nops) = pad
    BY <1>2, <2>1, FunctionSeq
  <2> QED BY <2>2 DEF nops
<1>5. IsSeq(last) /\ Len(last) = 1 /\ last[1] = Plain("prologue")
  BY SingletonIs
<1> HIDE DEF nops, last
<1>6. /\ IsSeq(is) /\ Len(is) = pad + 1
      /\ \A n \in 1..Len(is) : is[n] = Plain("nop") \/ is[n] = Plain("prologue")
  <2>1. IsSeq(nops) /\ IsSeq(last)
    BY <1>4, <1>5
  <2>2. /\ IsSeq(is) /\ Len(is) = Len(nops) + Len(last)
        /\ \A i \in 1..Len(nops) : is[i] = nops[i]
        /\ \A i \in 1..Len(last) : is[Len(nops) + i] = last[i]
    BY <2>1, ConcatIs
  <2> HIDE DEF is
  <2>3. is[pad + 1] = Plain("prologue")
    BY <2>2, <1>4, <1>5
  <2> QED BY <2>2, <2>3, <1>2, <1>4, <1>5
<1> HIDE DEF is
<1>7. /\ loop \in [f : Nat, b : Nat, s : Nat] /\ loop.f \in 1..Len(program.funcs)
      /\ loop'.f = loop.f /\ loop'.b = 1 /\ IsProgram(program)
  BY <1>3, ProgramIs DEF IInv, Control
<1>8. Len(func.blocks) \in Nat /\ Len(func.blocks) >= 1
  BY <1>7, GraphIs DEF Walk, func
<1> DEFINE p == Pos(loop.f, 1, "start")
<1>9. PICK more : more = [n \in 1..Len(is) |-> p]
  OBVIOUS
<1>10. \A n \in 1..Len(is) : more[n] = p
  BY <1>9
<1>11. p.f = loop.f /\ p.b = 1 /\ p.part = "start"
  BY DEF Pos
<1> HIDE DEF p
<1>12. \A n \in 1..Len(is) : IsBare(is[n]) /\ Stands(is[n], more[n])
  <2>1. BlocksOf(p) = func.blocks
    BY <1>11 DEF BlocksOf, func
  <2>2. \A op \in {"nop", "prologue"} : IsBare(Plain(op)) /\ Stands(Plain(op), p)
    BY <1>7, <1>8, <1>11, <2>1, PlainIs DEF Stands, Parts
  <2> QED BY <2>2, <1>6, <1>10
<1>13. Follows(p, p) /\ \A q : Enters(q, loop.f, 1) => Follows(p, q)
  BY <1>11 DEF Follows
<1>14. Len(is) \in Nat /\ Len(is) > 0
  BY <1>2, <1>6
<1>15. \A n \in 1..(Len(is) - 1) : Follows(more[n], more[n + 1])
  BY <1>10, <1>13, <1>14
<1>16. Awaited(more[1])
  BY <1>3, <1>10, <1>11, <1>14 DEF Awaited
<1>17. \A q : Awaited(q)' => Follows(more[Len(is)], q)
  <2>1. func' = func
    BY <1>3, <1>7 DEF func
  <2>2. \A q : Awaited(q)' => Enters(q, loop.f, 1)
    BY <1>3, <1>7, <1>8, <2>1 DEF Awaited, Enters
  <2>3. more[Len(is)] = p
    BY <1>10, <1>14
  <2> QED BY <2>2, <2>3, <1>13
<1>18. BegunKept
  BY <1>3, <1>7 DEF BegunKept, Begun
<1>19. /\ IsSeq(symbols) /\ Len(symbols) \in Nat /\ DOMAIN symbols = 1..Len(symbols)
       /\ DOMAIN symbols' = 1..Len(symbols') /\ Len(symbols') = Len(symbols) + 1
       /\ \A i \in 1..Len(symbols) : symbols'[i] = symbols[i]
       /\ symbols'[Len(symbols) + 1] = [name |-> func.name, loc |-> code_len + pad]
  <2>1. IsSeq(symbols)
    BY DEF IInv, Data
  <2> DEFINE e == [name |-> func.name, loc |-> code_len + pad]
  <2> HIDE DEF e
  <2>2. symbols' = Append(symbols, e)
    BY <1>3 DEF e
  <2>3. /\ IsSeq(symbols') /\ Len(symbols') = Len(symbols) + 1
        /\ \A i \in 1..Len(symbols) : symbols'[i] = symbols[i]
        /\ symbols'[Len(symbols) + 1] = e
    BY <2>1, <2>2, AppendIs
  <2> QED BY <2>1, <2>3, SeqIs DEF e
<1>20. SymbolsGrow(is, more)
  <2>1. code_len' = code_len + Ends(is)[Len(is)]
    BY <1>3 DEF Emit
  <2>2. \A n \in 0..Len(is) : Ends(is)[n] \in Nat /\ Ends(is)[n] >= n
    BY <1>12, <1>14, EndsGrow
  <2>3. Len(is) \in 0..Len(is)
    BY <1>14
  <2>4. code_len + pad \in code_len..(code_len' - 1)
    BY <2>1, <2>2, <2>3, <1>1, <1>2, <1>6
  <2>5. \A n \in 1..Len(is) : more[n].part = "start"
    BY <1>10, <1>11
  <2> QED BY <2>4, <2>5, <1>19 DEF SymbolsGrow
<1>21. Marks' /\ \E new : Described(new)'
  <2>1. PICK pos : Described(pos)
    BY <1>3 DEF Walk
  <2>2. Marks /\ pc \in {"function", "block", "statement"} /\ pc' \in {"block", "statement"}
    BY <1>3 DEF Walk
  <2> QED BY <1>3, <1>6, <1>12, <1>14, <1>15, <1>16, <1>17, <1>18, <1>20, <2>1, <2>2, EmitDescribed
<1>22. NamesKept'
  <2>1. Len(symbols) = loop.f - 1 /\ \A i \in DOMAIN symbols : symbols[i].name = program.funcs[i].name
    BY <1>3 DEF Walk, NamesKept
  <2>2. Len(symbols') = loop.f
    BY <2>1, <1>7, <1>19
  <2>3. \A i \in DOMAIN symbols' : symbols'[i].name = program.funcs[i].name
    BY <2>1, <1>7, <1>19 DEF func
  <2> QED BY <2>2, <2>3, <1>3, <1>7 DEF Walk, NamesKept
<1> QED BY <1>3, <1>21, <1>22, QuietRest DEF Walk, IsGraph

\* A reference of a block: more references or the body come next.
LEMMA ReferenceWalks ==
  ASSUME IInv, IInv', Walk, pc = "statement", NEW i, IsBare(i), IsReference(i, Pos(loop.f, loop.b, "refs")),
         Emit(<<i>>), loop' = [loop EXCEPT !.s = @ + 1],
         UNCHANGED <<pc, program, globals, starts, symbols, machine>>
  PROVE  Walk'
<1> DEFINE is == <<i>>
           p == Pos(loop.f, loop.b, "refs")
<1>1. IsSeq(is) /\ Len(is) = 1 /\ is[1] = i
  BY SingletonIs
<1>2. /\ loop \in [f : Nat, b : Nat, s : Nat] /\ loop.f \in 1..Len(program.funcs) /\ loop.b \in 1..Len(func.blocks)
      /\ loop'.f = loop.f /\ loop'.b = loop.b
  BY StatementIs DEF IInv
<1>3. p.f = loop.f /\ p.b = loop.b /\ p.part = "refs"
  BY DEF Pos
<1>4. Stands(i, p)
  <2>1. BlocksOf(p) = func.blocks
    BY <1>3 DEF BlocksOf, func
  <2>2. IsReference(i, p)
    OBVIOUS
  <2> HIDE DEF p
  <2> QED BY <1>2, <1>3, <2>1, <2>2 DEF Stands, Parts
<1>5. PICK more : more = [n \in 1..1 |-> p]
  OBVIOUS
<1>6. more[1] = p
  BY <1>5
<1> HIDE DEF is, p
<1>7. \A n \in 1..Len(is) : IsBare(is[n]) /\ Stands(is[n], more[n])
  BY <1>1, <1>4, <1>6
<1>8. \A n \in 1..(Len(is) - 1) : Follows(more[n], more[n + 1])
  BY <1>1
<1>9. Awaited(more[1])
  BY <1>3, <1>6 DEF Awaited, Enters
<1>10. \A q : Awaited(q)' => Follows(more[Len(is)], q)
  <2>1. \A q : Awaited(q)' => Enters(q, loop.f, loop.b)
    BY <1>2 DEF Awaited, Enters
  <2> QED BY <2>1, <1>1, <1>3, <1>6 DEF Follows
<1>11. BegunKept
  BY <1>2 DEF BegunKept, Begun
<1>12. SymbolsGrow(is, more)
  BY DEF SymbolsGrow
<1>13. Marks' /\ \E new : Described(new)'
  <2>1. PICK pos : Described(pos)
    BY DEF Walk
  <2>2. Marks /\ pc \in {"function", "block", "statement"} /\ pc' \in {"block", "statement"} /\ Emit(is) /\ Len(is) > 0
    BY <1>1 DEF Walk, is
  <2> QED BY <1>1, <1>7, <1>8, <1>9, <1>10, <1>11, <1>12, <2>1, <2>2, EmitDescribed
<1>14. NamesKept'
  BY <1>2 DEF Walk, NamesKept
<1> QED BY <1>13, <1>14, QuietRest DEF Walk, IsGraph

\* Both kinds of references.
LEMMA ReferencesWalk ==
  ASSUME IInv, IInv', Walk, SymbolLookup \/ MovFloatConstant
  PROVE  Walk'
<1> DEFINE r == block.refs[loop.s]
           p == Pos(loop.f, loop.b, "refs")
<1>1. CASE SymbolLookup
  <2> DEFINE i == Inst("lea", r, 0, r.name)
  <2>1. /\ pc = "statement" /\ loop.s <= Len(block.refs) /\ r.kind = "symbol"
        /\ Emit(<<i>>)
        /\ loop' = [loop EXCEPT !.s = @ + 1]
        /\ UNCHANGED <<pc, program, globals, starts, symbols, machine>>
    BY <1>1 DEF SymbolLookup
  <2>2. i.op = "lea" /\ i.ref = r /\ i.disp = 0 /\ i.want = r.name
    BY DEF Inst
  <2>3. r \in ToSet(block.refs)
    <3>1. IsSeq(block.refs) /\ Len(block.refs) \in Nat /\ loop.s \in 1..(Len(block.refs) + 1)
      BY <2>1, StatementIs DEF IInv
    <3>2. loop.s \in DOMAIN block.refs
      BY <3>1, <2>1, SeqIs
    <3> QED BY <3>2 DEF ToSet
  <2>4. BlocksOf(p)[p.b].refs = block.refs
    BY DEF BlocksOf, Pos, block, func
  <2> HIDE DEF i, r, p
  <2>5. IsBare(i)
    BY <2>1, <2>2 DEF IsBare, Ops
  <2>6. IsReference(i, p)
    BY <2>1, <2>2, <2>3, <2>4 DEF IsReference
  <2> QED BY <2>1, <2>5, <2>6, ReferenceWalks DEF p
<1>2. CASE MovFloatConstant
  <2> DEFINE found == StaticsWith(r.name)
             name == IF found # {} THEN statics[Min(found)].name ELSE TempNames[Len(statics) + 1]
             i == Inst("load", Ref("static", name), 0, r.name)
  <2>1. /\ pc = "statement"
        /\ Emit(<<i>>)
        /\ loop' = [loop EXCEPT !.s = @ + 1]
        /\ UNCHANGED <<pc, program, globals, starts, symbols, machine>>
    BY <1>2 DEF MovFloatConstant
  <2>2. i.op = "load" /\ i.ref.kind = "static" /\ i.disp = 0
    BY DEF Inst, Ref
  <2> HIDE DEF i, r, p
  <2>3. IsBare(i)
    BY <2>2 DEF IsBare, Ops
  <2>4. IsReference(i, p)
    BY <2>2 DEF IsReference
  <2> QED BY <2>1, <2>3, <2>4, ReferenceWalks DEF p
<1> QED BY <1>1, <1>2

\* The end of a block.
LEMMA EndBlockWalks ==
  ASSUME IInv, IInv', Walk, pc = "statement", NEW tail, EndBlock(tail),
         NEW is, is = <<Body>> \o tail, IsSeq(is), Len(is) > 0,
         NEW more, more[1] = Pos(loop.f, loop.b, "body"),
         \A n \in 1..Len(is) : IsBare(is[n]) /\ Stands(is[n], more[n]),
         \A n \in 1..(Len(is) - 1) : Follows(more[n], more[n + 1]),
         loop.b < Len(func.blocks) => \A q : Enters(q, loop.f, loop.b + 1) => Follows(more[Len(is)], q),
         block.term.op = "return" => \A q : Follows(more[Len(is)], q)
  PROVE  Walk'
<1>1. /\ Emit(is)
      /\ loop' = [loop EXCEPT !.b = @ + 1]
      /\ pc' = IF block.term.op # "return" /\ loop.b = Len(func.blocks) THEN "crash" ELSE "block"
      /\ UNCHANGED <<program, globals, globals_bytecount, statics, starts, symbols, log, jit, session, machine>>
  BY DEF EndBlock
<1>2. /\ loop \in [f : Nat, b : Nat, s : Nat] /\ Len(program.funcs) \in Nat /\ loop.f \in 1..Len(program.funcs)
      /\ loop.b \in 1..Len(func.blocks) /\ Len(func.blocks) \in Nat
      /\ loop'.f = loop.f /\ loop'.b = loop.b + 1 /\ IsProgram(program)
  BY <1>1, StatementIs DEF IInv
<1>3. CASE pc' = "crash"
  <2>1. block.term.op # "return" /\ loop.b = Len(func.blocks)
    BY <1>1, <1>3
  <2>2. func \in ToSet(program.funcs) /\ func.blocks[Len(func.blocks)].term.op # "return"
    <3>1. DOMAIN program.funcs = 1..Len(program.funcs)
      BY <1>2, ProgramIs, SeqIs
    <3> QED BY <3>1, <2>1, <1>2 DEF ToSet, func, block
  <2>3. CrashJustified'
    BY <2>2, <1>1 DEF CrashJustified
  <2>4. Marks' /\ NamesKept' /\ AtRest'
    BY <1>1, <1>3 DEF Marks, Emitting, NamesKept, Walk, AtRest, machine
  <2> QED BY <2>3, <2>4, <1>1, <1>3 DEF Walk, IsGraph
<1>4. CASE pc' = "block"
  <2>1. Awaited(more[1])
    BY DEF Awaited, Enters, Pos
  <2>2. func' = func
    BY <1>1, <1>2 DEF func
  <2>3. \A q : Awaited(q)' => Follows(more[Len(is)], q)
    <3>1. CASE loop.b < Len(func.blocks)
      <4>1. \A q : Awaited(q)' => Enters(q, loop.f, loop.b + 1)
        BY <3>1, <1>2, <1>4, <2>2 DEF Awaited, Enters
      <4> QED BY <3>1, <4>1
    <3>2. CASE ~(loop.b < Len(func.blocks))
      <4>1. block.term.op = "return"
        BY <3>2, <1>1, <1>2, <1>4
      <4> QED BY <4>1
    <3> QED BY <3>1, <3>2
  <2>4. BegunKept
    BY <1>1, <1>2, <1>4 DEF BegunKept, Begun
  <2>5. SymbolsGrow(is, more)
    BY <1>1 DEF SymbolsGrow
  <2>6. Marks' /\ \E new : Described(new)'
    <3>1. PICK pos : Described(pos)
      BY DEF Walk
    <3>2. Marks /\ pc \in {"function", "block", "statement"} /\ pc' \in {"block", "statement"}
      BY <1>4 DEF Walk
    <3> QED BY <1>1, <2>1, <2>3, <2>4, <2>5, <3>1, <3>2, EmitDescribed
  <2>7. NamesKept'
    BY <1>1, <1>2, <1>4 DEF Walk, NamesKept
  <2> QED BY <2>6, <2>7, <1>1, <1>4, QuietRest DEF Walk, IsGraph
<1> QED BY <1>1, <1>3, <1>4

\* Instructions of a block one after the other, from position p to position q.
Piece(is, p, q) ==
  /\ IsSeq(is) /\ Len(is) > 0
  /\ \E more : /\ more[1] = p /\ more[Len(is)] = q
               /\ \A n \in 1..Len(is) : IsBare(is[n]) /\ Stands(is[n], more[n])
               /\ \A n \in 1..(Len(is) - 1) : Follows(more[n], more[n + 1])

\* One instruction.
LEMMA PieceOne ==
  ASSUME NEW i, NEW p, IsBare(i), Stands(i, p)
  PROVE  Piece(<<i>>, p, p)
<1> DEFINE is == <<i>>
<1>1. IsSeq(is) /\ Len(is) = 1 /\ is[1] = i
  BY SingletonIs
<1>2. PICK more : more = [n \in 1..1 |-> p]
  OBVIOUS
<1>3. more[1] = p
  BY <1>2
<1> HIDE DEF is
<1>4. Piece(is, p, p)
  BY <1>1, <1>3 DEF Piece
<1> QED BY <1>4 DEF is

\* Two pieces that fit.
LEMMA PieceJoin ==
  ASSUME NEW s, NEW t, NEW p, NEW q, NEW r, NEW u, Piece(s, p, q), Piece(t, r, u), Follows(q, r)
  PROVE  Piece(s \o t, p, u)
<1> DEFINE N == Len(s)
           M == Len(t)
           c == s \o t
<1>1. IsSeq(s) /\ IsSeq(t) /\ N > 0 /\ M > 0
  BY DEF Piece
<1>2. N \in Nat /\ M \in Nat
  BY <1>1, SeqIs
<1>3. /\ IsSeq(c) /\ Len(c) = N + M
      /\ \A i \in 1..N : c[i] = s[i]
      /\ \A i \in 1..M : c[N + i] = t[i]
  BY <1>1, ConcatIs
<1>4. PICK a : /\ a[1] = p /\ a[N] = q
               /\ \A n \in 1..N : IsBare(s[n]) /\ Stands(s[n], a[n])
               /\ \A n \in 1..(N - 1) : Follows(a[n], a[n + 1])
  BY DEF Piece
<1>5. PICK b : /\ b[1] = r /\ b[M] = u
               /\ \A n \in 1..M : IsBare(t[n]) /\ Stands(t[n], b[n])
               /\ \A n \in 1..(M - 1) : Follows(b[n], b[n + 1])
  BY DEF Piece
<1> HIDE DEF N, M, c
<1>6. PICK more : more = [k \in 1..(N + M) |-> IF k <= N THEN a[k] ELSE b[k - N]]
  OBVIOUS
<1>7. \A k \in 1..N : more[k] = a[k]
  BY <1>2, <1>6
<1>8. \A n \in 1..M : more[N + n] = b[n]
  BY <1>2, <1>6
<1>9. ASSUME NEW k \in 1..(N + M) PROVE IsBare(c[k]) /\ Stands(c[k], more[k])
  <2>1. CASE k <= N
    BY <2>1, <1>2, <1>3, <1>4, <1>7
  <2>2. CASE ~(k <= N)
    <3> DEFINE n == k - N
    <3>1. n \in 1..M /\ k = N + n
      BY <2>2, <1>2
    <3> HIDE DEF n
    <3> QED BY <3>1, <1>3, <1>5, <1>8
  <2> QED BY <2>1, <2>2
<1>10. ASSUME NEW k \in 1..((N + M) - 1) PROVE Follows(more[k], more[k + 1])
  <2>1. CASE k < N
    <3>1. k \in 1..(N - 1) /\ k \in 1..N /\ k + 1 \in 1..N
      BY <2>1, <1>2
    <3> QED BY <3>1, <1>4, <1>7
  <2>2. CASE k = N
    <3>1. more[k] = q /\ more[k + 1] = r
      BY <2>2, <1>1, <1>2, <1>4, <1>5, <1>7, <1>8
    <3> QED BY <3>1
  <2>3. CASE k > N
    <3> DEFINE n == k - N
    <3>1. n \in 1..(M - 1) /\ n \in 1..M /\ n + 1 \in 1..M /\ k = N + n /\ k + 1 = N + (n + 1)
      BY <2>3, <1>2
    <3> HIDE DEF n
    <3>2. more[k] = b[n] /\ more[k + 1] = b[n + 1]
      BY <3>1, <1>8
    <3> QED BY <3>1, <3>2, <1>5
  <2> QED BY <2>1, <2>2, <2>3, <1>2
<1>11. more[1] = p /\ more[N + M] = u
  BY <1>1, <1>2, <1>4, <1>5, <1>7, <1>8
<1>12. Len(c) > 0
  BY <1>1, <1>2, <1>3
<1>13. Piece(c, p, u)
  BY <1>3, <1>9, <1>10, <1>11, <1>12 DEF Piece
<1> QED BY <1>13 DEF c

\* Four instructions.
LEMMA PieceFour ==
  ASSUME NEW a, NEW b, NEW c, NEW d, NEW p, NEW q, NEW r, NEW u,
         IsBare(a), IsBare(b), IsBare(c), IsBare(d), Stands(a, p), Stands(b, q), Stands(c, r), Stands(d, u),
         Follows(p, q), Follows(q, r), Follows(r, u)
  PROVE  Piece(<<a, b, c, d>>, p, u)
<1> DEFINE is == <<a, b, c, d>>
<1>1. IsSeq(is)
  BY DEF IsSeq, ToSet
<1>2. Len(is) = 4 /\ is[1] = a /\ is[2] = b /\ is[3] = c /\ is[4] = d
  OBVIOUS
<1>3. PICK more : more = <<p, q, r, u>>
  OBVIOUS
<1>4. more[1] = p /\ more[2] = q /\ more[3] = r /\ more[4] = u
  BY <1>3
<1> HIDE DEF is
<1>5. \A n \in 1..4 : IsBare(is[n]) /\ Stands(is[n], more[n])
  <2>1. \A n \in 1..4 : n = 1 \/ n = 2 \/ n = 3 \/ n = 4
    OBVIOUS
  <2> QED BY <2>1, <1>2, <1>4
<1>6. \A n \in 1..3 : Follows(more[n], more[n + 1])
  <2>1. \A n \in 1..3 : (n = 1 /\ n + 1 = 2) \/ (n = 2 /\ n + 1 = 3) \/ (n = 3 /\ n + 1 = 4)
    OBVIOUS
  <2> QED BY <2>1, <1>4
<1>7. Piece(is, p, u)
  BY <1>1, <1>2, <1>4, <1>5, <1>6 DEF Piece
<1> QED BY <1>7 DEF is

\* Nothing comes before or behind.
LEMMA NothingAdded ==
  ASSUME NEW s, IsSeq(s)
  PROVE  s \o <<>> = s /\ <<>> \o s = s
<1>1. IsSeq(<<>>) /\ Len(<<>>) = 0
  BY NoElements
<1>2. Len(s) \in Nat /\ DOMAIN s = 1..Len(s)
  BY SeqIs
<1> DEFINE c == s \o <<>>
           d == <<>> \o s
           e == <<>>
<1> HIDE DEF e
<1>3. IsSeq(s \o e) /\ Len(s \o e) = Len(s) + Len(e) /\ \A i \in 1..Len(s) : (s \o e)[i] = s[i]
  BY <1>1, ConcatIs DEF e
<1>4. IsSeq(e \o s) /\ Len(e \o s) = Len(e) + Len(s) /\ \A i \in 1..Len(s) : (e \o s)[Len(e) + i] = s[i]
  BY <1>1, ConcatIs DEF e
<1>5. Len(e) = 0 /\ c = s \o e /\ d = e \o s
  BY <1>1 DEF e
<1> HIDE DEF c, d
<1>6. DOMAIN c = 1..Len(s) /\ DOMAIN d = 1..Len(s) /\ \A i \in 1..Len(s) : c[i] = s[i] /\ d[i] = s[i]
  <2>1. DOMAIN c = 1..Len(c) /\ DOMAIN d = 1..Len(d)
    BY <1>3, <1>4, <1>5, SeqIs
  <2>2. Len(c) = Len(s) /\ Len(d) = Len(s)
    BY <1>2, <1>3, <1>4, <1>5
  <2>3. \A i \in 1..Len(s) : Len(e) + i = i
    BY <1>5
  <2> QED BY <2>1, <2>2, <2>3, <1>3, <1>4, <1>5
<1>7. \A x : IsSeq(x) => x = [i \in DOMAIN x |-> x[i]]
  BY DEF IsSeq
<1>8. c = [i \in 1..Len(s) |-> s[i]] /\ d = [i \in 1..Len(s) |-> s[i]] /\ s = [i \in 1..Len(s) |-> s[i]]
  BY <1>2, <1>3, <1>4, <1>5, <1>6, <1>7
<1> QED BY <1>8 DEF c, d

Here(part) == Pos(loop.f, loop.b, part)

\* Positions of the block that is being emitted.
LEMMA HereIs ==
  ASSUME IInv, pc = "statement", NEW part \in Parts
  PROVE  LET p == Here(part) IN
         /\ p.f = loop.f /\ p.b = loop.b /\ p.part = part
         /\ p.f \in 1..Len(program.funcs) /\ p.b \in 1..Len(BlocksOf(p))
         /\ BlocksOf(p) = func.blocks /\ TermAt(p) = block.term
<1> DEFINE p == Here(part)
<1>1. p.f = loop.f /\ p.b = loop.b /\ p.part = part
  BY DEF Here, Pos
<1> HIDE DEF p
<1>2. BlocksOf(p) = func.blocks /\ TermAt(p) = block.term
  BY <1>1 DEF BlocksOf, TermAt, func, block
<1>3. loop.f \in 1..Len(program.funcs) /\ loop.b \in 1..Len(func.blocks)
  BY StatementIs DEF IInv
<1> QED BY <1>1, <1>2, <1>3 DEF p

\* What the instructions at the end of a block are.
LEMMA InstructionsStand ==
  ASSUME IInv, pc = "statement"
  PROVE  LET t == block.term IN
         /\ IsBare(Body) /\ Stands(Body, Here("body"))
         /\ t.op = "return" => IsBare(Plain("ret")) /\ Stands(Plain("ret"), Here("ret"))
         /\ t.op \in {"goto", "if"} =>
              /\ IsBare(Shuffle(TRUE)) /\ Stands(Shuffle(TRUE), Here("yes"))
              /\ IsBare(Jump("jmp", t.yes.to)) /\ Stands(Jump("jmp", t.yes.to), Here("toyes"))
         /\ t.op = "if" =>
              LET jz == Inst("jz", NoRef, InstLen["shuffle"] + InstLen["jmp"], Graph!Idle) IN
              /\ IsBare(Plain("test")) /\ Stands(Plain("test"), Here("test"))
              /\ IsBare(jz) /\ Stands(jz, Here("jz"))
              /\ IsBare(Shuffle(FALSE)) /\ Stands(Shuffle(FALSE), Here("no"))
              /\ IsBare(Jump("jmp", t.no.to)) /\ Stands(Jump("jmp", t.no.to), Here("tono"))
<1> DEFINE t == block.term
           jz == Inst("jz", NoRef, InstLen["shuffle"] + InstLen["jmp"], Graph!Idle)
<1>1. /\ Body.op = "body" /\ Body.ref = NoRef /\ Body.disp = 0 /\ Body.want = Graph!Ran(loop.f, loop.b, FALSE)
  BY DEF Body, Inst
<1>2. \A c \in BOOLEAN : LET i == Shuffle(c) IN
        /\ i.op = "shuffle" /\ i.ref = NoRef /\ i.disp = 0 /\ i.want = Graph!Shuffled(loop.f, loop.b, c)
        /\ i.want.cond = c
  BY DEF Shuffle, Inst, Graph!Shuffled
<1>3. \A name : LET i == Jump("jmp", name) IN
        /\ i.op = "jmp" /\ i.ref = Ref("label", name) /\ i.disp = 0
        /\ i.want = <<loop.f, Graph!FindBlock(func, name)>> /\ i.ref.kind = "label"
  BY DEF Jump, Inst, Ref
<1>4. jz.op = "jz" /\ jz.ref = NoRef /\ jz.disp = InstLen["shuffle"] + InstLen["jmp"]
  BY DEF Inst
<1>5. InstLen["shuffle"] + InstLen["jmp"] \in Nat
  <2>1. InstLen["shuffle"] \in Nat /\ InstLen["jmp"] \in Nat
    BY InstLenIs DEF Ops
  <2> QED BY <2>1
<1>6. NoRef.kind = "none"
  BY NoRefIs
<1> HIDE DEF jz
<1>7. IsBare(Body) /\ IsBare(jz) /\ \A c \in BOOLEAN : IsBare(Shuffle(c))
  <2>1. IsBare(Body)
    <3> DEFINE w == Graph!Ran(loop.f, loop.b, FALSE)
               i == Body
    <3>1. DOMAIN w = {"kind", "f", "b", "cond"}
      BY DEF Graph!Ran
    <3> HIDE DEF w
    <3>2. i.op = "body" /\ i.ref = NoRef /\ i.disp = 0 /\ i.want = w
      BY <1>1 DEF w
    <3> HIDE DEF i
    <3>3. IsBare(i)
      BY <3>1, <3>2 DEF IsBare, Ops
    <3> QED BY <3>3 DEF i
  <2>2. IsBare(jz)
    BY <1>4, <1>5, <1>6 DEF IsBare, Ops
  <2>3. ASSUME NEW c \in BOOLEAN PROVE IsBare(Shuffle(c))
    BY <1>2, <1>6 DEF IsBare, Ops
  <2> QED BY <2>1, <2>2, <2>3
<1>8. \A name : IsBare(Jump("jmp", name))
  BY <1>3 DEF IsBare, Ops
<1>9. \A part \in Parts : LET p == Here(part) IN
        /\ p.f = loop.f /\ p.b = loop.b /\ p.part = part
        /\ p.f \in 1..Len(program.funcs) /\ p.b \in 1..Len(BlocksOf(p))
        /\ BlocksOf(p) = func.blocks /\ TermAt(p) = block.term
  BY HereIs
<1>10. Stands(Body, Here("body"))
  BY <1>1, <1>6, <1>9 DEF Stands, Parts
<1>11. t.op = "return" => Stands(Plain("ret"), Here("ret")) /\ IsBare(Plain("ret"))
  BY <1>9, PlainIs DEF Stands, Parts
<1>12. t.op \in {"goto", "if"} => Stands(Shuffle(TRUE), Here("yes"))
  BY <1>2, <1>6, <1>9 DEF Stands, Parts
<1>13. ASSUME NEW name, NEW part \in {"toyes", "tono"} PROVE IsJump(Jump("jmp", name), Here(part), name)
  <2>1. Here(part).f = loop.f
    BY <1>9 DEF Parts
  <2> QED BY <2>1, <1>3 DEF IsJump, func
<1>14. t.op \in {"goto", "if"} => Stands(Jump("jmp", t.yes.to), Here("toyes"))
  BY <1>9, <1>13 DEF Stands, Parts
<1>15. t.op = "if" => Stands(Plain("test"), Here("test")) /\ IsBare(Plain("test"))
  BY <1>9, PlainIs DEF Stands, Parts
<1>16. t.op = "if" => Stands(jz, Here("jz"))
  BY <1>4, <1>6, <1>9 DEF Stands, Parts
<1>17. t.op = "if" => Stands(Shuffle(FALSE), Here("no"))
  BY <1>2, <1>6, <1>9 DEF Stands, Parts
<1>18. t.op = "if" => Stands(Jump("jmp", t.no.to), Here("tono"))
  BY <1>9, <1>13 DEF Stands, Parts
<1> QED BY <1>7, <1>8, <1>10, <1>11, <1>12, <1>14, <1>15, <1>16, <1>17, <1>18 DEF jz

\* How they follow each other.
LEMMA InstructionsFollow ==
  ASSUME IInv, pc = "statement"
  PROVE  LET t == block.term IN
         /\ t.op = "return" => Follows(Here("body"), Here("ret")) /\ \A q : Follows(Here("ret"), q)
         /\ t.op = "goto" => /\ Follows(Here("body"), Here("yes")) /\ Follows(Here("yes"), Here("toyes"))
                             /\ \A q : Follows(Here("toyes"), q)
                             /\ IsNext(t.yes.to) =>
                                  \A q : Enters(q, loop.f, loop.b + 1) => Follows(Here("yes"), q)
         /\ t.op = "if" =>
              /\ Follows(Here("body"), Here(IF t.cond = "value" THEN "test" ELSE "jz"))
              /\ Follows(Here("test"), Here("jz")) /\ Follows(Here("jz"), Here("yes"))
              /\ Follows(Here("yes"), Here("toyes")) /\ Follows(Here("toyes"), Here("no"))
              /\ Follows(Here("no"), Here("tono")) /\ \A q : Follows(Here("tono"), q)
              /\ IsNext(t.no.to) =>
                   \A q : Enters(q, loop.f, loop.b + 1) => Follows(Here("no"), q)
<1> DEFINE t == block.term
<1>1. \A part \in Parts : LET p == Here(part) IN
        p.f = loop.f /\ p.b = loop.b /\ p.part = part /\ BlocksOf(p) = func.blocks /\ TermAt(p) = t
  BY HereIs
<1> HIDE DEF t
<1>2. t.op = "return" => Follows(Here("body"), Here("ret")) /\ \A q : Follows(Here("ret"), q)
  BY <1>1 DEF Follows, AfterBody, Parts
<1>3. t.op = "goto" => /\ Follows(Here("body"), Here("yes")) /\ Follows(Here("yes"), Here("toyes"))
                       /\ \A q : Follows(Here("toyes"), q)
  BY <1>1 DEF Follows, AfterBody, Parts
<1>4. t.op = "goto" /\ IsNext(t.yes.to) => \A q : Enters(q, loop.f, loop.b + 1) => Follows(Here("yes"), q)
  BY <1>1 DEF Follows, Falls, IsNext, Parts
<1>5. t.op = "if" =>
        /\ Follows(Here("body"), Here(IF t.cond = "value" THEN "test" ELSE "jz"))
        /\ Follows(Here("test"), Here("jz")) /\ Follows(Here("jz"), Here("yes"))
        /\ Follows(Here("yes"), Here("toyes")) /\ Follows(Here("toyes"), Here("no"))
        /\ Follows(Here("no"), Here("tono")) /\ \A q : Follows(Here("tono"), q)
  BY <1>1 DEF Follows, AfterBody, Parts
<1>6. t.op = "if" /\ IsNext(t.no.to) => \A q : Enters(q, loop.f, loop.b + 1) => Follows(Here("no"), q)
  BY <1>1 DEF Follows, Falls, IsNext, Parts
<1> QED BY <1>2, <1>3, <1>4, <1>5, <1>6 DEF t

\* A block that ends in a piece.
LEMMA PieceWalks ==
  ASSUME IInv, IInv', Walk, pc = "statement", NEW tail, EndBlock(tail), NEW q,
         Piece(<<Body>> \o tail, Here("body"), q),
         loop.b < Len(func.blocks) => \A r : Enters(r, loop.f, loop.b + 1) => Follows(q, r),
         block.term.op = "return" => \A r : Follows(q, r)
  PROVE  Walk'
<1>1. PICK is : is = <<Body>> \o tail
  OBVIOUS
<1>2. Piece(is, Here("body"), q)
  BY <1>1
<1>3. IsSeq(is) /\ Len(is) > 0
  BY <1>2 DEF Piece
<1>4. PICK more : /\ more[1] = Here("body") /\ more[Len(is)] = q
                  /\ \A n \in 1..Len(is) : IsBare(is[n]) /\ Stands(is[n], more[n])
                  /\ \A n \in 1..(Len(is) - 1) : Follows(more[n], more[n + 1])
  BY <1>2 DEF Piece
<1>5. more[1] = Pos(loop.f, loop.b, "body")
  BY <1>4 DEF Here
<1> QED BY <1>1, <1>3, <1>4, <1>5, EndBlockWalks

\* A piece with a jump behind it, unless that is left out.
LEMMA PieceJump ==
  ASSUME NEW s, NEW p, NEW q, Piece(s, p, q), NEW name, NEW r,
         IsBare(Jump("jmp", name)), Stands(Jump("jmp", name), r), Follows(q, r)
  PROVE  Piece(s \o JumpUnlessNext(name), p, IF IsNext(name) THEN q ELSE r)
<1>1. CASE IsNext(name)
  <2>1. JumpUnlessNext(name) = <<>>
    BY <1>1 DEF JumpUnlessNext
  <2>2. s \o <<>> = s
    BY NothingAdded DEF Piece
  <2> QED BY <1>1, <2>1, <2>2
<1>2. CASE ~IsNext(name)
  <2> DEFINE t == <<Jump("jmp", name)>>
  <2>1. JumpUnlessNext(name) = t
    BY <1>2 DEF JumpUnlessNext
  <2>2. Piece(t, r, r)
    BY PieceOne
  <2> HIDE DEF t
  <2>3. Piece(s \o t, p, r)
    BY <2>2, PieceJoin
  <2> QED BY <1>2, <2>1, <2>3
<1> QED BY <1>1, <1>2

\* Returns, jumps and branches.
LEMMA TerminatorsWalk ==
  ASSUME IInv, IInv', Walk, EmitReturn \/ EmitGoto \/ EmitIf
  PROVE  Walk'
<1> DEFINE t == block.term
           jz == Inst("jz", NoRef, InstLen["shuffle"] + InstLen["jmp"], Graph!Idle)
<1>0. pc = "statement"
  BY DEF EmitReturn, EmitGoto, EmitIf, AtTerminator
<1>1. /\ IsBare(Body) /\ Stands(Body, Here("body"))
      /\ t.op = "return" => IsBare(Plain("ret")) /\ Stands(Plain("ret"), Here("ret"))
      /\ t.op \in {"goto", "if"} =>
           /\ IsBare(Shuffle(TRUE)) /\ Stands(Shuffle(TRUE), Here("yes"))
           /\ IsBare(Jump("jmp", t.yes.to)) /\ Stands(Jump("jmp", t.yes.to), Here("toyes"))
      /\ t.op = "if" =>
           /\ IsBare(Plain("test")) /\ Stands(Plain("test"), Here("test"))
           /\ IsBare(jz) /\ Stands(jz, Here("jz"))
           /\ IsBare(Shuffle(FALSE)) /\ Stands(Shuffle(FALSE), Here("no"))
           /\ IsBare(Jump("jmp", t.no.to)) /\ Stands(Jump("jmp", t.no.to), Here("tono"))
  BY <1>0, InstructionsStand
<1>2. /\ t.op = "return" => Follows(Here("body"), Here("ret")) /\ \A q : Follows(Here("ret"), q)
      /\ t.op = "goto" => /\ Follows(Here("body"), Here("yes")) /\ Follows(Here("yes"), Here("toyes"))
                          /\ \A q : Follows(Here("toyes"), q)
                          /\ IsNext(t.yes.to) =>
                               \A q : Enters(q, loop.f, loop.b + 1) => Follows(Here("yes"), q)
      /\ t.op = "if" =>
           /\ Follows(Here("body"), Here(IF t.cond = "value" THEN "test" ELSE "jz"))
           /\ Follows(Here("test"), Here("jz")) /\ Follows(Here("jz"), Here("yes"))
           /\ Follows(Here("yes"), Here("toyes")) /\ Follows(Here("toyes"), Here("no"))
           /\ Follows(Here("no"), Here("tono")) /\ \A q : Follows(Here("tono"), q)
           /\ IsNext(t.no.to) =>
                \A q : Enters(q, loop.f, loop.b + 1) => Follows(Here("no"), q)
  BY <1>0, InstructionsFollow
<1>3. Piece(<<Body>>, Here("body"), Here("body"))
  BY <1>1, PieceOne
<1> HIDE DEF t, jz
<1>4. CASE EmitReturn
  <2>1. t.op = "return" /\ EndBlock(<<Plain("ret")>>)
    BY <1>4 DEF EmitReturn, AtTerminator, t
  <2>2. Piece(<<Plain("ret")>>, Here("ret"), Here("ret"))
    BY <1>1, <2>1, PieceOne
  <2>3. Piece(<<Body>> \o <<Plain("ret")>>, Here("body"), Here("ret"))
    <3>1. Follows(Here("body"), Here("ret"))
      BY <1>2, <2>1
    <3> QED BY <1>3, <2>2, <3>1, PieceJoin
  <2>4. \A q : Follows(Here("ret"), q)
    BY <1>2, <2>1
  <2> QED BY <1>0, <2>1, <2>3, <2>4, PieceWalks
<1>5. CASE EmitGoto
  <2> DEFINE tail == <<Shuffle(TRUE)>> \o JumpUnlessNext(t.yes.to)
             q == IF IsNext(t.yes.to) THEN Here("yes") ELSE Here("toyes")
  <2>1. t.op = "goto" /\ EndBlock(tail)
    BY <1>5 DEF EmitGoto, AtTerminator, t
  <2>2. Piece(<<Shuffle(TRUE)>>, Here("yes"), Here("yes"))
    BY <1>1, <2>1, PieceOne
  <2>3. Piece(tail, Here("yes"), q)
    <3>1. IsBare(Jump("jmp", t.yes.to)) /\ Stands(Jump("jmp", t.yes.to), Here("toyes"))
          /\ Follows(Here("yes"), Here("toyes"))
      BY <1>1, <1>2, <2>1
    <3> QED BY <2>2, <3>1, PieceJump
  <2>4. \A r : Enters(r, loop.f, loop.b + 1) => Follows(q, r)
    BY <1>2, <2>1
  <2> HIDE DEF tail, q
  <2>5. Piece(<<Body>> \o tail, Here("body"), q)
    <3>1. Follows(Here("body"), Here("yes"))
      BY <1>2, <2>1
    <3> QED BY <1>3, <2>3, <3>1, PieceJoin
  <2>6. block.term.op # "return"
    BY <2>1 DEF t
  <2> QED BY <1>0, <2>1, <2>4, <2>5, <2>6, PieceWalks
<1>6. CASE EmitIf
  <2> DEFINE head == IF t.cond = "value" THEN <<Plain("test")>> ELSE <<>>
             four == <<jz, Shuffle(TRUE), Jump("jmp", t.yes.to), Shuffle(FALSE)>>
             tail == (head \o four) \o JumpUnlessNext(t.no.to)
             p == Here(IF t.cond = "value" THEN "test" ELSE "jz")
             q == IF IsNext(t.no.to) THEN Here("no") ELSE Here("tono")
  <2>1. t.op = "if" /\ EndBlock(tail)
    BY <1>6 DEF EmitIf, AtTerminator, Branch, t, jz
  <2>2. Piece(four, Here("jz"), Here("no"))
    BY <1>1, <1>2, <2>1, PieceFour
  <2> HIDE DEF four
  <2>3. Piece(head \o four, p, Here("no"))
    <3>1. CASE t.cond = "value"
      <4>1. Piece(<<Plain("test")>>, Here("test"), Here("test"))
        BY <1>1, <2>1, PieceOne
      <4>2. Follows(Here("test"), Here("jz"))
        BY <1>2, <2>1
      <4>3. Piece(<<Plain("test")>> \o four, Here("test"), Here("no"))
        BY <2>2, <4>1, <4>2, PieceJoin
      <4> QED BY <3>1, <4>3
    <3>2. CASE t.cond # "value"
      <4>1. <<>> \o four = four
        BY <2>2, NothingAdded DEF Piece
      <4> QED BY <3>2, <4>1, <2>2
    <3> QED BY <3>1, <3>2
  <2>4. Piece(tail, p, q)
    <3>1. IsBare(Jump("jmp", t.no.to)) /\ Stands(Jump("jmp", t.no.to), Here("tono"))
          /\ Follows(Here("no"), Here("tono"))
      BY <1>1, <1>2, <2>1
    <3> HIDE DEF head, p
    <3> QED BY <2>3, <3>1, PieceJump
  <2>5. \A r : Enters(r, loop.f, loop.b + 1) => Follows(q, r)
    BY <1>2, <2>1
  <2>6. Follows(Here("body"), p)
    BY <1>2, <2>1
  <2> HIDE DEF tail, p, q
  <2>7. Piece(<<Body>> \o tail, Here("body"), q)
    BY <1>3, <2>4, <2>6, PieceJoin
  <2>8. block.term.op # "return"
    BY <2>1 DEF t
  <2> QED BY <1>0, <2>1, <2>5, <2>7, <2>8, PieceWalks
<1> QED BY <1>4, <1>5, <1>6

-----------------------------------------------------------------------------
(* Steps that add no code *)

\* The code is that before, but for fields that were filled in.
CodeKept ==
  /\ DOMAIN code = 1..Len(code) /\ DOMAIN code' = 1..Len(code) /\ Len(code') = Len(code)
  /\ \A k \in 1..Len(code) :
       /\ code'[k].op = code[k].op /\ code'[k].ref = code[k].ref /\ code'[k].want = code[k].want
       /\ code'[k].at = code[k].at
       /\ code[k].ref.kind = "none" => code'[k].disp = code[k].disp

\* Code that does not change is kept.
LEMMA SameCode ==
  ASSUME IInv, UNCHANGED code
  PROVE  CodeKept
<1>1. IsSeq(code)
  BY DEF IInv, Layout, WellLaid
<1> QED BY <1>1, SeqIs DEF CodeKept

\* So is code whose fields are filled in.
LEMMA RelocatedCode ==
  ASSUME IInv, NEW kind \in {"label", "static", "symbol"}, NEW X, NEW target, NEW us,
         us = Pending(kind, X), \A name \in DOMAIN target : target[name] \in Int,
         code' = Relocated(us, target), UNCHANGED <<code_len, session, statics>>
  PROVE  CodeKept
<1>1. /\ WellLaid(code', code_len')
      /\ Len(code) \in Nat /\ Len(code') = Len(code) /\ DOMAIN code = 1..Len(code) /\ DOMAIN code' = 1..Len(code)
      /\ \A k \in 1..Len(code) :
           /\ code'[k].op = code[k].op /\ code'[k].ref = code[k].ref /\ code'[k].want = code[k].want
           /\ End(code'[k]) = End(code[k])
           /\ IF code[k].ref.kind = kind /\ code[k].ref.name \in (DOMAIN target) \ X
              THEN To(code'[k]) = target[code[k].ref.name]
              ELSE code'[k] = code[k]
  BY RelocationKeeps
<1>2. ASSUME NEW k \in 1..Len(code) PROVE code'[k].at = code[k].at
  <2>1. IsInst(code[k]) /\ IsInst(code'[k])
    BY <1>1 DEF IInv, Layout, WellLaid
  <2>2. code[k].at \in Nat /\ code'[k].at \in Nat /\ InstLen[code[k].op] \in Nat
    BY <2>1, InstLenIs DEF IsInst, IsBare
  <2>3. code'[k].at + InstLen[code[k].op] = code[k].at + InstLen[code[k].op]
    BY <1>1 DEF End
  <2> QED BY <2>2, <2>3
<1>3. ASSUME NEW k \in 1..Len(code), code[k].ref.kind = "none" PROVE code'[k].disp = code[k].disp
  BY <1>1, <1>3
<1> QED BY <1>1, <1>2, <1>3 DEF CodeKept

\* What is described stays so.
LEMMA KeptDescribed ==
  ASSUME UNCHANGED <<program, starts, symbols>>, CodeKept, BegunKept, NEW pos, Described(pos),
         Open(pos)', Walking(pos)'
  PROVE  Described(pos)'
<1>1. Standing(pos)'
  <2>1. DOMAIN pos = DOMAIN code'
    BY DEF Described, Standing, CodeKept
  <2>2. ASSUME NEW k \in 1..Len(code) PROVE Stands(code[k], pos[k])'
    <3>1. Stands(code[k], pos[k])
      BY DEF Described, Standing, CodeKept
    <3> QED BY <3>1, StandsAgain DEF CodeKept
  <2> QED BY <2>1, <2>2 DEF Standing, CodeKept
<1>2. InOrder(pos)'
  <2>1. \A k \in 1..(Len(code) - 1) : Follows(pos[k], pos[k + 1])
    BY DEF Described, InOrder
  <2> QED BY <2>1, FollowsAgain DEF InOrder, CodeKept
<1>3. StartsLead(pos)'
  BY DEF Described, StartsLead, CodeKept, BegunKept, Enters
<1>4. SymbolsLead(pos)'
  BY DEF Described, SymbolsLead, CodeKept
<1> QED BY <1>1, <1>2, <1>3, <1>4 DEF Described

\* A block begins where the code ends.
LEMMA BeginBlockWalks ==
  ASSUME IInv, IInv', Walk, BeginBlock
  PROVE  Walk'
<1>1. /\ pc = "block" /\ loop.b <= Len(func.blocks) /\ pc' = "statement"
      /\ starts' = [starts EXCEPT ![loop.f][loop.b] = code_len]
      /\ loop' = [loop EXCEPT !.s = 1]
      /\ UNCHANGED <<program, globals, code, code_len, symbols, machine>>
  BY DEF BeginBlock
<1>2. /\ loop \in [f : Nat, b : Nat, s : Nat] /\ loop'.f = loop.f /\ loop'.b = loop.b
      /\ loop.f \in Nat /\ loop.b \in Nat /\ code_len \in Nat
  BY <1>1 DEF IInv, Control, Layout, WellLaid
<1>3. \A f, b : Begun(f, b)' => Begun(f, b) \/ (f = loop.f /\ b = loop.b)
  BY <1>1, <1>2 DEF Begun
<1>4. \A f, b : Begun(f, b)' => f \in DOMAIN starts /\ b \in DOMAIN starts[f]
  BY <1>1 DEF Begun, IInv, StartsTyped
<1>5. ASSUME NEW f, NEW b, Begun(f, b)'
      PROVE  starts'[f][b] = IF f = loop.f /\ b = loop.b THEN code_len ELSE starts[f][b]
  BY <1>1, <1>4, <1>5
<1>6. Marks'
  <2>1. ASSUME NEW f, NEW b, Begun(f, b)'
        PROVE  /\ starts'[f][b] <= code_len
               /\ starts'[f][b] = code_len => f = loop.f /\ b = loop.b
    <3>1. CASE f = loop.f /\ b = loop.b
      BY <3>1, <2>1, <1>2, <1>5
    <3>2. CASE ~(f = loop.f /\ b = loop.b)
      <4>1. Begun(f, b) /\ starts'[f][b] = starts[f][b]
        BY <3>2, <2>1, <1>3, <1>5
      <4> QED BY <4>1, <1>1 DEF Walk, Marks, Emitting
    <3> QED BY <3>1, <3>2
  <2>2. \A i \in DOMAIN symbols : symbols[i].loc < code_len
    BY <1>1 DEF Walk, Marks, Emitting
  <2> QED BY <2>1, <2>2, <1>1, <1>2 DEF Marks
<1>7. PICK pos : Described(pos)
  BY <1>1 DEF Walk
<1>8. CodeKept
  BY <1>1, SameCode
<1>9. \A k \in 1..Len(code) : code[k].at \in Nat /\ code[k].at < code_len
  <2>1. SUFFICES ASSUME NEW k \in 1..Len(code) PROVE code[k].at \in Nat /\ code[k].at < code_len
    OBVIOUS
  <2>2. IsInst(code[k]) /\ End(code[k]) <= code_len
    BY DEF IInv, Layout, WellLaid
  <2> QED BY <2>2, <1>2, InstEnds
<1>10. StartsLead(pos)'
  <2>1. SUFFICES ASSUME NEW f, NEW b, Begun(f, b)', NEW k \in 1..Len(code), code[k].at = starts'[f][b]
                 PROVE  Enters(pos[k], f, b)
    BY <1>1, <1>8 DEF StartsLead, Enters, CodeKept
  <2>2. ~(f = loop.f /\ b = loop.b)
    BY <2>1, <1>2, <1>5, <1>9
  <2>3. Begun(f, b) /\ starts'[f][b] = starts[f][b]
    BY <2>1, <2>2, <1>3, <1>5
  <2> QED BY <2>1, <2>3, <1>7, <1>8 DEF Described, StartsLead, CodeKept
<1>11. Open(pos)'
  <2>1. \A q : Awaited(q)' => Awaited(q)
    BY <1>1, <1>2 DEF Awaited, Enters
  <2> QED BY <2>1, <1>1, <1>7, FollowsAgain DEF Described, Open, Emitting
<1>12. Standing(pos)' /\ InOrder(pos)' /\ SymbolsLead(pos)' /\ Walking(pos)'
  <2>1. Standing(pos)'
    <3>1. ASSUME NEW k \in 1..Len(code) PROVE Stands(code[k], pos[k])'
      <4>1. Stands(code[k], pos[k])
        BY <1>7, <1>8 DEF Described, Standing, CodeKept
      <4> QED BY <4>1, <1>1, <1>8, StandsAgain DEF CodeKept
    <3> QED BY <3>1, <1>1, <1>7, <1>8 DEF Described, Standing, CodeKept
  <2>2. InOrder(pos)'
    BY <1>1, <1>7, FollowsAgain DEF Described, InOrder
  <2>3. SymbolsLead(pos)' /\ Walking(pos)'
    BY <1>1, <1>7 DEF Described, SymbolsLead, Walking
  <2> QED BY <2>1, <2>2, <2>3
<1>13. NamesKept'
  BY <1>1, <1>2 DEF Walk, NamesKept
<1>14. \E new : Described(new)'
  BY <1>10, <1>11, <1>12 DEF Described
<1> QED BY <1>1, <1>6, <1>13, <1>14, QuietRest DEF Walk, IsGraph

\* The compiler gives up.
LEMMA CrashWalks ==
  ASSUME Walk, pc \notin {"running", "ran", "freed"}, pc' = "crash", UNCHANGED <<program, machine>>, CrashJustified'
  PROVE  Walk'
<1>1. Marks' /\ NamesKept' /\ AtRest'
  BY DEF Marks, Emitting, NamesKept, Walk, AtRest, machine
<1> QED BY <1>1 DEF Walk, IsGraph

\* A usage is a field of an instruction.
LEMMA PendingIs ==
  ASSUME IInv, NEW kind, NEW X, NEW u \in Pending(kind, X)
  PROVE  \E k \in DOMAIN code : /\ code[k].ref.kind = kind /\ u.name = code[k].ref.name /\ u.name \notin X
                                /\ u.loc + 4 = End(code[k]) /\ End(code[k]) \in Nat /\ End(code[k]) <= code_len
<1>1. u \in UsagesOf(kind, code) /\ u.name \notin X
  BY DEF Pending
<1>2. PICK k \in DOMAIN code : code[k].ref.kind = kind /\ u = Usage(End(code[k]) - 4, code[k].ref.name)
  BY <1>1 DEF UsagesOf
<1>3. u.loc = End(code[k]) - 4 /\ u.name = code[k].ref.name
  BY <1>2 DEF Usage
<1>4. IsSeq(code)
  BY DEF IInv, Layout, WellLaid
<1>5. k \in 1..Len(code)
  BY <1>4, SeqIs
<1>6. IsInst(code[k]) /\ End(code[k]) <= code_len
  BY <1>5 DEF IInv, Layout, WellLaid
<1>7. End(code[k]) \in Nat
  BY <1>6, InstEnds
<1>8. u.loc + 4 = End(code[k])
  BY <1>3, <1>7
<1> QED BY <1>1, <1>2, <1>3, <1>6, <1>7, <1>8

\* A relocation that is refused is out of reach: the field is always in the code.
LEMMA RefusedIs ==
  ASSUME IInv, NEW kind, NEW X, NEW target, Refused(Pending(kind, X), target)
  PROVE  \E k \in DOMAIN code : \E name \in DOMAIN target :
           code[k].ref.kind = kind /\ ~Fits(target[name] - End(code[k]))
<1>1. PICK u \in Pending(kind, X) :
        /\ u.name \in DOMAIN target
        /\ ~Fits(target[u.name] - (u.loc + 4)) \/ u.loc + 4 > code_len
  BY DEF Refused
<1>2. PICK k \in DOMAIN code : /\ code[k].ref.kind = kind /\ u.loc + 4 = End(code[k])
                               /\ End(code[k]) \in Nat /\ End(code[k]) <= code_len
  BY PendingIs
<1>3. code_len \in Nat
  BY DEF IInv, Layout, WellLaid
<1>4. ~(u.loc + 4 > code_len)
  BY <1>2, <1>3
<1> QED BY <1>1, <1>2, <1>4

\* The addresses of blocks, symbols, statics and globals.
AddressesHold ==
  /\ \A f \in DOMAIN starts : \A b \in DOMAIN starts[f] : starts[f][b] \in Addresses
  /\ \A i \in DOMAIN symbols : symbols[i].loc \in Addresses
  /\ \A i \in DOMAIN statics : statics[i].location \in Addresses
  /\ \A i \in DOMAIN globals : globals[i].location - (jit[1] - jit[2]) \in Addresses

\* They are in Addresses, now...
LEMMA AddressesAre == AddressesHold
<1> DEFINE A == (UNION {ToSet(starts[f]) : f \in DOMAIN starts})
           B == {s.loc : s \in ToSet(symbols)}
           C == {s.location : s \in ToSet(statics)}
           D == {g.location - (jit[1] - jit[2]) : g \in ToSet(globals)}
<1>1. Addresses = A \cup B \cup C \cup D
  BY DEF Addresses
<1>2. \A f \in DOMAIN starts : \A b \in DOMAIN starts[f] : starts[f][b] \in A
  BY DEF ToSet
<1>3. \A i \in DOMAIN symbols : symbols[i].loc \in B
  BY DEF ToSet
<1>4. \A i \in DOMAIN statics : statics[i].location \in C
  BY DEF ToSet
<1>5. \A i \in DOMAIN globals : globals[i].location - (jit[1] - jit[2]) \in D
  BY DEF ToSet
<1> HIDE DEF A, B, C, D
<1> QED BY <1>1, <1>2, <1>3, <1>4, <1>5 DEF AddressesHold

\* ... and after a step.
LEMMA AddressesIs == AddressesHold'
BY AddressesAre, PTL

\* What is out of reach justifies a crash.
LEMMA FarCrash ==
  ASSUME NEW kind \in {"label", "static", "symbol"}, NEW k \in DOMAIN code, code[k].ref.kind = kind,
         NEW a, a \in Addresses', ~Fits(a - End(code[k])), UNCHANGED code
  PROVE  CrashJustified'
BY DEF CrashJustified, Fits, End

\* Code is finished or data placed, and nothing runs yet.
LEMMA LateWalks ==
  ASSUME IInv, Walk, CodeKept, pc \in {"function", "statics", "symbols", "jit"},
         pc' \in {"statics", "symbols", "jit", "ready"}, loop'.f = loop.f,
         UNCHANGED <<program, starts, symbols, globals, machine>>
  PROVE  Walk'
<1>1. PICK pos : Described(pos)
  BY DEF Walk
<1>2. Marks' /\ Open(pos)' /\ Walking(pos)'
  BY DEF Marks, Open, Walking, Emitting
<1>3. BegunKept
  BY DEF BegunKept, Begun
<1>4. Described(pos)'
  BY <1>1, <1>2, <1>3, KeptDescribed
<1>5. NamesKept'
  BY DEF Walk, NamesKept
<1>6. AtRest' /\ CrashJustified'
  BY QuietRest
<1> QED BY <1>2, <1>4, <1>5, <1>6 DEF Walk, IsGraph

\* The loop over functions ends, statics are placed.
LEMMA LoopsWalk ==
  ASSUME IInv, Walk, EndFunctions \/ PlaceStatic
  PROVE  Walk'
<1>1. /\ pc \in {"function", "statics"} /\ pc' = "statics"
      /\ UNCHANGED <<program, starts, symbols, globals, machine, code>>
  BY DEF EndFunctions, PlaceStatic
<1>2. loop'.f = loop.f
  <2>1. loop \in [f : Nat, b : Nat, s : Nat]
    BY DEF IInv, Control
  <2> QED BY <2>1 DEF EndFunctions, PlaceStatic
<1>3. CodeKept
  BY <1>1, SameCode
<1> QED BY <1>1, <1>2, <1>3, LateWalks

\* Statics are known by name; one may be out of reach.
LEMMA ApplyStaticsWalks ==
  ASSUME IInv, Walk, ApplyStatics
  PROVE  Walk'
<1> DEFINE target == [name \in NamesIn(statics) |-> Named(statics, name).location]
           us == usages["static"]
<1>1. /\ pc = "statics"
      /\ UNCHANGED <<program, globals, globals_bytecount, statics, loop, code_len, starts,
                     symbols, usages, log, jit, session, machine>>
      /\ \/ pc' = "crash" /\ UNCHANGED code /\ (Unresolved(us, target) \/ Refused(us, target))
         \/ pc' = "symbols" /\ code' = Relocated(us, target)
  BY DEF ApplyStatics
<1>2. us = Pending("static", {})
  BY <1>1, ListIs
<1>3. IsSeq(statics) /\ \A i \in DOMAIN statics : statics[i].location \in Int
  BY DEF IInv, Data
<1>4. DOMAIN target = NamesIn(statics) /\ \A name \in DOMAIN target : target[name] = Named(statics, name).location
  OBVIOUS
<1>5. \A name \in DOMAIN target : \E i \in DOMAIN statics : target[name] = statics[i].location
  BY <1>3, <1>4, NamedIs
<1> HIDE DEF target, us
<1>6. CASE pc' = "symbols" /\ code' = Relocated(us, target)
  <2>1. \A name \in DOMAIN target : target[name] \in Int
    BY <1>3, <1>5
  <2>2. CodeKept
    BY <1>1, <1>2, <1>6, <2>1, RelocatedCode
  <2> QED BY <1>1, <1>6, <2>2, LateWalks
<1>7. CASE pc' = "crash" /\ UNCHANGED code /\ Unresolved(us, target)
  <2>1. PICK u \in Pending("static", {}) : u.name \notin DOMAIN target
    BY <1>2, <1>7 DEF Unresolved
  <2>2. PICK k \in DOMAIN code : code[k].ref.kind = "static" /\ u.name = code[k].ref.name
    BY PendingIs
  <2>3. PICK pos : Described(pos)
    BY <1>1 DEF Walk
  <2>4. Stands(code[k], pos[k])
    BY <2>3 DEF Described, Standing
  <2>5. code[k].op = "load"
    BY <2>2, <2>4 DEF Stands, IsReference, IsJump, Ref
  <2>6. \E i \in DOMAIN statics : statics[i].name = code[k].ref.name
    BY <2>5 DEF IInv, StaticsKnown
  <2> QED BY <2>1, <2>2, <2>6, <1>4 DEF NamesIn
<1>8. CASE pc' = "crash" /\ UNCHANGED code /\ Refused(us, target)
  <2>1. PICK k \in DOMAIN code : \E name \in DOMAIN target :
           code[k].ref.kind = "static" /\ ~Fits(target[name] - End(code[k]))
    BY <1>2, <1>8, RefusedIs
  <2>2. PICK name \in DOMAIN target : code[k].ref.kind = "static" /\ ~Fits(target[name] - End(code[k]))
    BY <2>1
  <2>3. PICK i \in DOMAIN statics : target[name] = statics[i].location
    BY <1>5
  <2>4. target[name] \in Addresses'
    BY <2>3, <1>1, AddressesIs DEF AddressesHold
  <2>5. CrashJustified'
    BY <1>8, <2>2, <2>4, FarCrash
  <2> QED BY <1>1, <1>8, <2>5, CrashWalks
<1> QED BY <1>1, <1>6, <1>7, <1>8

\* So may a function.
LEMMA ApplySymbolsWalks ==
  ASSUME IInv, Walk, ApplySymbols
  PROVE  Walk'
<1> DEFINE target == [name \in NamesIn(symbols) |-> Named(symbols, name).loc]
           us == usages["symbol"]
<1>1. /\ pc = "symbols"
      /\ UNCHANGED <<program, globals, globals_bytecount, statics, loop, code_len, starts,
                     symbols, usages, jit, session, machine>>
      /\ \/ pc' = "crash" /\ UNCHANGED code /\ Refused(us, target)
         \/ pc' = "jit" /\ code' = Relocated(us, target)
  BY DEF ApplySymbols
<1>2. us = Pending("symbol", {})
  BY <1>1, ListIs
<1>3. IsSeq(symbols) /\ \A i \in DOMAIN symbols : symbols[i].loc \in Nat
  BY DEF IInv, Data
<1>4. DOMAIN target = NamesIn(symbols) /\ \A name \in DOMAIN target : target[name] = Named(symbols, name).loc
  OBVIOUS
<1>5. \A name \in DOMAIN target : \E i \in DOMAIN symbols : target[name] = symbols[i].loc
  BY <1>3, <1>4, NamedIs
<1> HIDE DEF target, us
<1>6. CASE pc' = "jit" /\ code' = Relocated(us, target)
  <2>1. \A name \in DOMAIN target : target[name] \in Int
    BY <1>3, <1>5
  <2>2. CodeKept
    BY <1>1, <1>2, <1>6, <2>1, RelocatedCode
  <2> QED BY <1>1, <1>6, <2>2, LateWalks
<1>7. CASE pc' = "crash" /\ UNCHANGED code /\ Refused(us, target)
  <2>1. PICK k \in DOMAIN code : \E name \in DOMAIN target :
           code[k].ref.kind = "symbol" /\ ~Fits(target[name] - End(code[k]))
    BY <1>2, <1>7, RefusedIs
  <2>2. PICK name \in DOMAIN target : code[k].ref.kind = "symbol" /\ ~Fits(target[name] - End(code[k]))
    BY <2>1
  <2>3. PICK i \in DOMAIN symbols : target[name] = symbols[i].loc
    BY <1>5
  <2>4. target[name] \in Addresses'
    BY <2>3, <1>1, AddressesIs DEF AddressesHold
  <2>5. CrashJustified'
    BY <1>7, <2>2, <2>4, FarCrash
  <2> QED BY <1>1, <1>7, <2>5, CrashWalks
<1> QED BY <1>1, <1>6, <1>7

\* A name that is logged names no function; if it names no global either, the program
\* is at fault.  A global may be out of reach.
LEMMA JitWalks ==
  ASSUME IInv, Walk, do_jit_lowering
  PROVE  Walk'
<1>1. PICK jit_globals \in Pages : \E jit_code \in Pages \ {jit_globals} :
       LET target == [name \in NamesIn(globals) |-> Named(globals, name).location - (jit_code - jit_globals)]
       IN /\ jit' = <<jit_code, jit_globals>>
          /\ IF Unresolved(log, target) \/ Refused(log, target)
             THEN pc' = "crash" /\ UNCHANGED code
             ELSE pc' = "ready" /\ code' = Relocated(log, target)
  BY DEF do_jit_lowering
<1>2. PICK jit_code \in Pages \ {jit_globals} :
       LET target == [name \in NamesIn(globals) |-> Named(globals, name).location - (jit_code - jit_globals)]
       IN /\ jit' = <<jit_code, jit_globals>>
          /\ IF Unresolved(log, target) \/ Refused(log, target)
             THEN pc' = "crash" /\ UNCHANGED code
             ELSE pc' = "ready" /\ code' = Relocated(log, target)
  BY <1>1
<1>3. /\ pc = "jit"
      /\ UNCHANGED <<program, globals, globals_bytecount, statics, loop, code_len, starts,
                     symbols, usages, log, session, machine>>
  BY DEF do_jit_lowering
<1> DEFINE target == [name \in NamesIn(globals) |-> Named(globals, name).location - (jit_code - jit_globals)]
           X == NamesIn(symbols)
<1>4. \/ pc' = "crash" /\ UNCHANGED code /\ (Unresolved(log, target) \/ Refused(log, target))
      \/ pc' = "ready" /\ code' = Relocated(log, target)
  BY <1>2
<1>5. jit_globals \in Nat /\ jit_code \in Nat /\ jit'[1] = jit_code /\ jit'[2] = jit_globals
  BY <1>2, LayoutAssumption
<1>6. log = Pending("symbol", X)
  BY <1>3 DEF IInv, LogMatch
<1>7. IsSeq(globals) /\ \A i \in DOMAIN globals : globals[i].location \in Nat
  BY DEF IInv, Data
<1>8. /\ DOMAIN target = NamesIn(globals)
      /\ \A name \in DOMAIN target : target[name] = Named(globals, name).location - (jit_code - jit_globals)
  OBVIOUS
<1>9. \A name \in DOMAIN target :
        \E i \in DOMAIN globals : target[name] = globals[i].location - (jit_code - jit_globals)
  BY <1>7, <1>8, NamedIs
<1> HIDE DEF target, X
<1>10. CASE pc' = "ready" /\ code' = Relocated(log, target)
  <2>1. \A name \in DOMAIN target : target[name] \in Int
    BY <1>5, <1>7, <1>9
  <2>2. CodeKept
    BY <1>3, <1>6, <1>10, <2>1, RelocatedCode
  <2> QED BY <1>3, <1>10, <2>2, LateWalks
<1>11. CASE pc' = "crash" /\ UNCHANGED code /\ Unresolved(log, target)
  <2>1. PICK u \in Pending("symbol", X) : u.name \notin DOMAIN target
    BY <1>6, <1>11 DEF Unresolved
  <2>2. PICK k \in DOMAIN code : code[k].ref.kind = "symbol" /\ u.name = code[k].ref.name /\ u.name \notin X
    BY PendingIs
  <2>3. PICK pos : Described(pos)
    BY <1>3 DEF Walk
  <2> DEFINE p == pos[k]
  <2>4. Stands(code[k], p)
    BY <2>3 DEF Described, Standing
  <2>5. /\ code[k].ref \in ToSet(BlocksOf(p)[p.b].refs)
        /\ p.f \in 1..Len(program.funcs) /\ p.b \in 1..Len(BlocksOf(p))
    BY <2>2, <2>4 DEF Stands, IsReference, IsJump, Ref
  <2> HIDE DEF p
  <2>6. IsProgram(program)
    BY DEF IInv, Control
  <2>7. /\ IsSeq(program.funcs) /\ IsSeq(program.globals) /\ Len(program.funcs) \in Nat
        /\ IsSeq(program.funcs[p.f].blocks)
    BY <2>5, <2>6, ProgramIs
  <2>8. program.funcs[p.f] \in ToSet(program.funcs) /\ BlocksOf(p)[p.b] \in ToSet(program.funcs[p.f].blocks)
    BY <2>5, <2>7, SeqIs DEF ToSet, BlocksOf
  <2>9. Len(symbols) = loop.f - 1 /\ loop.f = Len(program.funcs) + 1 /\ Len(globals) = Len(program.globals)
    BY <1>3 DEF Walk, NamesKept, IInv, Control
  <2>10. DOMAIN symbols = DOMAIN program.funcs /\ DOMAIN globals = DOMAIN program.globals
    <3>1. IsSeq(symbols)
      BY DEF IInv, Data
    <3> QED BY <2>7, <2>9, <3>1, <1>7, SeqIs
  <2>11. NamesIn(program.funcs) = X
    <3>1. \A i \in DOMAIN symbols : symbols[i].name = program.funcs[i].name
      BY <1>3 DEF Walk, NamesKept
    <3> QED BY <3>1, <2>10 DEF NamesIn, X
  <2>12. NamesIn(program.globals) = DOMAIN target
    <3>1. \A i \in DOMAIN globals : globals[i].name = program.globals[i].name
      BY <1>3 DEF Walk, NamesKept
    <3> QED BY <3>1, <2>10, <1>8 DEF NamesIn
  <2>13. \E f \in ToSet(program.funcs) : \E b \in ToSet(f.blocks) : \E x \in ToSet(b.refs) :
           x.kind = "symbol" /\ x.name \notin NamesIn(program.funcs) \cup NamesIn(program.globals)
    BY <2>1, <2>2, <2>5, <2>8, <2>11, <2>12
  <2>14. CrashJustified'
    BY <2>13, <1>3 DEF CrashJustified, NamesIn
  <2> QED BY <1>3, <1>11, <2>14, CrashWalks
<1>12. CASE pc' = "crash" /\ UNCHANGED code /\ Refused(log, target)
  <2>1. PICK k \in DOMAIN code : \E name \in DOMAIN target :
           code[k].ref.kind = "symbol" /\ ~Fits(target[name] - End(code[k]))
    BY <1>6, <1>12, RefusedIs
  <2>2. PICK name \in DOMAIN target : code[k].ref.kind = "symbol" /\ ~Fits(target[name] - End(code[k]))
    BY <2>1
  <2>3. PICK i \in DOMAIN globals : target[name] = globals[i].location - (jit_code - jit_globals)
    BY <1>9
  <2>4. target[name] \in Addresses'
    BY <2>3, <1>3, <1>5, AddressesIs DEF AddressesHold
  <2>5. CrashJustified'
    BY <1>12, <2>2, <2>4, FarCrash
  <2> QED BY <1>3, <1>12, <2>5, CrashWalks
<1> QED BY <1>4, <1>10, <1>11, <1>12

\* At the end of a function its labels are known; a block may be out of reach.
LEMMA EndFunctionWalks ==
  ASSUME IInv, Walk, EndFunction
  PROVE  Walk'
<1> DEFINE target == [name \in NamesIn(func.blocks) |-> starts[loop.f][Graph!FindBlock(func, name)]]
           us == usages["label"]
<1>1. /\ pc = "block" /\ loop.b > Len(func.blocks)
      /\ UNCHANGED <<program, globals, globals_bytecount, statics, code_len, starts,
                     symbols, usages, log, jit, session, machine>>
  BY DEF EndFunction
<1>2. \/ pc' = "crash" /\ UNCHANGED <<code, loop>> /\ (Unresolved(us, target) \/ Refused(us, target))
      \/ /\ code' = Relocated(us, target)
         /\ loop' = [loop EXCEPT !.f = @ + 1]
         /\ pc' = "function"
  BY DEF EndFunction
<1>3. /\ IsProgram(program) /\ loop \in [f : Nat, b : Nat, s : Nat] /\ Len(program.funcs) \in Nat
      /\ loop.f \in 1..Len(program.funcs) /\ IsSeq(func.blocks)
  <2>1. IsProgram(program) /\ loop \in [f : Nat, b : Nat, s : Nat] /\ loop.f <= Len(program.funcs)
        /\ loop.f \in 1..(Len(program.funcs) + 1)
    BY <1>1 DEF IInv, Control
  <2>2. Len(program.funcs) \in Nat
    BY <2>1, ProgramIs
  <2>3. loop.f \in 1..Len(program.funcs)
    BY <2>1, <2>2
  <2> QED BY <2>1, <2>2, <2>3, ProgramIs DEF func
<1>4. \A name \in NamesIn(func.blocks) :
        /\ Graph!FindBlock(func, name) \in 1..Len(func.blocks)
        /\ starts[loop.f][Graph!FindBlock(func, name)] \in Nat
  <2>1. SUFFICES ASSUME NEW name \in NamesIn(func.blocks)
                 PROVE  /\ Graph!FindBlock(func, name) \in 1..Len(func.blocks)
                        /\ starts[loop.f][Graph!FindBlock(func, name)] \in Nat
    OBVIOUS
  <2>2. \E b \in 1..Len(func.blocks) : func.blocks[b].name = name
    BY <1>3, SeqIs DEF NamesIn
  <2>3. Graph!FindBlock(func, name) \in 1..Len(func.blocks)
    BY <2>2 DEF Graph!FindBlock
  <2>4. starts[loop.f] \in [1..Len(func.blocks) -> Nat]
    BY <1>3 DEF IInv, StartsTyped, func
  <2> QED BY <2>3, <2>4
<1>5. /\ DOMAIN target = NamesIn(func.blocks)
      /\ \A name \in DOMAIN target : target[name] = starts[loop.f][Graph!FindBlock(func, name)]
  OBVIOUS
<1>6. us = Pending("label", {})
  BY <1>1, ListIs
<1>7. PICK pos : Described(pos)
  BY <1>1 DEF Walk
<1> HIDE DEF target, us
<1>8. CASE /\ code' = Relocated(us, target)
           /\ loop' = [loop EXCEPT !.f = @ + 1]
           /\ pc' = "function"
  <2>1. \A name \in DOMAIN target : target[name] \in Int
    BY <1>4, <1>5
  <2>2. CodeKept
    BY <1>1, <1>6, <1>8, <2>1, RelocatedCode
  <2>3. loop'.f = loop.f + 1 /\ loop.f \in Nat /\ loop.b \in Nat
    BY <1>3, <1>8
  <2>4. ASSUME NEW f, NEW b, Begun(f, b)' PROVE Begun(f, b)
    <3>1. /\ f \in 1..Len(program.funcs) /\ b \in 1..Len(program.funcs[f].blocks) /\ f < loop.f + 1
      BY <2>3, <2>4, <1>1, <1>8 DEF Begun
    <3>2. Len(program.funcs[f].blocks) \in Nat
      BY <3>1, <1>3, ProgramIs
    <3>3. CASE f = loop.f
      <4>1. b < loop.b
        BY <3>1, <3>2, <3>3, <2>3, <1>1 DEF func
      <4> QED BY <3>1, <3>3, <4>1, <1>1 DEF Begun
    <3>4. CASE f # loop.f
      <4>1. f < loop.f
        BY <3>1, <3>4, <2>3, <1>3
      <4> QED BY <3>1, <4>1 DEF Begun
    <3> QED BY <3>3, <3>4
  <2>5. BegunKept
    BY <2>4 DEF BegunKept
  <2>6. Marks'
    <3>1. ASSUME NEW f, NEW b, Begun(f, b)' PROVE starts[f][b] <= code_len /\ starts[f][b] # code_len
      BY <2>4, <3>1, <1>1 DEF Walk, Marks, Emitting
    <3>2. \A i \in DOMAIN symbols : symbols[i].loc < code_len
      BY <1>1 DEF Walk, Marks, Emitting
    <3> QED BY <3>1, <3>2, <1>1 DEF Marks
  <2>7. Open(pos)'
    <3>1. Len(code) > 0 => \A q : Follows(pos[Len(code)], q)
      BY <1>1, <1>7 DEF Described, Open, Emitting, Awaited
    <3> QED BY <3>1, <2>2, <1>1, FollowsAgain DEF Open, CodeKept
  <2>8. Walking(pos)'
    BY <1>8 DEF Walking
  <2>9. Described(pos)'
    BY <1>1, <1>7, <2>2, <2>5, <2>7, <2>8, KeptDescribed
  <2>10. NamesKept'
    BY <1>1, <1>8, <2>3 DEF Walk, NamesKept
  <2>11. AtRest' /\ CrashJustified'
    BY <1>1, <1>8, QuietRest
  <2> QED BY <1>1, <2>6, <2>9, <2>10, <2>11 DEF Walk, IsGraph
<1>9. CASE pc' = "crash" /\ UNCHANGED <<code, loop>> /\ Unresolved(us, target)
  <2>1. PICK u \in Pending("label", {}) : u.name \notin DOMAIN target
    BY <1>6, <1>9 DEF Unresolved
  <2>2. PICK k \in DOMAIN code : code[k].ref.kind = "label" /\ u.name = code[k].ref.name
    BY PendingIs
  <2> DEFINE p == pos[k]
             F == Len(program.funcs)
  <2>3. Stands(code[k], p)
    BY <1>7 DEF Described, Standing
  <2> HIDE DEF p
  <2>4. /\ p.f \in 1..Len(program.funcs) /\ p.b \in 1..Len(BlocksOf(p))
        /\ \/ TermAt(p).op \in {"goto", "if"} /\ IsJump(code[k], p, TermAt(p).yes.to)
           \/ TermAt(p).op = "if" /\ IsJump(code[k], p, TermAt(p).no.to)
    BY <2>2, <2>3 DEF Stands, IsReference
  <2>5. Len(program.funcs) <= loop.f /\ code[k].want[1] = F
    BY <2>2 DEF IInv, Labels, IsLabel
  <2>6. p.f = F /\ F = loop.f
    BY <2>4, <2>5, <1>3 DEF IsJump
  <2>7. BlocksOf(p) = func.blocks
    BY <2>6 DEF BlocksOf, func
  <2>8. \E j \in 1..Len(func.blocks) : func.blocks[j].name = code[k].ref.name
    <3>1. /\ TermAt(p).op \in {"goto", "if"} => \E j \in 1..Len(BlocksOf(p)) : BlocksOf(p)[j].name = TermAt(p).yes.to
          /\ TermAt(p).op = "if" => \E j \in 1..Len(BlocksOf(p)) : BlocksOf(p)[j].name = TermAt(p).no.to
      BY <1>3, <2>4, GraphIs DEF Walk, BlocksOf, TermAt
    <3> QED BY <3>1, <2>4, <2>7 DEF IsJump, Ref
  <2>9. code[k].ref.name \in NamesIn(func.blocks)
    BY <2>8, <1>3, SeqIs DEF NamesIn
  <2> QED BY <2>1, <2>2, <2>9, <1>5
<1>10. CASE pc' = "crash" /\ UNCHANGED <<code, loop>> /\ Refused(us, target)
  <2>1. PICK k \in DOMAIN code : \E name \in DOMAIN target :
           code[k].ref.kind = "label" /\ ~Fits(target[name] - End(code[k]))
    BY <1>6, <1>10, RefusedIs
  <2>2. PICK name \in DOMAIN target : code[k].ref.kind = "label" /\ ~Fits(target[name] - End(code[k]))
    BY <2>1
  <2> DEFINE b == Graph!FindBlock(func, name)
  <2>3. target[name] = starts[loop.f][b] /\ b \in 1..Len(func.blocks)
    BY <1>4, <1>5
  <2>4. loop.f \in DOMAIN starts /\ b \in DOMAIN starts[loop.f]
    BY <1>3, <2>3 DEF IInv, StartsTyped, func
  <2> HIDE DEF b
  <2>5. target[name] \in Addresses'
    BY <2>3, <2>4, <1>1, AddressesIs DEF AddressesHold
  <2>6. CrashJustified'
    BY <1>10, <2>2, <2>5, FarCrash
  <2> QED BY <1>1, <1>10, <2>6, CrashWalks
<1> QED BY <1>2, <1>8, <1>9, <1>10

\* Without code there is nothing to describe.
LEMMA NoCodeDescribed ==
  ASSUME code = <<>>
  PROVE  \E pos : Described(pos)
<1>1. DOMAIN code = {} /\ Len(code) = 0 /\ 1..(0 - 1) = {}
  BY NoElements
<1>2. PICK pos : pos = code
  OBVIOUS
<1>3. Standing(pos) /\ InOrder(pos) /\ Open(pos) /\ StartsLead(pos) /\ SymbolsLead(pos) /\ Walking(pos)
  BY <1>1, <1>2 DEF Standing, InOrder, Open, StartsLead, SymbolsLead, Walking
<1> QED BY <1>3 DEF Described

\* The same after a step.
LEMMA NoCodeNext == code' = <<>> => \E pos : Described(pos)'
<1>1. code = <<>> => \E pos : Described(pos)
  BY NoCodeDescribed
<1>2. (code = <<>>)' => (\E pos : Described(pos))'
  BY <1>1, PTL
<1> QED BY <1>2

\* An empty compiler has nothing to walk.
LEMMA EmptyWalk ==
  ASSUME Empty
  PROVE  Walk
<1>1. /\ pc = "idle" /\ program.funcs = <<>> /\ code = <<>> /\ symbols = <<>> /\ globals = <<>>
      /\ at = Graph!Idle
  BY NoProgramIs DEF Empty
<1>2. ToSet(program.funcs) = {} /\ Len(program.funcs) = 0 /\ DOMAIN symbols = {} /\ 1..0 = {}
  BY <1>1, NoElements
<1>3. IsGraph(program)
  BY <1>2 DEF IsGraph
<1>4. Marks
  BY <1>2 DEF Marks, Begun
<1>5. NamesKept /\ AtRest /\ CrashJustified
  BY <1>1 DEF NamesKept, AtRest, CrashJustified
<1>6. \E pos : Described(pos)
  BY <1>1, NoCodeDescribed
<1> QED BY <1>3, <1>4, <1>5, <1>6 DEF Walk

\* The same after a step.
LEMMA EmptyNextWalk == Empty' => Walk'
<1>1. Empty => Walk
  BY EmptyWalk
<1> QED BY <1>1, PTL

\* The program is made up before any code is.
LEMMA FrontWalks ==
  ASSUME IInv, IInv', Walk, parse \/ add_global \/ do_lowering
  PROVE  Walk'
<1>1. /\ pc \in {"idle", "globals"} /\ pc' \in {"globals", "function"}
      /\ UNCHANGED <<loop, code, code_len, symbols, machine>>
  BY DEF parse, add_global, do_lowering, compiler
<1>2. loop.f = 1 /\ code = <<>>
  BY <1>1 DEF IInv, Control, Data
<1>3. Len(symbols) = 0 /\ DOMAIN symbols = {}
  <2>1. IsSeq(symbols)
    BY DEF IInv, Data
  <2>2. pc = "idle" => Len(symbols) = 0
    BY NoElements DEF Walk, NamesKept
  <2>3. pc = "globals" => Len(symbols) = 0
    BY <1>2 DEF Walk, NamesKept
  <2>4. DOMAIN symbols = 1..Len(symbols) /\ 1..0 = {}
    BY <2>1, SeqIs
  <2> QED BY <1>1, <2>2, <2>3, <2>4
<1>4. IsGraph(program)'
  <2>1. program' \in Programs \/ program' = program
    BY DEF parse, add_global, do_lowering, compiler
  <2>2. program' \in Programs => IsGraph(program')
    BY GraphAssumption
  <2>3. IsGraph(program) /\ (program' = program => IsGraph(program'))
    BY DEF Walk
  <2> QED BY <2>1, <2>2, <2>3 DEF IsGraph
<1>5. Marks'
  <2>1. \A f, b : ~Begun(f, b)'
    <3>1. Len(program'.funcs) \in Nat
      BY ProgramIs DEF IInv, Control
    <3> QED BY <3>1, <1>1, <1>2 DEF Begun
  <2> QED BY <2>1, <1>1, <1>3 DEF Marks
<1>6. NamesKept'
  <2>1. CASE parse
    <3>1. globals = <<>> /\ globals' = globals /\ pc' = "globals"
      BY <2>1 DEF Walk, NamesKept, parse
    <3>2. Len(globals') = 0 /\ DOMAIN globals' = {}
      BY <3>1, NoElements
    <3>3. Len(program'.globals) \in Nat
      BY ProgramIs DEF IInv, Control
    <3> QED BY <3>1, <3>2, <3>3, <1>1, <1>2, <1>3 DEF NamesKept
  <2>2. CASE add_global
    <3> DEFINE n == Len(globals) + 1
               g == program.globals[n]
               loc == Aligned(globals_bytecount, size_guess_align(g.size))
               e == [name |-> g.name, size |-> g.size, location |-> loc]
    <3>1. /\ pc = "globals" /\ pc' = "globals" /\ Len(globals) < Len(program.globals)
          /\ globals' = Append(globals, e) /\ program' = program
      BY <2>2 DEF add_global
    <3>2. IsSeq(globals) /\ IsSeq(globals')
      BY DEF IInv, Data
    <3>3. e.name = g.name
      OBVIOUS
    <3> HIDE DEF e
    <3>4. /\ Len(globals') = Len(globals) + 1
          /\ \A i \in 1..Len(globals) : globals'[i] = globals[i]
          /\ globals'[Len(globals) + 1] = e
      BY <3>1, <3>2, AppendIs
    <3>5. /\ Len(globals) \in Nat /\ DOMAIN globals = 1..Len(globals) /\ DOMAIN globals' = 1..Len(globals')
          /\ Len(program.globals) \in Nat
      BY <3>2, SeqIs, ProgramIs DEF IInv, Control
    <3>6. \A i \in DOMAIN globals : globals[i].name = program.globals[i].name
      BY <3>1 DEF Walk, NamesKept
    <3>7. \A i \in DOMAIN globals' : globals'[i].name = program'.globals[i].name
      BY <3>1, <3>3, <3>4, <3>5, <3>6
    <3> QED BY <3>1, <3>4, <3>5, <3>7, <1>1, <1>2, <1>3 DEF NamesKept
  <2>3. CASE do_lowering
    BY <2>3, <1>1, <1>2, <1>3 DEF Walk, NamesKept, do_lowering, compiler
  <2> QED BY <2>1, <2>2, <2>3
<1>7. AtRest' /\ CrashJustified'
  BY <1>1, QuietRest
<1>8. \E pos : Described(pos)'
  BY <1>1, <1>2, NoCodeNext
<1> QED BY <1>4, <1>5, <1>6, <1>7, <1>8 DEF Walk

\* Nothing is left to run.
LEMMA FreedWalks ==
  ASSUME Walk, NoOutput \/ jit_free
  PROVE  Walk'
<1>1. pc \in {"jit", "ran"} /\ pc' = "freed" /\ UNCHANGED <<program, machine>>
  BY DEF NoOutput, jit_free, compiler
<1>2. Marks' /\ NamesKept' /\ AtRest' /\ CrashJustified'
  BY <1>1 DEF Walk, Marks, Emitting, NamesKept, AtRest, CrashJustified, machine
<1> QED BY <1>1, <1>2 DEF Walk, IsGraph

\* The next program starts from an empty compiler.
LEMMA FreeAllWalks ==
  ASSUME IInv, free_all_compiler_allocs
  PROVE  Walk'
<1>1. usages' = NoUsages
  BY DEF free_all_compiler_allocs, IInv, UsagesMatch
<1>2. session' \in {0, 1}
  BY DEF free_all_compiler_allocs, IInv, Control
<1>3. Empty'
  BY <1>1, <1>2 DEF free_all_compiler_allocs, Empty
<1> QED BY <1>3, EmptyNextWalk

-----------------------------------------------------------------------------
(* The machine *)

\* Steps of the machine change none of the code.
LEMMA RunWalks ==
  ASSUME IInv, Walk, pc \in {"ready", "running"}, pc' \in {"running", "ran"}, UNCHANGED compiler,
         NEW pos, Described(pos), Walking(pos)', pc' = "ran" => at' \in {Graph!Idle, Graph!Returned}
  PROVE  Walk'
<1>1. UNCHANGED <<program, starts, symbols, globals, code, loop, code_len>>
  BY DEF compiler
<1>2. CodeKept
  BY <1>1, SameCode
<1>3. BegunKept
  BY <1>1 DEF BegunKept, Begun
<1>4. Marks' /\ Open(pos)' /\ CrashJustified' /\ AtRest'
  BY DEF Marks, Open, Emitting, CrashJustified, AtRest
<1>5. NamesKept'
  BY <1>1 DEF Walk, NamesKept
<1>6. Described(pos)'
  BY <1>1, <1>2, <1>3, <1>4, KeptDescribed
<1> QED BY <1>1, <1>4, <1>5, <1>6 DEF Walk, IsGraph

\* A function is called at its start.
LEMMA CallWalks ==
  ASSUME IInv, Walk, CallFunction
  PROVE  Walk'
<1>1. pc = "ready" /\ pc' = "running" /\ UNCHANGED <<compiler, flags, at>>
  BY DEF CallFunction
<1>2. PICK i \in DOMAIN symbols : ip' = jit[1] + symbols[i].loc
  BY DEF CallFunction
<1>3. symbols[i].loc \in Nat /\ jit[1] \in Nat /\ at = Graph!Idle
  BY <1>1 DEF IInv, Data, Machine, Walk, AtRest
<1>4. PICK pos : Described(pos)
  BY <1>1 DEF Walk
<1>5. UNCHANGED <<code, jit>>
  BY <1>1 DEF compiler
<1>6. Walking(pos)'
  <2>1. SUFFICES ASSUME NEW k \in DOMAIN code, ip' = jit[1] + code[k].at PROVE Expected(pos[k])'
    BY <1>5 DEF Walking
  <2>2. code[k].at \in Nat
    <3>1. IsSeq(code)
      BY DEF IInv, Layout, WellLaid
    <3>2. IsInst(code[k])
      BY <3>1, SeqIs DEF IInv, Layout, WellLaid
    <3> QED BY <3>2, InstEnds
  <2>3. code[k].at = symbols[i].loc
    BY <2>1, <2>2, <1>2, <1>3
  <2>4. pos[k].part = "start"
    BY <2>3, <1>4 DEF Described, SymbolsLead
  <2> QED BY <2>4, <1>1, <1>3 DEF Expected
<1> QED BY <1>1, <1>4, <1>6, RunWalks

\* What comes at the end of an instruction is the next one.
LEMMA NextIs ==
  ASSUME IInv, NEW k \in DOMAIN code, NEW j \in DOMAIN code, code[j].at >= End(code[k])
  PROVE  /\ k \in Nat /\ k + 1 \in DOMAIN code /\ k \in 1..(Len(code) - 1) /\ code[k + 1].at = End(code[k])
         /\ code[j].at \in Nat /\ End(code[k]) \in Nat
         /\ code[j].at = End(code[k]) => j = k + 1
<1>1. IsSeq(code)
  BY DEF IInv, Layout, WellLaid
<1>2. Len(code) \in Nat /\ DOMAIN code = 1..Len(code)
  BY <1>1, SeqIs
<1>3. /\ IsInst(code[j]) /\ IsInst(code[k])
      /\ j < k => End(code[j]) <= code[k].at
  BY <1>2 DEF IInv, Layout, WellLaid
<1>4. /\ code[j].at \in Nat /\ End(code[j]) \in Nat /\ code[j].at < End(code[j])
      /\ code[k].at \in Nat /\ End(code[k]) \in Nat /\ code[k].at < End(code[k])
  BY <1>3, InstEnds
<1>5. k < j
  BY <1>2, <1>3, <1>4
<1>6. k \in 1..(Len(code) - 1) /\ k + 1 \in 1..Len(code)
  BY <1>2, <1>5
<1>7. code[k + 1].at = End(code[k])
  BY <1>6 DEF IInv, Layout, WellLaid
<1>8. j # k + 1 => code[j].at # End(code[k])
  <2>1. SUFFICES ASSUME j # k + 1 PROVE code[j].at # End(code[k])
    OBVIOUS
  <2>2. k + 1 < j
    BY <2>1, <1>2, <1>5
  <2>3. End(code[k + 1]) <= code[j].at /\ IsInst(code[k + 1])
    BY <2>2, <1>2, <1>6 DEF IInv, Layout, WellLaid
  <2>4. End(code[k + 1]) \in Nat /\ code[k + 1].at \in Nat /\ code[k + 1].at < End(code[k + 1])
    BY <2>3, InstEnds
  <2> QED BY <2>3, <2>4, <1>4, <1>7
<1> QED BY <1>2, <1>4, <1>6, <1>7, <1>8

\* The machine goes on to the next instruction.
LEMMA GoesOn ==
  ASSUME IInv, NEW k \in DOMAIN code, NEW pos, Described(pos), UNCHANGED compiler,
         ip' = Following(code[k]),
         \A i, q : Stands(i, q) /\ Follows(pos[k], q) => Expected(q)'
  PROVE  Walking(pos)'
<1>1. UNCHANGED <<code, jit>>
  BY DEF compiler
<1>2. SUFFICES ASSUME NEW j \in DOMAIN code, ip' = jit[1] + code[j].at PROVE Expected(pos[j])'
  BY <1>1 DEF Walking
<1>3. IsSeq(code)
  BY DEF IInv, Layout, WellLaid
<1>4. IsInst(code[j]) /\ IsInst(code[k])
  BY <1>3, SeqIs DEF IInv, Layout, WellLaid
<1>5. code[j].at \in Nat /\ End(code[k]) \in Nat /\ jit[1] \in Nat
  BY <1>4, InstEnds DEF IInv, Machine
<1>6. code[j].at = End(code[k])
  BY <1>2, <1>5 DEF Following
<1>7. j = k + 1 /\ k \in 1..(Len(code) - 1)
  BY <1>5, <1>6, NextIs
<1>8. Stands(code[j], pos[j]) /\ Follows(pos[k], pos[j])
  BY <1>7 DEF Described, Standing, InOrder
<1> QED BY <1>8

\* Which instruction is where.
LEMMA PartIs ==
  ASSUME NEW i, NEW p, Stands(i, p)
  PROVE  /\ i.op \in {"nop", "prologue"} => p.part = "start"
         /\ i.op \in {"lea", "load"} => p.part = "refs"
         /\ i.op = "body" => p.part = "body"
         /\ i.op = "test" => p.part = "test"
         /\ i.op = "shuffle" => p.part \in {"yes", "no"}
         /\ i.op = "jmp" => p.part \in {"toyes", "tono"}
         /\ i.op = "jz" => p.part = "jz"
         /\ i.op = "ret" => p.part = "ret"
BY DEF Stands, Parts, IsReference, IsJump

\* The machine is where it is expected.
LEMMA ExecIs ==
  ASSUME IInv, Walk, NEW k \in DOMAIN code, pc = "running", ip = jit[1] + code[k].at
  PROVE  \E pos : /\ Described(pos) /\ Stands(code[k], pos[k]) /\ Expected(pos[k])
<1>1. PICK pos : Described(pos)
  BY DEF Walk
<1> QED BY <1>1 DEF Described, Standing, Walking

\* Instructions without an effect on the walk.
LEMMA PlainWalks ==
  ASSUME IInv, Walk, NEW k \in DOMAIN code, ExecPlain(code[k])
  PROVE  Walk'
<1>1. /\ pc = "running" /\ pc' = "running" /\ ip = jit[1] + code[k].at /\ UNCHANGED <<compiler, at>>
      /\ ip' = Following(code[k]) /\ flags' = IF code[k].op = "test" THEN at.cond ELSE flags
      /\ code[k].op \in {"nop", "prologue", "lea", "load", "test"}
  BY DEF ExecPlain, Executing
<1>2. PICK pos : Described(pos) /\ Stands(code[k], pos[k]) /\ Expected(pos[k])
  BY <1>1, ExecIs
<1> DEFINE p == pos[k]
<1>3. p.part \in {"start", "refs", "test"} /\ (p.part = "test" => code[k].op = "test")
  BY <1>1, <1>2, PartIs DEF Stands
<1>4. program' = program
  BY <1>1 DEF compiler
<1> HIDE DEF p
<1>5. ASSUME NEW i, NEW q, Stands(i, q), Follows(p, q) PROVE Expected(q)'
  <2>1. \A r : Arriving(r)' <=> Arriving(r)
    BY <1>1, <1>4 DEF Arriving, Graph!Term, Graph!FindBlock, Graph!Taken
  <2>2. Expected(p)
    BY <1>2 DEF p
  <2>3. CASE p.part = "start"
    <3>1. at = Graph!Idle
      BY <2>2, <2>3 DEF Expected
    <3>2. q.part = "start" \/ (q.b = 1 /\ q.part \in {"refs", "body"})
      BY <1>5, <2>3 DEF Follows, Enters
    <3>3. q.b = 1 => Arriving(q)'
      BY <3>1, <1>1 DEF Arriving
    <3> QED BY <3>1, <3>2, <3>3, <1>1 DEF Expected
  <2>4. CASE p.part = "refs"
    <3>1. q.f = p.f /\ q.b = p.b /\ q.part \in {"refs", "body"}
      BY <1>5, <2>4 DEF Follows, Enters
    <3>2. Arriving(p)
      BY <2>2, <2>4 DEF Expected
    <3>3. Arriving(q)'
      BY <3>1, <3>2, <2>1 DEF Arriving
    <3> QED BY <3>1, <3>3 DEF Expected
  <2>5. CASE p.part = "test"
    <3>1. q.f = p.f /\ q.b = p.b /\ q.part = "jz"
      BY <1>5, <2>5 DEF Follows
    <3>2. PICK c \in BOOLEAN : at = Graph!Ran(p.f, p.b, c)
      BY <2>2, <2>5 DEF Expected
    <3>3. flags' = c
      BY <3>2, <2>5, <1>1, <1>3 DEF Graph!Ran
    <3> QED BY <3>1, <3>2, <3>3, <1>1 DEF Expected
  <2> QED BY <2>3, <2>4, <2>5, <1>3 DEF p
<1>6. Walking(pos)'
  BY <1>1, <1>2, <1>5, GoesOn DEF p
<1> QED BY <1>1, <1>2, <1>6, RunWalks

\* A condition becomes known.
LEMMA RanIs ==
  ASSUME NEW f, NEW b, NEW c
  PROVE  [Graph!Ran(f, b, FALSE) EXCEPT !.cond = c] = Graph!Ran(f, b, c)
BY DEF Graph!Ran

\* The statements of a block.
LEMMA BodyWalks ==
  ASSUME IInv, Walk, NEW k \in DOMAIN code, ExecBody(code[k])
  PROVE  Walk'
<1>1. /\ pc = "running" /\ pc' = "running" /\ ip = jit[1] + code[k].at /\ UNCHANGED compiler
      /\ ip' = Following(code[k]) /\ code[k].op = "body"
  BY DEF ExecBody, Executing
<1>2. PICK pos : Described(pos) /\ Stands(code[k], pos[k]) /\ Expected(pos[k])
  BY <1>1, ExecIs
<1> DEFINE p == pos[k]
<1>3. p.part = "body" /\ code[k].want = Graph!Ran(p.f, p.b, FALSE)
      /\ p.f \in 1..Len(program.funcs) /\ p.b \in 1..Len(BlocksOf(p))
  BY <1>1, <1>2, PartIs DEF Stands
<1> HIDE DEF p
<1> DEFINE t == TermAt(p)
<1>4. program.funcs[code[k].want.f].blocks[code[k].want.b].term = t
  BY <1>3 DEF Graph!Ran, TermAt, BlocksOf
<1>5. PICK c \in Graph!Outcomes(t) :
        /\ at' = [code[k].want EXCEPT !.cond = c]
        /\ flags' \in IF t.op = "if" /\ t.cond # "compared" THEN BOOLEAN ELSE {c}
  BY <1>4 DEF ExecBody
<1>6. at' = Graph!Ran(p.f, p.b, c) /\ c \in BOOLEAN /\ (t.op # "if" => c = TRUE)
  <2>1. c \in BOOLEAN /\ (t.op # "if" => c = TRUE)
    BY <1>5 DEF Graph!Outcomes
  <2>2. at' = [Graph!Ran(p.f, p.b, FALSE) EXCEPT !.cond = c]
    BY <1>3, <1>5
  <2> HIDE DEF t
  <2>3. at' = Graph!Ran(p.f, p.b, c)
    BY <2>2, RanIs
  <2> QED BY <2>1, <2>3
<1>7. t.op = "if" => t.cond \in {"value", "compared"}
  BY <1>3, GraphIs DEF IInv, Control, Walk, TermAt, BlocksOf
<1>8. ASSUME NEW i, NEW q, Stands(i, q), Follows(p, q) PROVE Expected(q)'
  <2>1. q.f = p.f /\ q.b = p.b /\ q.part = AfterBody(t)
    BY <1>3, <1>8 DEF Follows
  <2>2. TermAt(q) = t
    BY <2>1 DEF TermAt, BlocksOf
  <2>3. q.part \in {"test", "jz"} => t.op = "if"
    BY <2>2, <1>8 DEF Stands
  <2> HIDE DEF t
  <2>4. CASE q.part = "ret"
    BY <2>1, <2>4, <1>6 DEF Expected
  <2>5. CASE q.part = "yes"
    <3>1. t.op = "goto"
      BY <2>1, <2>5 DEF AfterBody
    <3> QED BY <3>1, <2>1, <2>5, <1>6 DEF Expected
  <2>6. CASE q.part = "test"
    BY <2>1, <2>6, <1>6 DEF Expected
  <2>7. CASE q.part = "jz"
    <3>1. t.op = "if" /\ t.cond = "compared"
      BY <2>1, <2>3, <2>7, <1>7 DEF AfterBody
    <3>2. flags' = c
      BY <3>1, <1>5
    <3> QED BY <3>2, <2>1, <2>7, <1>6 DEF Expected
  <2> QED BY <2>1, <2>4, <2>5, <2>6, <2>7 DEF AfterBody
<1>9. Walking(pos)'
  BY <1>1, <1>2, <1>8, GoesOn DEF p
<1> QED BY <1>1, <1>2, <1>9, RunWalks

\* Where a shuffle leads.
LEMMA ArrivesAt ==
  ASSUME IsProgram(program), IsGraph(program), UNCHANGED program, NEW p, NEW q, NEW c \in BOOLEAN,
         p.f \in 1..Len(program.funcs), q.f = p.f,
         q.b = Graph!FindBlock(program.funcs[p.f], Graph!Taken(TermAt(p), c).to),
         at' = Graph!Shuffled(p.f, p.b, c)
  PROVE  Arriving(q)'
<1>1. at'.kind = "shuffle" /\ at'.f = p.f /\ at'.b = p.b /\ at'.cond = c
  BY DEF Graph!Shuffled
<1>2. Graph!Term' = TermAt(p)
  BY <1>1 DEF Graph!Term, TermAt, BlocksOf
<1>3. Graph!FindBlock(program.funcs[q.f], Graph!Taken(Graph!Term, at.cond).to)' = q.b
  BY <1>1, <1>2 DEF Graph!FindBlock, Graph!Taken
<1> QED BY <1>1, <1>3 DEF Arriving

\* The arguments of an edge.
LEMMA ShuffleWalks ==
  ASSUME IInv, Walk, NEW k \in DOMAIN code, ExecShuffle(code[k])
  PROVE  Walk'
<1>1. /\ pc = "running" /\ pc' = "running" /\ ip = jit[1] + code[k].at /\ UNCHANGED compiler
      /\ ip' = Following(code[k]) /\ code[k].op = "shuffle" /\ at' = code[k].want
  BY DEF ExecShuffle, Executing
<1>2. PICK pos : Described(pos) /\ Stands(code[k], pos[k]) /\ Expected(pos[k])
  BY <1>1, ExecIs
<1> DEFINE p == pos[k]
<1>3. /\ p.part \in {"yes", "no"}
      /\ p.f \in 1..Len(program.funcs) /\ p.b \in 1..Len(BlocksOf(p))
      /\ at' = Graph!Shuffled(p.f, p.b, p.part = "yes")
  BY <1>1, <1>2, PartIs DEF Stands, Graph!Shuffled
<1>4. program' = program /\ IsProgram(program) /\ IsGraph(program)
  BY <1>1 DEF compiler, IInv, Control, Walk
<1> HIDE DEF p
<1>5. ASSUME NEW i, NEW q, Stands(i, q), Follows(p, q) PROVE Expected(q)'
  <2> DEFINE c == p.part = "yes"
             name == Graph!Taken(TermAt(p), c).to
  <2>1. \/ q.f = p.f /\ q.b = p.b /\ q.part = (IF c THEN "toyes" ELSE "tono")
        \/ Falls(p, q, name)
    BY <1>3, <1>5 DEF Follows, Graph!Taken
  <2>2. CASE q.f = p.f /\ q.b = p.b /\ q.part = (IF c THEN "toyes" ELSE "tono")
    BY <2>2, <1>3 DEF Expected
  <2>3. CASE Falls(p, q, name)
    <3>1. /\ p.b < Len(BlocksOf(p)) /\ BlocksOf(p)[p.b + 1].name = name
          /\ q.f = p.f /\ q.b = p.b + 1 /\ q.part \in {"refs", "body"}
      BY <2>3 DEF Falls, Enters
    <3>2. Len(BlocksOf(p)) \in Nat
      BY <1>3, <1>4, GraphIs DEF BlocksOf
    <3>3. p.b + 1 \in 1..Len(program.funcs[p.f].blocks)
      BY <3>1, <3>2, <1>3 DEF BlocksOf
    <3>4. Graph!FindBlock(program.funcs[p.f], program.funcs[p.f].blocks[p.b + 1].name) = p.b + 1
      BY <3>3, <1>3, <1>4, FindIs
    <3>5. q.b = Graph!FindBlock(program.funcs[p.f], name)
      BY <3>1, <3>4 DEF BlocksOf
    <3>6. Arriving(q)'
      <4>1. c \in BOOLEAN
        OBVIOUS
      <4> HIDE DEF c
      <4>2. at' = Graph!Shuffled(p.f, p.b, c)
        BY <1>3 DEF c
      <4> QED BY <3>1, <3>5, <4>1, <4>2, <1>3, <1>4, ArrivesAt
    <3> QED BY <3>1, <3>6 DEF Expected
  <2> QED BY <2>1, <2>2, <2>3
<1>6. Walking(pos)'
  BY <1>1, <1>2, <1>5, GoesOn DEF p
<1> QED BY <1>1, <1>2, <1>6, RunWalks

\* A jump leads to the beginning of its block.
LEMMA JmpWalks ==
  ASSUME IInv, Walk, NEW k \in DOMAIN code, ExecJump(code[k]), code[k].op = "jmp"
  PROVE  Walk'
<1>1. /\ pc = "running" /\ pc' = "running" /\ ip = jit[1] + code[k].at /\ UNCHANGED <<compiler, at>>
      /\ ip' = Following(code[k]) + code[k].disp
  BY DEF ExecJump, Executing
<1>2. PICK pos : Described(pos) /\ Stands(code[k], pos[k]) /\ Expected(pos[k])
  BY <1>1, ExecIs
<1> DEFINE p == pos[k]
           c == p.part = "toyes"
           name == Graph!Taken(TermAt(p), c).to
           b == Graph!FindBlock(program.funcs[p.f], name)
<1>3. /\ p.part \in {"toyes", "tono"}
      /\ p.f \in 1..Len(program.funcs) /\ p.b \in 1..Len(BlocksOf(p))
      /\ p.part = "toyes" => TermAt(p).op \in {"goto", "if"} /\ IsJump(code[k], p, TermAt(p).yes.to)
      /\ p.part = "tono" => TermAt(p).op = "if" /\ IsJump(code[k], p, TermAt(p).no.to)
      /\ at = Graph!Shuffled(p.f, p.b, c)
  <2>1. p.part \in {"toyes", "tono"}
    BY <1>2, PartIs
  <2>2. at = Graph!Shuffled(p.f, p.b, c)
    BY <2>1, <1>2 DEF Expected, Graph!Shuffled
  <2> QED BY <2>1, <2>2, <1>2 DEF Stands
<1>4. program' = program /\ IsProgram(program) /\ IsGraph(program) /\ UNCHANGED <<code, jit>>
  BY <1>1 DEF compiler, IInv, Control, Walk
<1> HIDE DEF p
<1>5. IsJump(code[k], p, name) /\ \E j \in 1..Len(program.funcs[p.f].blocks) : program.funcs[p.f].blocks[j].name = name
  <2>1. /\ TermAt(p).op \in {"goto", "if"} => \E j \in 1..Len(BlocksOf(p)) : BlocksOf(p)[j].name = TermAt(p).yes.to
        /\ TermAt(p).op = "if" => \E j \in 1..Len(BlocksOf(p)) : BlocksOf(p)[j].name = TermAt(p).no.to
    BY <1>3, <1>4, GraphIs DEF BlocksOf, TermAt
  <2> QED BY <2>1, <1>3 DEF Graph!Taken, BlocksOf
<1> HIDE DEF name
<1>6. b \in 1..Len(program.funcs[p.f].blocks)
  BY <1>3, <1>4, <1>5, FoundIs
<1>7. code[k].want[1] = p.f /\ code[k].want[2] = b /\ code[k].ref.kind = "label"
  BY <1>5 DEF IsJump, Ref
<1> HIDE DEF b
<1>8. loop.f = Len(program.funcs) + 1 /\ Len(program.funcs) \in Nat
  BY <1>1, <1>4, ProgramIs DEF IInv, Control
<1>9. To(code[k]) = starts[p.f][b]
  BY <1>1, <1>7, <1>8 DEF IInv, LabelsLinked
<1>10. Begun(p.f, b)
  BY <1>3, <1>6, <1>8 DEF Begun
<1>11. starts[p.f][b] \in Nat
  BY <1>3, <1>6 DEF IInv, StartsTyped
<1>12. IsSeq(code)
  BY DEF IInv, Layout, WellLaid
<1>13. \A j \in DOMAIN code : IsInst(code[j])
  BY <1>12, SeqIs DEF IInv, Layout, WellLaid
<1>14. jit[1] \in Nat /\ code[k].disp \in Int /\ End(code[k]) \in Nat
  BY <1>13, InstEnds DEF IInv, Machine
<1>15. ip' = jit[1] + starts[p.f][b]
  BY <1>1, <1>9, <1>11, <1>14 DEF Following, To
<1>16. Walking(pos)'
  <2>1. SUFFICES ASSUME NEW j \in DOMAIN code, ip' = jit[1] + code[j].at PROVE Expected(pos[j])'
    BY <1>4 DEF Walking
  <2>2. code[j].at \in Nat
    BY <1>13, InstEnds
  <2>3. code[j].at = starts[p.f][b]
    BY <2>1, <2>2, <1>11, <1>14, <1>15
  <2>4. Enters(pos[j], p.f, b)
    BY <2>3, <1>2, <1>10 DEF Described, StartsLead
  <2> DEFINE q == pos[j]
  <2>5. q.f = p.f /\ q.b = b /\ q.part \in {"refs", "body"}
    BY <2>4 DEF Enters
  <2> HIDE DEF q
  <2>6. Arriving(q)'
    <3>1. c \in BOOLEAN
      OBVIOUS
    <3> HIDE DEF c
    <3>2. at' = Graph!Shuffled(p.f, p.b, c)
      BY <1>1, <1>3
    <3>3. q.b = Graph!FindBlock(program.funcs[p.f], Graph!Taken(TermAt(p), c).to)
      BY <2>5 DEF b, name
    <3> QED BY <2>5, <3>1, <3>2, <3>3, <1>3, <1>4, ArrivesAt
  <2>7. Expected(q)'
    BY <2>5, <2>6 DEF Expected
  <2> QED BY <2>7 DEF q
<1> QED BY <1>1, <1>2, <1>16, RunWalks

\* A conditional jump that is taken skips the yes edge: its shuffle and its jump.
LEMMA Skips ==
  ASSUME IInv, NEW pos, Described(pos), NEW k \in DOMAIN code, NEW j \in DOMAIN code,
         pos[k].part = "jz", Stands(code[k], pos[k]),
         code[j].at = End(code[k]) + (InstLen["shuffle"] + InstLen["jmp"])
  PROVE  pos[j].f = pos[k].f /\ pos[j].b = pos[k].b /\ pos[j].part = "no"
<1>1. /\ InstLen["shuffle"] \in Nat /\ InstLen["shuffle"] >= 1
      /\ InstLen["jmp"] \in Nat /\ InstLen["jmp"] >= 1
  BY InstLenIs DEF Ops
<1>2. IsSeq(code)
  BY DEF IInv, Layout, WellLaid
<1>3. \A m \in DOMAIN code : IsInst(code[m]) /\ End(code[m]) \in Nat /\ code[m].at \in Nat
  BY <1>2, SeqIs, InstEnds DEF IInv, Layout, WellLaid
<1> DEFINE p == pos[k]
           t == TermAt(p)
<1>4. t.op = "if"
  BY DEF Stands
<1>5. k + 1 \in DOMAIN code /\ k \in 1..(Len(code) - 1) /\ code[k + 1].at = End(code[k]) /\ k \in Nat
  <2>1. code[j].at >= End(code[k])
    BY <1>1, <1>3
  <2> QED BY <2>1, NextIs
<1>6. Stands(code[k + 1], pos[k + 1]) /\ Follows(p, pos[k + 1])
  BY <1>5 DEF Described, Standing, InOrder
<1>7. /\ pos[k + 1].f = p.f /\ pos[k + 1].b = p.b /\ pos[k + 1].part = "yes"
      /\ code[k + 1].op = "shuffle"
  BY <1>6 DEF Follows, Stands
<1>8. End(code[k + 1]) = End(code[k]) + InstLen["shuffle"]
  BY <1>5, <1>7 DEF End
<1>9. k + 2 \in DOMAIN code /\ k + 1 \in 1..(Len(code) - 1) /\ code[k + 2].at = End(code[k + 1])
  <2>1. code[j].at >= End(code[k + 1])
    BY <1>1, <1>3, <1>8
  <2>2. (k + 1) + 1 = k + 2
    BY <1>5
  <2> QED BY <1>5, <2>1, <2>2, NextIs
<1>10. Stands(code[k + 2], pos[k + 2]) /\ Follows(pos[k + 1], pos[k + 2])
  <2>1. (k + 1) + 1 = k + 2
    BY <1>5
  <2>2. Follows(pos[k + 1], pos[(k + 1) + 1])
    BY <1>9 DEF Described, InOrder
  <2> QED BY <1>9, <2>1, <2>2 DEF Described, Standing
<1>11. /\ pos[k + 2].f = p.f /\ pos[k + 2].b = p.b /\ pos[k + 2].part = "toyes"
       /\ code[k + 2].op = "jmp"
  <2>1. TermAt(pos[k + 1]).op = "if"
    BY <1>4, <1>7 DEF TermAt, BlocksOf
  <2>2. pos[k + 2].f = p.f /\ pos[k + 2].b = p.b /\ pos[k + 2].part = "toyes"
    BY <2>1, <1>7, <1>10 DEF Follows
  <2> QED BY <2>2, <1>10 DEF Stands, IsJump
<1>12. End(code[k + 2]) = code[j].at
  <2>1. End(code[k + 2]) = (End(code[k]) + InstLen["shuffle"]) + InstLen["jmp"]
    BY <1>8, <1>9, <1>11 DEF End
  <2> QED BY <2>1, <1>1, <1>3
<1>13. j = k + 3 /\ k + 2 \in 1..(Len(code) - 1)
  <2>1. code[j].at >= End(code[k + 2])
    BY <1>3, <1>12
  <2>2. (k + 2) + 1 = k + 3
    BY <1>5
  <2> QED BY <1>9, <1>12, <2>1, <2>2, NextIs
<1>14. Follows(pos[k + 2], pos[j])
  <2>1. (k + 2) + 1 = j
    BY <1>5, <1>13
  <2>2. Follows(pos[k + 2], pos[(k + 2) + 1])
    BY <1>13 DEF Described, InOrder
  <2> QED BY <2>1, <2>2
<1>15. TermAt(pos[k + 2]).op = "if"
  BY <1>4, <1>11 DEF TermAt, BlocksOf
<1> QED BY <1>11, <1>14, <1>15 DEF Follows

\* A conditional jump.
LEMMA JzWalks ==
  ASSUME IInv, Walk, NEW k \in DOMAIN code, ExecJump(code[k]), code[k].op = "jz"
  PROVE  Walk'
<1>1. /\ pc = "running" /\ pc' = "running" /\ ip = jit[1] + code[k].at /\ UNCHANGED <<compiler, at, flags>>
      /\ ip' = IF ~flags THEN Following(code[k]) + code[k].disp ELSE Following(code[k])
  BY DEF ExecJump, Executing
<1>2. PICK pos : Described(pos) /\ Stands(code[k], pos[k]) /\ Expected(pos[k])
  BY <1>1, ExecIs
<1>3. /\ pos[k].part = "jz" /\ code[k].disp = InstLen["shuffle"] + InstLen["jmp"]
      /\ at = Graph!Ran(pos[k].f, pos[k].b, flags)
  BY <1>2, PartIs DEF Stands, Expected
<1>4. UNCHANGED <<code, jit>> /\ flags \in BOOLEAN /\ jit[1] \in Nat
  BY <1>1 DEF compiler, IInv, Machine
<1>5. Walking(pos)'
  <2>1. CASE flags
    <3>1. ip' = Following(code[k]) /\ at' = Graph!Ran(pos[k].f, pos[k].b, TRUE)
      BY <2>1, <1>1, <1>3, <1>4
    <3>2. ASSUME NEW i, NEW q, Stands(i, q), Follows(pos[k], q) PROVE Expected(q)'
      <4>1. q.f = pos[k].f /\ q.b = pos[k].b /\ q.part = "yes"
        BY <3>2, <1>3 DEF Follows
      <4> QED BY <3>1, <4>1 DEF Expected
    <3> QED BY <3>1, <3>2, <1>1, <1>2, GoesOn
  <2>2. CASE ~flags
    <3>1. ip' = Following(code[k]) + (InstLen["shuffle"] + InstLen["jmp"])
      BY <2>2, <1>1, <1>3
    <3>2. at' = Graph!Ran(pos[k].f, pos[k].b, FALSE)
      BY <2>2, <1>1, <1>3, <1>4
    <3>3. SUFFICES ASSUME NEW j \in DOMAIN code, ip' = jit[1] + code[j].at PROVE Expected(pos[j])'
      BY <1>4 DEF Walking
    <3>4. IsSeq(code)
      BY DEF IInv, Layout, WellLaid
    <3>5. IsInst(code[j]) /\ IsInst(code[k])
      BY <3>4, SeqIs DEF IInv, Layout, WellLaid
    <3>6. code[j].at \in Nat /\ End(code[k]) \in Nat
      BY <3>5, InstEnds
    <3>7. InstLen["shuffle"] \in Nat /\ InstLen["jmp"] \in Nat
      BY InstLenIs DEF Ops
    <3>8. code[j].at = End(code[k]) + (InstLen["shuffle"] + InstLen["jmp"])
      BY <3>1, <3>3, <3>6, <3>7, <1>4 DEF Following
    <3>9. pos[j].f = pos[k].f /\ pos[j].b = pos[k].b /\ pos[j].part = "no"
      BY <3>8, <1>2, <1>3, Skips
    <3> QED BY <3>2, <3>9 DEF Expected
  <2> QED BY <2>1, <2>2
<1> QED BY <1>1, <1>2, <1>5, RunWalks

\* A return.
LEMMA ReturnWalks ==
  ASSUME IInv, Walk, NEW k \in DOMAIN code, ExecReturn(code[k])
  PROVE  Walk'
<1>1. pc = "running" /\ pc' = "ran" /\ UNCHANGED compiler /\ at' = Graph!Returned
  BY DEF ExecReturn, Executing
<1>2. PICK pos : Described(pos)
  BY <1>1 DEF Walk
<1>3. Walking(pos)'
  BY <1>1 DEF Walking
<1> QED BY <1>1, <1>2, <1>3, RunWalks

\* A step that changes nothing.
LEMMA StutterWalks ==
  ASSUME IInv, Walk, UNCHANGED vars
  PROVE  Walk'
<1>1. /\ UNCHANGED <<pc, loop, program, starts, symbols, globals, statics, code, code_len, jit>>
      /\ UNCHANGED <<ip, flags, at>>
  BY DEF vars
<1>2. Marks' /\ NamesKept' /\ AtRest' /\ CrashJustified'
  <2>1. Marks'
    BY <1>1 DEF Walk, Marks, Begun, Emitting
  <2>2. NamesKept' /\ AtRest'
    BY <1>1 DEF Walk, NamesKept, AtRest
  <2>3. Addresses' = Addresses
    BY <1>1 DEF Addresses
  <2>4. CrashJustified'
    BY <1>1, <2>3 DEF Walk, CrashJustified, NamesIn, Fits, End
  <2> QED BY <2>1, <2>2, <2>4
<1>3. pc' \notin {"freed", "crash"} => \E pos : Described(pos)'
  <2>1. SUFFICES ASSUME pc \notin {"freed", "crash"} PROVE \E pos : Described(pos)'
    BY <1>1
  <2>2. PICK pos : Described(pos)
    BY <2>1 DEF Walk
  <2>3. CodeKept /\ BegunKept
    BY <1>1, SameCode DEF BegunKept, Begun
  <2>4. Open(pos)'
    <3>1. \A q : Awaited(q)' => Awaited(q)
      BY <1>1 DEF Awaited, Enters, func
    <3> QED BY <3>1, <1>1, <2>2, FollowsAgain DEF Described, Open, Emitting
  <2>5. Walking(pos)'
    <3>0. \A q : Arriving(q)' <=> Arriving(q)
      BY <1>1 DEF Arriving, Graph!Term, Graph!FindBlock, Graph!Taken
    <3>1. ASSUME NEW q, Expected(q) PROVE Expected(q)'
      BY <3>0, <3>1, <1>1 DEF Expected
    <3> QED BY <3>1, <1>1, <2>2 DEF Described, Walking
  <2> QED BY <1>1, <2>2, <2>3, <2>4, <2>5, KeptDescribed
<1> QED BY <1>1, <1>2, <1>3 DEF Walk, IsGraph

\* Every step keeps the description.
LEMMA NextWalk ==
  ASSUME IInv, IInv', Walk, [Next]_vars
  PROVE  Walk'
<1>1. CASE parse \/ add_global \/ do_lowering
  BY <1>1, FrontWalks
<1>2. CASE BeginFunction
  BY <1>2, BeginFunctionWalks
<1>3. CASE BeginBlock
  BY <1>3, BeginBlockWalks
<1>4. CASE SymbolLookup \/ MovFloatConstant
  BY <1>4, ReferencesWalk
<1>5. CASE EmitReturn \/ EmitGoto \/ EmitIf
  BY <1>5, TerminatorsWalk
<1>6. CASE EndFunction
  BY <1>6, EndFunctionWalks
<1>7. CASE EndFunctions \/ PlaceStatic
  BY <1>7, LoopsWalk
<1>8. CASE ApplyStatics
  BY <1>8, ApplyStaticsWalks
<1>9. CASE ApplySymbols
  BY <1>9, ApplySymbolsWalks
<1>10. CASE NoOutput \/ jit_free
  BY <1>10, FreedWalks
<1>11. CASE do_jit_lowering
  BY <1>11, JitWalks
<1>12. CASE CallFunction
  BY <1>12, CallWalks
<1>13. ASSUME NEW k \in DOMAIN code,
              \/ ExecBody(code[k]) \/ ExecShuffle(code[k]) \/ ExecPlain(code[k])
              \/ ExecJump(code[k]) \/ ExecReturn(code[k])
       PROVE  Walk'
  <2>1. CASE ExecBody(code[k])
    BY <2>1, BodyWalks
  <2>2. CASE ExecShuffle(code[k])
    BY <2>2, ShuffleWalks
  <2>3. CASE ExecPlain(code[k])
    BY <2>3, PlainWalks
  <2>4. CASE ExecJump(code[k])
    <3>1. code[k].op \in {"jmp", "jz"}
      BY <2>4 DEF ExecJump, Executing
    <3> QED BY <2>4, <3>1, JmpWalks, JzWalks
  <2>5. CASE ExecReturn(code[k])
    BY <2>5, ReturnWalks
  <2> QED BY <1>13, <2>1, <2>2, <2>3, <2>4, <2>5
<1>14. CASE free_all_compiler_allocs
  BY <1>14, FreeAllWalks
<1>15. CASE UNCHANGED vars
  BY <1>15, StutterWalks
<1> QED BY <1>1, <1>2, <1>3, <1>4, <1>5, <1>6, <1>7, <1>8, <1>9, <1>10, <1>11, <1>12, <1>13,
           <1>14, <1>15 DEF Next

\* Both invariants together.
LEMMA InitWalk == Init => IInv /\ Walk
BY InitInv, EmptyWalk DEF Init, Empty

\* Both are kept.
LEMMA StepWalk == IInv /\ Walk /\ [Next]_vars => IInv' /\ Walk'
BY NextInv, NextWalk

-----------------------------------------------------------------------------
(* Refinement *)

\* Statements run where the walk may go.
LEMMA BodyRefines ==
  ASSUME IInv, Walk, NEW k \in DOMAIN code, ExecBody(code[k])
  PROVE  Graph!Next
<1>1. /\ pc = "running" /\ ip = jit[1] + code[k].at /\ UNCHANGED compiler /\ code[k].op = "body"
  BY DEF ExecBody, Executing
<1>2. PICK pos : Described(pos) /\ Stands(code[k], pos[k]) /\ Expected(pos[k])
  BY <1>1, ExecIs
<1> DEFINE p == pos[k]
<1>3. /\ p.part = "body" /\ code[k].want = Graph!Ran(p.f, p.b, FALSE) /\ p.f \in 1..Len(program.funcs)
      /\ Arriving(p)
  BY <1>1, <1>2, PartIs DEF Stands, Expected
<1> HIDE DEF p
<1> DEFINE t == program.funcs[p.f].blocks[p.b].term
<1>4. program.funcs[code[k].want.f].blocks[code[k].want.b].term = t
  BY <1>3 DEF Graph!Ran
<1>5. PICK c \in Graph!Outcomes(t) : at' = [code[k].want EXCEPT !.cond = c]
  BY <1>4 DEF ExecBody
<1> HIDE DEF t
<1>6. at' = Graph!Ran(p.f, p.b, c)
  <2>1. at' = [Graph!Ran(p.f, p.b, FALSE) EXCEPT !.cond = c]
    BY <1>3, <1>5
  <2> QED BY <2>1, RanIs
<1>7. Graph!Run(p.f, p.b)
  BY <1>1, <1>5, <1>6 DEF Graph!Run, compiler, t
<1>8. CASE at = Graph!Idle /\ p.b = 1
  BY <1>3, <1>7, <1>8 DEF Graph!Call, Graph!Next
<1>9. CASE /\ at.kind = "shuffle" /\ at.f = p.f
           /\ Graph!FindBlock(program.funcs[p.f], Graph!Taken(Graph!Term, at.cond).to) = p.b
  BY <1>7, <1>9 DEF Graph!Arrive, Graph!JumpAfterPassing, Graph!Next
<1> QED BY <1>3, <1>8, <1>9 DEF Arriving

\* The arguments that are put in place are those of the edge taken.
LEMMA ShuffleRefines ==
  ASSUME IInv, Walk, NEW k \in DOMAIN code, ExecShuffle(code[k])
  PROVE  Graph!Next
<1>1. /\ pc = "running" /\ ip = jit[1] + code[k].at /\ UNCHANGED compiler /\ code[k].op = "shuffle"
      /\ at' = code[k].want
  BY DEF ExecShuffle, Executing
<1>2. PICK pos : Described(pos) /\ Stands(code[k], pos[k]) /\ Expected(pos[k])
  BY <1>1, ExecIs
<1> DEFINE p == pos[k]
<1>3. p.part \in {"yes", "no"}
  BY <1>1, <1>2, PartIs
<1>4. PICK c \in BOOLEAN : at = Graph!Ran(p.f, p.b, c) /\ code[k].want = Graph!Shuffled(p.f, p.b, c)
  BY <1>2, <1>3 DEF Expected, Stands
<1>5. TermAt(p).op \in {"goto", "if"}
  BY <1>2, <1>3 DEF Stands
<1> HIDE DEF p
<1>6. at.kind = "block" /\ at.f = p.f /\ at.b = p.b /\ at.cond = c
  BY <1>4 DEF Graph!Ran
<1>7. Graph!Term = TermAt(p)
  BY <1>6 DEF Graph!Term, TermAt, BlocksOf
<1>8. Graph!PassArguments
  <2>1. at' = Graph!Shuffled(at.f, at.b, at.cond)
    BY <1>1, <1>4, <1>6
  <2> QED BY <2>1, <1>1, <1>5, <1>6, <1>7 DEF Graph!PassArguments, compiler
<1> QED BY <1>8 DEF Graph!Next

\* A function returns at the end of a block that does.
LEMMA ReturnRefines ==
  ASSUME IInv, Walk, NEW k \in DOMAIN code, ExecReturn(code[k])
  PROVE  Graph!Next
<1>1. /\ pc = "running" /\ ip = jit[1] + code[k].at /\ UNCHANGED compiler /\ code[k].op = "ret"
      /\ at' = Graph!Returned
  BY DEF ExecReturn, Executing
<1>2. PICK pos : Described(pos) /\ Stands(code[k], pos[k]) /\ Expected(pos[k])
  BY <1>1, ExecIs
<1> DEFINE p == pos[k]
<1>3. p.part = "ret" /\ TermAt(p).op = "return"
  BY <1>1, <1>2, PartIs DEF Stands
<1>4. PICK c \in BOOLEAN : at = Graph!Ran(p.f, p.b, c)
  BY <1>2, <1>3 DEF Expected
<1> HIDE DEF p
<1>5. at.kind = "block" /\ at.f = p.f /\ at.b = p.b
  BY <1>4 DEF Graph!Ran
<1>6. Graph!Term = TermAt(p)
  BY <1>5 DEF Graph!Term, TermAt, BlocksOf
<1>7. Graph!Return
  BY <1>1, <1>3, <1>5, <1>6 DEF Graph!Return, compiler
<1> QED BY <1>7 DEF Graph!Next

\* Every step is a step of the walk or leaves it alone.
LEMMA StepRefines ==
  ASSUME IInv, Walk, [Next]_vars
  PROVE  [Graph!Next]_<<program, at>>
<1>1. CASE parse
  <2>1. pc = "idle" /\ at' = at
    BY <1>1 DEF parse, machine
  <2>2. at = Graph!Idle
    BY <2>1 DEF Walk, AtRest
  <2> QED BY <2>1, <2>2 DEF Graph!NextProgram, Graph!Next
<1>2. CASE free_all_compiler_allocs
  <2>1. pc \in {"freed", "crash"} /\ at' = Graph!Idle
    BY <1>2 DEF free_all_compiler_allocs
  <2>2. at \in {Graph!Idle, Graph!Returned}
    BY <2>1 DEF Walk, AtRest
  <2> QED BY <2>1, <2>2 DEF Graph!NextProgram, Graph!Next
<1>3. CASE \/ add_global \/ do_lowering \/ BeginFunction \/ BeginBlock \/ SymbolLookup \/ MovFloatConstant
  BY <1>3 DEF add_global, do_lowering, BeginFunction, BeginBlock, SymbolLookup, MovFloatConstant, machine, compiler
<1>4. CASE EmitReturn \/ EmitGoto \/ EmitIf
  BY <1>4 DEF EmitReturn, EmitGoto, EmitIf, EndBlock, machine
<1>5. CASE EndFunction \/ EndFunctions \/ PlaceStatic \/ ApplyStatics \/ ApplySymbols
  BY <1>5 DEF EndFunction, EndFunctions, PlaceStatic, ApplyStatics, ApplySymbols, machine
<1>6. CASE NoOutput \/ do_jit_lowering \/ CallFunction \/ jit_free
  BY <1>6 DEF NoOutput, do_jit_lowering, CallFunction, jit_free, machine, compiler
<1>7. ASSUME NEW k \in DOMAIN code,
             \/ ExecBody(code[k]) \/ ExecShuffle(code[k]) \/ ExecPlain(code[k])
             \/ ExecJump(code[k]) \/ ExecReturn(code[k])
      PROVE  [Graph!Next]_<<program, at>>
  <2>1. CASE ExecBody(code[k])
    BY <2>1, BodyRefines
  <2>2. CASE ExecShuffle(code[k])
    BY <2>2, ShuffleRefines
  <2>3. CASE ExecPlain(code[k]) \/ ExecJump(code[k])
    BY <2>3 DEF ExecPlain, ExecJump, compiler
  <2>4. CASE ExecReturn(code[k])
    BY <2>4, ReturnRefines
  <2> QED BY <1>7, <2>1, <2>2, <2>3, <2>4
<1>8. CASE UNCHANGED vars
  BY <1>8 DEF vars
<1> QED BY <1>1, <1>2, <1>3, <1>4, <1>5, <1>6, <1>7, <1>8 DEF Next

-----------------------------------------------------------------------------
(* Theorems *)

\* The compiler gives up only on an unknown name, on a function whose last block jumps,
\* and on what is out of reach: no other assertion of compile_file and of the relocations
\* ever fails.
THEOREM CrashCorrect == Spec => []CrashJustified
<1>1. Walk => CrashJustified
  BY DEF Walk
<1> QED BY InitWalk, StepWalk, <1>1, PTL DEF Spec

\* Emitted code, jumps left out where the target comes next included, walks the
\* control-flow graph: compile_file, the relocations and the JIT implement CFG.
THEOREM WalkCorrect == Spec => ImplementsCFG
<1>1. Init => Graph!Init
  BY DEF Init, Graph!Init
<1>2. IInv /\ Walk /\ [Next]_vars => [Graph!Next]_<<program, at>>
  BY StepRefines
<1> QED BY InitWalk, StepWalk, <1>1, <1>2, PTL DEF Spec, ImplementsCFG, Graph!Spec

=============================================================================
