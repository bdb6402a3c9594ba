------------------------ MODULE BlockEmissionProofs ------------------------
(***************************************************************************)
(* What BlockEmission lays out, links and runs is right for every program  *)
(* that IsProgram allows, however many functions, blocks, statics and      *)
(* globals it has, and over any number of sessions.                        *)
(***************************************************************************)
EXTENDS BlockEmission, WellFoundedInduction, TLAPS

-----------------------------------------------------------------------------
(* The inductive invariant *)

\* A sequence, whatever its elements are.
IsSeq(s) == s \in Seq(ToSet(s))

Phases == {"idle", "globals", "function", "block", "statement", "statics", "symbols", "jit",
           "ready", "running", "ran", "freed", "crash"}

\* Where the loops of compile_file stand.
Control ==
  /\ pc \in Phases
  /\ session \in {0, 1}
  /\ IsProgram(program)
  /\ loop \in [f : Nat, b : Nat, s : Nat]
  /\ loop.f \in 1..(Len(program.funcs) + 1)
  /\ pc \in {"idle", "globals"} => loop.f = 1
  /\ pc \in {"block", "statement"} =>
       loop.f <= Len(program.funcs) /\ loop.b \in 1..(Len(func.blocks) + 1)
  /\ pc = "statement" => loop.b <= Len(func.blocks) /\ loop.s \in 1..(Len(block.refs) + 1)
  /\ pc \in {"statics", "symbols", "jit", "ready", "running", "ran"} =>
       loop.f = Len(program.funcs) + 1
  /\ pc = "statics" => loop.s \in 1..(Len(statics) + 1)
  /\ pc \in {"symbols", "jit", "ready", "running", "ran"} => loop.s = Len(statics) + 1

\* Every block has a start offset.
StartsTyped ==
  /\ DOMAIN starts = 1..Len(program.funcs)
  /\ \A f \in 1..Len(program.funcs) :
       starts[f] \in [1..Len(program.funcs[f].blocks) -> Nat]

\* What each kind of instruction refers to, and what a body and a shuffle tell.
IsBare(i) ==
  /\ i.op \in Ops /\ i.disp \in Int
  /\ i.op = "jmp" => i.ref.kind = "label"
  /\ i.op = "load" => i.ref.kind = "static"
  /\ i.op = "lea" => i.ref.kind = "symbol" /\ i.ref.name = i.want
  /\ i.op = "jz" => i.ref.kind = "none" /\ i.disp \in Nat
  /\ i.op = "body" => DOMAIN i.want = {"kind", "f", "b", "cond"}
  /\ i.op = "shuffle" => i.want.cond \in BOOLEAN

\* An instruction with an address.
IsInst(i) == IsBare(i) /\ i.at \in Nat /\ DOMAIN i = {"op", "ref", "disp", "want", "at"}

\* Only the last function jumps, to blocks of its own.
IsLabel(i) ==
  /\ Len(program.funcs) <= loop.f /\ Len(program.funcs) >= 1
  /\ i.want = <<Len(program.funcs), Graph!FindBlock(program.funcs[Len(program.funcs)], i.ref.name)>>

Emitting == pc \in {"idle", "globals", "function", "block", "statement"}

\* Instructions follow each other without gaps, and code_len is their end until the
\* statics are put behind them.
WellLaid(c, len) ==
  /\ IsSeq(c) /\ len \in Nat
  /\ \A k \in 1..Len(c) : IsInst(c[k])
  /\ \A k \in 1..Len(c) : End(c[k]) <= len
  /\ \A k \in 1..(Len(c) - 1) : End(c[k]) = c[k + 1].at
  /\ \A j, k \in 1..Len(c) : j < k => End(c[j]) <= c[k].at

EndOf(c) == IF c = <<>> THEN 0 ELSE End(c[Len(c)])

Layout == WellLaid(code, code_len) /\ (Emitting => code_len = EndOf(code))

Labels == \A k \in DOMAIN code : code[k].ref.kind = "label" => IsLabel(code[k])

\* The lists of usages are exactly the fields of the code.
UsagesMatch ==
  IF pc = "freed" THEN usages = NoUsages
  ELSE usages = [kind \in {"label", "static", "symbol"} |-> UsagesOf(kind, code)]

\* The fields of one kind, without those that name something in X.
Pending(kind, X) == {u \in UsagesOf(kind, code) : u.name \notin X}

LogMatch ==
  /\ pc \notin {"jit", "ready", "running", "ran", "freed", "crash"} => log = {}
  /\ pc = "jit" => log = Pending("symbol", NamesIn(symbols))

\* The names of statics: those of the program, then invented ones.
StaticName(i) == IF i <= Len(program.statics) THEN program.statics[i].name ELSE TempNames[i]

\* Every datum is described, and every load has its static.
Data ==
  /\ IsSeq(globals) /\ IsSeq(statics) /\ IsSeq(symbols) /\ globals_bytecount \in Nat
  /\ \A i \in DOMAIN globals : globals[i].location \in Nat /\ globals[i].size \in Nat
  /\ \A i \in DOMAIN statics :
       /\ DOMAIN statics[i] = {"name", "size", "value", "location"}
       /\ statics[i].location \in Int /\ statics[i].size \in Nat
       /\ statics[i].name = StaticName(i)
  /\ Len(program.statics) <= Len(statics) \/ pc = "idle"
  /\ Len(statics) > Len(program.statics) => Len(statics) <= Len(TempNames)
  /\ \A i \in DOMAIN symbols : symbols[i].loc \in Nat
  /\ pc = "idle" => globals = <<>> /\ globals_bytecount = 0
  /\ pc = "globals" => Len(globals) <= Len(program.globals)
  /\ pc \in {"idle", "globals"} => code = <<>>

StaticsKnown ==
  \A k \in DOMAIN code : code[k].op = "load" =>
    \E i \in DOMAIN statics :
      statics[i].name = code[k].ref.name /\ statics[i].size = 8 /\ statics[i].value = code[k].want

\* What lies where it should once its phase is over.
Placement ==
  /\ Apart(globals, Len(globals), 0, globals_bytecount)
  /\ pc \in {"statics", "symbols", "jit", "ready", "running", "ran"} =>
       Apart(statics, loop.s - 1, EndOf(code), code_len)

To(i) == End(i) + i.disp

\* What is linked once its phase is over.
LabelsLinked ==
  pc \notin {"freed", "crash"} /\ loop.f > Len(program.funcs) =>
    \A k \in DOMAIN code : code[k].ref.kind = "label" =>
      /\ code[k].ref.name \in NamesIn(program.funcs[Len(program.funcs)].blocks)
      /\ To(code[k]) = starts[code[k].want[1]][code[k].want[2]]

StaticsLinked ==
  pc \in {"symbols", "jit", "ready", "running", "ran"} =>
    \A k \in DOMAIN code : code[k].op = "load" =>
      \E i \in DOMAIN statics :
        statics[i].size = 8 /\ statics[i].value = code[k].want /\ statics[i].location = To(code[k])

SymbolsLinked ==
  pc \in {"jit", "ready", "running", "ran"} =>
    \A k \in DOMAIN code : code[k].op = "lea" /\ code[k].want \in NamesIn(symbols) =>
      \E i \in DOMAIN symbols : symbols[i].name = code[k].want /\ symbols[i].loc = To(code[k])

GlobalsLinked ==
  Linked =>
    \A k \in DOMAIN code : code[k].op = "lea" /\ code[k].want \notin NamesIn(symbols) =>
      \E i \in DOMAIN globals :
        globals[i].name = code[k].want /\ jit[1] + To(code[k]) = jit[2] + globals[i].location

Machine ==
  /\ jit \in Nat \X Nat /\ (jit[1] = jit[2] => jit = <<0, 0>>)
  /\ ip \in Nat /\ flags \in BOOLEAN /\ at.cond \in BOOLEAN

IInv ==
  /\ Control /\ StartsTyped /\ Layout /\ Labels /\ UsagesMatch /\ LogMatch
  /\ Data /\ StaticsKnown /\ Placement
  /\ LabelsLinked /\ StaticsLinked /\ SymbolsLinked /\ GlobalsLinked
  /\ Machine

-----------------------------------------------------------------------------
(* Least elements, recursive sums *)

\* A set of numbers that is not empty has a least one: what replaces induction below.
LEMMA LeastIs ==
  ASSUME NEW S, S \subseteq Nat, S # {}
  PROVE  \E x \in S : \A y \in S : x <= y
<1> DEFINE R == OpToRel(<, Nat)
<1>1. IsWellFoundedOn(R, Nat)
  BY NatLessThanWellFounded
<1>2. \E x \in S : \A y \in S : ~(<<y, x>> \in R)
  BY <1>1, WFMin
<1>3. \A x, y \in Nat : <<y, x>> \in R <=> y < x
  BY DEF OpToRel
<1> HIDE DEF R
<1>4. PICK x \in S : \A y \in S : ~(<<y, x>> \in R)
  BY <1>2
<1>5. ASSUME NEW y \in S PROVE x <= y
  <2>1. x \in Nat /\ y \in Nat
    OBVIOUS
  <2>2. ~(y < x)
    BY <1>3, <1>4, <2>1
  <2> QED BY <2>1, <2>2
<1> QED BY <1>4, <1>5

\* Min chooses the least number of a set.
LEMMA MinIs ==
  ASSUME NEW S, S \subseteq Nat, S # {}
  PROVE  Min(S) \in S /\ \A y \in S : Min(S) <= y
BY LeastIs DEF Min

\* There are partial sums of any list of lengths, so the recursion of Ends defines
\* something: a length with no sums would have a least one.
LEMMA SumsExist ==
  ASSUME NEW N \in Nat, NEW L \in [1..N -> Nat]
  PROVE  \E g \in [0..N -> Nat] : g[0] = 0 /\ \A m \in 1..N : g[m] = g[m - 1] + L[m]
<1> DEFINE P(n) == \E g \in [0..n -> Nat] : g[0] = 0 /\ \A m \in 1..n : g[m] = g[m - 1] + L[m]
           Bad == {n \in 0..N : ~P(n)}
<1>1. SUFFICES ASSUME Bad # {} PROVE FALSE
  <2>1. P(N) => \E g \in [0..N -> Nat] : g[0] = 0 /\ \A m \in 1..N : g[m] = g[m - 1] + L[m]
    OBVIOUS
  <2> HIDE DEF P
  <2>2. N \in 0..N
    OBVIOUS
  <2> QED BY <2>1, <2>2
<1>0. Bad \subseteq Nat /\ \A y \in 0..N : y \in Bad <=> ~P(y)
  <2> HIDE DEF P
  <2> QED OBVIOUS
<1> HIDE DEF Bad
<1>2. PICK n \in Bad : \A y \in Bad : n <= y
  BY <1>0, <1>1, LeastIs
<1>b. n \in 0..N /\ ~P(n)
  <2> HIDE DEF P
  <2> QED BY <1>2 DEF Bad
<1>3. CASE n = 0
  <2> DEFINE g == [x \in 0..0 |-> 0]
  <2>1. g \in [0..0 -> Nat] /\ g[0] = 0 /\ \A m \in 1..0 : g[m] = g[m - 1] + L[m]
    OBVIOUS
  <2> QED BY <2>1, <1>b, <1>3
<1>4. CASE n # 0
  <2>1. n - 1 \in 0..N /\ n \in 1..N
    BY <1>b, <1>4
  <2>2. P(n - 1)
    <3> HIDE DEF P
    <3>1. ~(n <= n - 1)
      BY <2>1
    <3> QED BY <2>1, <1>2, <1>0, <3>1
  <2>3. PICK g \in [0..(n - 1) -> Nat] : g[0] = 0 /\ \A m \in 1..(n - 1) : g[m] = g[m - 1] + L[m]
    BY <2>2
  <2> DEFINE h == [m \in 0..n |-> IF m = n THEN g[n - 1] + L[n] ELSE g[m]]
  <2>4. h \in [0..n -> Nat]
    BY <2>1
  <2>5. h[0] = 0
    BY <2>1, <2>3
  <2>6. ASSUME NEW m \in 1..n PROVE h[m] = h[m - 1] + L[m]
    <3>1. CASE m = n
      BY <3>1, <2>1
    <3>2. CASE m # n
      BY <3>2, <2>1, <2>3
    <3> QED BY <3>1, <3>2
  <2>7. P(n)
    <3> HIDE DEF h
    <3> QED BY <2>4, <2>5, <2>6
  <2> QED BY <2>7, <1>b
<1> QED BY <1>3, <1>4

\* Ends adds the lengths up, and never goes down.
LEMMA EndsIs ==
  ASSUME NEW is, Len(is) \in Nat, \A n \in 1..Len(is) : InstLen[is[n].op] \in Nat
  PROVE  /\ Ends(is) \in [0..Len(is) -> Nat]
         /\ Ends(is)[0] = 0
         /\ \A n \in 1..Len(is) : Ends(is)[n] = Ends(is)[n - 1] + InstLen[is[n].op]
         /\ \A n \in 0..Len(is) : \A m \in 0..n : Ends(is)[m] <= Ends(is)[n]
<1> DEFINE N == Len(is)
           L == [n \in 1..N |-> InstLen[is[n].op]]
           Def(g) == g = [n \in 0..N |-> IF n = 0 THEN 0 ELSE g[n - 1] + InstLen[is[n].op]]
<1>1. Ends(is) = CHOOSE g : Def(g)
  BY DEF Ends
<1>2. L \in [1..N -> Nat] /\ N \in Nat
  OBVIOUS
<1>3. PICK g \in [0..N -> Nat] : g[0] = 0 /\ \A m \in 1..N : g[m] = g[m - 1] + L[m]
  <2> HIDE DEF L, N
  <2> QED BY <1>2, SumsExist
<1>4. Def(g)
  <2>1. \A n \in 0..N : g[n] = IF n = 0 THEN 0 ELSE g[n - 1] + InstLen[is[n].op]
    BY <1>3, <1>2
  <2> QED BY <2>1, <1>3
<1>5. Def(Ends(is))
  <2> HIDE DEF Def
  <2> QED BY <1>1, <1>4
<1> DEFINE e == Ends(is)
<1>7. e = [n \in 0..N |-> IF n = 0 THEN 0 ELSE e[n - 1] + InstLen[is[n].op]]
  BY <1>5
<1> HIDE DEF e, Def
<1>8. DOMAIN e = 0..N /\ e[0] = 0 /\ \A n \in 1..N : e[n] = e[n - 1] + InstLen[is[n].op]
  BY <1>7, <1>2
<1> DEFINE Bad == {n \in 0..N : e[n] \notin Nat}
<1>9. ASSUME Bad # {} PROVE FALSE
  <2>1. Bad \subseteq Nat
    OBVIOUS
  <2>2. PICK n \in Bad : \A y \in Bad : n <= y
    <3> HIDE DEF Bad
    <3> QED BY <1>9, <2>1, LeastIs
  <2>3. n # 0 /\ n \in 1..N /\ n - 1 \in 0..N /\ n - 1 \notin Bad
    BY <1>8, <2>2, <1>2
  <2>4. e[n - 1] \in Nat /\ InstLen[is[n].op] \in Nat
    BY <2>3
  <2>5. e[n] \in Nat
    BY <2>3, <2>4, <1>8
  <2> QED BY <2>2, <2>5
<1>10. e \in [0..N -> Nat]
  BY <1>7, <1>9
<1> DEFINE Drop == {n \in 0..N : \E m \in 0..n : e[m] > e[n]}
<1>11. ASSUME Drop # {} PROVE FALSE
  <2>1. Drop \subseteq Nat
    OBVIOUS
  <2>2. PICK n \in Drop : \A y \in Drop : n <= y
    <3> HIDE DEF Drop
    <3> QED BY <1>11, <2>1, LeastIs
  <2>3. PICK m \in 0..n : e[m] > e[n]
    BY <2>2
  <2>0. n \in 0..N
    BY <2>2
  <2>a. n \in 0..N /\ m \in 0..N /\ e[n] \in Nat /\ e[m] \in Nat
    <3> HIDE DEF Drop, N
    <3> QED BY <2>0, <1>2, <1>10
  <2>b. m # n
    BY <2>a, <2>3
  <2>4. n \in 1..N /\ n - 1 \in 0..N /\ m \in 0..(n - 1)
    BY <2>a, <2>b, <1>2
  <2>c. n - 1 \notin Drop
    <3> HIDE DEF Drop
    <3> QED BY <2>2, <2>4
  <2>5. e[m] \in Nat /\ e[n - 1] \in Nat /\ InstLen[is[n].op] \in Nat /\ e[n] = e[n - 1] + InstLen[is[n].op]
    BY <2>a, <2>4, <1>8, <1>10
  <2>6. e[m] <= e[n - 1]
    BY <2>4, <2>5, <2>c
  <2> QED BY <2>3, <2>5, <2>6
<1>12. ASSUME NEW n \in 0..N, NEW m \in 0..n PROVE e[m] <= e[n]
  <2>1. e[m] \in Nat /\ e[n] \in Nat
    BY <1>10, <1>2
  <2>2. n \notin Drop
    BY <1>11
  <2>3. ~(e[m] > e[n])
    BY <2>2
  <2> QED BY <2>1, <2>3
<1> QED BY <1>8, <1>10, <1>12 DEF e

-----------------------------------------------------------------------------
(* Sequences *)

\* A sequence has a length and is defined on the numbers up to it.
LEMMA SeqIs ==
  ASSUME NEW s, IsSeq(s)
  PROVE  Len(s) \in Nat /\ DOMAIN s = 1..Len(s)
BY DEF IsSeq

\* A function on 1..n is a sequence.
LEMMA FunctionSeq ==
  ASSUME NEW n \in Nat, NEW s, s = [i \in 1..n |-> s[i]]
  PROVE  IsSeq(s) /\ Len(s) = n
<1>1. DOMAIN s = 1..n
  OBVIOUS
<1>2. \A i \in 1..n : s[i] \in ToSet(s)
  BY <1>1 DEF ToSet
<1>3. s \in [1..n -> ToSet(s)]
  BY <1>2
<1>4. s \in Seq(ToSet(s))
  BY <1>3
<1> QED BY <1>1, <1>4 DEF IsSeq

\* What two sequences one after the other hold.
LEMMA ConcatIs ==
  ASSUME NEW s, NEW t, IsSeq(s), IsSeq(t)
  PROVE  /\ IsSeq(s \o t) /\ Len(s \o t) = Len(s) + Len(t)
         /\ \A i \in 1..Len(s) : (s \o t)[i] = s[i]
         /\ \A i \in 1..Len(t) : (s \o t)[Len(s) + i] = t[i]
<1> DEFINE S == ToSet(s) \cup ToSet(t)
           c == s \o t
<1>1. s \in Seq(S) /\ t \in Seq(S)
  BY DEF IsSeq
<1> HIDE DEF S
<1>2. c \in Seq(S) /\ Len(c) = Len(s) + Len(t) /\ Len(s) \in Nat /\ Len(t) \in Nat
  BY <1>1
<1>3. /\ \A i \in 1..Len(s) : c[i] = s[i]
      /\ \A i \in 1..Len(t) : c[Len(s) + i] = t[i]
  BY <1>1
<1> HIDE DEF c
<1>4. c = [i \in 1..Len(c) |-> c[i]]
  BY <1>2
<1>5. IsSeq(c)
  BY <1>2, <1>4, FunctionSeq
<1> QED BY <1>2, <1>3, <1>5 DEF c

\* What a sequence with one more element holds.
LEMMA AppendIs ==
  ASSUME NEW s, NEW e, IsSeq(s)
  PROVE  /\ IsSeq(Append(s, e)) /\ Len(Append(s, e)) = Len(s) + 1
         /\ \A i \in 1..Len(s) : Append(s, e)[i] = s[i]
         /\ Append(s, e)[Len(s) + 1] = e
<1> DEFINE S == ToSet(s) \cup {e}
           c == Append(s, e)
<1>1. s \in Seq(S) /\ e \in S
  BY DEF IsSeq
<1> HIDE DEF S
<1>2. c \in Seq(S) /\ Len(c) = Len(s) + 1 /\ Len(s) \in Nat
  BY <1>1
<1>3. (\A i \in 1..Len(s) : c[i] = s[i]) /\ c[Len(s) + 1] = e
  BY <1>1
<1> HIDE DEF c
<1>4. c = [i \in 1..Len(c) |-> c[i]]
  BY <1>2
<1>5. IsSeq(c)
  BY <1>2, <1>4, FunctionSeq
<1> QED BY <1>2, <1>3, <1>5 DEF c

-----------------------------------------------------------------------------
(* Emission *)

\* Every instruction takes up space.
LEMMA InstLenIs == \A op \in Ops : InstLen[op] \in Nat /\ InstLen[op] >= 1
BY LenAssumption

\* Placed changes nothing but the addresses, and leaves no gaps.
LEMMA PlacedIs ==
  ASSUME NEW pos \in Nat, NEW is, IsSeq(is), \A n \in 1..Len(is) : IsBare(is[n])
  PROVE  LET p == Placed(pos, is) IN
         /\ IsSeq(p) /\ Len(p) = Len(is)
         /\ \A n \in 1..Len(is) : /\ IsInst(p[n])
                                   /\ p[n].op = is[n].op /\ p[n].ref = is[n].ref /\ p[n].want = is[n].want
                                   /\ p[n].at = pos + Ends(is)[n - 1]
                                   /\ End(p[n]) = pos + Ends(is)[n]
<1> DEFINE p == Placed(pos, is)
           e == Ends(is)
           N == Len(is)
<1>1. N \in Nat
  BY SeqIs
<1>2. \A n \in 1..N : InstLen[is[n].op] \in Nat
  BY InstLenIs DEF IsBare
<1>3. e \in [0..N -> Nat] /\ \A n \in 1..N : e[n] = e[n - 1] + InstLen[is[n].op]
  BY <1>1, <1>2, EndsIs
<1>4. p = [n \in 1..N |->
     [op |-> is[n].op, ref |-> is[n].ref, disp |-> is[n].disp, want |-> is[n].want,
      at |-> pos + e[n - 1]]]
  BY DEF Placed
<1> HIDE DEF p, e
<1>5. p = [n \in 1..N |-> p[n]]
  BY <1>4
<1>6. IsSeq(p) /\ Len(p) = N
  <2> HIDE DEF N
  <2> QED BY <1>1, <1>5, FunctionSeq
<1>7. ASSUME NEW n \in 1..N
      PROVE  /\ IsInst(p[n])
             /\ p[n].op = is[n].op /\ p[n].ref = is[n].ref /\ p[n].want = is[n].want
             /\ p[n].at = pos + e[n - 1]
             /\ End(p[n]) = pos + e[n]
  <2>1. /\ p[n].op = is[n].op /\ p[n].ref = is[n].ref /\ p[n].want = is[n].want
        /\ p[n].disp = is[n].disp /\ p[n].at = pos + e[n - 1]
        /\ DOMAIN p[n] = {"op", "ref", "disp", "want", "at"}
    BY <1>4
  <2>2. e[n - 1] \in Nat /\ e[n] \in Nat /\ e[n] = e[n - 1] + InstLen[is[n].op] /\ InstLen[is[n].op] \in Nat
    BY <1>1, <1>2, <1>3
  <2>3. IsInst(p[n])
    BY <2>1, <2>2 DEF IsInst, IsBare
  <2>4. End(p[n]) = pos + e[n]
    BY <2>1, <2>2 DEF End
  <2> QED BY <2>1, <2>3, <2>4
<1> QED BY <1>6, <1>7 DEF p, e

\* Emitting keeps the code well laid, and adds the new instructions behind the old.
AllBare(is) == \A n \in 1..Len(is) : IsBare(is[n])
Continues(c, is, d) ==
  /\ Len(d) = Len(c) + Len(is)
  /\ \A k \in 1..Len(c) : d[k] = c[k]
  /\ \A n \in 1..Len(is) : /\ d[Len(c) + n].op = is[n].op /\ d[Len(c) + n].ref = is[n].ref
                           /\ d[Len(c) + n].want = is[n].want

LEMMA EmitLaid ==
  ASSUME NEW c, NEW len, WellLaid(c, len), len = EndOf(c),
         NEW is, IsSeq(is), Len(is) > 0, AllBare(is)
  PROVE  LET d == c \o Placed(len, is)
             m == len + Ends(is)[Len(is)]
         IN WellLaid(d, m) /\ m = EndOf(d) /\ Continues(c, is, d)
<1> DEFINE p == Placed(len, is)
           d == c \o p
           e == Ends(is)
           C == Len(c)
           N == Len(is)
           m == len + e[N]
<1>1. IsSeq(c) /\ len \in Nat /\ C \in Nat /\ N \in Nat /\ N > 0
  BY SeqIs DEF WellLaid
<1>2. /\ IsSeq(p) /\ Len(p) = N
      /\ \A n \in 1..N : /\ IsInst(p[n])
                         /\ p[n].op = is[n].op /\ p[n].ref = is[n].ref /\ p[n].want = is[n].want
                         /\ p[n].at = len + e[n - 1]
                         /\ End(p[n]) = len + e[n]
  BY <1>1, PlacedIs DEF AllBare
<1>3. \A n \in 1..N : InstLen[is[n].op] \in Nat /\ InstLen[is[n].op] >= 1
  BY InstLenIs DEF IsBare, AllBare
<1>4. /\ e \in [0..N -> Nat] /\ e[0] = 0
      /\ \A n \in 1..N : e[n] = e[n - 1] + InstLen[is[n].op]
      /\ \A n \in 0..N : \A i \in 0..n : e[i] <= e[n]
  BY <1>1, <1>3, EndsIs
<1> HIDE DEF p, e
<1>5. /\ IsSeq(d) /\ Len(d) = C + N
      /\ \A k \in 1..C : d[k] = c[k]
      /\ \A n \in 1..N : d[C + n] = p[n]
  <2>1. /\ IsSeq(d) /\ Len(d) = Len(c) + Len(p)
        /\ \A k \in 1..Len(c) : d[k] = c[k]
        /\ \A n \in 1..Len(p) : d[Len(c) + n] = p[n]
    <3>1. IsSeq(c) /\ IsSeq(p)
      BY <1>1, <1>2
    <3> HIDE DEF C, N, m
    <3> QED BY <3>1, ConcatIs
  <2> QED BY <2>1, <1>2
<1>5a. Len(d) = C + N
  BY <1>5
<1>6. m \in Nat /\ e[N] \in Nat
  BY <1>1, <1>4
<1>7. \A k \in 1..C : IsInst(c[k]) /\ End(c[k]) <= len
  BY DEF WellLaid
<1>7a. \A i \in 1..C : End(c[i]) \in Nat /\ c[i].at \in Nat
  BY <1>7, InstLenIs DEF IsInst, IsBare, End
<1>7b. \A n \in 1..N : e[n] \in Nat /\ e[n - 1] \in Nat /\ e[n] <= e[N]
  <2>1. ASSUME NEW n \in 1..N PROVE e[n] \in Nat /\ e[n - 1] \in Nat /\ e[n] <= e[N]
    <3>1. n \in 0..N /\ n - 1 \in 0..N /\ N \in 0..N
      BY <1>1
    <3> QED BY <3>1, <1>4
  <2> QED BY <2>1
<1> HIDE DEF d, C, N
<1>8. ASSUME NEW k \in 1..Len(d)
      PROVE  \/ k \in 1..C /\ d[k] = c[k]
             \/ k - C \in 1..N /\ d[k] = p[k - C]
  <2>1. CASE k <= C
    BY <2>1, <1>1, <1>5
  <2>2. CASE k > C
    <3>1. k - C \in 1..N /\ C + (k - C) = k
      BY <2>2, <1>1, <1>5
    <3> QED BY <3>1, <1>5
  <2> QED BY <2>1, <2>2, <1>1, <1>5
<1>9. ASSUME NEW k \in 1..Len(d) PROVE IsInst(d[k]) /\ End(d[k]) <= m
  <2>1. CASE k \in 1..C /\ d[k] = c[k]
    BY <2>1, <1>6, <1>7, <1>7a, <1>1
  <2>2. CASE k - C \in 1..N /\ d[k] = p[k - C]
    <3> DEFINE n == k - C
    <3> HIDE DEF n
    <3>1. n \in 1..N /\ d[k] = p[n]
      BY <2>2 DEF n
    <3>2. IsInst(d[k]) /\ End(d[k]) = len + e[n]
      BY <3>1, <1>2
    <3>3. e[n] \in Nat /\ e[n] <= e[N]
      BY <3>1, <1>7b
    <3> QED BY <3>2, <3>3, <1>6, <1>1
  <2> QED BY <1>8, <2>1, <2>2
<1>10. \A i \in 1..C : len = End(c[C])
  <2>1. SUFFICES ASSUME C > 0 PROVE len = End(c[C])
    BY <1>1
  <2>2. c # <<>>
    BY <2>1 DEF C
  <2> QED BY <2>2 DEF EndOf, C
<1>11. ASSUME NEW k \in 1..(Len(d) - 1) PROVE End(d[k]) = d[k + 1].at
  <2>0. k \in 1..Len(d) /\ k + 1 \in 1..Len(d)
    BY <1>1, <1>5
  <2>1. CASE k < C
    <3>1. k \in 1..C /\ k + 1 \in 1..C /\ k \in 1..(C - 1)
      BY <2>1, <1>1
    <3> QED BY <3>1, <1>5 DEF WellLaid, C
  <2>2. CASE k = C
    <3>1. C \in 1..C /\ 1 \in 1..N
      BY <2>2, <1>1
    <3>2. d[k] = c[C] /\ d[k + 1] = p[1]
      BY <3>1, <2>2, <1>5
    <3>3. p[1].at = len + e[1 - 1] /\ e[1 - 1] = 0
      BY <3>1, <1>2, <1>4
    <3> QED BY <3>1, <3>2, <3>3, <1>10, <1>1
  <2>3. CASE k > C
    <3>1. k - C \in 1..N /\ (k + 1) - C \in 1..N /\ C + (k - C) = k /\ C + ((k + 1) - C) = k + 1
          /\ ((k + 1) - C) - 1 = k - C
      BY <2>3, <2>0, <1>1, <1>5a
    <3>2. d[k] = p[k - C] /\ d[k + 1] = p[(k + 1) - C]
      BY <3>1, <1>5
    <3> QED BY <3>1, <3>2, <1>2
  <2> QED BY <2>1, <2>2, <2>3, <1>1, <2>0
<1>12. ASSUME NEW j \in 1..Len(d), NEW k \in 1..Len(d), j < k PROVE End(d[j]) <= d[k].at
  <2>0. j \in Nat /\ k \in Nat
    BY <1>1, <1>5a
  <2>1. CASE k \in 1..C /\ d[k] = c[k]
    <3>1. j \in 1..C
      BY <2>1, <2>0, <1>1, <1>12
    <3>2. d[j] = c[j]
      BY <3>1, <1>5
    <3>3. \A x, y \in 1..C : x < y => End(c[x]) <= c[y].at
      BY DEF WellLaid, C
    <3> QED BY <2>1, <3>1, <3>2, <3>3, <1>12
  <2>2. ASSUME NEW n \in 1..N, n = k - C, d[k] = p[n], j \in 1..C, d[j] = c[j] PROVE End(d[j]) <= d[k].at
    <3>1. d[k].at = len + e[n - 1] /\ e[n - 1] \in Nat
      BY <2>2, <1>2, <1>7b
    <3>2. End(d[j]) <= len /\ End(d[j]) \in Nat
      BY <2>2, <1>7, <1>7a
    <3> QED BY <3>1, <3>2, <1>1
  <2>3. ASSUME NEW n \in 1..N, n = k - C, d[k] = p[n], NEW i \in 1..N, i = j - C, d[j] = p[i]
        PROVE  End(d[j]) <= d[k].at
    <3>1. n - 1 \in 0..N /\ i \in 0..(n - 1)
      BY <2>3, <2>0, <1>1, <1>12
    <3>2. e[i] <= e[n - 1]
      BY <3>1, <1>4
    <3>3. End(d[j]) = len + e[i] /\ d[k].at = len + e[n - 1] /\ e[i] \in Nat /\ e[n - 1] \in Nat
      BY <2>3, <1>2, <1>7b
    <3> QED BY <3>2, <3>3, <1>1
  <2> QED BY <1>8, <2>1, <2>2, <2>3
<1>13. WellLaid(d, m)
  <2> HIDE DEF m
  <2> QED BY <1>5, <1>6, <1>9, <1>11, <1>12 DEF WellLaid
<1>14. m = EndOf(d)
  <2>1. N \in 1..N /\ Len(d) > 0 /\ d[Len(d)] = p[N]
    BY <1>1, <1>5
  <2>2. d # <<>>
    BY <2>1
  <2>3. End(p[N]) = m
    BY <2>1, <1>2
  <2> QED BY <2>1, <2>2, <2>3 DEF EndOf
<1>15. \A n \in 1..N : d[C + n].op = is[n].op /\ d[C + n].ref = is[n].ref /\ d[C + n].want = is[n].want
  BY <1>5, <1>2
<1>16. Continues(c, is, d)
  BY <1>5, <1>15 DEF Continues, C, N
<1> QED BY <1>13, <1>14, <1>16 DEF p, e, d, C, N

\* The usages of code and more code are the usages of both.
LEMMA UsagesConcat ==
  ASSUME NEW c, NEW p, NEW kind, IsSeq(c), IsSeq(p)
  PROVE  UsagesOf(kind, c \o p) = UsagesOf(kind, c) \cup UsagesOf(kind, p)
<1> DEFINE d == c \o p
           f(i) == Usage(End(i) - 4, i.ref.name)
<1>1. /\ Len(c) \in Nat /\ Len(p) \in Nat /\ DOMAIN c = 1..Len(c) /\ DOMAIN p = 1..Len(p)
      /\ DOMAIN d = 1..(Len(c) + Len(p))
      /\ \A k \in 1..Len(c) : d[k] = c[k]
      /\ \A n \in 1..Len(p) : d[Len(c) + n] = p[n]
  BY SeqIs, ConcatIs
<1>2. \A s : UsagesOf(kind, s) = {f(s[n]) : n \in {n \in DOMAIN s : s[n].ref.kind = kind}}
  BY DEF UsagesOf
<1> HIDE DEF d, f
<1>3. ASSUME NEW u \in UsagesOf(kind, d) PROVE u \in UsagesOf(kind, c) \cup UsagesOf(kind, p)
  <2>1. PICK k \in DOMAIN d : d[k].ref.kind = kind /\ u = f(d[k])
    BY <1>2, <1>3
  <2>2. CASE k \in 1..Len(c)
    BY <2>1, <2>2, <1>1, <1>2
  <2>3. CASE k \notin 1..Len(c)
    <3>1. k - Len(c) \in DOMAIN p /\ d[k] = p[k - Len(c)]
      <4>1. k - Len(c) \in 1..Len(p) /\ Len(c) + (k - Len(c)) = k
        BY <2>1, <2>3, <1>1
      <4> QED BY <4>1, <1>1
    <3> QED BY <2>1, <3>1, <1>2
  <2> QED BY <2>2, <2>3
<1>4. ASSUME NEW u \in UsagesOf(kind, c) PROVE u \in UsagesOf(kind, d)
  <2>1. PICK k \in DOMAIN c : c[k].ref.kind = kind /\ u = f(c[k])
    BY <1>2, <1>4
  <2>2. k \in DOMAIN d /\ d[k] = c[k]
    BY <1>1
  <2> QED BY <2>1, <2>2, <1>2
<1>5. ASSUME NEW u \in UsagesOf(kind, p) PROVE u \in UsagesOf(kind, d)
  <2>1. PICK k \in DOMAIN p : p[k].ref.kind = kind /\ u = f(p[k])
    BY <1>2, <1>5
  <2>2. Len(c) + k \in DOMAIN d /\ d[Len(c) + k] = p[k]
    BY <1>1
  <2> QED BY <2>1, <2>2, <1>2
<1> QED BY <1>3, <1>4, <1>5 DEF d

-----------------------------------------------------------------------------
(* Relocation *)

\* An instruction ends behind its address, and relocation finds all its fields.
LEMMA InstEnds ==
  ASSUME NEW i, IsInst(i)
  PROVE  /\ i.at \in Nat /\ End(i) \in Nat /\ End(i) > i.at /\ i.disp \in Int
         /\ DOMAIN i = {"op", "ref", "disp", "want", "at"}
BY InstLenIs DEF IsInst, IsBare, End

\* No two instructions end at the same place, so a usage is about one of them.
LEMMA EndsDiffer ==
  ASSUME NEW c, NEW len, WellLaid(c, len), NEW j \in 1..Len(c), NEW k \in 1..Len(c),
         End(c[j]) - 4 = End(c[k]) - 4
  PROVE  j = k
<1>1. Len(c) \in Nat /\ IsInst(c[j]) /\ IsInst(c[k])
  BY SeqIs DEF WellLaid
<1>2. End(c[j]) \in Nat /\ End(c[k]) \in Nat /\ c[j].at \in Nat /\ c[k].at \in Nat
      /\ End(c[j]) > c[j].at /\ End(c[k]) > c[k].at
  BY <1>1, InstEnds
<1>3. (j < k => End(c[j]) <= c[k].at) /\ (k < j => End(c[k]) <= c[j].at)
  BY DEF WellLaid
<1> QED BY <1>1, <1>2, <1>3

\* The instruction of code that a relocation changes, and what it becomes.
LEMMA RelocatedIs ==
  ASSUME WellLaid(code, code_len), NEW kind, NEW X, NEW target, NEW us,
         us = Pending(kind, X)
  PROVE  LET r == Relocated(us, target) IN
         /\ IsSeq(r) /\ Len(r) = Len(code)
         /\ \A k \in 1..Len(code) :
              IF code[k].ref.kind = kind /\ code[k].ref.name \in (DOMAIN target) \ X
              THEN r[k] = [code[k] EXCEPT !.disp = target[code[k].ref.name] - End(code[k])]
              ELSE r[k] = code[k]
<1> DEFINE r == Relocated(us, target)
           Here(k) == {u \in us : u.loc = End(code[k]) - 4 /\ u.name \in DOMAIN target}
<1>1. IsSeq(code) /\ Len(code) \in Nat /\ DOMAIN code = 1..Len(code)
  BY SeqIs DEF WellLaid
<1>2. r = [k \in 1..Len(code) |->
             IF Here(k) = {} THEN code[k]
             ELSE [code[k] EXCEPT !.disp = target[(CHOOSE u \in Here(k) : TRUE).name] - End(code[k])]]
  BY <1>1 DEF Relocated
<1>3. IsSeq(r) /\ Len(r) = Len(code)
  <2>1. r = [k \in 1..Len(code) |-> r[k]]
    BY <1>2
  <2> HIDE DEF r
  <2> QED BY <1>1, <2>1, FunctionSeq
<1>4. UsagesOf(kind, code) = {Usage(End(code[n]) - 4, code[n].ref.name) :
                                n \in {n \in 1..Len(code) : code[n].ref.kind = kind}}
  BY <1>1 DEF UsagesOf
<1>5. \A loc, name : Usage(loc, name).loc = loc /\ Usage(loc, name).name = name
  BY DEF Usage
<1>6. ASSUME NEW k \in 1..Len(code), code[k].ref.kind = kind, code[k].ref.name \in (DOMAIN target) \ X
      PROVE  /\ Here(k) # {}
             /\ \A u \in Here(k) : u.name = code[k].ref.name
  <2>1. Usage(End(code[k]) - 4, code[k].ref.name) \in Here(k)
    BY <1>4, <1>5, <1>6 DEF Pending
  <2>2. ASSUME NEW u \in Here(k) PROVE u.name = code[k].ref.name
    <3>1. PICK n \in 1..Len(code) : code[n].ref.kind = kind /\ u = Usage(End(code[n]) - 4, code[n].ref.name)
      BY <1>4, <2>2 DEF Pending
    <3>2. End(code[n]) - 4 = End(code[k]) - 4
      BY <3>1, <1>5, <2>2
    <3>3. n = k
      BY <3>2, EndsDiffer
    <3> QED BY <3>1, <3>3, <1>5
  <2> QED BY <2>1, <2>2
<1>7. ASSUME NEW k \in 1..Len(code), ~(code[k].ref.kind = kind /\ code[k].ref.name \in (DOMAIN target) \ X)
      PROVE  Here(k) = {}
  <2>1. SUFFICES ASSUME NEW u \in Here(k) PROVE FALSE
    OBVIOUS
  <2>2. PICK n \in 1..Len(code) : code[n].ref.kind = kind /\ u = Usage(End(code[n]) - 4, code[n].ref.name)
    BY <1>4, <2>1 DEF Pending
  <2>3. End(code[n]) - 4 = End(code[k]) - 4 /\ u.name \in DOMAIN target /\ u.name \notin X
    BY <2>2, <1>5, <2>1 DEF Pending
  <2>4. n = k
    BY <2>3, EndsDiffer
  <2> QED BY <2>2, <2>3, <2>4, <1>5, <1>7
<1> HIDE DEF Here, r
<1>8. ASSUME NEW k \in 1..Len(code)
      PROVE  IF code[k].ref.kind = kind /\ code[k].ref.name \in (DOMAIN target) \ X
             THEN r[k] = [code[k] EXCEPT !.disp = target[code[k].ref.name] - End(code[k])]
             ELSE r[k] = code[k]
  <2>1. r[k] = IF Here(k) = {} THEN code[k]
               ELSE [code[k] EXCEPT !.disp = target[(CHOOSE u \in Here(k) : TRUE).name] - End(code[k])]
    BY <1>2
  <2>2. CASE code[k].ref.kind = kind /\ code[k].ref.name \in (DOMAIN target) \ X
    <3>1. Here(k) # {} /\ (CHOOSE u \in Here(k) : TRUE).name = code[k].ref.name
      BY <2>2, <1>6
    <3> QED BY <3>1, <2>1, <2>2
  <2>3. CASE ~(code[k].ref.kind = kind /\ code[k].ref.name \in (DOMAIN target) \ X)
    BY <2>1, <2>3, <1>7
  <2> QED BY <2>2, <2>3
<1> QED BY <1>3, <1>8 DEF r

\* Relocation moves nothing and changes no reference; the fields it fills in lead to
\* their targets, the others stay.
LEMMA RelocatedKeeps ==
  ASSUME WellLaid(code, code_len), NEW kind \in {"label", "static", "symbol"}, NEW X, NEW target, NEW us,
         us = Pending(kind, X),
         \A name \in DOMAIN target : target[name] \in Int
  PROVE  LET r == Relocated(us, target) IN
         /\ WellLaid(r, code_len) /\ EndOf(r) = EndOf(code) /\ Len(r) = Len(code)
         /\ \A k \in 1..Len(code) :
              /\ r[k].op = code[k].op /\ r[k].ref = code[k].ref /\ r[k].want = code[k].want
              /\ End(r[k]) = End(code[k])
              /\ IF code[k].ref.kind = kind /\ code[k].ref.name \in (DOMAIN target) \ X
                 THEN To(r[k]) = target[code[k].ref.name]
                 ELSE r[k] = code[k]
<1> DEFINE r == Relocated(us, target)
           N == Len(code)
           Hit(k) == code[k].ref.kind = kind /\ code[k].ref.name \in (DOMAIN target) \ X
<1>0. /\ IsSeq(Relocated(us, target)) /\ Len(Relocated(us, target)) = Len(code)
      /\ \A k \in 1..Len(code) :
           IF code[k].ref.kind = kind /\ code[k].ref.name \in (DOMAIN target) \ X
           THEN Relocated(us, target)[k] = [code[k] EXCEPT !.disp = target[code[k].ref.name] - End(code[k])]
           ELSE Relocated(us, target)[k] = code[k]
  <2> HIDE DEF r, N, Hit
  <2> QED BY RelocatedIs
<1>1. /\ IsSeq(r) /\ Len(r) = N
      /\ \A k \in 1..N :
           IF Hit(k) THEN r[k] = [code[k] EXCEPT !.disp = target[code[k].ref.name] - End(code[k])]
           ELSE r[k] = code[k]
  BY <1>0, Zenon
<1>2. IsSeq(code) /\ N \in Nat /\ code_len \in Nat
  BY SeqIs DEF WellLaid
<1> HIDE DEF r
<1>3. ASSUME NEW k \in 1..N
      PROVE  /\ r[k].op = code[k].op /\ r[k].ref = code[k].ref /\ r[k].want = code[k].want
             /\ r[k].at = code[k].at /\ End(r[k]) = End(code[k]) /\ IsInst(r[k])
             /\ IF Hit(k) THEN To(r[k]) = target[code[k].ref.name] ELSE r[k] = code[k]
  <2>1. IsInst(code[k])
    BY DEF WellLaid
  <2>2. CASE ~Hit(k)
    <3>1. r[k] = code[k]
      BY <1>1, <2>2
    <3> QED BY <3>1, <2>1, <2>2
  <2>3. CASE Hit(k)
    <3> DEFINE i == code[k]
               d == target[i.ref.name] - End(i)
    <3>1. End(i) \in Nat /\ DOMAIN i = {"op", "ref", "disp", "want", "at"}
      BY <2>1, InstEnds
    <3>2. target[i.ref.name] \in Int /\ i.ref.kind = kind
      BY <2>3
    <3>3. r[k] = [i EXCEPT !.disp = d]
      BY <1>1, <2>3
    <3>4. d \in Int /\ End(i) + d = target[i.ref.name]
      BY <3>1, <3>2
    <3> HIDE DEF d, Hit
    <3>5. /\ r[k].op = i.op /\ r[k].ref = i.ref /\ r[k].want = i.want /\ r[k].at = i.at /\ r[k].disp = d
          /\ DOMAIN r[k] = {"op", "ref", "disp", "want", "at"}
      BY <3>1, <3>3
    <3>6. End(r[k]) = End(i)
      BY <3>5 DEF End
    <3>7. IsInst(r[k])
      BY <3>5, <3>4, <3>2, <2>1 DEF IsInst, IsBare
    <3>8. To(r[k]) = target[i.ref.name]
      BY <3>6, <3>5, <3>4 DEF To
    <3> QED BY <3>5, <3>6, <3>7, <3>8, <2>3
  <2> QED BY <2>2, <2>3
<1> HIDE DEF Hit
<1>4. WellLaid(r, code_len)
  <2>1. \A k \in 1..(N - 1) : k \in 1..N /\ k + 1 \in 1..N
    BY <1>2
  <2> QED BY <1>1, <1>2, <1>3, <2>1 DEF WellLaid
<1>5. EndOf(r) = EndOf(code)
  <2>1. CASE N = 0
    <3>1. code = <<>> /\ r = <<>>
      BY <2>1, <1>1, <1>2 DEF IsSeq
    <3> QED BY <3>1
  <2>2. CASE N # 0
    <3>1. N \in 1..N /\ code # <<>> /\ r # <<>>
      BY <2>2, <1>1, <1>2
    <3> QED BY <3>1, <1>1, <1>3 DEF EndOf
  <2> QED BY <2>1, <2>2
<1> QED BY <1>1, <1>3, <1>4, <1>5 DEF r, Hit

-----------------------------------------------------------------------------
(* Preservation *)

\* What IsProgram says, by index.
LEMMA ProgramIs ==
  ASSUME NEW p, IsProgram(p)
  PROVE  /\ IsSeq(p.funcs) /\ IsSeq(p.statics) /\ IsSeq(p.globals)
         /\ Len(p.funcs) \in Nat /\ Len(p.statics) \in Nat /\ Len(p.globals) \in Nat
         /\ \A f \in 1..Len(p.funcs) :
              /\ IsSeq(p.funcs[f].blocks) /\ Len(p.funcs[f].blocks) \in Nat
              /\ \A b \in 1..Len(p.funcs[f].blocks) :
                   /\ IsSeq(p.funcs[f].blocks[b].refs) /\ Len(p.funcs[f].blocks[b].refs) \in Nat
                   /\ f < Len(p.funcs) => p.funcs[f].blocks[b].term.op = "return"
         /\ \A i \in 1..Len(p.globals) : p.globals[i].size \in Nat
         /\ \A i \in 1..Len(p.statics) : p.statics[i].size \in Nat
<1>1. IsSeq(p.funcs) /\ IsSeq(p.statics) /\ IsSeq(p.globals)
  BY DEF IsProgram, IsSeq
<1>2. /\ Len(p.funcs) \in Nat /\ Len(p.statics) \in Nat /\ Len(p.globals) \in Nat
      /\ DOMAIN p.funcs = 1..Len(p.funcs) /\ DOMAIN p.globals = 1..Len(p.globals)
      /\ DOMAIN p.statics = 1..Len(p.statics)
  BY <1>1, SeqIs
<1>3. (\A i \in 1..Len(p.globals) : p.globals[i].size \in Nat) /\ (\A i \in 1..Len(p.statics) : p.statics[i].size \in Nat)
  BY <1>2 DEF IsProgram, ToSet
<1>4. ASSUME NEW f \in 1..Len(p.funcs)
      PROVE  /\ IsSeq(p.funcs[f].blocks) /\ Len(p.funcs[f].blocks) \in Nat
             /\ \A b \in 1..Len(p.funcs[f].blocks) :
                  /\ IsSeq(p.funcs[f].blocks[b].refs) /\ Len(p.funcs[f].blocks[b].refs) \in Nat
                  /\ f < Len(p.funcs) => p.funcs[f].blocks[b].term.op = "return"
  <2> DEFINE bs == p.funcs[f].blocks
  <2>1. p.funcs[f] \in ToSet(p.funcs)
    BY <1>2 DEF ToSet
  <2>2. IsSeq(bs) /\ \A b \in ToSet(bs) : IsSeq(b.refs)
    BY <2>1 DEF IsProgram, IsSeq
  <2>3. Len(bs) \in Nat /\ DOMAIN bs = 1..Len(bs)
    BY <2>2, SeqIs
  <2>4. ASSUME NEW b \in 1..Len(bs)
        PROVE  /\ IsSeq(bs[b].refs) /\ Len(bs[b].refs) \in Nat
               /\ f < Len(p.funcs) => bs[b].term.op = "return"
    <3>1. bs[b] \in ToSet(bs)
      BY <2>3 DEF ToSet
    <3>2. IsSeq(bs[b].refs)
      BY <3>1, <2>2
    <3>3. Len(bs[b].refs) \in Nat
      BY <3>2, SeqIs
    <3>4. f < Len(p.funcs) => f \in 1..(Len(p.funcs) - 1)
      BY <1>2
    <3>5. f < Len(p.funcs) => bs[b].term.op = "return"
      BY <3>1, <3>4 DEF IsProgram
    <3> QED BY <3>2, <3>3, <3>5
  <2> QED BY <2>2, <2>3, <2>4
<1> QED BY <1>1, <1>2, <1>3, <1>4

\* What emission keeps.
LEMMA EmitKeeps ==
  ASSUME IInv, pc \in {"function", "block", "statement"}, pc' \in {"function", "block", "statement", "crash"},
         loop.f <= Len(program.funcs), loop'.f = loop.f,
         NEW is, IsSeq(is), Len(is) > 0,
         \A n \in 1..Len(is) : IsBare(is[n]) /\ (is[n].ref.kind = "label" => IsLabel(is[n])),
         Emit(is),
         UNCHANGED <<program, globals, globals_bytecount, starts, log, jit, session, machine>>
  PROVE  /\ StartsTyped' /\ Layout' /\ Labels' /\ UsagesMatch' /\ LogMatch' /\ Placement'
         /\ LabelsLinked' /\ StaticsLinked' /\ SymbolsLinked' /\ GlobalsLinked' /\ Machine'
         /\ Len(code') = Len(code) + Len(is) /\ DOMAIN code' = 1..Len(code')
         /\ DOMAIN code = 1..Len(code) /\ Len(code) \in Nat
         /\ \A k \in 1..Len(code) : code'[k] = code[k]
         /\ \A n \in 1..Len(is) : /\ code'[Len(code) + n].op = is[n].op
                                  /\ code'[Len(code) + n].ref = is[n].ref
                                  /\ code'[Len(code) + n].want = is[n].want
<1> DEFINE p == Placed(code_len, is)
<1>1. WellLaid(code, code_len) /\ code_len = EndOf(code) /\ IsSeq(code) /\ code_len \in Nat
  BY DEF IInv, Layout, Emitting, WellLaid
<1>2. code' = code \o p /\ code_len' = code_len + Ends(is)[Len(is)]
  BY DEF Emit
<1>3. /\ WellLaid(code', code_len') /\ code_len' = EndOf(code') /\ Len(code') = Len(code) + Len(is)
      /\ \A k \in 1..Len(code) : code'[k] = code[k]
      /\ \A n \in 1..Len(is) : /\ code'[Len(code) + n].op = is[n].op
                               /\ code'[Len(code) + n].ref = is[n].ref
                               /\ code'[Len(code) + n].want = is[n].want
  <2> DEFINE d == code \o p
             m == code_len + Ends(is)[Len(is)]
  <2>1. AllBare(is)
    BY DEF AllBare
  <2>2. WellLaid(d, m) /\ m = EndOf(d) /\ Continues(code, is, d)
    BY <2>1, <1>1, EmitLaid, Zenon
  <2>3. code' = d /\ code_len' = m
    BY <1>2
  <2> HIDE DEF d, m, p
  <2> QED BY <2>2, <2>3 DEF Continues
<1>4. /\ Len(code) \in Nat /\ Len(is) \in Nat /\ DOMAIN code = 1..Len(code) /\ DOMAIN code' = 1..Len(code')
  <2>1. IsSeq(code')
    BY <1>3 DEF WellLaid
  <2> QED BY <2>1, <1>1, SeqIs
<1>5. Layout'
  BY <1>3 DEF Layout
<1>6. Labels'
  <2>1. SUFFICES ASSUME NEW k \in 1..Len(code'), code'[k].ref.kind = "label"
                 PROVE  IsLabel(code[k])'
    BY <1>4 DEF Labels
  <2>2. CASE k \in 1..Len(code)
    <3>1. IsLabel(code[k])
      BY <2>1, <2>2, <1>3, <1>4 DEF IInv, Labels
    <3> QED BY <3>1, <2>2, <1>3 DEF IsLabel
  <2>3. CASE k \notin 1..Len(code)
    <3> DEFINE n == k - Len(code)
    <3>1. n \in 1..Len(is) /\ Len(code) + n = k
      BY <2>3, <1>3, <1>4
    <3> HIDE DEF n
    <3>2. code'[k].ref = is[n].ref /\ code'[k].want = is[n].want
      BY <3>1, <1>3
    <3>3. IsLabel(is[n])
      BY <3>1, <3>2, <2>1
    <3> QED BY <3>2, <3>3 DEF IsLabel
  <2> QED BY <2>2, <2>3
<1>7. UsagesMatch'
  <2>1. DOMAIN usages = {"label", "static", "symbol"} /\ \A kind \in DOMAIN usages : usages[kind] = UsagesOf(kind, code)
    BY DEF IInv, UsagesMatch
  <2>2. usages' = [k \in DOMAIN usages |-> usages[k] \cup UsagesOf(k, p)]
    BY DEF Emit
  <2>3. IsSeq(p)
    BY <1>1, PlacedIs
  <2>4. \A kind : UsagesOf(kind, code \o p) = UsagesOf(kind, code) \cup UsagesOf(kind, p)
    <3> HIDE DEF p
    <3> QED BY <1>1, <2>3, UsagesConcat
  <2>5. \A kind : UsagesOf(kind, code)' = UsagesOf(kind, code \o p)
    BY <1>2 DEF UsagesOf, Usage
  <2> HIDE DEF p
  <2> QED BY <2>1, <2>2, <2>4, <2>5 DEF UsagesMatch
<1>8. StartsTyped' /\ LogMatch' /\ Placement' /\ Machine'
  <2>1. StartsTyped'
    BY DEF IInv, StartsTyped
  <2>2. LogMatch'
    BY DEF IInv, LogMatch
  <2>3. Placement'
    BY DEF IInv, Placement, Apart
  <2>4. Machine'
    BY DEF IInv, Machine, machine
  <2> QED BY <2>1, <2>2, <2>3, <2>4
<1>9. LabelsLinked' /\ StaticsLinked' /\ SymbolsLinked' /\ GlobalsLinked'
  <2>1. Len(program.funcs) \in Nat /\ loop.f \in Nat
    BY ProgramIs DEF IInv, Control
  <2>2. LabelsLinked'
    BY <2>1 DEF LabelsLinked
  <2> QED BY <2>2 DEF StaticsLinked, SymbolsLinked, GlobalsLinked, Linked
<1> QED BY <1>3, <1>4, <1>5, <1>6, <1>7, <1>8, <1>9

\* Instructions that are no loads need no static; statics are only added.
LEMMA LoadsKeepStatics ==
  ASSUME StaticsKnown, NEW is, Len(is) \in Nat, Len(code) \in Nat,
         Len(code') = Len(code) + Len(is), DOMAIN code' = 1..Len(code'), DOMAIN code = 1..Len(code),
         \A k \in 1..Len(code) : code'[k] = code[k],
         \A n \in 1..Len(is) : /\ code'[Len(code) + n].op = is[n].op
                               /\ code'[Len(code) + n].ref = is[n].ref
                               /\ code'[Len(code) + n].want = is[n].want,
         \A i \in DOMAIN statics : i \in DOMAIN statics' /\ statics'[i] = statics[i],
         \A n \in 1..Len(is) : is[n].op = "load" =>
           \E i \in DOMAIN statics' :
             statics'[i].name = is[n].ref.name /\ statics'[i].size = 8 /\ statics'[i].value = is[n].want
  PROVE  StaticsKnown'
<1> SUFFICES ASSUME NEW k \in 1..Len(code'), code'[k].op = "load"
             PROVE  \E i \in DOMAIN statics' :
                      /\ statics'[i].name = code'[k].ref.name /\ statics'[i].size = 8
                      /\ statics'[i].value = code'[k].want
  BY DEF StaticsKnown
<1>1. CASE k \in 1..Len(code)
  <2>1. PICK i \in DOMAIN statics : statics[i].name = code[k].ref.name /\ statics[i].size = 8
                                    /\ statics[i].value = code[k].want
    BY <1>1 DEF StaticsKnown
  <2> QED BY <2>1, <1>1
<1>2. CASE k \notin 1..Len(code)
  <2> DEFINE n == k - Len(code)
  <2>1. n \in 1..Len(is) /\ Len(code) + n = k
    BY <1>2
  <2> HIDE DEF n
  <2> QED BY <2>1
<1> QED BY <1>1, <1>2

\* An instruction without a reference.
LEMMA PlainIs ==
  \A op \in {"nop", "prologue", "test", "ret"} :
    IsBare(Plain(op)) /\ Plain(op).ref.kind = "none" /\ Plain(op).op = op
<1> SUFFICES ASSUME NEW op \in {"nop", "prologue", "test", "ret"}
             PROVE  IsBare(Plain(op)) /\ Plain(op).ref.kind = "none" /\ Plain(op).op = op
  OBVIOUS
<1> DEFINE i == Plain(op)
<1>1. i.op = op /\ i.ref = NoRef /\ i.disp = 0
  BY DEF Plain, Inst
<1> HIDE DEF i
<1>2. i.ref.kind = "none"
  <2>1. NoRef.kind = "none"
    BY DEF NoRef
  <2> QED BY <1>1, <2>1
<1>3. IsBare(i)
  BY <1>1 DEF IsBare, Ops
<1> QED BY <1>1, <1>2, <1>3 DEF i

\* A function is padded and its symbol added; prologue behind it.
LEMMA BeginFunctionKeeps ==
  ASSUME IInv, BeginFunction
  PROVE  IInv'
<1> DEFINE pad == (FuncAlign - (code_len % FuncAlign)) % FuncAlign
           nops == [i \in 1..pad |-> Plain("nop")]
           last == <<Plain("prologue")>>
           is == nops \o last
<1>1. code_len \in Nat /\ FuncAlign \in Nat \ {0}
  BY LayoutAssumption DEF IInv, Layout, WellLaid
<1>2. pad \in Nat
  <2> DEFINE r == code_len % FuncAlign
  <2>1. r \in 0..(FuncAlign - 1)
    BY <1>1
  <2> HIDE DEF r
  <2>2. FuncAlign - r \in Nat
    BY <2>1, <1>1
  <2> QED BY <2>2, <1>1 DEF r
<1>3. /\ pc = "function" /\ loop.f <= Len(program.funcs)
      /\ Emit(is)
      /\ symbols' = Append(symbols, [name |-> func.name, loc |-> code_len + pad])
      /\ loop' = [loop EXCEPT !.b = 1]
      /\ pc' = "block"
      /\ UNCHANGED <<program, globals, globals_bytecount, statics, starts, log, jit, session, machine>>
  BY DEF BeginFunction
<1> HIDE DEF pad
<1>4. IsSeq(nops) /\ Len(nops) = pad /\ \A i \in 1..pad : nops[i] = Plain("nop")
  <2>1. nops = [i \in 1..pad |-> nops[i]]
    OBVIOUS
  <2> HIDE DEF nops
  <2>2. IsSeq(nops) /\ Len(nops) = pad
    BY <1>2, <2>1, FunctionSeq
  <2> QED BY <2>2 DEF nops
<1>5. IsSeq(last) /\ Len(last) = 1 /\ last[1] = Plain("prologue")
  BY DEF IsSeq, ToSet
<1> HIDE DEF nops, last
<1>6. /\ IsSeq(is) /\ Len(is) = pad + 1
      /\ \A i \in 1..pad : is[i] = nops[i]
      /\ \A i \in 1..1 : is[pad + i] = last[i]
  <2>1. IsSeq(nops) /\ IsSeq(last)
    BY <1>4, <1>5
  <2>2. /\ IsSeq(is) /\ Len(is) = Len(nops) + Len(last)
        /\ \A i \in 1..Len(nops) : is[i] = nops[i]
        /\ \A i \in 1..Len(last) : is[Len(nops) + i] = last[i]
    BY <2>1, ConcatIs
  <2> HIDE DEF is
  <2> QED BY <2>2, <1>4, <1>5
<1> HIDE DEF is
<1>7. \A n \in 1..Len(is) : is[n] = Plain("nop") \/ is[n] = Plain("prologue")
  <2>1. is[pad + 1] = Plain("prologue")
    BY <1>5, <1>6
  <2> QED BY <1>2, <1>4, <1>6, <2>1
<1>8. \A n \in 1..Len(is) : IsBare(is[n]) /\ is[n].ref.kind = "none" /\ is[n].op # "load"
  BY <1>7, PlainIs
<1>9. /\ loop \in [f : Nat, b : Nat, s : Nat] /\ loop.f \in 1..Len(program.funcs)
      /\ loop'.f = loop.f /\ loop'.b = 1 /\ loop'.s = loop.s /\ loop' \in [f : Nat, b : Nat, s : Nat]
  BY <1>3, ProgramIs DEF IInv, Control
<1>10. /\ StartsTyped' /\ Layout' /\ Labels' /\ UsagesMatch' /\ LogMatch' /\ Placement'
       /\ LabelsLinked' /\ StaticsLinked' /\ SymbolsLinked' /\ GlobalsLinked' /\ Machine'
       /\ Len(code') = Len(code) + Len(is) /\ DOMAIN code' = 1..Len(code')
       /\ DOMAIN code = 1..Len(code) /\ Len(code) \in Nat
       /\ \A k \in 1..Len(code) : code'[k] = code[k]
       /\ \A n \in 1..Len(is) : /\ code'[Len(code) + n].op = is[n].op
                                /\ code'[Len(code) + n].ref = is[n].ref
                                /\ code'[Len(code) + n].want = is[n].want
  <2>1. Len(is) > 0
    BY <1>2, <1>6
  <2> QED BY <1>3, <1>6, <1>8, <1>9, <2>1, EmitKeeps
<1>11. Control'
  <2>1. IsProgram(program)
    BY DEF IInv, Control
  <2>2. Len(program.funcs) \in Nat /\ Len(program.funcs[loop.f].blocks) \in Nat
    BY <2>1, <1>9, ProgramIs
  <2> QED BY <1>3, <1>9, <2>1, <2>2 DEF IInv, Control, func, block, Phases
<1>12. Data'
  <2>1. IsSeq(symbols) /\ \A i \in DOMAIN symbols : symbols[i].loc \in Nat
    BY DEF IInv, Data
  <2> DEFINE e == [name |-> func.name, loc |-> code_len + pad]
  <2>2. e.loc \in Nat
    BY <1>1, <1>2
  <2> HIDE DEF e
  <2>3. symbols' = Append(symbols, e)
    BY <1>3 DEF e
  <2>4. /\ IsSeq(symbols') /\ Len(symbols') = Len(symbols) + 1
        /\ \A i \in 1..Len(symbols) : symbols'[i] = symbols[i]
        /\ symbols'[Len(symbols) + 1] = e
    BY <2>1, <2>3, AppendIs
  <2>5. Len(symbols) \in Nat /\ DOMAIN symbols = 1..Len(symbols) /\ DOMAIN symbols' = 1..Len(symbols')
    BY <2>1, <2>4, SeqIs
  <2>6. \A i \in DOMAIN symbols' : symbols'[i].loc \in Nat
    BY <2>1, <2>2, <2>4, <2>5
  <2> QED BY <2>4, <2>6, <1>3 DEF IInv, Data, StaticName
<1>13. StaticsKnown'
  <2>1. Len(is) \in Nat /\ StaticsKnown
    BY <1>2, <1>6 DEF IInv
  <2> QED BY <1>3, <1>8, <1>10, <2>1, LoadsKeepStatics
<1> QED BY <1>10, <1>11, <1>12, <1>13 DEF IInv

\* A sequence of one element.
LEMMA SingletonIs ==
  ASSUME NEW x
  PROVE  IsSeq(<<x>>) /\ Len(<<x>>) = 1 /\ <<x>>[1] = x
BY DEF IsSeq, ToSet

\* Where a statement stands.
LEMMA StatementIs ==
  ASSUME Control, pc = "statement"
  PROVE  /\ IsProgram(program) /\ loop \in [f : Nat, b : Nat, s : Nat]
         /\ Len(program.funcs) \in Nat /\ loop.f \in 1..Len(program.funcs)
         /\ IsSeq(func.blocks) /\ Len(func.blocks) \in Nat /\ loop.b \in 1..Len(func.blocks)
         /\ IsSeq(block.refs) /\ Len(block.refs) \in Nat /\ loop.s \in 1..(Len(block.refs) + 1)
         /\ loop.f < Len(program.funcs) => block.term.op = "return"
<1>1. IsProgram(program) /\ loop \in [f : Nat, b : Nat, s : Nat] /\ loop.f <= Len(program.funcs)
      /\ loop.f \in 1..(Len(program.funcs) + 1)
      /\ loop.b \in 1..(Len(func.blocks) + 1) /\ loop.b <= Len(func.blocks) /\ loop.s \in 1..(Len(block.refs) + 1)
  BY DEF Control
<1>2. Len(program.funcs) \in Nat
  BY <1>1, ProgramIs
<1>3. loop.f \in 1..Len(program.funcs)
  BY <1>1, <1>2
<1>4. IsSeq(func.blocks) /\ Len(func.blocks) \in Nat
  BY <1>1, <1>3, ProgramIs DEF func
<1>5. loop.b \in 1..Len(func.blocks)
  BY <1>1, <1>4
<1>6. IsSeq(block.refs) /\ Len(block.refs) \in Nat /\ (loop.f < Len(program.funcs) => block.term.op = "return")
  <2>1. \A b \in 1..Len(func.blocks) :
          /\ IsSeq(func.blocks[b].refs) /\ Len(func.blocks[b].refs) \in Nat
          /\ loop.f < Len(program.funcs) => func.blocks[b].term.op = "return"
    BY <1>1, <1>3, ProgramIs DEF func
  <2> QED BY <2>1, <1>5 DEF block
<1> QED BY <1>1, <1>2, <1>3, <1>4, <1>5, <1>6

\* The loop over the statements of a block goes on.
LEMMA StatementControl ==
  ASSUME Control, pc = "statement", loop.s <= Len(block.refs), loop' = [loop EXCEPT !.s = @ + 1],
         UNCHANGED <<pc, program, session>>
  PROVE  Control' /\ loop'.f = loop.f
<1>1. /\ loop \in [f : Nat, b : Nat, s : Nat] /\ Len(block.refs) \in Nat
      /\ loop.b \in 1..Len(func.blocks) /\ loop.f \in 1..Len(program.funcs)
      /\ Len(program.funcs) \in Nat /\ Len(func.blocks) \in Nat /\ loop.s \in Nat
  BY StatementIs
<1>2. loop'.f = loop.f /\ loop'.b = loop.b /\ loop'.s = loop.s + 1 /\ loop' \in [f : Nat, b : Nat, s : Nat]
  BY <1>1
<1>3. func' = func /\ block' = block
  BY <1>2 DEF func, block
<1> QED BY <1>1, <1>2, <1>3 DEF Control

\* A symbol's address is loaded with a field to be filled in.
LEMMA SymbolLookupKeeps ==
  ASSUME IInv, SymbolLookup
  PROVE  IInv'
<1> DEFINE r == block.refs[loop.s]
           i == Inst("lea", r, 0, r.name)
           is == <<i>>
<1>1. /\ pc = "statement" /\ loop.s <= Len(block.refs) /\ r.kind = "symbol"
      /\ Emit(is)
      /\ loop' = [loop EXCEPT !.s = @ + 1]
      /\ UNCHANGED <<pc, program, globals, globals_bytecount, statics, starts, symbols, log, jit, session, machine>>
  BY DEF SymbolLookup
<1>2. i.op = "lea" /\ i.ref = r /\ i.disp = 0 /\ i.want = r.name
  BY DEF Inst
<1>3. IsSeq(is) /\ Len(is) = 1 /\ is[1] = i
  BY SingletonIs
<1> HIDE DEF i, is, r
<1>4. \A n \in 1..Len(is) : IsBare(is[n]) /\ is[n].ref.kind = "symbol" /\ is[n].op = "lea"
  <2>1. IsBare(i) /\ i.ref.kind = "symbol"
    BY <1>1, <1>2 DEF IsBare, Ops
  <2> QED BY <1>2, <1>3, <2>1
<1>5. Control' /\ loop'.f = loop.f
  BY <1>1, StatementControl DEF IInv
<1>6. loop.f <= Len(program.funcs)
  BY <1>1, StatementIs DEF IInv
<1>7. /\ StartsTyped' /\ Layout' /\ Labels' /\ UsagesMatch' /\ LogMatch' /\ Placement'
      /\ LabelsLinked' /\ StaticsLinked' /\ SymbolsLinked' /\ GlobalsLinked' /\ Machine'
      /\ Len(code') = Len(code) + Len(is) /\ DOMAIN code' = 1..Len(code')
      /\ DOMAIN code = 1..Len(code) /\ Len(code) \in Nat
      /\ \A k \in 1..Len(code) : code'[k] = code[k]
      /\ \A n \in 1..Len(is) : /\ code'[Len(code) + n].op = is[n].op
                               /\ code'[Len(code) + n].ref = is[n].ref
                               /\ code'[Len(code) + n].want = is[n].want
  <2>1. Len(is) > 0
    BY <1>3
  <2> QED BY <1>1, <1>3, <1>4, <1>5, <1>6, <2>1, EmitKeeps
<1>8. Data'
  BY <1>1 DEF IInv, Data, StaticName
<1>9. StaticsKnown'
  <2>1. Len(is) \in Nat /\ StaticsKnown
    BY <1>3 DEF IInv
  <2> QED BY <1>1, <1>4, <1>7, <2>1, LoadsKeepStatics
<1> QED BY <1>5, <1>7, <1>8, <1>9 DEF IInv

\* A float constant is loaded from a static of its value, which is there already or is
\* added under a name that no other static has.
LEMMA MovFloatConstantKeeps ==
  ASSUME IInv, MovFloatConstant
  PROVE  IInv'
<1> DEFINE value == block.refs[loop.s].name
           found == StaticsWith(value)
           name == IF found # {} THEN statics[Min(found)].name ELSE TempNames[Len(statics) + 1]
           i == Inst("load", Ref("static", name), 0, value)
           is == <<i>>
           new == Static(name, 8, value)
<1>1. /\ pc = "statement" /\ loop.s <= Len(block.refs)
      /\ (found # {}) \/ (Len(statics) < Len(TempNames))
      /\ statics' = IF found # {} THEN statics ELSE Append(statics, new)
      /\ Emit(is)
      /\ loop' = [loop EXCEPT !.s = @ + 1]
      /\ UNCHANGED <<pc, program, globals, globals_bytecount, starts, symbols, log, jit, session, machine>>
  BY DEF MovFloatConstant
<1>2. i.op = "load" /\ i.ref.kind = "static" /\ i.ref.name = name /\ i.disp = 0 /\ i.want = value
  BY DEF Inst, Ref
<1>3. IsSeq(is) /\ Len(is) = 1 /\ is[1] = i
  BY SingletonIs
<1>a. /\ new.name = name /\ new.size = 8 /\ new.value = value /\ new.location = -1
      /\ DOMAIN new = {"name", "size", "value", "location"}
  BY DEF Static
<1>b. found = {n \in DOMAIN statics : statics[n].size = 8 /\ statics[n].value = value}
  BY DEF StaticsWith
<1>c. (found # {} => name = statics[Min(found)].name) /\ (found = {} => name = TempNames[Len(statics) + 1])
  OBVIOUS
<1> HIDE DEF i, is, value, found, new, name
<1>4. \A n \in 1..Len(is) : IsBare(is[n]) /\ is[n].ref.kind = "static" /\ is[n].op = "load"
                            /\ is[n].ref.name = name /\ is[n].want = value
  <2>1. IsBare(i) /\ i.ref.kind = "static"
    BY <1>1, <1>2 DEF IsBare, Ops
  <2> QED BY <1>2, <1>3, <2>1
<1>5. Control' /\ loop'.f = loop.f
  BY <1>1, StatementControl DEF IInv
<1>6. loop.f <= Len(program.funcs)
  BY <1>1, StatementIs DEF IInv
<1>7. /\ StartsTyped' /\ Layout' /\ Labels' /\ UsagesMatch' /\ LogMatch' /\ Placement'
      /\ LabelsLinked' /\ StaticsLinked' /\ SymbolsLinked' /\ GlobalsLinked' /\ Machine'
      /\ Len(code') = Len(code) + Len(is) /\ DOMAIN code' = 1..Len(code')
      /\ DOMAIN code = 1..Len(code) /\ Len(code) \in Nat
      /\ \A k \in 1..Len(code) : code'[k] = code[k]
      /\ \A n \in 1..Len(is) : /\ code'[Len(code) + n].op = is[n].op
                               /\ code'[Len(code) + n].ref = is[n].ref
                               /\ code'[Len(code) + n].want = is[n].want
  <2>1. Len(is) > 0
    BY <1>3
  <2> QED BY <1>1, <1>3, <1>4, <1>5, <1>6, <2>1, EmitKeeps
<1>8. IsSeq(statics) /\ Len(statics) \in Nat /\ DOMAIN statics = 1..Len(statics)
  BY SeqIs DEF IInv, Data
<1>9. CASE found # {}
  <2>1. Min(found) \in DOMAIN statics /\ statics[Min(found)].size = 8 /\ statics[Min(found)].value = value
    <3>1. found \subseteq Nat
      BY <1>b, <1>8
    <3>2. Min(found) \in found
      BY <1>9, <3>1, MinIs
    <3> QED BY <3>2, <1>b
  <2>2. statics' = statics
    BY <1>1, <1>9
  <2>3. Data'
    BY <1>1, <2>2 DEF IInv, Data, StaticName
  <2>4. StaticsKnown'
    <3>1. Len(is) \in Nat /\ StaticsKnown
      BY <1>3 DEF IInv
    <3>2. \A n \in 1..Len(is) : is[n].op = "load" =>
           \E j \in DOMAIN statics' :
             statics'[j].name = is[n].ref.name /\ statics'[j].size = 8 /\ statics'[j].value = is[n].want
      BY <2>1, <2>2, <1>4, <1>9, <1>c
    <3> QED BY <2>2, <3>1, <3>2, <1>7, LoadsKeepStatics
  <2> QED BY <1>5, <1>7, <2>3, <2>4 DEF IInv
<1>10. CASE found = {}
  <2>1. statics' = Append(statics, new) /\ name = TempNames[Len(statics) + 1] /\ Len(statics) < Len(TempNames)
    BY <1>1, <1>10, <1>c
  <2>2. /\ IsSeq(statics') /\ Len(statics') = Len(statics) + 1
        /\ \A j \in 1..Len(statics) : statics'[j] = statics[j]
        /\ statics'[Len(statics) + 1] = new
    BY <1>8, <2>1, AppendIs
  <2>3. DOMAIN statics' = 1..Len(statics') /\ Len(TempNames) \in Nat
    BY <2>2, SeqIs, NamesAssumption DEF IsSeq
  <2>4. Data'
    <3>1. /\ \A j \in DOMAIN statics :
               /\ DOMAIN statics[j] = {"name", "size", "value", "location"}
               /\ statics[j].location \in Int /\ statics[j].size \in Nat
               /\ statics[j].name = StaticName(j)
          /\ Len(program.statics) <= Len(statics)
      BY <1>1 DEF IInv, Data
    <3>2. Len(program.statics) \in Nat
      BY ProgramIs DEF IInv, Control
    <3>3. StaticName(Len(statics) + 1) = name
      BY <2>1, <3>1, <3>2, <1>8 DEF StaticName
    <3>4. ASSUME NEW j \in DOMAIN statics'
          PROVE  /\ DOMAIN statics'[j] = {"name", "size", "value", "location"}
                 /\ statics'[j].location \in Int /\ statics'[j].size \in Nat
                 /\ statics'[j].name = StaticName(j)
      <4>1. CASE j \in 1..Len(statics)
        BY <4>1, <3>1, <2>2, <1>8
      <4>2. CASE j = Len(statics) + 1
        BY <4>2, <3>3, <2>2, <1>a
      <4> QED BY <4>1, <4>2, <2>2, <2>3, <1>8
    <3>5. /\ Len(program.statics) <= Len(statics')
          /\ Len(statics') <= Len(TempNames)
      BY <3>1, <3>2, <2>1, <2>2, <2>3, <1>8
    <3> QED BY <3>4, <3>5, <2>2, <1>1 DEF IInv, Data, StaticName
  <2>5. StaticsKnown'
    <3>1. Len(is) \in Nat /\ StaticsKnown
      BY <1>3 DEF IInv
    <3>2. Len(statics) + 1 \in DOMAIN statics' /\ \A j \in DOMAIN statics : j \in DOMAIN statics' /\ statics'[j] = statics[j]
      BY <2>2, <2>3, <1>8
    <3>3. \A n \in 1..Len(is) : is[n].op = "load" =>
           \E j \in DOMAIN statics' :
             statics'[j].name = is[n].ref.name /\ statics'[j].size = 8 /\ statics'[j].value = is[n].want
      BY <2>2, <3>2, <1>4, <1>a
    <3> QED BY <3>1, <3>2, <3>3, <1>7, LoadsKeepStatics
  <2> QED BY <1>5, <1>7, <2>4, <2>5 DEF IInv
<1> QED BY <1>9, <1>10

\* What a block ends with: no loads, and jumps to blocks of this, the last, function.
IsTail(is) ==
  /\ IsSeq(is)
  /\ \A n \in 1..Len(is) : /\ IsBare(is[n]) /\ is[n].op # "load"
                           /\ is[n].ref.kind = "label" => IsLabel(is[n])

\* The ends of two pieces of a block one after the other.
LEMMA TailConcat ==
  ASSUME NEW s, NEW t, IsTail(s), IsTail(t)
  PROVE  IsTail(s \o t)
<1> DEFINE c == s \o t
           P(i) == /\ IsBare(i) /\ i.op # "load"
                   /\ i.ref.kind = "label" => IsLabel(i)
<1>0. \A is : IsTail(is) <=> IsSeq(is) /\ \A n \in 1..Len(is) : P(is[n])
  BY DEF IsTail
<1> HIDE DEF P
<1>1. /\ IsSeq(c) /\ Len(c) = Len(s) + Len(t)
      /\ \A i \in 1..Len(s) : c[i] = s[i]
      /\ \A i \in 1..Len(t) : c[Len(s) + i] = t[i]
  BY <1>0, ConcatIs
<1>2. Len(s) \in Nat /\ Len(t) \in Nat
  BY <1>0, SeqIs
<1> HIDE DEF c
<1>3. ASSUME NEW n \in 1..Len(c) PROVE P(c[n])
  <2>1. CASE n \in 1..Len(s)
    BY <2>1, <1>0, <1>1
  <2>2. CASE n \notin 1..Len(s)
    <3> DEFINE i == n - Len(s)
    <3>1. i \in 1..Len(t) /\ Len(s) + i = n
      BY <2>2, <1>1, <1>2
    <3> HIDE DEF i
    <3> QED BY <3>1, <1>0, <1>1
  <2> QED BY <2>1, <2>2
<1> QED BY <1>0, <1>1, <1>3 DEF c

\* One instruction that is no load.
LEMMA TailOne ==
  ASSUME NEW i, IsBare(i), i.op # "load", i.ref.kind = "label" => IsLabel(i)
  PROVE  IsTail(<<i>>)
<1> DEFINE s == <<i>>
<1>1. IsSeq(s) /\ Len(s) = 1 /\ s[1] = i
  BY SingletonIs
<1> HIDE DEF s
<1>2. IsTail(s)
  BY <1>1 DEF IsTail
<1> QED BY <1>2 DEF s

\* Four of them.
LEMMA TailFour ==
  ASSUME NEW a, NEW b, NEW c, NEW d, IsTail(<<a>>), IsTail(<<b>>), IsTail(<<c>>), IsTail(<<d>>)
  PROVE  IsTail(<<a, b, c, d>>)
<1> DEFINE P(i) == /\ IsBare(i) /\ i.op # "load"
                   /\ i.ref.kind = "label" => IsLabel(i)
<1>0. \A is : IsTail(is) <=> IsSeq(is) /\ \A n \in 1..Len(is) : P(is[n])
  BY DEF IsTail
<1> HIDE DEF P
<1>1. ASSUME NEW x, IsTail(<<x>>) PROVE P(x)
  <2> DEFINE s == <<x>>
  <2>1. Len(s) = 1 /\ s[1] = x
    BY SingletonIs
  <2> HIDE DEF s
  <2>2. IsTail(s)
    BY <1>1 DEF s
  <2> QED BY <2>1, <2>2, <1>0
<1>2. P(a) /\ P(b) /\ P(c) /\ P(d)
  BY <1>1
<1> DEFINE s == <<a, b, c, d>>
<1>3. Len(s) = 4 /\ s[1] = a /\ s[2] = b /\ s[3] = c /\ s[4] = d /\ s = [i \in 1..4 |-> s[i]]
  OBVIOUS
<1> HIDE DEF s
<1>4. IsSeq(s)
  BY <1>3, FunctionSeq
<1>5. IsTail(s)
  BY <1>0, <1>2, <1>3, <1>4
<1> QED BY <1>5 DEF s

\* None at all.
LEMMA TailNone == IsTail(<<>>)
BY DEF IsTail, IsSeq, ToSet

\* One that refers to nothing.
LEMMA PlainTail ==
  ASSUME NEW op \in {"nop", "prologue", "test", "ret"}
  PROVE  IsTail(<<Plain(op)>>)
<1> DEFINE i == Plain(op)
<1>1. IsBare(i) /\ i.ref.kind = "none" /\ i.op = op
  BY PlainIs
<1> HIDE DEF i
<1>2. IsTail(<<i>>)
  BY <1>1, TailOne
<1> QED BY <1>2 DEF i

\* NoRef is no reference.
LEMMA NoRefIs == NoRef.kind = "none"
BY DEF NoRef

\* The statements of a block.
LEMMA BodyTail == IsTail(<<Body>>)
<1> DEFINE i == Body
           w == Graph!Ran(loop.f, loop.b, FALSE)
<1>1. i.op = "body" /\ i.ref = NoRef /\ i.disp = 0 /\ i.want = w
  BY DEF Body, Inst
<1>2. DOMAIN w = {"kind", "f", "b", "cond"}
  BY DEF Graph!Ran
<1> HIDE DEF i, w
<1>3. IsBare(i)
  BY <1>1, <1>2 DEF IsBare, Ops
<1>4. IsTail(<<i>>)
  BY <1>1, <1>3, NoRefIs, TailOne
<1> QED BY <1>4 DEF i

\* The moves of an edge.
LEMMA ShuffleTail ==
  ASSUME NEW c \in BOOLEAN
  PROVE  IsTail(<<Shuffle(c)>>)
<1> DEFINE i == Shuffle(c)
<1>1. i.op = "shuffle" /\ i.ref = NoRef /\ i.disp = 0 /\ i.want = Graph!Shuffled(loop.f, loop.b, c)
  BY DEF Shuffle, Inst
<1>2. Graph!Shuffled(loop.f, loop.b, c).cond = c
  BY DEF Graph!Shuffled
<1> HIDE DEF i
<1>3. IsBare(i)
  BY <1>1, <1>2 DEF IsBare, Ops
<1>4. IsTail(<<i>>)
  BY <1>1, <1>3, NoRefIs, TailOne
<1> QED BY <1>4 DEF i

\* A jump, emitted or left out because its target comes next.
LEMMA JumpTail ==
  ASSUME NEW name, loop.f = Len(program.funcs), Len(program.funcs) \in Nat \ {0}
  PROVE  IsTail(<<Jump("jmp", name)>>) /\ IsTail(JumpUnlessNext(name))
<1> DEFINE i == Jump("jmp", name)
<1>1. /\ i.op = "jmp" /\ i.ref.kind = "label" /\ i.ref.name = name /\ i.disp = 0
      /\ i.want = <<loop.f, Graph!FindBlock(func, name)>>
  BY DEF Jump, Inst, Ref
<1> HIDE DEF i
<1>2. IsBare(i)
  BY <1>1 DEF IsBare, Ops
<1>3. IsLabel(i)
  BY <1>1 DEF IsLabel, func
<1>4. IsTail(<<i>>)
  BY <1>1, <1>2, <1>3, TailOne
<1>5. JumpUnlessNext(name) = <<i>> \/ JumpUnlessNext(name) = <<>>
  BY DEF JumpUnlessNext, i
<1> QED BY <1>4, <1>5, TailNone DEF i

\* A conditional branch: only the last function has one.
LEMMA BranchTail ==
  ASSUME NEW t, loop.f = Len(program.funcs), Len(program.funcs) \in Nat \ {0}
  PROVE  IsTail(Branch(t))
<1> DEFINE head == IF t.cond = "value" THEN <<Plain("test")>> ELSE <<>>
           jz == Inst("jz", NoRef, InstLen["shuffle"] + InstLen["jmp"], Graph!Idle)
           s1 == Shuffle(TRUE)
           j1 == Jump("jmp", t.yes.to)
           s2 == Shuffle(FALSE)
           last == JumpUnlessNext(t.no.to)
<1>1. Branch(t) = head \o <<jz, s1, j1, s2>> \o last
  BY DEF Branch
<1>2. IsTail(head)
  BY PlainTail, TailNone
<1>3. IsTail(<<jz>>)
  <2>1. InstLen["shuffle"] + InstLen["jmp"] \in Nat
    BY InstLenIs DEF Ops
  <2>2. jz.op = "jz" /\ jz.ref = NoRef /\ jz.disp \in Nat
    BY <2>1 DEF Inst
  <2> HIDE DEF jz
  <2>3. IsBare(jz)
    BY <2>2, NoRefIs DEF IsBare, Ops
  <2> QED BY <2>2, <2>3, NoRefIs, TailOne
<1>4. IsTail(<<s1>>) /\ IsTail(<<s2>>)
  BY ShuffleTail
<1>5. IsTail(<<j1>>) /\ IsTail(last)
  BY JumpTail
<1> HIDE DEF head, jz, s1, j1, s2, last
<1>9. IsTail(<<jz, s1, j1, s2>>)
  BY <1>3, <1>4, <1>5, TailFour
<1>10. IsTail(head \o <<jz, s1, j1, s2>>)
  BY <1>2, <1>9, TailConcat
<1>11. IsTail(head \o <<jz, s1, j1, s2>> \o last)
  BY <1>10, <1>5, TailConcat
<1> QED BY <1>1, <1>11

\* The end of any block.
LEMMA EndBlockKeeps ==
  ASSUME IInv, pc = "statement", NEW tail, IsTail(tail), EndBlock(tail)
  PROVE  IInv'
<1> DEFINE is == <<Body>> \o tail
<1>1. /\ Emit(is) /\ loop' = [loop EXCEPT !.b = @ + 1]
      /\ pc' = IF block.term.op # "return" /\ loop.b = Len(func.blocks) THEN "crash" ELSE "block"
      /\ UNCHANGED <<program, globals, globals_bytecount, statics, starts, symbols, log, jit, session, machine>>
  BY DEF EndBlock
<1>2. IsTail(is)
  BY BodyTail, TailConcat
<1>3. Len(is) \in Nat /\ Len(is) > 0
  <2> DEFINE b == <<Body>>
  <2>1. IsSeq(b) /\ IsSeq(tail) /\ Len(b) = 1
    BY SingletonIs DEF IsTail
  <2>2. Len(is) = Len(b) + Len(tail) /\ Len(tail) \in Nat
    <3> HIDE DEF b
    <3>1. Len(b \o tail) = Len(b) + Len(tail)
      BY <2>1, ConcatIs
    <3> QED BY <3>1, <2>1, SeqIs DEF b
  <2> QED BY <2>1, <2>2
<1> HIDE DEF is
<1>4. /\ IsProgram(program) /\ loop \in [f : Nat, b : Nat, s : Nat]
      /\ Len(program.funcs) \in Nat /\ loop.f \in 1..Len(program.funcs)
      /\ Len(func.blocks) \in Nat /\ loop.b \in 1..Len(func.blocks)
  BY StatementIs DEF IInv
<1>5. loop'.f = loop.f /\ loop'.b = loop.b + 1 /\ loop'.s = loop.s /\ loop' \in [f : Nat, b : Nat, s : Nat]
  BY <1>1, <1>4
<1>6. Control'
  <2>1. func' = func
    BY <1>1, <1>5 DEF func
  <2>2. loop'.b \in 1..(Len(func.blocks) + 1) /\ session \in {0, 1} /\ pc' \in {"block", "crash"}
    BY <1>1, <1>4, <1>5 DEF IInv, Control
  <2> QED BY <1>1, <1>4, <1>5, <2>1, <2>2 DEF Control, Phases
<1>7. /\ StartsTyped' /\ Layout' /\ Labels' /\ UsagesMatch' /\ LogMatch' /\ Placement'
      /\ LabelsLinked' /\ StaticsLinked' /\ SymbolsLinked' /\ GlobalsLinked' /\ Machine'
      /\ Len(code') = Len(code) + Len(is) /\ DOMAIN code' = 1..Len(code')
      /\ DOMAIN code = 1..Len(code) /\ Len(code) \in Nat
      /\ \A k \in 1..Len(code) : code'[k] = code[k]
      /\ \A n \in 1..Len(is) : /\ code'[Len(code) + n].op = is[n].op
                               /\ code'[Len(code) + n].ref = is[n].ref
                               /\ code'[Len(code) + n].want = is[n].want
  <2>1. pc' \in {"block", "crash"} /\ loop.f <= Len(program.funcs)
    BY <1>1, <1>4
  <2>2. IsSeq(is) /\ \A n \in 1..Len(is) : IsBare(is[n]) /\ (is[n].ref.kind = "label" => IsLabel(is[n]))
    BY <1>2 DEF IsTail
  <2> QED BY <1>1, <1>3, <1>5, <2>1, <2>2, EmitKeeps
<1>8. Data'
  <2>1. pc' \in {"block", "crash"}
    BY <1>1
  <2> QED BY <1>1, <2>1 DEF IInv, Data, StaticName
<1>9. StaticsKnown'
  <2>1. StaticsKnown /\ \A n \in 1..Len(is) : is[n].op # "load"
    BY <1>2 DEF IInv, IsTail
  <2> QED BY <1>1, <1>3, <1>7, <2>1, LoadsKeepStatics
<1> QED BY <1>6, <1>7, <1>8, <1>9 DEF IInv

\* Returns, jumps and branches are ends of blocks.
LEMMA TerminatorsKeep ==
  ASSUME IInv, EmitReturn \/ EmitGoto \/ EmitIf
  PROVE  IInv'
<1>1. CASE EmitReturn
  BY <1>1, PlainTail, EndBlockKeeps DEF EmitReturn, AtTerminator
<1>2. ASSUME AtTerminator("goto") \/ AtTerminator("if")
      PROVE  pc = "statement" /\ loop.f = Len(program.funcs) /\ Len(program.funcs) \in Nat \ {0}
  <2>1. pc = "statement" /\ block.term.op # "return"
    BY <1>2 DEF AtTerminator
  <2>2. /\ loop.f < Len(program.funcs) => block.term.op = "return"
        /\ loop.f \in 1..Len(program.funcs) /\ Len(program.funcs) \in Nat
    BY <2>1, StatementIs DEF IInv
  <2> QED BY <2>1, <2>2
<1>3. CASE EmitGoto
  <2>1. AtTerminator("goto") /\ EndBlock(<<Shuffle(TRUE)>> \o JumpUnlessNext(block.term.yes.to))
    BY <1>3 DEF EmitGoto
  <2>2. pc = "statement" /\ loop.f = Len(program.funcs) /\ Len(program.funcs) \in Nat \ {0}
    BY <1>2, <2>1
  <2>3. IsTail(<<Shuffle(TRUE)>> \o JumpUnlessNext(block.term.yes.to))
    BY <2>2, ShuffleTail, JumpTail, TailConcat
  <2> QED BY <2>1, <2>2, <2>3, EndBlockKeeps
<1>4. CASE EmitIf
  <2>1. AtTerminator("if") /\ EndBlock(Branch(block.term))
    BY <1>4 DEF EmitIf
  <2>2. pc = "statement" /\ loop.f = Len(program.funcs) /\ Len(program.funcs) \in Nat \ {0}
    BY <1>2, <2>1
  <2> QED BY <2>1, <2>2, BranchTail, EndBlockKeeps
<1> QED BY <1>1, <1>3, <1>4

\* The compiler stops where it is.
LEMMA CrashKeeps ==
  ASSUME IInv, pc \notin {"idle", "freed"}, pc' = "crash", Machine',
         UNCHANGED <<program, globals, globals_bytecount, statics, loop, code, code_len,
                     starts, symbols, usages, log, session>>
  PROVE  IInv'
<1>1. Control'
  BY DEF IInv, Control, Phases
<1>2. StartsTyped' /\ Labels' /\ StaticsKnown'
  BY DEF IInv, StartsTyped, Labels, IsLabel, StaticsKnown
<1>3. Layout'
  BY DEF IInv, Layout, Emitting
<1>4. UsagesMatch'
  BY DEF IInv, UsagesMatch, UsagesOf, Usage
<1>5. LogMatch'
  BY DEF LogMatch
<1>6. Data'
  BY DEF IInv, Data, StaticName
<1>7. Placement'
  BY DEF IInv, Placement, Apart
<1>8. LabelsLinked' /\ StaticsLinked' /\ SymbolsLinked' /\ GlobalsLinked'
  BY DEF LabelsLinked, StaticsLinked, SymbolsLinked, GlobalsLinked, Linked
<1> QED BY <1>1, <1>2, <1>3, <1>4, <1>5, <1>6, <1>7, <1>8 DEF IInv

\* What relocation keeps.
LEMMA RelocationKeeps ==
  ASSUME IInv, NEW kind \in {"label", "static", "symbol"}, NEW X, NEW target, NEW us,
         us = Pending(kind, X), \A name \in DOMAIN target : target[name] \in Int,
         code' = Relocated(us, target), UNCHANGED <<code_len, session, statics>>
  PROVE  /\ WellLaid(code', code_len') /\ EndOf(code') = EndOf(code)
         /\ Len(code) \in Nat /\ Len(code') = Len(code) /\ DOMAIN code = 1..Len(code) /\ DOMAIN code' = 1..Len(code)
         /\ \A k \in 1..Len(code) :
              /\ code'[k].op = code[k].op /\ code'[k].ref = code[k].ref /\ code'[k].want = code[k].want
              /\ End(code'[k]) = End(code[k])
              /\ IF code[k].ref.kind = kind /\ code[k].ref.name \in (DOMAIN target) \ X
                 THEN To(code'[k]) = target[code[k].ref.name]
                 ELSE code'[k] = code[k]
         /\ \A other : UsagesOf(other, code)' = UsagesOf(other, code)
         /\ StaticsKnown'
<1>1. WellLaid(code, code_len)
  BY DEF IInv, Layout
<1> DEFINE r == Relocated(us, target)
<1>2. /\ WellLaid(r, code_len) /\ EndOf(r) = EndOf(code) /\ Len(r) = Len(code)
      /\ \A k \in 1..Len(code) :
           /\ r[k].op = code[k].op /\ r[k].ref = code[k].ref /\ r[k].want = code[k].want
           /\ End(r[k]) = End(code[k])
           /\ IF code[k].ref.kind = kind /\ code[k].ref.name \in (DOMAIN target) \ X
              THEN To(r[k]) = target[code[k].ref.name]
              ELSE r[k] = code[k]
  BY <1>1, RelocatedKeeps
<1>3. code' = r
  OBVIOUS
<1> HIDE DEF r
<1>4. Len(code) \in Nat /\ DOMAIN code = 1..Len(code) /\ DOMAIN code' = 1..Len(code)
  <2>1. IsSeq(code) /\ IsSeq(code')
    BY <1>1, <1>2, <1>3 DEF WellLaid
  <2> QED BY <2>1, <1>2, <1>3, SeqIs
<1>5. ASSUME NEW other PROVE UsagesOf(other, code)' = UsagesOf(other, code)
  <2> DEFINE g(i) == Usage(End(i) - 4, i.ref.name)
             K == {n \in 1..Len(code) : code[n].ref.kind = other}
  <2>1. UsagesOf(other, code)' = {g(code'[n]) : n \in {n \in 1..Len(code) : code'[n].ref.kind = other}}
    BY <1>4 DEF UsagesOf, Usage
  <2>2. UsagesOf(other, code) = {g(code[n]) : n \in K}
    BY <1>4 DEF UsagesOf
  <2>3. {n \in 1..Len(code) : code'[n].ref.kind = other} = K
    BY <1>2, <1>3
  <2>4. \A n \in K : g(code'[n]) = g(code[n])
    BY <1>2, <1>3
  <2> HIDE DEF g, K
  <2>5. {g(code'[n]) : n \in K} = {g(code[n]) : n \in K}
    BY <2>4
  <2> QED BY <2>1, <2>2, <2>3, <2>5
<1>6. StaticsKnown'
  BY <1>2, <1>3, <1>4 DEF IInv, StaticsKnown
<1> QED BY <1>2, <1>3, <1>4, <1>5, <1>6

\* A field on a list of usages is one of the code's.
LEMMA UsageOf ==
  ASSUME NEW kind, DOMAIN code = 1..Len(code), NEW k \in 1..Len(code), code[k].ref.kind = kind
  PROVE  \E u \in UsagesOf(kind, code) : u.name = code[k].ref.name
<1> DEFINE u == Usage(End(code[k]) - 4, code[k].ref.name)
<1>1. u \in UsagesOf(kind, code)
  BY DEF UsagesOf
<1>2. u.name = code[k].ref.name
  BY DEF Usage
<1> QED BY <1>1, <1>2

\* Nothing is left out when no name is excluded.
LEMMA PendingAll == \A kind : Pending(kind, {}) = UsagesOf(kind, code)
BY DEF Pending

\* The usages on the list of a kind, for the phases that relocate.
LEMMA ListIs ==
  ASSUME IInv, pc # "freed", NEW kind \in {"label", "static", "symbol"}
  PROVE  usages[kind] = UsagesOf(kind, code) /\ usages[kind] = Pending(kind, {})
BY PendingAll DEF IInv, UsagesMatch

\* At the end of the last function its jumps are linked; before that there are none.
LEMMA EndFunctionKeeps ==
  ASSUME IInv, EndFunction
  PROVE  IInv'
<1> DEFINE target == [name \in NamesIn(func.blocks) |-> starts[loop.f][Graph!FindBlock(func, name)]]
           us == usages["label"]
<1>1. /\ pc = "block" /\ loop.b > Len(func.blocks)
      /\ UNCHANGED <<program, globals, globals_bytecount, statics, code_len, starts,
                     symbols, usages, log, jit, session, machine>>
  BY DEF EndFunction
<1>2. \/ pc' = "crash" /\ UNCHANGED <<code, loop>>
      \/ /\ ~Unresolved(us, target)
         /\ code' = Relocated(us, target)
         /\ loop' = [loop EXCEPT !.f = @ + 1]
         /\ pc' = "function"
  BY DEF EndFunction
<1>3. /\ IsProgram(program) /\ loop \in [f : Nat, b : Nat, s : Nat] /\ Len(program.funcs) \in Nat
      /\ loop.f \in 1..Len(program.funcs) /\ IsSeq(func.blocks)
  <2>1. IsProgram(program) /\ loop \in [f : Nat, b : Nat, s : Nat] /\ loop.f <= Len(program.funcs)
        /\ loop.f \in 1..(Len(program.funcs) + 1)
    BY <1>1 DEF IInv, Control
  <2>2. Len(program.funcs) \in Nat
    BY <2>1, ProgramIs
  <2>3. loop.f \in 1..Len(program.funcs)
    BY <2>1, <2>2
  <2> QED BY <2>1, <2>2, <2>3, ProgramIs DEF func
<1>4. \A name \in NamesIn(func.blocks) : starts[loop.f][Graph!FindBlock(func, name)] \in Nat
  <2>1. SUFFICES ASSUME NEW name \in NamesIn(func.blocks)
                 PROVE  starts[loop.f][Graph!FindBlock(func, name)] \in Nat
    OBVIOUS
  <2>2. \E b \in 1..Len(func.blocks) : func.blocks[b].name = name
    BY <1>3, SeqIs DEF NamesIn
  <2>3. Graph!FindBlock(func, name) \in 1..Len(func.blocks)
    BY <2>2 DEF Graph!FindBlock
  <2>4. starts[loop.f] \in [1..Len(func.blocks) -> Nat]
    BY <1>3 DEF IInv, StartsTyped, func
  <2> QED BY <2>3, <2>4
<1>5. DOMAIN target = NamesIn(func.blocks) /\ \A name \in DOMAIN target : target[name] \in Int
  BY <1>4
<1>6. CASE pc' = "crash" /\ UNCHANGED <<code, loop>>
  <2>1. Machine'
    BY <1>1 DEF IInv, Machine, machine
  <2> QED BY <1>1, <1>6, <2>1, CrashKeeps
<1>7. CASE /\ ~Unresolved(us, target)
           /\ code' = Relocated(us, target)
           /\ loop' = [loop EXCEPT !.f = @ + 1]
           /\ pc' = "function"
  <2>0. us = UsagesOf("label", code) /\ us = Pending("label", {})
    BY <1>1, ListIs
  <2> HIDE DEF us
  <2>1. \A name \in DOMAIN target : target[name] = starts[loop.f][Graph!FindBlock(func, name)]
    OBVIOUS
  <2> HIDE DEF target
  <2>2. /\ WellLaid(code', code_len') /\ EndOf(code') = EndOf(code)
        /\ Len(code) \in Nat /\ Len(code') = Len(code) /\ DOMAIN code = 1..Len(code) /\ DOMAIN code' = 1..Len(code)
        /\ \A k \in 1..Len(code) :
             /\ code'[k].op = code[k].op /\ code'[k].ref = code[k].ref /\ code'[k].want = code[k].want
             /\ End(code'[k]) = End(code[k])
             /\ IF code[k].ref.kind = "label" /\ code[k].ref.name \in (DOMAIN target) \ {}
                THEN To(code'[k]) = target[code[k].ref.name]
                ELSE code'[k] = code[k]
        /\ \A other : UsagesOf(other, code)' = UsagesOf(other, code)
        /\ StaticsKnown'
    BY <1>1, <1>5, <1>7, <2>0, RelocationKeeps
  <2>3. loop'.f = loop.f + 1 /\ loop'.b = loop.b /\ loop'.s = loop.s /\ loop' \in [f : Nat, b : Nat, s : Nat]
    BY <1>3, <1>7
  <2>4. Control'
    BY <1>1, <1>3, <1>7, <2>3 DEF IInv, Control, Phases
  <2>5. StartsTyped' /\ LogMatch' /\ Machine'
    <3>1. StartsTyped'
      BY <1>1 DEF IInv, StartsTyped
    <3>2. LogMatch'
      BY <1>1, <1>7 DEF IInv, LogMatch
    <3>3. Machine'
      BY <1>1 DEF IInv, Machine, machine
    <3> QED BY <3>1, <3>2, <3>3
  <2>6. Layout'
    BY <1>1, <1>7, <2>2 DEF IInv, Layout, Emitting
  <2>7. Labels'
    <3>1. SUFFICES ASSUME NEW k \in 1..Len(code), code'[k].ref.kind = "label" PROVE IsLabel(code[k])'
      BY <2>2 DEF Labels
    <3>2. IsLabel(code[k])
      BY <3>1, <2>2 DEF IInv, Labels
    <3>3. code'[k].ref = code[k].ref /\ code'[k].want = code[k].want
      BY <2>2
    <3> QED BY <3>2, <3>3, <1>1, <1>3, <2>3 DEF IsLabel
  <2>8. UsagesMatch'
    BY <1>1, <1>7, <2>2 DEF IInv, UsagesMatch
  <2>9. Data'
    BY <1>1, <1>7 DEF IInv, Data, StaticName
  <2>10. Placement'
    BY <1>1, <1>7 DEF IInv, Placement, Apart
  <2>11. LabelsLinked'
    <3>1. SUFFICES ASSUME loop'.f > Len(program.funcs), NEW k \in 1..Len(code), code'[k].ref.kind = "label"
                   PROVE  /\ code'[k].ref.name \in NamesIn(program.funcs[Len(program.funcs)].blocks)
                          /\ To(code'[k]) = starts[code'[k].want[1]][code'[k].want[2]]
      BY <1>1, <2>2 DEF LabelsLinked, NamesIn
    <3>2. loop.f = Len(program.funcs)
      BY <3>1, <2>3, <1>3
    <3>3. code[k].ref.kind = "label" /\ code'[k].ref = code[k].ref /\ code'[k].want = code[k].want
      BY <3>1, <2>2
    <3>4. code[k].ref.name \in DOMAIN target
      <4>1. PICK u \in us : u.name = code[k].ref.name
        BY <3>3, <2>0, <2>2, UsageOf
      <4> QED BY <4>1, <1>7 DEF Unresolved
    <3>5. To(code'[k]) = target[code[k].ref.name]
      BY <3>3, <3>4, <2>2
    <3>6. target[code[k].ref.name] = starts[loop.f][Graph!FindBlock(func, code[k].ref.name)]
      BY <3>4, <2>1
    <3>7. code[k].want = <<Len(program.funcs), Graph!FindBlock(program.funcs[Len(program.funcs)], code[k].ref.name)>>
      BY <3>3, <2>2 DEF IInv, Labels, IsLabel
    <3>8. code[k].want[1] = loop.f /\ code[k].want[2] = Graph!FindBlock(func, code[k].ref.name)
      BY <3>7, <3>2 DEF func
    <3> QED BY <3>2, <3>3, <3>4, <3>5, <3>6, <3>8, <1>5 DEF func
  <2>12. StaticsLinked' /\ SymbolsLinked' /\ GlobalsLinked'
    BY <1>7 DEF StaticsLinked, SymbolsLinked, GlobalsLinked, Linked
  <2> QED BY <2>2, <2>4, <2>5, <2>6, <2>7, <2>8, <2>9, <2>10, <2>11, <2>12 DEF IInv
<1> QED BY <1>2, <1>6, <1>7

\* A lookup by name finds an entry of that name.
LEMMA NamedIs ==
  ASSUME NEW s, IsSeq(s), NEW name \in NamesIn(s)
  PROVE  \E i \in DOMAIN s : s[i].name = name /\ Named(s, name) = s[i]
<1> DEFINE I == {i \in DOMAIN s : s[i].name = name}
<1>1. I # {}
  BY DEF NamesIn
<1>2. I \subseteq Nat
  BY SeqIs
<1>3. Min(I) \in I
  <2> HIDE DEF I
  <2> QED BY <1>1, <1>2, MinIs
<1>4. Named(s, name) = s[Min(I)]
  BY DEF Named
<1> QED BY <1>3, <1>4

\* No two statics have the same name.
LEMMA StaticNamesDiffer ==
  ASSUME IInv, NEW i \in DOMAIN statics, NEW j \in DOMAIN statics, statics[i].name = statics[j].name
  PROVE  i = j
<1> DEFINE P == Len(program.statics)
           S == Len(statics)
<1>1. IsSeq(statics) /\ IsSeq(program.statics) /\ P \in Nat /\ S \in Nat
      /\ DOMAIN statics = 1..S /\ DOMAIN program.statics = 1..P
  BY ProgramIs, SeqIs DEF IInv, Control, Data
<1>2. StaticName(i) = StaticName(j) /\ (S > P => S <= Len(TempNames))
  BY DEF IInv, Data
<1>3. /\ Len(TempNames) \in Nat /\ DOMAIN TempNames = 1..Len(TempNames)
      /\ \A m, n \in DOMAIN TempNames : TempNames[m] = TempNames[n] => m = n
  BY NamesAssumption, SeqIs DEF IsSeq
<1>4. /\ \A m, n \in DOMAIN program.statics : program.statics[m].name = program.statics[n].name => m = n
      /\ \A m \in DOMAIN program.statics : program.statics[m].name \notin ToSet(TempNames)
  BY DEF IInv, Control, IsProgram
<1>5. \A m \in 1..S : m > P => m \in DOMAIN TempNames /\ TempNames[m] \in ToSet(TempNames)
  BY <1>1, <1>2, <1>3 DEF ToSet
<1> HIDE DEF P, S
<1>6. /\ i <= P => i \in 1..P /\ StaticName(i) = program.statics[i].name
      /\ j <= P => j \in 1..P /\ StaticName(j) = program.statics[j].name
      /\ ~(i <= P) => i > P /\ StaticName(i) = TempNames[i]
      /\ ~(j <= P) => j > P /\ StaticName(j) = TempNames[j]
  BY <1>1 DEF StaticName, P
<1>7. CASE i <= P /\ j <= P
  BY <1>1, <1>2, <1>4, <1>6, <1>7
<1>8. CASE ~(i <= P) /\ ~(j <= P)
  BY <1>1, <1>2, <1>3, <1>5, <1>6, <1>8
<1>9. CASE i <= P /\ ~(j <= P)
  BY <1>1, <1>2, <1>4, <1>5, <1>6, <1>9
<1>10. CASE ~(i <= P) /\ j <= P
  BY <1>1, <1>2, <1>4, <1>5, <1>6, <1>10
<1> QED BY <1>7, <1>8, <1>9, <1>10

\* What the last three relocations keep: everything but the links they make.
LEMMA LateRelocation ==
  ASSUME IInv, pc \in {"statics", "symbols", "jit"}, pc' \in {"symbols", "jit", "ready"},
         pc = "statics" => loop.s > Len(statics),
         NEW kind \in {"static", "symbol"}, NEW X, NEW target, NEW us,
         us = Pending(kind, X), \A name \in DOMAIN target : target[name] \in Int,
         code' = Relocated(us, target),
         UNCHANGED <<program, globals, globals_bytecount, statics, loop, code_len, starts,
                     symbols, usages, session>>
  PROVE  /\ Control' /\ StartsTyped' /\ Layout' /\ Labels' /\ UsagesMatch' /\ Data' /\ StaticsKnown'
         /\ Placement' /\ LabelsLinked'
         /\ DOMAIN code = 1..Len(code) /\ DOMAIN code' = 1..Len(code)
         /\ \A k \in 1..Len(code) :
              /\ code'[k].op = code[k].op /\ code'[k].ref = code[k].ref /\ code'[k].want = code[k].want
              /\ IF code[k].ref.kind = kind /\ code[k].ref.name \in (DOMAIN target) \ X
                 THEN To(code'[k]) = target[code[k].ref.name]
                 ELSE code'[k] = code[k]
         /\ \A other : UsagesOf(other, code)' = UsagesOf(other, code)
<1>1. /\ WellLaid(code', code_len') /\ EndOf(code') = EndOf(code)
      /\ Len(code) \in Nat /\ Len(code') = Len(code) /\ DOMAIN code = 1..Len(code) /\ DOMAIN code' = 1..Len(code)
      /\ \A k \in 1..Len(code) :
           /\ code'[k].op = code[k].op /\ code'[k].ref = code[k].ref /\ code'[k].want = code[k].want
           /\ End(code'[k]) = End(code[k])
           /\ IF code[k].ref.kind = kind /\ code[k].ref.name \in (DOMAIN target) \ X
              THEN To(code'[k]) = target[code[k].ref.name]
              ELSE code'[k] = code[k]
      /\ \A other : UsagesOf(other, code)' = UsagesOf(other, code)
      /\ StaticsKnown'
  BY RelocationKeeps
<1>2. loop.s = Len(statics) + 1 /\ loop.f = Len(program.funcs) + 1 /\ Len(program.funcs) \in Nat
  <2>1. Len(program.funcs) \in Nat
    BY ProgramIs DEF IInv, Control
  <2>2. Len(statics) \in Nat
    BY SeqIs DEF IInv, Data
  <2> QED BY <2>1, <2>2 DEF IInv, Control
<1>3. Control'
  BY <1>2 DEF IInv, Control, Phases
<1>4. StartsTyped'
  BY DEF IInv, StartsTyped
<1>5. Layout'
  BY <1>1 DEF Layout, Emitting
<1>6. Labels'
  BY <1>1 DEF IInv, Labels, IsLabel
<1>7. UsagesMatch'
  BY <1>1 DEF IInv, UsagesMatch
<1>8. Data'
  BY DEF IInv, Data, StaticName
<1>9. Placement'
  BY <1>1 DEF IInv, Placement, Apart
<1>10. LabelsLinked'
  <2>1. ASSUME NEW k \in 1..Len(code), code'[k].ref.kind = "label"
        PROVE  /\ code'[k].ref.name \in NamesIn(program.funcs[Len(program.funcs)].blocks)
               /\ To(code'[k]) = starts[code'[k].want[1]][code'[k].want[2]]
    <3>1. code[k].ref.kind = "label" /\ code'[k] = code[k]
      BY <1>1, <2>1
    <3> QED BY <3>1, <1>1, <1>2 DEF IInv, LabelsLinked
  <2> QED BY <2>1, <1>1 DEF LabelsLinked, NamesIn
<1> QED BY <1>1, <1>3, <1>4, <1>5, <1>6, <1>7, <1>8, <1>9, <1>10

\* Statics are linked: every load reads the static of its value.
LEMMA ApplyStaticsKeeps ==
  ASSUME IInv, ApplyStatics
  PROVE  IInv'
<1> DEFINE target == [name \in NamesIn(statics) |-> Named(statics, name).location]
           us == usages["static"]
<1>1. /\ pc = "statics" /\ loop.s > Len(statics)
      /\ UNCHANGED <<program, globals, globals_bytecount, statics, loop, code_len, starts,
                     symbols, usages, log, jit, session, machine>>
      /\ \/ pc' = "crash" /\ UNCHANGED code
         \/ pc' = "symbols" /\ code' = Relocated(us, target)
  BY DEF ApplyStatics
<1>2. Machine'
  BY <1>1 DEF IInv, Machine, machine
<1>3. CASE pc' = "crash" /\ UNCHANGED code
  BY <1>1, <1>2, <1>3, CrashKeeps
<1>4. CASE pc' = "symbols" /\ code' = Relocated(us, target)
  <2>1. us = Pending("static", {})
    BY <1>1, ListIs
  <2>2. IsSeq(statics) /\ \A i \in DOMAIN statics : statics[i].location \in Int
    BY DEF IInv, Data
  <2>3. DOMAIN target = NamesIn(statics) /\ \A name \in DOMAIN target : target[name] = Named(statics, name).location
    OBVIOUS
  <2>4. \A name \in DOMAIN target : target[name] \in Int
    BY <2>2, <2>3, NamedIs
  <2> HIDE DEF target, us
  <2>5. /\ Control' /\ StartsTyped' /\ Layout' /\ Labels' /\ UsagesMatch' /\ Data' /\ StaticsKnown'
        /\ Placement' /\ LabelsLinked'
        /\ DOMAIN code = 1..Len(code) /\ DOMAIN code' = 1..Len(code)
        /\ \A k \in 1..Len(code) :
             /\ code'[k].op = code[k].op /\ code'[k].ref = code[k].ref /\ code'[k].want = code[k].want
             /\ IF code[k].ref.kind = "static" /\ code[k].ref.name \in (DOMAIN target) \ {}
                THEN To(code'[k]) = target[code[k].ref.name]
                ELSE code'[k] = code[k]
        /\ \A other : UsagesOf(other, code)' = UsagesOf(other, code)
    BY <1>1, <1>4, <2>1, <2>4, LateRelocation
  <2>6. StaticsLinked'
    <3>1. SUFFICES ASSUME NEW k \in 1..Len(code), code'[k].op = "load"
                   PROVE  \E i \in DOMAIN statics : /\ statics[i].size = 8 /\ statics[i].value = code'[k].want
                                                    /\ statics[i].location = To(code'[k])
      BY <1>1, <2>5 DEF StaticsLinked
    <3>2. code[k].op = "load" /\ code'[k].want = code[k].want
      BY <3>1, <2>5
    <3>3. code[k].ref.kind = "static"
      BY <3>2, <3>1 DEF IInv, Layout, WellLaid, IsInst, IsBare
    <3>4. PICK i \in DOMAIN statics :
            statics[i].name = code[k].ref.name /\ statics[i].size = 8 /\ statics[i].value = code[k].want
      BY <3>2, <2>5 DEF IInv, StaticsKnown
    <3>5. code[k].ref.name \in NamesIn(statics)
      BY <3>4 DEF NamesIn
    <3>6. PICK j \in DOMAIN statics : statics[j].name = code[k].ref.name /\ Named(statics, code[k].ref.name) = statics[j]
      BY <3>5, <2>2, NamedIs
    <3>7. i = j
      BY <3>4, <3>6, StaticNamesDiffer
    <3>8. To(code'[k]) = statics[i].location
      BY <3>3, <3>5, <3>6, <3>7, <2>3, <2>5
    <3> QED BY <3>2, <3>4, <3>8
  <2>7. LogMatch' /\ SymbolsLinked' /\ GlobalsLinked'
    BY <1>1, <1>4 DEF IInv, LogMatch, SymbolsLinked, GlobalsLinked, Linked
  <2> QED BY <1>2, <2>5, <2>6, <2>7 DEF IInv
<1> QED BY <1>1, <1>3, <1>4

\* Loads are linked and stay so when symbols and globals are.
LEMMA LoadsStay ==
  ASSUME IInv, pc \in {"symbols", "jit"}, pc' \in {"jit", "ready"}, UNCHANGED statics, NEW target, NEW X,
         DOMAIN code = 1..Len(code), DOMAIN code' = 1..Len(code),
         \A k \in 1..Len(code) :
           /\ code'[k].op = code[k].op /\ code'[k].ref = code[k].ref /\ code'[k].want = code[k].want
           /\ IF code[k].ref.kind = "symbol" /\ code[k].ref.name \in (DOMAIN target) \ X
              THEN To(code'[k]) = target[code[k].ref.name]
              ELSE code'[k] = code[k]
  PROVE  StaticsLinked'
<1> SUFFICES ASSUME NEW k \in 1..Len(code), code'[k].op = "load"
             PROVE  \E i \in DOMAIN statics : /\ statics[i].size = 8 /\ statics[i].value = code'[k].want
                                              /\ statics[i].location = To(code'[k])
  BY DEF StaticsLinked
<1>1. code[k].op = "load"
  OBVIOUS
<1>2. code[k].ref.kind = "static"
  BY <1>1 DEF IInv, Layout, WellLaid, IsInst, IsBare
<1>3. code'[k] = code[k]
  BY <1>2
<1> QED BY <1>1, <1>3 DEF IInv, StaticsLinked

\* References to functions are linked; the others are logged, for the JIT.
LEMMA ApplySymbolsKeeps ==
  ASSUME IInv, ApplySymbols
  PROVE  IInv'
<1> DEFINE target == [name \in NamesIn(symbols) |-> Named(symbols, name).loc]
           us == usages["symbol"]
<1>1. /\ pc = "symbols"
      /\ UNCHANGED <<program, globals, globals_bytecount, statics, loop, code_len, starts,
                     symbols, usages, jit, session, machine>>
      /\ \/ pc' = "crash" /\ UNCHANGED <<code, log>>
         \/ /\ pc' = "jit" /\ code' = Relocated(us, target)
            /\ log' = log \cup {u \in us : u.name \notin DOMAIN target}
  BY DEF ApplySymbols
<1>2. Machine'
  BY <1>1 DEF IInv, Machine, machine
<1>3. CASE pc' = "crash" /\ UNCHANGED <<code, log>>
  BY <1>1, <1>2, <1>3, CrashKeeps
<1>4. CASE /\ pc' = "jit" /\ code' = Relocated(us, target)
           /\ log' = log \cup {u \in us : u.name \notin DOMAIN target}
  <2>1. us = Pending("symbol", {}) /\ us = UsagesOf("symbol", code)
    BY <1>1, ListIs
  <2>2. IsSeq(symbols) /\ \A i \in DOMAIN symbols : symbols[i].loc \in Nat
    BY DEF IInv, Data
  <2>3. DOMAIN target = NamesIn(symbols) /\ \A name \in DOMAIN target : target[name] = Named(symbols, name).loc
    OBVIOUS
  <2>4. \A name \in DOMAIN target : target[name] \in Int
    BY <2>2, <2>3, NamedIs
  <2> HIDE DEF target, us
  <2>5. /\ Control' /\ StartsTyped' /\ Layout' /\ Labels' /\ UsagesMatch' /\ Data' /\ StaticsKnown'
        /\ Placement' /\ LabelsLinked'
        /\ DOMAIN code = 1..Len(code) /\ DOMAIN code' = 1..Len(code)
        /\ \A k \in 1..Len(code) :
             /\ code'[k].op = code[k].op /\ code'[k].ref = code[k].ref /\ code'[k].want = code[k].want
             /\ IF code[k].ref.kind = "symbol" /\ code[k].ref.name \in (DOMAIN target) \ {}
                THEN To(code'[k]) = target[code[k].ref.name]
                ELSE code'[k] = code[k]
        /\ \A other : UsagesOf(other, code)' = UsagesOf(other, code)
    BY <1>1, <1>4, <2>1, <2>4, LateRelocation
  <2>6. StaticsLinked'
    BY <1>1, <1>4, <2>5, LoadsStay
  <2>7. SymbolsLinked'
    <3>1. SUFFICES ASSUME NEW k \in 1..Len(code), code'[k].op = "lea", code'[k].want \in NamesIn(symbols)
                   PROVE  \E i \in DOMAIN symbols : symbols[i].name = code'[k].want /\ symbols[i].loc = To(code'[k])
      BY <1>1, <2>5 DEF SymbolsLinked, NamesIn
    <3>2. code[k].op = "lea" /\ code'[k].want = code[k].want
      BY <3>1, <2>5
    <3>3. code[k].ref.kind = "symbol" /\ code[k].ref.name = code[k].want
      BY <3>2, <3>1 DEF IInv, Layout, WellLaid, IsInst, IsBare
    <3>4. To(code'[k]) = Named(symbols, code[k].want).loc
      BY <3>1, <3>2, <3>3, <2>3, <2>5
    <3> QED BY <3>1, <3>2, <3>4, <2>2, NamedIs
  <2>8. LogMatch'
    <3>1. log = {}
      BY <1>1 DEF IInv, LogMatch
    <3>2. log' = {u \in UsagesOf("symbol", code) : u.name \notin NamesIn(symbols)}
      BY <3>1, <1>4, <2>1, <2>3
    <3>3. UsagesOf("symbol", code)' = UsagesOf("symbol", code)
      BY <2>5
    <3>4. Pending("symbol", NamesIn(symbols))' = {u \in UsagesOf("symbol", code)' : u.name \notin NamesIn(symbols)}
      BY <1>1 DEF Pending, NamesIn
    <3> QED BY <3>2, <3>3, <3>4, <1>4 DEF LogMatch
  <2>9. GlobalsLinked'
    BY <1>4 DEF GlobalsLinked, Linked
  <2> QED BY <1>2, <2>5, <2>6, <2>7, <2>8, <2>9 DEF IInv
<1> QED BY <1>1, <1>3, <1>4

\* The JIT links the references that the log holds to its copy of the globals.
LEMMA JitKeeps ==
  ASSUME IInv, do_jit_lowering
  PROVE  IInv'
<1>1. PICK jit_globals \in Pages : \E jit_code \in Pages \ {jit_globals} :
       LET target == [name \in NamesIn(globals) |-> Named(globals, name).location - (jit_code - jit_globals)]
       IN /\ jit' = <<jit_code, jit_globals>>
          /\ IF Unresolved(log, target) \/ Refused(log, target)
             THEN pc' = "crash" /\ UNCHANGED code
             ELSE pc' = "ready" /\ code' = Relocated(log, target)
  BY DEF do_jit_lowering
<1>1a. PICK jit_code \in Pages \ {jit_globals} :
       LET target == [name \in NamesIn(globals) |-> Named(globals, name).location - (jit_code - jit_globals)]
       IN /\ jit' = <<jit_code, jit_globals>>
          /\ IF Unresolved(log, target) \/ Refused(log, target)
             THEN pc' = "crash" /\ UNCHANGED code
             ELSE pc' = "ready" /\ code' = Relocated(log, target)
  BY <1>1
<1>2. /\ pc = "jit"
      /\ UNCHANGED <<program, globals, globals_bytecount, statics, loop, code_len, starts,
                     symbols, usages, log, session, machine>>
  BY DEF do_jit_lowering
<1> DEFINE target == [name \in NamesIn(globals) |-> Named(globals, name).location - (jit_code - jit_globals)]
<1>3. jit_globals \in Nat /\ jit_code \in Nat /\ jit_code # jit_globals
  BY LayoutAssumption
<1>4. jit' = <<jit_code, jit_globals>> /\ jit'[1] = jit_code /\ jit'[2] = jit_globals
  BY <1>1a
<1>5. Machine'
  BY <1>2, <1>3, <1>4 DEF IInv, Machine, machine
<1>6. CASE pc' = "crash" /\ UNCHANGED code
  BY <1>2, <1>5, <1>6, CrashKeeps
<1>7. CASE pc' = "ready" /\ code' = Relocated(log, target) /\ ~Unresolved(log, target)
  <2> DEFINE X == NamesIn(symbols)
  <2>1. log = Pending("symbol", X)
    BY <1>2 DEF IInv, LogMatch
  <2>2. IsSeq(globals) /\ \A i \in DOMAIN globals : globals[i].location \in Nat
    BY DEF IInv, Data
  <2>3. /\ DOMAIN target = NamesIn(globals)
        /\ \A name \in DOMAIN target : target[name] = Named(globals, name).location - (jit_code - jit_globals)
    OBVIOUS
  <2>4. \A name \in DOMAIN target : target[name] \in Int
    BY <1>3, <2>2, <2>3, NamedIs
  <2> HIDE DEF target, X
  <2>5. /\ Control' /\ StartsTyped' /\ Layout' /\ Labels' /\ UsagesMatch' /\ Data' /\ StaticsKnown'
        /\ Placement' /\ LabelsLinked'
        /\ DOMAIN code = 1..Len(code) /\ DOMAIN code' = 1..Len(code)
        /\ \A k \in 1..Len(code) :
             /\ code'[k].op = code[k].op /\ code'[k].ref = code[k].ref /\ code'[k].want = code[k].want
             /\ IF code[k].ref.kind = "symbol" /\ code[k].ref.name \in (DOMAIN target) \ X
                THEN To(code'[k]) = target[code[k].ref.name]
                ELSE code'[k] = code[k]
        /\ \A other : UsagesOf(other, code)' = UsagesOf(other, code)
    BY <1>2, <1>7, <2>1, <2>4, LateRelocation
  <2>6. StaticsLinked'
    BY <1>2, <1>7, <2>5, LoadsStay
  <2>7. ASSUME NEW k \in 1..Len(code), code'[k].op = "lea"
        PROVE  /\ code[k].op = "lea" /\ code'[k].want = code[k].want
               /\ code[k].ref.kind = "symbol" /\ code[k].ref.name = code[k].want
    <3>1. code[k].op = "lea" /\ code'[k].want = code[k].want
      BY <2>7, <2>5
    <3> QED BY <3>1 DEF IInv, Layout, WellLaid, IsInst, IsBare
  <2>8. SymbolsLinked'
    <3>1. SUFFICES ASSUME NEW k \in 1..Len(code), code'[k].op = "lea", code'[k].want \in X
                   PROVE  \E i \in DOMAIN symbols : symbols[i].name = code'[k].want /\ symbols[i].loc = To(code'[k])
      BY <1>2, <2>5 DEF SymbolsLinked, NamesIn, X
    <3>2. code[k].op = "lea" /\ code[k].want \in X /\ code'[k] = code[k]
      BY <3>1, <2>5, <2>7
    <3> QED BY <3>2, <1>2, <2>5 DEF IInv, SymbolsLinked, X
  <2>9. GlobalsLinked'
    <3>1. SUFFICES ASSUME NEW k \in 1..Len(code), code'[k].op = "lea", code'[k].want \notin X
                   PROVE  \E i \in DOMAIN globals :
                            globals[i].name = code'[k].want /\ jit'[1] + To(code'[k]) = jit'[2] + globals[i].location
      BY <1>2, <2>5 DEF GlobalsLinked, NamesIn, X
    <3>2. /\ code[k].op = "lea" /\ code'[k].want = code[k].want
          /\ code[k].ref.kind = "symbol" /\ code[k].ref.name = code[k].want
      BY <3>1, <2>7
    <3>3. PICK u \in UsagesOf("symbol", code) : u.name = code[k].ref.name
      BY <3>2, <2>5, UsageOf
    <3>4. u \in log
      BY <3>1, <3>2, <3>3, <2>1 DEF Pending
    <3>5. code[k].want \in DOMAIN target
      BY <3>2, <3>3, <3>4, <1>7 DEF Unresolved
    <3>6. To(code'[k]) = Named(globals, code[k].want).location - (jit_code - jit_globals)
      BY <3>1, <3>2, <3>5, <2>3, <2>5
    <3>7. PICK i \in DOMAIN globals : globals[i].name = code[k].want /\ Named(globals, code[k].want) = globals[i]
      BY <3>5, <2>2, <2>3, NamedIs
    <3>8. globals[i].location \in Nat
      BY <2>2
    <3>9. jit'[1] + To(code'[k]) = jit'[2] + globals[i].location
      BY <3>6, <3>7, <3>8, <1>3, <1>4
    <3> QED BY <3>2, <3>7, <3>9
  <2>10. LogMatch'
    BY <1>7 DEF LogMatch
  <2> QED BY <1>5, <2>5, <2>6, <2>8, <2>9, <2>10 DEF IInv
<1> QED BY <1>1a, <1>6, <1>7

\* An empty compiler: before the first program and between two.
Empty ==
  /\ pc = "idle" /\ program = Graph!NoProgram
  /\ globals = <<>> /\ globals_bytecount = 0 /\ statics = <<>>
  /\ loop = [f |-> 1, b |-> 1, s |-> 1]
  /\ code = <<>> /\ code_len = 0 /\ starts = <<>> /\ symbols = <<>>
  /\ usages = NoUsages /\ log = {} /\ jit = <<0, 0>>
  /\ session \in {0, 1}
  /\ ip = 0 /\ flags = FALSE /\ at = Graph!Idle

\* An empty sequence has no elements.
LEMMA NoElements ==
  ASSUME NEW c, c = <<>>
  PROVE  1..0 = {} /\ DOMAIN c = {} /\ ToSet(c) = {} /\ IsSeq(c) /\ Len(c) = 0
<1>1. 1..0 = {} /\ DOMAIN c = {} /\ Len(c) = 0
  OBVIOUS
<1>2. ToSet(c) = {}
  BY <1>1 DEF ToSet
<1>3. c = [i \in 1..0 |-> c[i]]
  BY <1>1
<1>4. IsSeq(c)
  BY <1>3, FunctionSeq
<1> QED BY <1>1, <1>2, <1>4

\* The program before any was compiled.
LEMMA NoProgramIs ==
  LET p == Graph!NoProgram IN IsProgram(p) /\ p.funcs = <<>> /\ p.statics = <<>> /\ p.globals = <<>>
<1> DEFINE p == Graph!NoProgram
<1>1. p.funcs = <<>> /\ p.statics = <<>> /\ p.globals = <<>>
  BY DEF Graph!NoProgram
<1> HIDE DEF p
<1>2. IsProgram(p)
  BY <1>1, NoElements DEF IsProgram, IsSeq
<1> QED BY <1>1, <1>2 DEF p

\* Lists of usages that are empty.
LEMMA NoUsagesIs ==
  DOMAIN NoUsages = {"label", "static", "symbol"} /\ \A kind \in DOMAIN NoUsages : NoUsages[kind] = {}
BY DEF NoUsages

\* No code at all is well laid.
LEMMA EmptyWellLaid == WellLaid(<<>>, 0) /\ EndOf(<<>>) = 0
<1> DEFINE c == <<>>
<1>1. IsSeq(c) /\ Len(c) = 0
  BY NoElements
<1>2. EndOf(c) = 0
  BY DEF EndOf
<1> HIDE DEF c
<1>3. WellLaid(c, 0)
  BY <1>1 DEF WellLaid
<1> QED BY <1>2, <1>3 DEF c

\* An empty compiler is in order...
LEMMA EmptyInv ==
  ASSUME Empty
  PROVE  IInv
<1>1. /\ IsProgram(program) /\ program.funcs = <<>> /\ program.statics = <<>> /\ program.globals = <<>>
      /\ Len(program.funcs) = 0 /\ Len(program.statics) = 0
  BY NoProgramIs, NoElements DEF Empty
<1>2. Control
  <2>1. loop \in [f : Nat, b : Nat, s : Nat] /\ loop.f = 1
    BY DEF Empty
  <2> QED BY <1>1, <2>1 DEF Empty, Control, Phases
<1>3. StartsTyped
  BY <1>1, NoElements DEF StartsTyped, Empty
<1>4. Layout
  BY EmptyWellLaid DEF Layout, Empty
<1>5. DOMAIN code = {} /\ DOMAIN statics = {} /\ DOMAIN symbols = {} /\ DOMAIN globals = {}
      /\ Len(globals) = 0 /\ Len(statics) = 0
  BY NoElements DEF Empty
<1>6. Labels /\ StaticsKnown
  BY <1>5 DEF Labels, StaticsKnown
<1>7. UsagesMatch
  <2>1. \A kind : UsagesOf(kind, code) = {}
    BY <1>5 DEF UsagesOf
  <2>2. usages = NoUsages /\ pc # "freed"
    BY DEF Empty
  <2> QED BY <2>1, <2>2 DEF UsagesMatch, NoUsages
<1>8. LogMatch
  BY DEF Empty, LogMatch
<1>9. Data
  <2>1. IsSeq(globals) /\ IsSeq(statics) /\ IsSeq(symbols)
    BY NoElements DEF Empty
  <2>2. ~(Len(statics) > Len(program.statics))
    BY <1>1, <1>5
  <2> QED BY <2>1, <2>2, <1>1, <1>5 DEF Data, Empty
<1>10. Placement
  BY <1>5 DEF Placement, Apart, Empty
<1>11. LabelsLinked /\ StaticsLinked /\ SymbolsLinked /\ GlobalsLinked
  BY <1>5 DEF LabelsLinked, StaticsLinked, SymbolsLinked, GlobalsLinked, Linked, Empty
<1>12. Machine
  <2>1. Graph!Idle.cond = FALSE
    BY DEF Graph!Idle
  <2> QED BY <2>1 DEF Machine, Empty
<1> QED BY <1>2, <1>3, <1>4, <1>6, <1>7, <1>8, <1>9, <1>10, <1>11, <1>12 DEF IInv

\* ... and that is how it starts.
LEMMA InitInv == Init => IInv
BY EmptyInv DEF Init, Empty

\* Steps that change the machine and not the compiler.
LEMMA QuietKeeps ==
  ASSUME IInv, pc \in {"ready", "running"}, pc' \in {"running", "ran"}, UNCHANGED compiler, Machine'
  PROVE  IInv'
<1> USE DEF compiler
<1>1. Control'
  BY DEF IInv, Control, Phases
<1>2. StartsTyped' /\ Labels' /\ StaticsKnown'
  BY DEF IInv, StartsTyped, Labels, IsLabel, StaticsKnown
<1>3. Layout'
  BY DEF IInv, Layout, Emitting
<1>4. UsagesMatch'
  BY DEF IInv, UsagesMatch, UsagesOf, Usage
<1>5. LogMatch'
  BY DEF LogMatch
<1>6. Data'
  BY DEF IInv, Data, StaticName
<1>7. Placement'
  BY DEF IInv, Placement, Apart
<1>8. LabelsLinked' /\ StaticsLinked'
  BY DEF IInv, LabelsLinked, StaticsLinked, NamesIn
<1>9. SymbolsLinked' /\ GlobalsLinked'
  BY DEF IInv, SymbolsLinked, GlobalsLinked, Linked, NamesIn
<1> QED BY <1>1, <1>2, <1>3, <1>4, <1>5, <1>6, <1>7, <1>8, <1>9 DEF IInv

\* The call of compiled code changes the machine only.
LEMMA CallKeeps ==
  ASSUME IInv, CallFunction
  PROVE  IInv'
<1>1. pc = "ready" /\ pc' = "running" /\ UNCHANGED <<compiler, flags, at>>
  BY DEF CallFunction
<1>2. PICK i \in DOMAIN symbols : ip' = jit[1] + symbols[i].loc
  BY DEF CallFunction
<1>3. symbols[i].loc \in Nat /\ jit[1] \in Nat
  BY DEF IInv, Data, Machine
<1>4. Machine'
  BY <1>1, <1>2, <1>3 DEF IInv, Machine, compiler
<1> QED BY <1>1, <1>4, QuietKeeps

\* So does every instruction it executes.
LEMMA ExecKeeps ==
  ASSUME IInv, NEW k \in DOMAIN code,
         \/ ExecBody(code[k]) \/ ExecShuffle(code[k]) \/ ExecPlain(code[k])
         \/ ExecJump(code[k]) \/ ExecReturn(code[k])
  PROVE  IInv'
<1> DEFINE i == code[k]
<1>1. IsInst(i) /\ DOMAIN code = 1..Len(code)
  BY SeqIs DEF IInv, Layout, WellLaid
<1>2. pc = "running" /\ pc' \in {"running", "ran"} /\ UNCHANGED compiler
  BY DEF ExecBody, ExecShuffle, ExecPlain, ExecJump, ExecReturn, Executing
<1>3. /\ jit \in Nat \X Nat /\ (jit[1] = jit[2] => jit = <<0, 0>>) /\ jit' = jit /\ jit[1] \in Nat
      /\ ip \in Nat /\ flags \in BOOLEAN /\ at.cond \in BOOLEAN
  BY <1>2 DEF IInv, Machine, compiler
<1>4. Following(i) \in Nat /\ End(i) \in Nat
  BY <1>1, <1>3, InstEnds DEF Following
<1>5. CASE ExecBody(i)
  <2> DEFINE t == program.funcs[i.want.f].blocks[i.want.b].term
  <2>1. i.op = "body" /\ ip' = Following(i)
    BY <1>5 DEF ExecBody, Executing
  <2>2. DOMAIN i.want = {"kind", "f", "b", "cond"}
    BY <1>1, <2>1 DEF IsInst, IsBare
  <2>3. PICK c \in Graph!Outcomes(t) :
          /\ at' = [i.want EXCEPT !.cond = c]
          /\ flags' \in IF t.op = "if" /\ t.cond # "compared" THEN BOOLEAN ELSE {c}
    BY <1>5 DEF ExecBody
  <2>4. c \in BOOLEAN
    BY <2>3 DEF Graph!Outcomes
  <2>5. at'.cond = c
    BY <2>2, <2>3
  <2>6. Machine'
    BY <1>3, <1>4, <2>1, <2>3, <2>4, <2>5 DEF Machine
  <2> QED BY <1>2, <2>6, QuietKeeps
<1>6. CASE ExecShuffle(i)
  <2>1. i.op = "shuffle" /\ ip' = Following(i) /\ at' = i.want /\ flags' = flags
    BY <1>6 DEF ExecShuffle, Executing
  <2>2. i.want.cond \in BOOLEAN
    BY <1>1, <2>1 DEF IsInst, IsBare
  <2>3. Machine'
    BY <1>3, <1>4, <2>1, <2>2 DEF Machine
  <2> QED BY <1>2, <2>3, QuietKeeps
<1>7. CASE ExecPlain(i)
  <2>1. ip' = Following(i) /\ at' = at /\ flags' \in {at.cond, flags}
    BY <1>7 DEF ExecPlain
  <2>2. Machine'
    BY <1>3, <1>4, <2>1 DEF Machine
  <2> QED BY <1>2, <2>2, QuietKeeps
<1>8. CASE ExecJump(i)
  <2>1. /\ i.op \in {"jmp", "jz"} /\ flags' = flags /\ at' = at
        /\ ip' = Following(i) + i.disp \/ ip' = Following(i)
    BY <1>8 DEF ExecJump, Executing
  <2>2. Following(i) + i.disp \in Nat
    <3>1. CASE i.op = "jz"
      <4>1. i.disp \in Nat
        BY <3>1, <1>1 DEF IsInst, IsBare
      <4> QED BY <4>1, <1>4
    <3>2. CASE i.op = "jmp"
      <4>1. i.ref.kind = "label"
        BY <3>2, <1>1 DEF IsInst, IsBare
      <4>2. loop.f > Len(program.funcs) /\ Len(program.funcs) \in Nat /\ IsProgram(program)
        BY <1>2, ProgramIs DEF IInv, Control
      <4> DEFINE F == Len(program.funcs)
                 f == program.funcs[F]
      <4>3. i.ref.name \in NamesIn(f.blocks) /\ To(i) = starts[i.want[1]][i.want[2]]
        BY <4>1, <4>2, <1>2 DEF IInv, LabelsLinked
      <4>4. i.want = <<F, Graph!FindBlock(f, i.ref.name)>>
        BY <4>1 DEF IInv, Labels, IsLabel
      <4>5. F \in 1..F
        BY <4>1, <4>2 DEF IInv, Labels, IsLabel
      <4>6. \E b \in 1..Len(f.blocks) : f.blocks[b].name = i.ref.name
        <5>1. IsSeq(f.blocks)
          BY <4>2, <4>5, ProgramIs
        <5> QED BY <4>3, <5>1, SeqIs DEF NamesIn
      <4>7. Graph!FindBlock(f, i.ref.name) \in 1..Len(f.blocks)
        BY <4>6 DEF Graph!FindBlock
      <4>8. starts[F] \in [1..Len(f.blocks) -> Nat]
        BY <4>5 DEF IInv, StartsTyped
      <4>9. To(i) \in Nat
        BY <4>3, <4>4, <4>7, <4>8
      <4>10. Following(i) + i.disp = jit[1] + To(i)
        <5>1. i.disp \in Int
          BY <1>1, InstEnds
        <5> QED BY <5>1, <1>3, <1>4 DEF Following, To
      <4> QED BY <4>9, <4>10, <1>3
    <3> QED BY <2>1, <3>1, <3>2
  <2>3. Machine'
    BY <1>3, <1>4, <2>1, <2>2 DEF Machine
  <2> QED BY <1>2, <2>3, QuietKeeps
<1>9. CASE ExecReturn(i)
  <2>1. ip' = 0 /\ at' = Graph!Returned /\ flags' = flags
    BY <1>9 DEF ExecReturn
  <2>2. Graph!Returned.cond = FALSE
    BY DEF Graph!Returned
  <2>3. Machine'
    BY <1>3, <2>1, <2>2 DEF Machine
  <2> QED BY <1>2, <2>3, QuietKeeps
<1> QED BY <1>5, <1>6, <1>7, <1>8, <1>9

\* The alignments there are.
LEMMA GuessIs ==
  ASSUME NEW s \in Nat
  PROVE  size_guess_align(s) \in {1, 2, 4, 8, 16, 32, 64}
BY DEF size_guess_align

\* Rounding up reaches the next multiple.
LEMMA AlignedIs ==
  ASSUME NEW n \in Nat, NEW s \in Nat
  PROVE  LET a == size_guess_align(s)
         IN Aligned(n, a) \in Nat /\ Aligned(n, a) >= n /\ Aligned(n, a) % a = 0
<1>1. ASSUME NEW a \in {1, 2, 4, 8, 16, 32, 64}
      PROVE  Aligned(n, a) \in Nat /\ Aligned(n, a) >= n /\ Aligned(n, a) % a = 0
  <2> DEFINE q == (n + a - 1) \div a
  <2>1. Aligned(n, a) = q * a
    BY DEF Aligned
  <2>2. CASE a = 1
    <3>1. q = n
      BY <2>2
    <3> QED BY <2>1, <2>2, <3>1
  <2>3. CASE a = 2
    BY <2>1, <2>3
  <2>4. CASE a = 4
    BY <2>1, <2>4
  <2>5. CASE a = 8
    BY <2>1, <2>5
  <2>6. CASE a = 16
    BY <2>1, <2>6
  <2>7. CASE a = 32
    BY <2>1, <2>7
  <2>8. CASE a = 64
    BY <2>1, <2>8
  <2> QED BY <2>2, <2>3, <2>4, <2>5, <2>6, <2>7, <2>8
<1> QED BY <1>1, GuessIs

\* The first n of more are those of data.
Kept(data, more, n) ==
  \A i \in 1..n : /\ data[i].location \in Int /\ data[i].size \in Nat
                  /\ more[i].location = data[i].location /\ more[i].size = data[i].size

AlignedFor(loc, size) == loc % size_guess_align(size) = 0

\* One more datum behind the others.
LEMMA ApartMore ==
  ASSUME NEW data, NEW more, NEW n \in Nat, NEW from \in Nat, NEW to \in Nat, from <= to,
         Apart(data, n, from, to),
         Kept(data, more, n),
         NEW size \in Nat, NEW loc \in Nat, loc >= to, AlignedFor(loc, size),
         more[n + 1].location = loc, more[n + 1].size = size
  PROVE  Apart(more, n + 1, from, loc + size) /\ loc + size \in Nat /\ from <= loc + size
<1>1. ASSUME NEW i \in 1..n
      PROVE  /\ more[i].location % size_guess_align(more[i].size) = 0
             /\ more[i].location >= from /\ more[i].location + more[i].size <= loc
             /\ more[i].location + more[i].size <= loc + size
  <2>1. /\ data[i].location % size_guess_align(data[i].size) = 0
        /\ data[i].location >= from /\ data[i].location + data[i].size <= to
    BY DEF Apart
  <2> QED BY <2>1 DEF Kept
<1>2. \A i, j \in 1..n : i < j => more[i].location + more[i].size <= more[j].location
  BY DEF Apart, Kept
<1>3. ASSUME NEW i \in 1..(n + 1)
      PROVE  /\ more[i].location % size_guess_align(more[i].size) = 0
             /\ more[i].location >= from /\ more[i].location + more[i].size <= loc + size
  <2>1. CASE i \in 1..n
    BY <1>1, <2>1
  <2>2. CASE i = n + 1
    BY <2>2 DEF AlignedFor
  <2> QED BY <2>1, <2>2
<1>4. ASSUME NEW i \in 1..(n + 1), NEW j \in 1..(n + 1), i < j
      PROVE  more[i].location + more[i].size <= more[j].location
  <2>1. i \in 1..n
    BY <1>4
  <2>2. CASE j \in 1..n
    BY <1>2, <1>4, <2>1, <2>2
  <2>3. CASE j = n + 1
    BY <1>1, <2>1, <2>3
  <2> QED BY <2>2, <2>3
<1> QED BY <1>3, <1>4 DEF Apart

\* The next program is built.
LEMMA ParseKeeps ==
  ASSUME IInv, parse
  PROVE  IInv'
<1>1. /\ pc = "idle" /\ pc' = "globals"
      /\ UNCHANGED <<globals, globals_bytecount, loop, code, code_len, symbols, usages, log, jit, session, machine>>
  BY DEF parse
<1>2. PICK p \in Programs :
       /\ program' = p
       /\ statics' = [i \in 1..Len(p.statics) |-> Static(p.statics[i].name, p.statics[i].size, p.statics[i].value)]
       /\ starts' = [i \in 1..Len(p.funcs) |-> [j \in 1..Len(p.funcs[i].blocks) |-> 0]]
  BY DEF parse
<1>3. /\ IsProgram(p) /\ Len(p.funcs) \in Nat /\ Len(p.statics) \in Nat /\ Len(p.globals) \in Nat
      /\ \A i \in 1..Len(p.statics) : p.statics[i].size \in Nat
  BY ProgramsAssumption, ProgramIs
<1>4. Control'
  <2>1. loop.f = 1 /\ loop \in [f : Nat, b : Nat, s : Nat] /\ session \in {0, 1}
    BY <1>1 DEF IInv, Control
  <2> QED BY <1>1, <1>2, <1>3, <2>1 DEF Control, Phases
<1>5. StartsTyped'
  BY <1>2 DEF StartsTyped
<1>6. code = <<>> /\ globals = <<>> /\ globals_bytecount = 0
  BY <1>1 DEF IInv, Data
<1>7. DOMAIN code = {} /\ DOMAIN globals = {} /\ Len(globals) = 0 /\ 1..0 = {}
  BY <1>6, NoElements
<1>8. Labels' /\ StaticsKnown' /\ LabelsLinked'
  BY <1>1, <1>7 DEF Labels, StaticsKnown, LabelsLinked
<1>9. Layout'
  BY <1>1 DEF IInv, Layout, Emitting
<1>10. UsagesMatch'
  BY <1>1 DEF IInv, UsagesMatch, UsagesOf, Usage
<1>11. LogMatch' /\ StaticsLinked' /\ SymbolsLinked' /\ GlobalsLinked'
  BY <1>1 DEF IInv, LogMatch, StaticsLinked, SymbolsLinked, GlobalsLinked, Linked
<1>12. Placement'
  BY <1>1, <1>7 DEF Placement, Apart
<1>13. Machine'
  BY <1>1 DEF IInv, Machine, machine
<1>14. Data'
  <2>1. IsSeq(statics') /\ Len(statics') = Len(p.statics) /\ DOMAIN statics' = 1..Len(p.statics)
    <3>1. statics' = [i \in 1..Len(p.statics) |-> statics'[i]]
      BY <1>2
    <3>2. IsSeq(statics') /\ Len(statics') = Len(p.statics)
      BY <1>3, <3>1, FunctionSeq
    <3> QED BY <3>2, SeqIs
  <2>2. ASSUME NEW i \in 1..Len(p.statics)
        PROVE  /\ DOMAIN statics'[i] = {"name", "size", "value", "location"}
               /\ statics'[i].location \in Int /\ statics'[i].size \in Nat
               /\ statics'[i].name = StaticName(i)'
    <3>1. statics'[i] = Static(p.statics[i].name, p.statics[i].size, p.statics[i].value)
      BY <1>2
    <3>2. StaticName(i)' = p.statics[i].name
      BY <1>2, <1>3 DEF StaticName
    <3>3. p.statics[i].size \in Nat
      BY <1>3
    <3> QED BY <3>1, <3>2, <3>3 DEF Static
  <2>3. IsSeq(globals) /\ IsSeq(symbols) /\ \A i \in DOMAIN symbols : symbols[i].loc \in Nat
    BY DEF IInv, Data
  <2>4. Len(globals) <= Len(p.globals) /\ ~(Len(p.statics) > Len(p.statics)) /\ Len(p.statics) <= Len(p.statics)
    BY <1>3, <1>7
  <2> QED BY <1>1, <1>2, <1>6, <1>7, <2>1, <2>2, <2>3, <2>4 DEF Data
<1> QED BY <1>4, <1>5, <1>8, <1>9, <1>10, <1>11, <1>12, <1>13, <1>14 DEF IInv

\* A global is put behind the others.
LEMMA AddGlobalKeeps ==
  ASSUME IInv, add_global
  PROVE  IInv'
<1> DEFINE g == program.globals[Len(globals) + 1]
           loc == Aligned(globals_bytecount, size_guess_align(g.size))
           e == [name |-> g.name, size |-> g.size, location |-> loc]
<1>1. /\ pc = "globals" /\ Len(globals) < Len(program.globals)
      /\ globals' = Append(globals, e)
      /\ globals_bytecount' = loc + g.size
      /\ UNCHANGED <<pc, program, statics, loop, code, code_len, starts, symbols, usages, log, jit, session, machine>>
  BY DEF add_global
<1>2. /\ IsSeq(globals) /\ Len(globals) \in Nat /\ DOMAIN globals = 1..Len(globals) /\ globals_bytecount \in Nat
      /\ \A i \in 1..Len(globals) : globals[i].location \in Nat /\ globals[i].size \in Nat
  BY SeqIs DEF IInv, Data
<1>3. Len(program.globals) \in Nat /\ g.size \in Nat
  BY <1>1, <1>2, ProgramIs DEF IInv, Control
<1>4. loc \in Nat /\ loc >= globals_bytecount /\ loc % size_guess_align(g.size) = 0
  BY <1>2, <1>3, AlignedIs
<1>5. e.location = loc /\ e.size = g.size
  OBVIOUS
<1> HIDE DEF g, loc, e
<1>6. /\ IsSeq(globals') /\ Len(globals') = Len(globals) + 1
      /\ \A i \in 1..Len(globals) : globals'[i] = globals[i]
      /\ globals'[Len(globals) + 1] = e
  BY <1>1, <1>2, AppendIs
<1>7. DOMAIN globals' = 1..(Len(globals) + 1)
  BY <1>6, SeqIs
<1>8. Apart(globals', Len(globals) + 1, 0, loc + g.size) /\ loc + g.size \in Nat
  <2>1. Apart(globals, Len(globals), 0, globals_bytecount)
    BY DEF IInv, Placement
  <2>2. \A i \in 1..Len(globals) : /\ globals[i].location \in Int /\ globals[i].size \in Nat
                                   /\ globals'[i].location = globals[i].location /\ globals'[i].size = globals[i].size
    BY <1>2, <1>6
  <2>3. globals'[Len(globals) + 1].location = loc /\ globals'[Len(globals) + 1].size = g.size
    BY <1>5, <1>6
  <2>4. 0 <= globals_bytecount
    BY <1>2
  <2> DEFINE n == Len(globals)
             from == 0
             to == globals_bytecount
             size == g.size
             data == globals
             more == globals'
  <2>5. /\ n \in Nat /\ from \in Nat /\ to \in Nat /\ size \in Nat /\ from <= to
        /\ Apart(data, n, from, to)
    BY <1>2, <1>3, <2>1, <2>4
  <2> HIDE DEF n, from, to, size, data, more
  <2>6. Kept(data, more, n)
    BY <2>2 DEF n, data, more, Kept
  <2>7. /\ loc \in Nat /\ loc >= to /\ AlignedFor(loc, size)
        /\ more[n + 1].location = loc /\ more[n + 1].size = size
    BY <1>4, <2>3 DEF n, to, size, more, AlignedFor
  <2>8. Apart(more, n + 1, from, loc + size) /\ loc + size \in Nat
    BY <2>5, <2>6, <2>7, ApartMore
  <2> QED BY <2>8 DEF n, from, size, more
<1>9. Data'
  <2>1. \A i \in DOMAIN globals' : globals'[i].location \in Nat /\ globals'[i].size \in Nat
    BY <1>2, <1>3, <1>4, <1>5, <1>6, <1>7
  <2>2. Len(globals') <= Len(program.globals)
    BY <1>1, <1>2, <1>3, <1>6
  <2> QED BY <1>1, <1>6, <1>8, <2>1, <2>2 DEF IInv, Data, StaticName
<1>10. Placement'
  BY <1>1, <1>6, <1>8 DEF Placement
<1>11. Control'
  BY <1>1 DEF IInv, Control
<1>12. StartsTyped' /\ Labels' /\ StaticsKnown'
  BY <1>1 DEF IInv, StartsTyped, Labels, IsLabel, StaticsKnown
<1>13. Layout'
  BY <1>1 DEF IInv, Layout, Emitting
<1>14. UsagesMatch'
  BY <1>1 DEF IInv, UsagesMatch, UsagesOf, Usage
<1>15. LogMatch' /\ StaticsLinked' /\ SymbolsLinked' /\ GlobalsLinked'
  BY <1>1 DEF IInv, LogMatch, StaticsLinked, SymbolsLinked, GlobalsLinked, Linked
<1>16. LabelsLinked'
  BY <1>1 DEF IInv, LabelsLinked, NamesIn
<1>17. Machine'
  BY <1>1 DEF IInv, Machine, machine
<1> QED BY <1>9, <1>10, <1>11, <1>12, <1>13, <1>14, <1>15, <1>16, <1>17 DEF IInv

\* The steps before and between functions, which leave code and data alone.
LEMMA PhaseKeeps ==
  ASSUME IInv, \/ pc = "globals" /\ pc' = "function"
               \/ pc = "function" /\ pc' = "statics" /\ loop'.s = 1
               \/ pc = "block" /\ pc' = "statement" /\ loop.f <= Len(program.funcs)
               \/ pc' = pc /\ loop' = loop,
         pc \in {"function", "globals"} \/ pc' = pc => starts' = starts,
         Control', StartsTyped', loop'.f = loop.f,
         UNCHANGED <<program, globals, globals_bytecount, statics, code, code_len,
                     symbols, usages, log, jit, session, machine>>
  PROVE  IInv'
<1>1. Labels' /\ StaticsKnown'
  BY DEF IInv, Labels, IsLabel, StaticsKnown
<1>2. Layout'
  BY DEF IInv, Layout, Emitting
<1>3. UsagesMatch'
  BY DEF IInv, UsagesMatch, UsagesOf, Usage
<1>4. LogMatch'
  BY DEF IInv, LogMatch, Pending, UsagesOf, Usage, NamesIn
<1>5. Data'
  BY DEF IInv, Data, StaticName
<1>6. Placement'
  <2>1. Apart(globals, Len(globals), 0, globals_bytecount)'
    BY DEF IInv, Placement, Apart
  <2>2. CASE pc' = "statics" /\ loop'.s = 1
    <3>1. 1..(loop'.s - 1) = {}
      BY <2>2
    <3>2. Apart(statics', loop'.s - 1, EndOf(code'), code_len')
      BY <3>1 DEF Apart
    <3> QED BY <2>1, <3>2 DEF Placement
  <2>3. CASE pc' \in {"function", "statement"}
    BY <2>1, <2>3 DEF Placement
  <2>4. CASE pc' = pc /\ loop' = loop
    BY <2>1, <2>4 DEF IInv, Placement, Apart
  <2> QED BY <2>2, <2>3, <2>4
<1>7. LabelsLinked'
  <2>1. CASE pc = "block" /\ pc' = "statement" /\ loop.f <= Len(program.funcs)
    <3>1. loop.f \in Nat /\ Len(program.funcs) \in Nat
      BY ProgramIs DEF IInv, Control
    <3> QED BY <2>1, <3>1 DEF LabelsLinked
  <2>2. CASE starts' = starts /\ (pc \in {"function", "globals"} \/ pc' = pc)
    BY <2>2 DEF IInv, LabelsLinked, NamesIn
  <2> QED BY <2>1, <2>2
<1>8. StaticsLinked'
  BY DEF IInv, StaticsLinked
<1>9. SymbolsLinked' /\ GlobalsLinked'
  BY DEF IInv, SymbolsLinked, GlobalsLinked, Linked, NamesIn
<1>10. Machine'
  BY DEF IInv, Machine, machine
<1> QED BY <1>1, <1>2, <1>3, <1>4, <1>5, <1>6, <1>7, <1>8, <1>9, <1>10 DEF IInv

\* The steps of this kind.
LEMMA PhasesKeep ==
  ASSUME IInv, do_lowering \/ BeginBlock \/ EndFunctions
  PROVE  IInv'
<1>0. /\ IsProgram(program) /\ Len(program.funcs) \in Nat /\ loop \in [f : Nat, b : Nat, s : Nat]
      /\ loop.f \in 1..(Len(program.funcs) + 1) /\ Len(statics) \in Nat /\ code_len \in Nat
  BY ProgramIs, SeqIs DEF IInv, Control, Data, Layout, WellLaid
<1>1. CASE do_lowering
  <2>1. pc = "globals" /\ pc' = "function" /\ UNCHANGED <<compiler, machine>>
    BY <1>1 DEF do_lowering
  <2>2. Control' /\ StartsTyped'
    BY <2>1 DEF IInv, Control, StartsTyped, compiler, Phases
  <2> QED BY <2>1, <2>2, PhaseKeeps DEF compiler
<1>2. CASE EndFunctions
  <2>1. /\ pc = "function" /\ pc' = "statics" /\ loop.f > Len(program.funcs)
        /\ loop' = [loop EXCEPT !.s = 1]
        /\ UNCHANGED <<program, globals, globals_bytecount, statics, code, code_len, starts,
                       symbols, usages, log, jit, session, machine>>
    BY <1>2 DEF EndFunctions
  <2>2. loop'.f = loop.f /\ loop'.s = 1 /\ loop' \in [f : Nat, b : Nat, s : Nat] /\ loop.f = Len(program.funcs) + 1
    BY <1>0, <2>1
  <2>3. Control' /\ StartsTyped'
    BY <1>0, <2>1, <2>2 DEF IInv, Control, StartsTyped, Phases
  <2> QED BY <2>1, <2>2, <2>3, PhaseKeeps
<1>3. CASE BeginBlock
  <2>1. /\ pc = "block" /\ pc' = "statement" /\ loop.b <= Len(func.blocks)
        /\ starts' = [starts EXCEPT ![loop.f][loop.b] = code_len]
        /\ loop' = [loop EXCEPT !.s = 1]
        /\ UNCHANGED <<program, globals, globals_bytecount, statics, code, code_len,
                       symbols, usages, log, jit, session, machine>>
    BY <1>3 DEF BeginBlock
  <2>2. loop.f <= Len(program.funcs) /\ loop.b \in 1..(Len(func.blocks) + 1) /\ loop.f \in 1..Len(program.funcs)
    BY <1>0, <2>1 DEF IInv, Control
  <2>3. Len(func.blocks) \in Nat /\ loop.b \in 1..Len(func.blocks)
    BY <1>0, <2>1, <2>2, ProgramIs DEF func
  <2>4. Len(block.refs) \in Nat
    <3>1. \A b \in 1..Len(func.blocks) : Len(func.blocks[b].refs) \in Nat
      BY <1>0, <2>2, ProgramIs DEF func
    <3> QED BY <3>1, <2>3 DEF block
  <2>5. loop'.f = loop.f /\ loop'.b = loop.b /\ loop'.s = 1 /\ loop' \in [f : Nat, b : Nat, s : Nat]
    BY <1>0, <2>1
  <2>6. func' = func /\ block' = block
    BY <2>1, <2>5 DEF func, block
  <2>7. Control'
    <3>1. session' \in {0, 1}
      BY <2>1 DEF IInv, Control
    <3> QED BY <1>0, <2>1, <2>2, <2>3, <2>4, <2>5, <2>6, <3>1 DEF Control, Phases
  <2>8. StartsTyped'
    <3>1. DOMAIN starts = 1..Len(program.funcs)
          /\ \A f \in 1..Len(program.funcs) : starts[f] \in [1..Len(program.funcs[f].blocks) -> Nat]
      BY DEF IInv, StartsTyped
    <3>2. DOMAIN starts' = 1..Len(program.funcs)
      BY <2>1, <3>1
    <3>3. ASSUME NEW f \in 1..Len(program.funcs)
          PROVE  starts'[f] \in [1..Len(program.funcs[f].blocks) -> Nat]
      <4>1. CASE f = loop.f
        <5>1. starts'[f] = [starts[f] EXCEPT ![loop.b] = code_len]
          BY <4>1, <2>1, <2>2, <3>1
        <5> QED BY <5>1, <3>1, <1>0
      <4>2. CASE f # loop.f
        <5>1. starts'[f] = starts[f]
          BY <4>2, <2>1, <3>1
        <5> QED BY <5>1, <3>1
      <4> QED BY <4>1, <4>2
    <3> QED BY <3>2, <3>3, <2>1 DEF StartsTyped
  <2> QED BY <2>1, <2>2, <2>5, <2>7, <2>8, PhaseKeeps
<1> QED BY <1>1, <1>2, <1>3

\* A static is put behind the code and the statics before it.
LEMMA PlaceStaticKeeps ==
  ASSUME IInv, PlaceStatic
  PROVE  IInv'
<1> DEFINE i == loop.s
           size == statics[i].size
           loc == Aligned(code_len, size_guess_align(size))
           from == EndOf(code)
<1>1. /\ pc = "statics" /\ i <= Len(statics)
      /\ statics' = [statics EXCEPT ![i].location = loc]
      /\ code_len' = loc + size
      /\ loop' = [loop EXCEPT !.s = @ + 1]
      /\ UNCHANGED <<pc, program, globals, globals_bytecount, code, starts, symbols, usages, log, jit, session, machine>>
  BY DEF PlaceStatic
<1>2. /\ IsSeq(statics) /\ Len(statics) \in Nat /\ DOMAIN statics = 1..Len(statics)
      /\ \A j \in 1..Len(statics) : /\ DOMAIN statics[j] = {"name", "size", "value", "location"}
                                    /\ statics[j].location \in Int /\ statics[j].size \in Nat
                                    /\ statics[j].name = StaticName(j)
  BY SeqIs DEF IInv, Data
<1>3. loop \in [f : Nat, b : Nat, s : Nat] /\ i \in 1..(Len(statics) + 1) /\ loop.f = Len(program.funcs) + 1
  BY <1>1 DEF IInv, Control
<1>4. i \in 1..Len(statics) /\ size \in Nat /\ code_len \in Nat
  BY <1>1, <1>2, <1>3 DEF IInv, Layout, WellLaid
<1>5. loc \in Nat /\ loc >= code_len /\ AlignedFor(loc, size)
  BY <1>4, AlignedIs DEF AlignedFor
<1>6. from \in Nat /\ from <= code_len
  <2>1. WellLaid(code, code_len)
    BY DEF IInv, Layout
  <2>2. CASE code = <<>>
    BY <2>2, <1>4 DEF EndOf
  <2>3. CASE code # <<>>
    <3>1. IsSeq(code) /\ Len(code) \in Nat /\ Len(code) # 0
      BY <2>1, <2>3, SeqIs DEF WellLaid, IsSeq
    <3>2. Len(code) \in 1..Len(code)
      BY <3>1
    <3>3. End(code[Len(code)]) <= code_len /\ IsInst(code[Len(code)])
      BY <2>1, <3>2 DEF WellLaid
    <3>4. End(code[Len(code)]) \in Nat
      BY <3>3, InstEnds
    <3> QED BY <2>3, <3>3, <3>4 DEF EndOf
  <2> QED BY <2>2, <2>3
<1>7. loop'.f = loop.f /\ loop'.b = loop.b /\ loop'.s = i + 1 /\ loop' \in [f : Nat, b : Nat, s : Nat]
  BY <1>1, <1>3
<1> HIDE DEF i, size, loc, from
<1>8. DOMAIN statics' = 1..Len(statics) /\ \A j \in 1..Len(statics) : j # i => statics'[j] = statics[j]
  BY <1>1, <1>2
<1>9. /\ statics'[i].location = loc /\ statics'[i].size = size /\ statics'[i].size = statics[i].size
      /\ statics'[i].name = statics[i].name
      /\ statics'[i].value = statics[i].value /\ DOMAIN statics'[i] = {"name", "size", "value", "location"}
  <2>1. statics'[i] = [statics[i] EXCEPT !.location = loc]
    BY <1>1, <1>2, <1>4
  <2>2. DOMAIN statics[i] = {"name", "size", "value", "location"}
    BY <1>2, <1>4
  <2> QED BY <2>1, <2>2 DEF size
<1>10. IsSeq(statics') /\ Len(statics') = Len(statics)
  <2>1. statics' = [j \in 1..Len(statics) |-> statics'[j]]
    BY <1>1, <1>2
  <2> QED BY <2>1, <1>2, FunctionSeq
<1>11. \A j \in 1..Len(statics) :
         /\ DOMAIN statics'[j] = {"name", "size", "value", "location"}
         /\ statics'[j].location \in Int /\ statics'[j].size = statics[j].size
         /\ statics'[j].name = statics[j].name /\ statics'[j].value = statics[j].value
  BY <1>2, <1>5, <1>8, <1>9
<1>12. Data'
  <2>1. \A j \in 1..Len(statics) : statics'[j].size \in Nat /\ statics'[j].name = StaticName(j)
    BY <1>2, <1>11
  <2> QED BY <1>1, <1>8, <1>10, <1>11, <2>1 DEF IInv, Data, StaticName
<1>13. StaticsKnown'
  BY <1>1, <1>2, <1>8, <1>11 DEF IInv, StaticsKnown
<1>14. Control'
  <2>1. loop'.s \in 1..(Len(statics) + 1)
    BY <1>2, <1>4, <1>7
  <2> QED BY <1>1, <1>3, <1>7, <1>10, <2>1 DEF IInv, Control
<1>15. Layout'
  <2>1. code_len' \in Nat /\ code_len <= code_len'
    BY <1>1, <1>4, <1>5 DEF i, size, loc
  <2>2. WellLaid(code, code_len')
    <3>1. WellLaid(code, code_len)
      BY DEF IInv, Layout
    <3>2. \A k \in 1..Len(code) : End(code[k]) <= code_len'
      <4>1. SUFFICES ASSUME NEW k \in 1..Len(code) PROVE End(code[k]) <= code_len'
        OBVIOUS
      <4>2. End(code[k]) <= code_len /\ End(code[k]) \in Nat
        BY <3>1, InstEnds DEF WellLaid
      <4> QED BY <4>2, <2>1, <1>4
    <3> QED BY <3>1, <3>2, <2>1 DEF WellLaid
  <2> QED BY <1>1, <2>2 DEF Layout, Emitting
<1>16. Placement'
  <2> DEFINE n == i - 1
             data == statics
             more == statics'
             to == code_len
  <2>1. n \in Nat /\ n + 1 = i /\ to \in Nat /\ from <= to /\ loc >= to
    BY <1>4, <1>5, <1>6
  <2>2. Apart(data, n, from, to)
    BY <1>1 DEF IInv, Placement, from, i
  <2>3. Kept(data, more, n)
    <3>1. \A j \in 1..n : j \in 1..Len(statics) /\ j # i
      BY <2>1, <1>4
    <3> QED BY <3>1, <1>2, <1>8 DEF Kept
  <2>4. more[n + 1].location = loc /\ more[n + 1].size = size
    BY <2>1, <1>9
  <2> HIDE DEF n, data, more, to
  <2>5. Apart(more, n + 1, from, loc + size)
    BY <2>1, <2>2, <2>3, <2>4, <1>4, <1>5, <1>6, ApartMore
  <2>6. more = statics' /\ n + 1 = loop'.s - 1 /\ from = EndOf(code') /\ loc + size = code_len'
    BY <2>1, <1>1, <1>4, <1>7 DEF more, from, loc, size
  <2>7. Apart(statics', loop'.s - 1, EndOf(code'), code_len')
    BY <2>5, <2>6
  <2> QED BY <2>7, <1>1 DEF IInv, Placement, Apart
<1>17. StartsTyped' /\ Labels'
  BY <1>1, <1>7 DEF IInv, StartsTyped, Labels, IsLabel
<1>18. UsagesMatch'
  BY <1>1 DEF IInv, UsagesMatch, UsagesOf, Usage
<1>19. LogMatch' /\ StaticsLinked' /\ SymbolsLinked' /\ GlobalsLinked'
  BY <1>1 DEF IInv, LogMatch, StaticsLinked, SymbolsLinked, GlobalsLinked, Linked
<1>20. LabelsLinked'
  BY <1>1, <1>7 DEF IInv, LabelsLinked, NamesIn
<1>21. Machine'
  BY <1>1 DEF IInv, Machine, machine
<1> QED BY <1>12, <1>13, <1>14, <1>15, <1>16, <1>17, <1>18, <1>19, <1>20, <1>21 DEF IInv

\* Nothing was emitted, or the lists are forgotten: either way none is left.
LEMMA FreedKeeps ==
  ASSUME IInv, NoOutput \/ jit_free
  PROVE  IInv'
<1>1. /\ pc \in {"jit", "ran"} /\ pc' = "freed"
      /\ UNCHANGED <<program, globals, globals_bytecount, statics, loop, code, code_len,
                     starts, symbols, log, jit, session, machine>>
  BY DEF NoOutput, jit_free, compiler
<1>2. usages' = NoUsages
  <2>1. CASE jit_free
    BY <2>1 DEF jit_free
  <2>2. CASE NoOutput
    <3>1. pc = "jit" /\ code_len = 0 /\ usages' = usages
      BY <2>2 DEF NoOutput, compiler
    <3>2. WellLaid(code, 0)
      BY <3>1 DEF IInv, Layout
    <3>3. DOMAIN code = 1..Len(code) /\ Len(code) \in Nat
      BY <3>2, SeqIs DEF WellLaid
    <3>4. ASSUME NEW k \in 1..Len(code) PROVE FALSE
      <4>1. IsInst(code[k]) /\ End(code[k]) <= 0
        BY <3>2 DEF WellLaid
      <4>2. code[k].at \in Nat /\ End(code[k]) \in Nat /\ End(code[k]) > code[k].at
        BY <4>1, InstEnds
      <4> QED BY <4>1, <4>2
    <3>5. \A kind : UsagesOf(kind, code) = {}
      BY <3>3, <3>4 DEF UsagesOf
    <3>6. usages = [kind \in {"label", "static", "symbol"} |-> UsagesOf(kind, code)]
      BY <3>1 DEF IInv, UsagesMatch
    <3> QED BY <3>1, <3>5, <3>6 DEF NoUsages
  <2> QED BY <2>1, <2>2
<1>3. Control'
  BY <1>1 DEF IInv, Control, Phases
<1>4. StartsTyped' /\ Labels' /\ StaticsKnown'
  BY <1>1 DEF IInv, StartsTyped, Labels, IsLabel, StaticsKnown
<1>5. Layout'
  BY <1>1 DEF IInv, Layout, Emitting
<1>6. UsagesMatch'
  BY <1>1, <1>2 DEF UsagesMatch
<1>7. LogMatch'
  BY <1>1 DEF LogMatch
<1>8. Data'
  BY <1>1 DEF IInv, Data, StaticName
<1>9. Placement'
  BY <1>1 DEF IInv, Placement, Apart
<1>10. LabelsLinked' /\ StaticsLinked' /\ SymbolsLinked' /\ GlobalsLinked'
  BY <1>1 DEF LabelsLinked, StaticsLinked, SymbolsLinked, GlobalsLinked, Linked
<1>11. Machine'
  BY <1>1 DEF IInv, Machine, machine
<1> QED BY <1>3, <1>4, <1>5, <1>6, <1>7, <1>8, <1>9, <1>10, <1>11 DEF IInv

\* The same of the next state.
LEMMA EmptyNextInv == Empty' => IInv'
<1>1. Empty => IInv
  BY EmptyInv
<1> QED BY <1>1, PTL

\* The next session starts from an empty compiler, whose lists are empty too.
LEMMA FreeAllKeeps ==
  ASSUME IInv, free_all_compiler_allocs
  PROVE  IInv'
<1>1. usages' = NoUsages
  BY DEF free_all_compiler_allocs, IInv, UsagesMatch
<1>2. session' \in {0, 1}
  BY DEF free_all_compiler_allocs, IInv, Control
<1>3. Empty'
  BY <1>1, <1>2 DEF free_all_compiler_allocs, Empty
<1> QED BY <1>3, EmptyNextInv

\* Steps that change nothing.
LEMMA StutterKeeps ==
  ASSUME IInv, UNCHANGED vars
  PROVE  IInv'
<1>1. Control' /\ StartsTyped'
  BY DEF vars, IInv, Control, StartsTyped, func, block
<1>2. pc' = pc /\ loop' = loop /\ starts' = starts
      /\ UNCHANGED <<program, globals, globals_bytecount, statics, code, code_len,
                     symbols, usages, log, jit, session, machine>>
  BY DEF vars, machine
<1> QED BY <1>1, <1>2, PhaseKeeps

\* Every step keeps the invariant.
LEMMA NextInv ==
  ASSUME IInv, [Next]_vars
  PROVE  IInv'
<1>1. CASE parse
  BY <1>1, ParseKeeps
<1>2. CASE add_global
  BY <1>2, AddGlobalKeeps
<1>3. CASE do_lowering \/ BeginBlock \/ EndFunctions
  BY <1>3, PhasesKeep
<1>4. CASE BeginFunction
  BY <1>4, BeginFunctionKeeps
<1>5. CASE SymbolLookup
  BY <1>5, SymbolLookupKeeps
<1>6. CASE MovFloatConstant
  BY <1>6, MovFloatConstantKeeps
<1>7. CASE EmitReturn \/ EmitGoto \/ EmitIf
  BY <1>7, TerminatorsKeep
<1>8. CASE EndFunction
  BY <1>8, EndFunctionKeeps
<1>9. CASE PlaceStatic
  BY <1>9, PlaceStaticKeeps
<1>10. CASE ApplyStatics
  BY <1>10, ApplyStaticsKeeps
<1>11. CASE ApplySymbols
  BY <1>11, ApplySymbolsKeeps
<1>12. CASE NoOutput \/ jit_free
  BY <1>12, FreedKeeps
<1>13. CASE do_jit_lowering
  BY <1>13, JitKeeps
<1>14. CASE CallFunction
  BY <1>14, CallKeeps
<1>15. CASE \E k \in DOMAIN code :
              \/ ExecBody(code[k]) \/ ExecShuffle(code[k]) \/ ExecPlain(code[k])
              \/ ExecJump(code[k]) \/ ExecReturn(code[k])
  BY <1>15, ExecKeeps
<1>16. CASE free_all_compiler_allocs
  BY <1>16, FreeAllKeeps
<1>17. CASE UNCHANGED vars
  BY <1>17, StutterKeeps
<1> QED BY <1>1, <1>2, <1>3, <1>4, <1>5, <1>6, <1>7, <1>8, <1>9, <1>10, <1>11, <1>12, <1>13,
           <1>14, <1>15, <1>16, <1>17 DEF Next

\* The invariant says all that CodeSound does.
LEMMA InvImplies == IInv => CodeSound
<1> SUFFICES ASSUME IInv PROVE CodeSound
  OBVIOUS
<1>1. /\ WellLaid(code, code_len) /\ IsSeq(code) /\ DOMAIN code = 1..Len(code)
      /\ \A k \in 1..Len(code) : IsInst(code[k])
  BY SeqIs DEF IInv, Layout, WellLaid
<1>2. TypeOK
  <2>1. pc \in Phases /\ session \in {0, 1} /\ loop.f \in 1..(Len(program.funcs) + 1)
    BY DEF IInv, Control
  <2>2. pc = "statement" => loop.b \in 1..Len(func.blocks) /\ loop.s \in 1..(Len(block.refs) + 1)
    BY StatementIs DEF IInv
  <2>3. code_len \in Nat /\ (\A k \in DOMAIN code : End(code[k]) <= code_len)
        /\ (\A k \in 1..(Len(code) - 1) : End(code[k]) = code[k + 1].at)
    BY <1>1 DEF WellLaid
  <2>4. globals_bytecount \in Nat
    BY DEF IInv, Data
  <2>5. (jit[1] = jit[2] => jit = <<0, 0>>) /\ flags \in BOOLEAN /\ ip \in Nat
    BY DEF IInv, Machine
  <2> QED BY <2>1, <2>2, <2>3, <2>4, <2>5 DEF TypeOK, Phases
<1>3. LinksCorrect
  <2>1. SUFFICES ASSUME Linked, NEW k \in 1..Len(code)
                 PROVE  LET i == code[k]
                            to == End(i) + i.disp
                        IN
                        /\ i.ref.kind = "label" => to = starts[i.want[1]][i.want[2]]
                        /\ i.op = "load" =>
                             \E s \in ToSet(statics) : s.size = 8 /\ s.value = i.want /\ s.location = to
                        /\ i.op = "lea" =>
                             \/ \E s \in ToSet(symbols) : s.name = i.want /\ s.loc = to
                             \/ /\ \A s \in ToSet(symbols) : s.name # i.want
                                /\ \E g \in ToSet(globals) :
                                     g.name = i.want /\ jit[1] + to = jit[2] + g.location
    BY <1>1 DEF LinksCorrect
  <2> DEFINE i == code[k]
  <2>2. To(i) = End(i) + i.disp /\ k \in DOMAIN code
    BY <1>1 DEF To
  <2>3. pc \in {"ready", "running", "ran"}
    BY <2>1 DEF Linked
  <2>4. i.ref.kind = "label" => To(i) = starts[i.want[1]][i.want[2]]
    <3>1. loop.f > Len(program.funcs)
      BY <2>3, ProgramIs DEF IInv, Control
    <3> QED BY <2>2, <2>3, <3>1 DEF IInv, LabelsLinked
  <2>5. i.op = "load" => \E s \in ToSet(statics) : s.size = 8 /\ s.value = i.want /\ s.location = To(i)
    <3>1. SUFFICES ASSUME i.op = "load"
                   PROVE  \E s \in ToSet(statics) : s.size = 8 /\ s.value = i.want /\ s.location = To(i)
      OBVIOUS
    <3>2. PICK j \in DOMAIN statics : statics[j].size = 8 /\ statics[j].value = i.want /\ statics[j].location = To(i)
      BY <3>1, <2>2, <2>3 DEF IInv, StaticsLinked
    <3>3. statics[j] \in ToSet(statics)
      BY DEF ToSet
    <3> QED BY <3>2, <3>3
  <2>6. ASSUME i.op = "lea", i.want \in NamesIn(symbols)
        PROVE  \E s \in ToSet(symbols) : s.name = i.want /\ s.loc = To(i)
    <3>1. PICK j \in DOMAIN symbols : symbols[j].name = i.want /\ symbols[j].loc = To(i)
      BY <2>6, <2>2, <2>3 DEF IInv, SymbolsLinked
    <3>2. symbols[j] \in ToSet(symbols)
      BY DEF ToSet
    <3> QED BY <3>1, <3>2
  <2>7. ASSUME i.op = "lea", i.want \notin NamesIn(symbols)
        PROVE  /\ \A s \in ToSet(symbols) : s.name # i.want
               /\ \E g \in ToSet(globals) : g.name = i.want /\ jit[1] + To(i) = jit[2] + g.location
    <3>1. \A s \in ToSet(symbols) : s.name # i.want
      BY <2>7 DEF NamesIn, ToSet
    <3>2. PICK j \in DOMAIN globals : globals[j].name = i.want /\ jit[1] + To(i) = jit[2] + globals[j].location
      BY <2>7, <2>1, <2>2 DEF IInv, GlobalsLinked
    <3>3. globals[j] \in ToSet(globals)
      BY DEF ToSet
    <3> QED BY <3>1, <3>2, <3>3
  <2> HIDE DEF i
  <2>8. /\ i.ref.kind = "label" => To(i) = starts[i.want[1]][i.want[2]]
        /\ i.op = "load" =>
             \E s \in ToSet(statics) : s.size = 8 /\ s.value = i.want /\ s.location = To(i)
        /\ i.op = "lea" =>
             \/ \E s \in ToSet(symbols) : s.name = i.want /\ s.loc = To(i)
             \/ /\ \A s \in ToSet(symbols) : s.name # i.want
                /\ \E g \in ToSet(globals) :
                     g.name = i.want /\ jit[1] + To(i) = jit[2] + g.location
    BY <2>4, <2>5, <2>6, <2>7
  <2> QED BY <2>8 DEF To, i
<1>4. DataPlaced
  <2>1. SUFFICES ASSUME Linked PROVE /\ Apart(globals, Len(globals), 0, globals_bytecount)
                                     /\ Apart(statics, Len(statics), CodeEnd, code_len)
    BY DEF DataPlaced
  <2>2. pc \in {"ready", "running", "ran"}
    BY <2>1 DEF Linked
  <2>3. loop.s - 1 = Len(statics)
    BY <2>2, SeqIs DEF IInv, Control, Data
  <2>4. CodeEnd = EndOf(code)
    BY DEF CodeEnd, EndOf
  <2>5. Apart(globals, Len(globals), 0, globals_bytecount) /\ Apart(statics, loop.s - 1, EndOf(code), code_len)
    BY <2>2 DEF IInv, Placement
  <2> QED BY <2>3, <2>4, <2>5
<1>5. NoStaleUsages
  <2>1. CASE pc = "freed"
    BY <2>1, NoUsagesIs DEF IInv, UsagesMatch, NoStaleUsages
  <2>2. CASE pc # "freed"
    <3>1. \A kind \in DOMAIN usages : usages[kind] = UsagesOf(kind, code)
      BY <2>2 DEF IInv, UsagesMatch
    <3>2. \A loc, name : Usage(loc, name).session = session
      BY DEF Usage
    <3>3. \A kind : \A u \in UsagesOf(kind, code) : u.session = session
      BY <3>2 DEF UsagesOf
    <3> QED BY <3>1, <3>3 DEF NoStaleUsages
  <2> QED BY <2>1, <2>2
<1> QED BY <1>2, <1>3, <1>4, <1>5 DEF CodeSound

\* Whatever program is compiled and however often, the code is laid out without gaps,
\* every field of linked code leads to what its statement names, data lies apart, and no
\* usage of an earlier session is left.
THEOREM CodeCorrect == Spec => []CodeSound
<1>1. Init => IInv
  BY InitInv
<1>2. IInv /\ [Next]_vars => IInv'
  BY NextInv
<1>3. IInv => CodeSound
  BY InvImplies
<1> QED BY <1>1, <1>2, <1>3, PTL DEF Spec

=============================================================================
