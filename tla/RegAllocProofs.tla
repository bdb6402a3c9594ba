--------------------------- MODULE RegAllocProofs ---------------------------
(***************************************************************************)
(* The books of the register allocator are right for any block, any number *)
(* of registers and either way of spilling: no register has two values, no *)
(* value has two registers, and a register is given back when its value    *)
(* is used up.                                                             *)
(***************************************************************************)
EXTENDS RegAlloc, FiniteSetTheorems, WellFoundedInduction, TLAPS

-----------------------------------------------------------------------------
(* The inductive invariant *)

Elements(s) == {s[x] : x \in DOMAIN s}
IsSeq(s) == s \in Seq(Elements(s))

Fields == {"block", "stmts", "vals", "alloced", "i", "slots"}
StatementFields == {"op", "args", "out", "num", "slot"}
ValueFields == {"float", "edges", "used", "reg", "spilled"}
ReservedRegs == {RSP, RBP, R11, XMM5}

\* The source block is a parameter in what follows: its numbers of statements and parameters.
NB(blk) == Len(blk.body)
NP(blk) == Len(blk.params)

\* The operands of statement k of the source block are defined above it.
SourceStatement(blk, k) ==
  LET st == blk.body[k] IN
  /\ DOMAIN st = {"op", "args"}
  /\ st.args \in Seq(Nat) /\ Len(st.args) \in 1..3
  /\ \A j \in 1..Len(st.args) : st.args[j] > NP(blk) =>
       (st.args[j] - NP(blk)) \in 1..(k - 1) /\ HasOutput(blk.body[st.args[j] - NP(blk)].op)

SourceOK(blk) ==
  /\ DOMAIN blk = {"entry", "params", "ops", "max", "body"}
  /\ IsShape(blk)
  /\ IsSeq(blk.body)
  /\ \A k \in 1..NB(blk) : SourceStatement(blk, k)

StatementOK(blk, st, k, nvals) ==
  /\ DOMAIN st = StatementFields
  /\ st.args \in Seq(0..nvals) /\ Len(st.args) \in 1..3
  /\ st.out \in 0..nvals
  /\ st.num \in Int
  /\ k <= NB(blk) =>
       /\ st.op = blk.body[k].op /\ st.num = 2 * (k - 1)
       /\ st.out = IF HasOutput(blk.body[k].op) THEN NP(blk) + k ELSE NoValue
  /\ k > NB(blk) =>
       /\ st.op \in {"mov", "spill", "unspill"}
       /\ st.op = "unspill" => st.out # NoValue /\ \A j \in 1..Len(st.args) : st.args[j] = NoValue

ValueOK(blk, v) ==
  /\ DOMAIN v = ValueFields
  /\ v.float \in BOOLEAN
  /\ v.edges \in Seq(1..NB(blk))
  /\ v.used \in Nat
  /\ v.reg \in {None} \cup Usable(v.float)

\* What holds whatever happens, failed assertions included.
StatementsOK(blk, s) ==
  IsSeq(s.stmts) /\ Len(s.stmts) >= NB(blk) /\ \A k \in 1..Len(s.stmts) : StatementOK(blk, s.stmts[k], k, Len(s.vals))
ValuesOK(blk, s) ==
  IsSeq(s.vals) /\ Len(s.vals) >= NP(blk) + NB(blk) /\ \A v \in 1..Len(s.vals) : ValueOK(blk, s.vals[v])
RegistersOK(s) ==
  /\ s.alloced \in [Reg -> {None, Reserved} \cup 1..Len(s.vals)]
  /\ \A r \in ReservedRegs : s.alloced[r] = Reserved
Agree(s) == \A r \in Reg : s.alloced[r] > 0 => s.vals[s.alloced[r]].reg = r /\ s.vals[s.alloced[r]].spilled = None
Shaped(blk, s) ==
  /\ NB(blk) \in Nat /\ NP(blk) \in Nat
  /\ DOMAIN s = Fields
  /\ StatementsOK(blk, s) /\ ValuesOK(blk, s) /\ RegistersOK(s) /\ Agree(s)
  /\ s.block \in Seq(1..Len(s.stmts))
  /\ s.i \in Nat \ {0} /\ s.slots \in Nat

\* The statements whose numbers are compared: those of the source block and the loads.
Numbered(blk, s, k) == k <= NB(blk) \/ s.stmts[k].op = "unspill"

\* Statement k may stand above statement l.
Above(blk, s, k, l) ==
  /\ k # l
  /\ Numbered(blk, s, k) /\ Numbered(blk, s, l) =>
       /\ s.stmts[k].num <= s.stmts[l].num
       /\ (k <= NB(blk) \/ l <= NB(blk)) => s.stmts[k].num < s.stmts[l].num
InOrder(blk, s) == \A x, y \in 1..Len(s.block) : x < y => Above(blk, s, s.block[x], s.block[y])

AllThere(blk, s) == \A k \in 1..NB(blk) : \E x \in 1..Len(s.block) : s.block[x] = k
Ahead(blk, s) == \A x \in 1..Len(s.block) : x >= s.i => Numbered(blk, s, s.block[x])
OutsDistinct(blk, s) ==
  \A k \in 1..Len(s.stmts) :
    s.stmts[k].out # NoValue =>
      s.stmts[k].out > NP(blk) /\ \A l \in 1..Len(s.stmts) : s.stmts[l].out = s.stmts[k].out => l = k

\* The statements from position n of the list on, and the parameters from par on, have no
\* register yet.
PendingOut(s, n, v) == \E x \in 1..Len(s.block) : x >= n /\ s.stmts[s.block[x]].out = v
Pending(blk, s, n, par, v) == (v >= par /\ v <= NP(blk)) \/ PendingOut(s, n, v)

Fresh(s, v) ==
  /\ s.vals[v].reg = None /\ s.vals[v].spilled = None /\ s.vals[v].used = 0
  /\ \A r \in Reg : s.alloced[r] # v

UsedAfter(s, v, num) == \A e \in 1..Len(s.vals[v].edges) : s.stmts[s.vals[v].edges[e]].num > num
UsedLater(s, n) ==
  \A x \in 1..Len(s.block) : x >= n /\ s.stmts[s.block[x]].out # NoValue =>
    UsedAfter(s, s.stmts[s.block[x]].out, s.stmts[s.block[x]].num)

Allocated(s, v) == \E r \in Reg : s.alloced[r] = v
Live(blk, s, n, par, v) == Allocated(s, v) \/ Pending(blk, s, n, par, v)

\* edges has the uses of the value in the order of the statements, as often as each has it.
Sorted(e) == \A x, y \in 1..Len(e) : x < y => e[x] <= e[y]
UsesAt(e, k, n, p) == p + n <= Len(e) /\ \A x \in 1..Len(e) : e[x] = k <=> (p < x /\ x <= p + n)
HasUses(e, k, n) == \E p \in 0..Len(e) : UsesAt(e, k, n, p)
EdgesOK(blk, s, v) ==
  Sorted(s.vals[v].edges) /\ \A k \in 1..NB(blk) : HasUses(s.vals[v].edges, k, Uses(v, s.stmts[k]))

\* Some use is one of a statement without an output.
Exempt(blk, e) == \E x \in 1..Len(e) : ~HasOutput(blk.body[e[x]].op)

\* The uses above the current statement, and those of its first hi operands.
Operand(st, v, lo, hi) == Cardinality({j \in lo..hi : st.args[j] = v})
Prefix(s, e, num, p) == \A x \in 1..Len(e) : s.stmts[e[x]].num < num <=> x <= p
CountedTo(s, v, st, hi, p) ==
  Prefix(s, s.vals[v].edges, st.num, p) /\ s.vals[v].used = p + Operand(st, v, 1, hi)
Counted(blk, s, v, st, hi) ==
  Exempt(blk, s.vals[v].edges) \/ \E p \in 0..Len(s.vals[v].edges) : CountedTo(s, v, st, hi, p)

Listed(blk, s) == InOrder(blk, s) /\ AllThere(blk, s) /\ Ahead(blk, s) /\ OutsDistinct(blk, s)
Tracked(blk, s, n, par, hi, v) ==
  /\ Pending(blk, s, n, par, v) => Fresh(s, v)
  /\ Live(blk, s, n, par, v) =>
       EdgesOK(blk, s, v) /\ (s.i <= Len(s.block) => Counted(blk, s, v, s.stmts[s.block[s.i]], hi))
Books(blk, s, n, par, hi) ==
  /\ Listed(blk, s)
  /\ UsedLater(s, n)
  /\ \A v \in 1..Len(s.vals) : Tracked(blk, s, n, par, hi, v)

\* While the parameters get their registers, the counter is borrowed.
AtStart(s) == [s EXCEPT !.i = 1]
CurrentOf(s) == s.stmts[s.block[s.i]]

\* The books at each stage of a turn of the loop: which statements and parameters have no
\* register yet, and which operands of the current statement are counted.
Stage(blk, s, p) ==
  /\ p = "args" =>
       /\ Books(blk, AtStart(s), 1, s.i, 0)
       /\ \A x \in 1..NP(blk) : s.vals[x].float = blk.params[x].float
  /\ p = "tick" => Books(blk, s, s.i, NP(blk) + 1, 0)
  /\ p = "reuse" =>
       s.i <= Len(s.block) /\ CurrentOf(s).out # NoValue /\ Books(blk, s, s.i, NP(blk) + 1, Early(CurrentOf(s)))
  /\ p = "clobber" =>
       s.i <= Len(s.block) /\ CurrentOf(s).out # NoValue /\ Books(blk, s, s.i + 1, NP(blk) + 1, Len(CurrentOf(s).args))

IInv ==
  /\ count \in RegisterCounts
  /\ SourceOK(src)
  /\ pc \in {"build", "args", "tick", "reuse", "clobber", "emit", "done", "crash", "endless"}
  /\ wrong \subseteq (1..NB(src)) \X (1..3)
  /\ pc = "build" => a = NoAllocator /\ wrong = {}
  /\ pc # "build" => Shaped(src, a) /\ Stage(src, a, pc)

-----------------------------------------------------------------------------
(* Numbers, sets and sequences *)

\* A set of numbers that is not empty has a least one: what replaces induction below.
LEMMA LeastIs ==
  ASSUME NEW S, S \subseteq Nat, S # {}
  PROVE  \E x \in S : \A y \in S : x <= y
<1> DEFINE R == OpToRel(<, Nat)
<1>1. IsWellFoundedOn(R, Nat)
  BY NatLessThanWellFounded
<1>2. \E x \in S : \A y \in S : ~(<<y, x>> \in R)
  BY <1>1, WFMin
<1>3. \A x, y \in Nat : <<y, x>> \in R <=> y < x
  BY DEF OpToRel
<1> HIDE DEF R
<1>4. PICK x \in S : \A y \in S : ~(<<y, x>> \in R)
  BY <1>2
<1>5. ASSUME NEW y \in S PROVE x <= y
  <2>1. x \in Nat /\ y \in Nat
    OBVIOUS
  <2>2. ~(y < x)
    BY <1>3, <1>4, <2>1
  <2> QED BY <2>1, <2>2
<1> QED BY <1>4, <1>5

\* Minimum is the least element.
LEMMA MinimumIs ==
  ASSUME NEW S, S \subseteq Nat, S # {}
  PROVE  Minimum(S) \in S /\ \A y \in S : Minimum(S) <= y
BY LeastIs DEF Minimum

\* A number in an interval.
LEMMA Between ==
  ASSUME NEW lo \in Int, NEW hi \in Int, NEW x \in lo..hi
  PROVE  x \in Int /\ lo <= x /\ x <= hi
OBVIOUS

\* A number that is not 0.
LEMMA NotZero ==
  ASSUME NEW hi \in Int, NEW x \in 0..hi, x # NoValue
  PROVE  x \in 1..hi
BY DEF NoValue

\* A sequence has a length and is defined on the numbers up to it.
LEMMA SeqIs ==
  ASSUME NEW s, IsSeq(s)
  PROVE  Len(s) \in Nat /\ DOMAIN s = 1..Len(s)
BY DEF IsSeq

\* The elements of a sequence.
LEMMA SeqHas ==
  ASSUME NEW S, NEW s \in Seq(S)
  PROVE  Len(s) \in Nat /\ DOMAIN s = 1..Len(s) /\ \A x \in 1..Len(s) : s[x] \in S
OBVIOUS

\* A sequence over a set is one over a larger set.
LEMMA SeqWider ==
  ASSUME NEW S, NEW T, S \subseteq T, NEW s \in Seq(S)
  PROVE  s \in Seq(T)
OBVIOUS

\* A function on 1..n is a sequence.
LEMMA FunctionSeq ==
  ASSUME NEW n \in Nat, NEW s, s = [x \in 1..n |-> s[x]]
  PROVE  IsSeq(s) /\ Len(s) = n
<1>1. DOMAIN s = 1..n
  OBVIOUS
<1>2. \A x \in 1..n : s[x] \in Elements(s)
  BY <1>1 DEF Elements
<1>3. s \in [1..n -> Elements(s)]
  BY <1>2
<1>4. s \in Seq(Elements(s))
  BY <1>3
<1> QED BY <1>1, <1>4 DEF IsSeq

\* Append adds one element at the end.
LEMMA AppendIs ==
  ASSUME NEW s, NEW e, IsSeq(s)
  PROVE  /\ IsSeq(Append(s, e)) /\ Len(Append(s, e)) = Len(s) + 1
         /\ \A x \in 1..Len(s) : Append(s, e)[x] = s[x]
         /\ Append(s, e)[Len(s) + 1] = e
<1> DEFINE S == Elements(s) \cup {e}
           t == Append(s, e)
<1>1. s \in Seq(S) /\ e \in S
  BY DEF IsSeq
<1> HIDE DEF S
<1>2. t \in Seq(S) /\ Len(t) = Len(s) + 1 /\ Len(s) \in Nat /\ (\A x \in 1..Len(s) : t[x] = s[x]) /\ t[Len(s) + 1] = e
  BY <1>1
<1> HIDE DEF t
<1>3. t = [x \in 1..Len(t) |-> t[x]] /\ Len(t) \in Nat
  BY <1>2
<1>4. IsSeq(t)
  BY <1>3, FunctionSeq
<1> QED BY <1>2, <1>4 DEF t

\* Two sequences, one after the other.
LEMMA ConcatIs ==
  ASSUME NEW S, NEW e \in Seq(S), NEW w \in Seq(S)
  PROVE  /\ e \o w \in Seq(S) /\ Len(e \o w) = Len(e) + Len(w)
         /\ (\A x \in 1..Len(e) : (e \o w)[x] = e[x]) /\ \A y \in 1..Len(w) : (e \o w)[Len(e) + y] = w[y]
OBVIOUS

\* A list with one element more: it stands at place k, and what stood from there on one
\* further.
Inserted(seq, k, x, t) ==
  /\ Len(t) = Len(seq) + 1
  /\ t[k] = x
  /\ \A y \in 1..Len(seq) : IF y < k THEN t[y] = seq[y] ELSE t[y + 1] = seq[y]

\* That is what InsertAt makes of a list.
LEMMA InsertAtIs ==
  ASSUME NEW S, NEW seq \in Seq(S), NEW k \in 1..(Len(seq) + 1), NEW x \in S
  PROVE  InsertAt(seq, k, x) \in Seq(S) /\ Inserted(seq, k, x, InsertAt(seq, k, x))
<1> DEFINE u == SubSeq(seq, 1, k - 1)
           w == SubSeq(seq, k, Len(seq))
           uv == u \o <<x>>
           t == uv \o w
           n == Len(seq)
<1>0. n \in Nat /\ k \in Nat /\ k >= 1 /\ k <= n + 1
  OBVIOUS
<1>1. u \in Seq(S) /\ Len(u) = k - 1 /\ \A y \in 1..(k - 1) : u[y] = seq[y]
  BY <1>0
<1>2. w \in Seq(S) /\ Len(w) = n - k + 1 /\ \A y \in 1..(n - k + 1) : w[y] = seq[k + y - 1]
  BY <1>0
<1> HIDE DEF u, w
<1>3. uv \in Seq(S) /\ Len(uv) = k /\ (\A y \in 1..(k - 1) : uv[y] = u[y]) /\ uv[k] = x
  BY <1>0, <1>1
<1> HIDE DEF uv
<1>4. t \in Seq(S) /\ Len(t) = n + 1 /\ (\A y \in 1..k : t[y] = uv[y]) /\ \A y \in 1..(n - k + 1) : t[k + y] = w[y]
  <2>1. /\ uv \o w \in Seq(S) /\ Len(uv \o w) = Len(uv) + Len(w)
        /\ (\A y \in 1..Len(uv) : (uv \o w)[y] = uv[y]) /\ \A y \in 1..Len(w) : (uv \o w)[Len(uv) + y] = w[y]
    BY <1>2, <1>3, ConcatIs
  <2>2. k + (n - k + 1) = n + 1
    BY <1>0
  <2> QED BY <1>2, <1>3, <2>1, <2>2
<1>5. InsertAt(seq, k, x) = t
  BY DEF InsertAt, t, uv, u, w
<1> HIDE DEF t
<1>6. ASSUME NEW y \in 1..n PROVE IF y < k THEN t[y] = seq[y] ELSE t[y + 1] = seq[y]
  <2>1. CASE y < k
    BY <2>1, <1>0, <1>1, <1>3, <1>4
  <2>2. CASE y >= k
    <3> DEFINE z == y - k + 1
    <3>1. z \in 1..(n - k + 1) /\ k + z = y + 1 /\ k + z - 1 = y
      BY <2>2, <1>0
    <3>2. t[k + z] = w[z] /\ w[z] = seq[k + z - 1]
      BY <3>1, <1>2, <1>4
    <3> QED BY <3>1, <3>2, <2>2, <1>0
  <2> QED BY <2>1, <2>2, <1>0
<1>7. t[k] = x
  BY <1>0, <1>3, <1>4
<1> QED BY <1>0, <1>4, <1>5, <1>6, <1>7 DEF Inserted

-----------------------------------------------------------------------------
(* Counting uses *)

\* A statement's uses of a value are counted in two parts.
LEMMA OperandSum ==
  ASSUME NEW st, NEW v, NEW lo \in Nat, NEW hi \in Nat, lo <= hi
  PROVE  /\ Operand(st, v, 1, hi) = Operand(st, v, 1, lo) + Operand(st, v, lo + 1, hi)
         /\ Operand(st, v, 1, lo) \in Nat /\ Operand(st, v, lo + 1, hi) \in Nat /\ Operand(st, v, 1, hi) \in Nat
<1> DEFINE A == {j \in 1..lo : st.args[j] = v}
           B == {j \in (lo + 1)..hi : st.args[j] = v}
           C == {j \in 1..hi : st.args[j] = v}
<1>2. C = A \cup B /\ A \cap B = {}
  OBVIOUS
<1>3. IsFiniteSet(1..lo) /\ IsFiniteSet((lo + 1)..hi)
  BY FS_Interval
<1>4. A \subseteq 1..lo /\ B \subseteq (lo + 1)..hi
  OBVIOUS
<1>5. IsFiniteSet(A) /\ IsFiniteSet(B)
  BY <1>3, <1>4, FS_Subset
<1> HIDE DEF A, B, C
<1>6. Cardinality(A) \in Nat /\ Cardinality(B) \in Nat
  BY <1>5, FS_CardinalityType
<1>7. Cardinality(A \cup B) = Cardinality(A) + Cardinality(B) - Cardinality(A \cap B)
  BY <1>5, FS_Union
<1>8. Cardinality(A \cap B) = 0
  BY <1>2, FS_EmptySet
<1>9. Cardinality(C) = Cardinality(A) + Cardinality(B)
  BY <1>2, <1>6, <1>7, <1>8
<1> QED BY <1>6, <1>9 DEF A, B, C, Operand

\* All of its operands.
LEMMA UsesAre ==
  ASSUME NEW S, NEW st, st.args \in Seq(S), NEW v
  PROVE  Uses(v, st) = Operand(st, v, 1, Len(st.args))
<1>1. DOMAIN st.args = 1..Len(st.args)
  BY SeqHas
<1> QED BY <1>1 DEF Uses, Operand

\* No operands, no uses.
LEMMA OperandNone ==
  ASSUME NEW st, NEW v
  PROVE  Operand(st, v, 1, 0) = 0
<1>1. {j \in 1..0 : st.args[j] = v} = {}
  OBVIOUS
<1> QED BY <1>1, FS_EmptySet DEF Operand

\* A statement does not use a value exactly if it is none of its operands.
LEMMA UsesNone ==
  ASSUME NEW S, NEW st, st.args \in Seq(S), NEW v
  PROVE  Uses(v, st) \in Nat /\ (Uses(v, st) = 0 <=> \A j \in 1..Len(st.args) : st.args[j] # v)
<1> DEFINE C == {x \in DOMAIN st.args : st.args[x] = v}
<1>1. Len(st.args) \in Nat /\ DOMAIN st.args = 1..Len(st.args)
  OBVIOUS
<1>2. IsFiniteSet(1..Len(st.args)) /\ C \subseteq 1..Len(st.args)
  BY <1>1, FS_Interval
<1>3. IsFiniteSet(C)
  BY <1>2, FS_Subset
<1> HIDE DEF C
<1>4. Cardinality(C) \in Nat /\ (Cardinality(C) = 0 <=> C = {})
  BY <1>3, FS_CardinalityType, FS_EmptySet
<1>5. C = {} <=> \A j \in 1..Len(st.args) : st.args[j] # v
  BY <1>1 DEF C
<1> QED BY <1>4, <1>5 DEF C, Uses

-----------------------------------------------------------------------------
(* Steps that leave the statements alone *)

Steady(s, t) ==
  /\ t.block = s.block /\ t.stmts = s.stmts /\ Len(t.vals) = Len(s.vals)
  /\ \A v \in 1..Len(s.vals) : t.vals[v].edges = s.vals[v].edges

\* The list of statements is as good as it was.
LEMMA SteadyListed ==
  ASSUME NEW blk, NEW s, NEW t, Steady(s, t), Listed(blk, s), t.i >= s.i, s.i \in Int, t.i \in Int
  PROVE  Listed(blk, t)
<1>1. Ahead(blk, t)
  BY DEF Listed, Ahead, Steady, Numbered
<1>2. InOrder(blk, t)
  BY DEF Listed, InOrder, Steady, Above, Numbered
<1> QED BY <1>1, <1>2 DEF Listed, AllThere, OutsDistinct, Steady

\* The outputs to come are still used later.
LEMMA SteadyLater ==
  ASSUME NEW blk, NEW s, NEW t, Steady(s, t), StatementsOK(blk, s), s.block \in Seq(1..Len(s.stmts)),
         NEW n \in Int, NEW m \in Int, n <= m, UsedLater(s, n)
  PROVE  UsedLater(t, m)
<1> SUFFICES ASSUME NEW x \in 1..Len(t.block), x >= m, t.stmts[t.block[x]].out # NoValue
             PROVE  UsedAfter(t, t.stmts[t.block[x]].out, t.stmts[t.block[x]].num)
  BY DEF UsedLater
<1>1. x \in 1..Len(s.block) /\ x >= n /\ s.block[x] \in 1..Len(s.stmts) /\ t.stmts[t.block[x]] = s.stmts[s.block[x]]
  BY DEF Steady
<1>2. s.stmts[s.block[x]].out \in 1..Len(s.vals)
  <2>1. StatementOK(blk, s.stmts[s.block[x]], s.block[x], Len(s.vals))
    BY <1>1 DEF StatementsOK
  <2> QED BY SMTT(30), <1>1, <2>1 DEF StatementOK, NoValue
<1>3. UsedAfter(s, s.stmts[s.block[x]].out, s.stmts[s.block[x]].num)
  BY <1>1 DEF UsedLater
<1> QED BY Zenon, <1>1, <1>2, <1>3 DEF UsedAfter, Steady

\* The edges are as good as they were.
LEMMA SteadyEdges ==
  ASSUME NEW blk, NEW s, NEW t, Steady(s, t), NEW v \in 1..Len(s.vals), EdgesOK(blk, s, v)
  PROVE  EdgesOK(blk, t, v)
BY DEF Steady, EdgesOK

\* No value begins to wait for a register.
LEMMA SteadyPending ==
  ASSUME NEW blk, NEW s, NEW t, Steady(s, t), NEW n \in Int, NEW m \in Int, n <= m,
         NEW par \in Int, NEW q \in Int, par <= q, NEW v \in Int, Pending(blk, t, m, q, v)
  PROVE  Pending(blk, s, n, par, v)
<1>1. CASE v >= q /\ v <= NP(blk)
  <2> USE <1>1
  <2>1. v >= par
    OBVIOUS
  <2> QED BY <2>1 DEF Pending
<1>2. CASE PendingOut(t, m, v)
  <2>1. PendingOut(s, n, v)
    BY <1>2 DEF PendingOut, Steady
  <2> QED BY <2>1 DEF Pending
<1> QED BY <1>1, <1>2 DEF Pending

FewerLive(blk, s, n, par, t, m, q) ==
  \A v \in 1..Len(t.vals) : Live(blk, t, m, q, v) => Live(blk, s, n, par, v)
AllFresh(blk, t, m, q) == \A v \in 1..Len(t.vals) : Pending(blk, t, m, q, v) => Fresh(t, v)
AllCounted(blk, t, m, q, hi) ==
  \A v \in 1..Len(t.vals) :
    Live(blk, t, m, q, v) /\ t.i <= Len(t.block) => Counted(blk, t, v, t.stmts[t.block[t.i]], hi)

\* What is left to show for such a step.
LEMMA BooksSteady ==
  ASSUME NEW blk, NEW s, NEW t, Shaped(blk, s), Steady(s, t), s.i <= t.i, t.i \in Int,
         NEW n \in Int, NEW m \in Int, n <= m, NEW par, NEW q, NEW hi, NEW hi2, Books(blk, s, n, par, hi),
         FewerLive(blk, s, n, par, t, m, q), AllFresh(blk, t, m, q), AllCounted(blk, t, m, q, hi2)
  PROVE  Books(blk, t, m, q, hi2)
<1>1. Listed(blk, t)
  BY SteadyListed DEF Books, Shaped
<1>2. UsedLater(t, m)
  BY SteadyLater DEF Books, Shaped
<1>3. ASSUME NEW v \in 1..Len(t.vals) PROVE Tracked(blk, t, m, q, hi2, v)
  <2>1. v \in 1..Len(s.vals)
    BY DEF Steady
  <2>2. Live(blk, t, m, q, v) => EdgesOK(blk, t, v)
    BY <2>1, SteadyEdges DEF FewerLive, Books, Tracked
  <2> QED BY <2>2 DEF Tracked, AllFresh, AllCounted
<1> QED BY <1>1, <1>2, <1>3 DEF Books

-----------------------------------------------------------------------------
(* The counter of the loop *)

\* The parts of a state.
LEMMA Basics ==
  ASSUME NEW blk, NEW s, Shaped(blk, s)
  PROVE  /\ NB(blk) \in Nat /\ NP(blk) \in Nat
         /\ Len(s.block) \in Nat /\ Len(s.stmts) \in Nat /\ Len(s.vals) \in Nat /\ s.i \in Nat /\ s.i >= 1
         /\ NB(blk) <= Len(s.stmts) /\ NP(blk) + NB(blk) <= Len(s.vals)
         /\ DOMAIN s.block = 1..Len(s.block) /\ DOMAIN s.stmts = 1..Len(s.stmts) /\ DOMAIN s.vals = 1..Len(s.vals)
<1>1. /\ s.block \in Seq(1..Len(s.stmts)) /\ IsSeq(s.stmts) /\ IsSeq(s.vals) /\ Len(s.stmts) >= NB(blk)
      /\ Len(s.vals) >= NP(blk) + NB(blk) /\ NB(blk) \in Nat /\ NP(blk) \in Nat /\ s.i \in Nat \ {0}
  BY DEF Shaped, StatementsOK, ValuesOK
<1>2. Len(s.block) \in Nat /\ DOMAIN s.block = 1..Len(s.block)
  BY <1>1
<1>3. Len(s.stmts) \in Nat /\ Len(s.vals) \in Nat /\ DOMAIN s.stmts = 1..Len(s.stmts) /\ DOMAIN s.vals = 1..Len(s.vals)
  BY <1>1, SeqIs
<1> QED BY <1>1, <1>2, <1>3

\* The statements of the list.
LEMMA BlockIs ==
  ASSUME NEW blk, NEW s, Shaped(blk, s), NEW x \in 1..Len(s.block)
  PROVE  s.block[x] \in 1..Len(s.stmts) /\ StatementOK(blk, s.stmts[s.block[x]], s.block[x], Len(s.vals))
<1>1. s.block \in Seq(1..Len(s.stmts)) /\ StatementsOK(blk, s)
  BY DEF Shaped
<1>2. s.block[x] \in 1..Len(s.stmts)
  BY <1>1
<1> QED BY <1>1, <1>2 DEF StatementsOK

\* The output of a statement of the list is a value.
LEMMA OutIs ==
  ASSUME NEW blk, NEW s, Shaped(blk, s), NEW x \in 1..Len(s.block), s.stmts[s.block[x]].out # NoValue
  PROVE  s.stmts[s.block[x]].out \in 1..Len(s.vals)
<1>1. s.stmts[s.block[x]].out \in 0..Len(s.vals)
  BY BlockIs DEF StatementOK
<1>2. Len(s.vals) \in Int
  BY Basics
<1> QED BY <1>1, <1>2, NotZero

\* Which statements are above: for all but the current one it does not matter whether one
\* asks at the current statement or at the next.
LEMMA Passed ==
  ASSUME NEW blk, NEW s, Shaped(blk, s), Listed(blk, s), NEW i \in 1..Len(s.block), i >= s.i, i + 1 <= Len(s.block),
         NEW k \in 1..NB(blk)
  PROVE  /\ k # s.block[i] => (s.stmts[k].num < s.stmts[s.block[i]].num <=> s.stmts[k].num < s.stmts[s.block[i + 1]].num)
         /\ k = s.block[i] => s.stmts[k].num < s.stmts[s.block[i + 1]].num
<1> DEFINE x == s.block[i]
           y == s.block[i + 1]
<1>0. i + 1 \in 1..Len(s.block) /\ Len(s.block) \in Nat /\ s.i \in Nat /\ i \in Nat
  BY Basics
<1>1. x \in 1..Len(s.stmts) /\ y \in 1..Len(s.stmts) /\ k \in 1..Len(s.stmts) /\ NB(blk) \in Nat
  BY <1>0, Basics, BlockIs
<1>2. Numbered(blk, s, x) /\ Numbered(blk, s, y) /\ Numbered(blk, s, k)
  <2>1. Ahead(blk, s)
    BY DEF Listed
  <2>2. i + 1 >= s.i
    BY <1>0
  <2>3. Numbered(blk, s, x) /\ Numbered(blk, s, y)
    BY <1>0, <2>1, <2>2 DEF Ahead
  <2>4. k <= NB(blk)
    BY <1>1
  <2> QED BY <2>3, <2>4 DEF Numbered
<1>3. s.stmts[x].num \in Int /\ s.stmts[y].num \in Int /\ s.stmts[k].num \in Int
  <2>1. StatementOK(blk, s.stmts[x], x, Len(s.vals)) /\ StatementOK(blk, s.stmts[y], y, Len(s.vals))
        /\ StatementOK(blk, s.stmts[k], k, Len(s.vals))
    BY <1>1 DEF Shaped, StatementsOK
  <2> QED BY <2>1 DEF StatementOK
<1>4. PICK z \in 1..Len(s.block) : s.block[z] = k
  BY DEF Listed, AllThere
<1>5. CASE z < i
  <2>1. z < i + 1
    BY <1>0, <1>5
  <2>2. Above(blk, s, k, x) /\ Above(blk, s, k, y)
    BY <1>0, <1>4, <1>5, <2>1 DEF Listed, InOrder
  <2> QED BY <1>2, <1>3, <2>2 DEF Above
<1>6. CASE z = i
  <2>1. Above(blk, s, k, y)
    BY <1>0, <1>4, <1>6 DEF Listed, InOrder
  <2> QED BY <1>2, <1>3, <1>4, <1>6, <2>1 DEF Above
<1>7. CASE z = i + 1
  <2>1. Above(blk, s, x, k) /\ k = y
    BY <1>0, <1>4, <1>7 DEF Listed, InOrder
  <2> QED BY <1>2, <1>3, <2>1 DEF Above
<1>8. CASE z > i + 1
  <2>1. Above(blk, s, x, k) /\ Above(blk, s, y, k)
    BY <1>0, <1>4, <1>8 DEF Listed, InOrder
  <2> QED BY <1>2, <1>3, <2>1 DEF Above
<1> QED BY <1>0, <1>5, <1>6, <1>7, <1>8

\* The value's uses by the current statement are in its edges, also if there are none.
LEMMA CurrentUses ==
  ASSUME NEW blk, NEW s, Shaped(blk, s), Listed(blk, s), NEW i \in 1..Len(s.block), i >= s.i,
         NEW v \in 1..Len(s.vals), EdgesOK(blk, s, v)
  PROVE  /\ HasUses(s.vals[v].edges, s.block[i], Uses(v, s.stmts[s.block[i]]))
         /\ Uses(v, s.stmts[s.block[i]]) \in Nat /\ s.stmts[s.block[i]].args \in Seq(0..Len(s.vals))
<1> DEFINE k == s.block[i]
           st == s.stmts[k]
           e == s.vals[v].edges
<1>1. k \in 1..Len(s.stmts) /\ StatementOK(blk, st, k, Len(s.vals)) /\ NB(blk) \in Nat /\ Len(s.stmts) \in Nat
      /\ Numbered(blk, s, k) /\ Len(s.vals) \in Nat
  BY BlockIs, Basics DEF Listed, Ahead
<1>2. st.args \in Seq(0..Len(s.vals))
  BY <1>1 DEF StatementOK
<1>3. Uses(v, st) \in Nat /\ (Uses(v, st) = 0 <=> \A j \in 1..Len(st.args) : st.args[j] # v)
  BY <1>2, UsesNone
<1>4. e \in Seq(1..NB(blk))
  BY DEF Shaped, ValuesOK, ValueOK
<1>5. CASE k <= NB(blk)
  <2>1. k \in 1..NB(blk)
    BY <1>1, <1>5
  <2> QED BY <1>2, <1>3, <2>1 DEF EdgesOK
<1>6. CASE k > NB(blk)
  <2>1. \A j \in 1..Len(st.args) : st.args[j] = NoValue
    BY <1>1, <1>6 DEF Numbered, StatementOK
  <2>2. Uses(v, st) = 0
    BY SMTT(30), <1>1, <1>3, <2>1 DEF NoValue
  <2>3. \A x \in 1..Len(e) : e[x] # k
    BY SMTT(30), <1>1, <1>4, <1>6
  <2>4. UsesAt(e, k, 0, 0) /\ 0 \in 0..Len(e)
    BY <1>4, <2>3 DEF UsesAt
  <2> QED BY <1>2, <1>3, <2>2, <2>4 DEF HasUses
<1> QED BY <1>1, <1>5, <1>6

\* When the current statement has been counted, what is above the next one has been.
LEMMA NextPrefix ==
  ASSUME NEW blk, NEW s, Shaped(blk, s), Listed(blk, s), NEW i \in 1..Len(s.block), i >= s.i, i + 1 <= Len(s.block),
         NEW e \in Seq(1..NB(blk)), Sorted(e), NEW n \in Nat, HasUses(e, s.block[i], n),
         NEW p \in 0..Len(e), Prefix(s, e, s.stmts[s.block[i]].num, p)
  PROVE  p + n \in 0..Len(e) /\ Prefix(s, e, s.stmts[s.block[i + 1]].num, p + n)
<1> DEFINE k == s.block[i]
           num == s.stmts[k].num
           nxt == s.stmts[s.block[i + 1]].num
<1>1. PICK q \in 0..Len(e) : UsesAt(e, k, n, q)
  BY DEF HasUses
<1>2. Len(e) \in Nat /\ q + n <= Len(e) /\ \A x \in 1..Len(e) : e[x] = k <=> (q < x /\ x <= q + n)
  BY <1>1 DEF UsesAt
<1>3. \A x \in 1..Len(e) : e[x] \in 1..NB(blk) /\ s.stmts[e[x]].num = 2 * (e[x] - 1)
  <2>1. \A j \in 1..NB(blk) : s.stmts[j].num = 2 * (j - 1)
    <3>1. \A j \in 1..NB(blk) : StatementOK(blk, s.stmts[j], j, Len(s.vals))
      BY Basics DEF Shaped, StatementsOK
    <3> QED BY <3>1, Basics DEF StatementOK
  <2>2. \A x \in 1..Len(e) : e[x] \in 1..NB(blk)
    BY SeqHas
  <2> QED BY <2>1, <2>2
<1>4. \A x \in 1..Len(e) : e[x] # k => (s.stmts[e[x]].num < num <=> s.stmts[e[x]].num < nxt)
  BY <1>3, Passed
<1>5. \A x \in 1..Len(e) : e[x] = k => s.stmts[e[x]].num < nxt
  BY <1>3, Passed
<1>6. \A x \in 1..Len(e) : s.stmts[e[x]].num < num <=> x <= p
  BY DEF Prefix
<1>7. ASSUME n > 0 PROVE q = p
  <2>1. q + 1 \in 1..Len(e) /\ e[q + 1] = k
    BY <1>2, <1>7
  <2>2. ~(num < num) /\ num = 2 * (k - 1) /\ k \in Int
    BY SMTT(30), <1>3, <2>1
  <2>3. ~(q + 1 <= p)
    BY <1>6, <2>1, <2>2
  <2>4. ASSUME q > p PROVE FALSE
    <3>1. p + 1 \in 1..Len(e) /\ p + 1 < q + 1 /\ p + 1 <= q
      BY <1>2, <2>4
    <3>2. e[p + 1] <= e[q + 1]
      BY <2>1, <3>1 DEF Sorted
    <3>3. e[p + 1] # k
      BY <1>2, <3>1
    <3>4. e[p + 1] \in 1..NB(blk) /\ s.stmts[e[p + 1]].num = 2 * (e[p + 1] - 1)
      BY <1>3, <3>1
    <3>5. e[p + 1] < k
      BY SMTT(30), <2>1, <2>2, <3>2, <3>3, <3>4
    <3>6. s.stmts[e[p + 1]].num < num
      <4> DEFINE x == e[p + 1]
                 m == s.stmts[e[p + 1]].num
      <4>1. x \in Int /\ m = 2 * (x - 1) /\ x < k /\ num = 2 * (k - 1) /\ k \in Int
        BY <2>2, <3>4, <3>5
      <4> HIDE DEF x, m
      <4>2. m < num
        BY SMTT(30), <4>1
      <4> QED BY <4>2 DEF m
    <3> QED BY <1>2, <1>6, <3>1, <3>6
  <2> QED BY <2>3, <2>4
<1>8. p + n \in 0..Len(e)
  BY <1>2, <1>7
<1>9. ASSUME NEW x \in 1..Len(e) PROVE s.stmts[e[x]].num < nxt <=> x <= p + n
  <2>1. CASE e[x] = k
    <3>1. q < x /\ x <= q + n
      BY <1>2, <2>1
    <3> QED BY <1>2, <1>5, <1>7, <2>1, <3>1
  <2>2. CASE e[x] # k
    <3>1. ~(q < x /\ x <= q + n)
      BY <1>2, <2>2
    <3>2. s.stmts[e[x]].num < nxt <=> x <= p
      BY <1>4, <1>6, <2>2
    <3>3. CASE n = 0
      BY <3>2, <3>3
    <3>4. CASE n > 0
      BY <1>2, <1>7, <3>1, <3>2, <3>4
    <3> QED BY <3>3, <3>4
  <2> QED BY <2>1, <2>2
<1> QED BY <1>8, <1>9 DEF Prefix

\* A value whose uses by the current statement have all been counted is counted at the next.
LEMMA NextCounted ==
  ASSUME NEW blk, NEW s, Shaped(blk, s), Listed(blk, s), s.i + 1 <= Len(s.block), NEW v \in 1..Len(s.vals),
         EdgesOK(blk, s, v), Counted(blk, s, v, s.stmts[s.block[s.i]], Len(s.stmts[s.block[s.i]].args))
  PROVE  Counted(blk, s, v, s.stmts[s.block[s.i + 1]], 0)
<1> DEFINE e == s.vals[v].edges
           st == s.stmts[s.block[s.i]]
           nxt == s.stmts[s.block[s.i + 1]]
           n == Uses(v, st)
<1>1. s.i \in 1..Len(s.block) /\ s.i >= s.i /\ e \in Seq(1..NB(blk)) /\ s.vals[v].used \in Nat
  <2>1. s.i \in Nat /\ s.i >= 1 /\ Len(s.block) \in Nat
    BY Basics
  <2>2. e \in Seq(1..NB(blk)) /\ s.vals[v].used \in Nat
    BY DEF Shaped, ValuesOK, ValueOK
  <2> QED BY <2>1, <2>2
<1>2. HasUses(e, s.block[s.i], n) /\ n \in Nat /\ st.args \in Seq(0..Len(s.vals))
  <2> HIDE DEF e, st, n, nxt
  <2>1. /\ HasUses(s.vals[v].edges, s.block[s.i], Uses(v, s.stmts[s.block[s.i]]))
        /\ Uses(v, s.stmts[s.block[s.i]]) \in Nat /\ s.stmts[s.block[s.i]].args \in Seq(0..Len(s.vals))
    BY <1>1, CurrentUses
  <2> QED BY <2>1 DEF e, st, n
<1>3. n = Operand(st, v, 1, Len(st.args))
  <2>1. Len(st.args) \in Nat /\ DOMAIN st.args = 1..Len(st.args)
    BY SMTT(30), <1>2
  <2> QED BY <2>1 DEF Uses, Operand
<1>4. CASE Exempt(blk, e)
  BY <1>4 DEF Counted
<1>5. CASE ~Exempt(blk, e)
  <2>1. PICK p \in 0..Len(e) : CountedTo(s, v, st, Len(st.args), p)
    BY <1>5 DEF Counted
  <2>2. Prefix(s, e, st.num, p) /\ s.vals[v].used = p + n
    BY <1>3, <2>1 DEF CountedTo
  <2>3. p + n \in 0..Len(e) /\ Prefix(s, e, nxt.num, p + n)
    <3>1. Sorted(e)
      BY DEF EdgesOK
    <3> HIDE DEF e, n
    <3> QED BY <1>1, <1>2, <2>2, <3>1, NextPrefix
  <2>4. CountedTo(s, v, nxt, 0, p + n)
    <3>1. Operand(nxt, v, 1, 0) = 0
      BY OperandNone
    <3>2. p + n + 0 = p + n
      BY <1>2
    <3>3. s.vals[v].used = p + n + Operand(nxt, v, 1, 0)
      BY <2>2, <3>1, <3>2
    <3> QED BY <2>3, <3>3 DEF CountedTo, e
  <2> QED BY <2>3, <2>4 DEF Counted
<1> QED BY <1>4, <1>5

\* No uses, none to count.
LEMMA OperandUnused ==
  ASSUME NEW S, NEW st, st.args \in Seq(S), NEW v, Uses(v, st) = 0, NEW lo \in Nat, NEW hi \in Nat, lo <= hi,
         hi <= Len(st.args)
  PROVE  Operand(st, v, lo + 1, hi) = 0
<1>1. Len(st.args) \in Nat /\ \A j \in 1..Len(st.args) : st.args[j] # v
  BY SeqHas, UsesNone
<1>2. {j \in (lo + 1)..hi : st.args[j] = v} = {}
  BY <1>1
<1> QED BY <1>2, FS_EmptySet DEF Operand

\* The same from the first operand on.
LEMMA OperandZero ==
  ASSUME NEW S, NEW st, st.args \in Seq(S), NEW v, Uses(v, st) = 0, NEW hi \in Nat, hi <= Len(st.args)
  PROVE  Operand(st, v, 1, hi) = 0
<1>1. Len(st.args) \in Nat /\ \A j \in 1..Len(st.args) : st.args[j] # v
  BY SeqHas, UsesNone
<1>2. {j \in 1..hi : st.args[j] = v} = {}
  BY <1>1
<1> QED BY <1>2, FS_EmptySet DEF Operand

-----------------------------------------------------------------------------
(* Giving and taking registers, counting *)

\* A state with the same statements is well formed if its values and its registers are.
LEMMA ShapedSteady ==
  ASSUME NEW blk, NEW s, NEW t, Shaped(blk, s), DOMAIN t = Fields, t.block = s.block, t.stmts = s.stmts,
         Len(t.vals) = Len(s.vals), t.i \in Nat \ {0}, t.slots \in Nat, ValuesOK(blk, t), RegistersOK(t), Agree(t)
  PROVE  Shaped(blk, t)
<1>1. StatementsOK(blk, t)
  BY DEF Shaped, StatementsOK
<1> QED BY <1>1 DEF Shaped

HeldLive(blk, s, n, par, t, m, q) ==
  \A r \in Reg : t.alloced[r] > 0 => Live(blk, s, n, par, t.alloced[r]) /\ ~Pending(blk, t, m, q, t.alloced[r])
PendingSame(blk, s, t, m, q) ==
  \A v \in 1..Len(t.vals) : Pending(blk, t, m, q, v) =>
    t.vals[v].reg = s.vals[v].reg /\ t.vals[v].spilled = s.vals[v].spilled
UsedSame(s, t) == \A v \in 1..Len(t.vals) : t.vals[v].used = s.vals[v].used

\* Registers change hands among the values that have or wait for one.
LEMMA MovedBooks ==
  ASSUME NEW blk, NEW s, NEW t, Shaped(blk, s), Steady(s, t), t.i = s.i,
         NEW n \in Int, NEW m \in Int, n <= m, NEW par \in Int, NEW q \in Int, par <= q, NEW hi,
         Books(blk, s, n, par, hi),
         HeldLive(blk, s, n, par, t, m, q), PendingSame(blk, s, t, m, q), UsedSame(s, t)
  PROVE  Books(blk, t, m, q, hi)
<1>0. t.i \in Int /\ s.i <= t.i /\ Len(s.vals) \in Nat /\ Len(t.vals) = Len(s.vals)
  BY Basics DEF Steady
<1>1. \A v \in 1..Len(t.vals) : Pending(blk, t, m, q, v) => Pending(blk, s, n, par, v)
  BY SteadyPending
<1>2. FewerLive(blk, s, n, par, t, m, q)
  <2> SUFFICES ASSUME NEW v \in 1..Len(t.vals), Live(blk, t, m, q, v) PROVE Live(blk, s, n, par, v)
    BY DEF FewerLive
  <2>1. CASE Allocated(t, v)
    <3>1. v > 0
      BY <1>0
    <3> QED BY <2>1, <3>1 DEF HeldLive, Allocated
  <2>2. CASE Pending(blk, t, m, q, v)
    BY <1>1, <2>2 DEF Live
  <2> QED BY <2>1, <2>2 DEF Live
<1>3. AllFresh(blk, t, m, q)
  <2> SUFFICES ASSUME NEW v \in 1..Len(t.vals), Pending(blk, t, m, q, v) PROVE Fresh(t, v)
    BY DEF AllFresh
  <2>1. v \in 1..Len(s.vals) /\ v > 0
    BY <1>0
  <2>2. Fresh(s, v)
    BY <1>1, <2>1 DEF Books, Tracked
  <2>3. \A r \in Reg : t.alloced[r] # v
    BY <2>1 DEF HeldLive
  <2> QED BY <2>2, <2>3 DEF Fresh, PendingSame, UsedSame
<1>4. AllCounted(blk, t, m, q, hi)
  <2> SUFFICES ASSUME NEW v \in 1..Len(t.vals), Live(blk, t, m, q, v), t.i <= Len(t.block)
               PROVE  Counted(blk, t, v, t.stmts[t.block[t.i]], hi)
    BY DEF AllCounted
  <2>1. v \in 1..Len(s.vals) /\ Live(blk, s, n, par, v) /\ s.i <= Len(s.block) /\ t.stmts[t.block[t.i]] = s.stmts[s.block[s.i]]
    BY <1>0, <1>2 DEF FewerLive, Steady
  <2>2. Counted(blk, s, v, s.stmts[s.block[s.i]], hi)
    BY <2>1 DEF Books, Tracked
  <2>3. t.vals[v].edges = s.vals[v].edges /\ t.vals[v].used = s.vals[v].used /\ t.stmts = s.stmts
    BY <2>1 DEF Steady, UsedSame
  <2> QED BY Zenon, <2>1, <2>2, <2>3 DEF Counted, CountedTo, Prefix
<1> QED BY <1>0, <1>2, <1>3, <1>4, BooksSteady

\* The current statement does not use a value that is still to come.
LEMMA PendingUnused ==
  ASSUME NEW blk, NEW s, Shaped(blk, s), Listed(blk, s), NEW n \in Int, n >= s.i, s.i <= Len(s.block), UsedLater(s, n),
         NEW v \in 1..Len(s.vals), EdgesOK(blk, s, v), PendingOut(s, n, v)
  PROVE  Uses(v, s.stmts[s.block[s.i]]) = 0
<1> DEFINE i == s.i
           k == s.block[i]
           e == s.vals[v].edges
           num == s.stmts[k].num
<1>1. i \in 1..Len(s.block) /\ i \in Int /\ i >= i /\ Len(s.vals) \in Nat
  <2>1. s.i \in Nat /\ s.i >= 1 /\ Len(s.block) \in Nat /\ Len(s.vals) \in Nat
    BY Basics
  <2> QED BY <2>1
<1>2. PICK x \in 1..Len(s.block) : x >= n /\ s.stmts[s.block[x]].out = v
  BY DEF PendingOut
<1>3. x >= i /\ x \in Int /\ i \in Int
  BY <1>1, <1>2
<1>4. UsedAfter(s, v, s.stmts[s.block[x]].num)
  <2>1. v # NoValue
    BY <1>1 DEF NoValue
  <2> QED BY <1>2, <2>1 DEF UsedLater
<1>5. k \in 1..Len(s.stmts) /\ s.block[x] \in 1..Len(s.stmts) /\ num \in Int /\ s.stmts[s.block[x]].num \in Int
  <2>1. StatementOK(blk, s.stmts[k], k, Len(s.vals)) /\ k \in 1..Len(s.stmts)
    BY <1>1, BlockIs
  <2>2. StatementOK(blk, s.stmts[s.block[x]], s.block[x], Len(s.vals)) /\ s.block[x] \in 1..Len(s.stmts)
    BY BlockIs
  <2> QED BY Zenon, <2>1, <2>2 DEF StatementOK
<1>6. s.stmts[s.block[x]].num >= num
  <2>1. CASE x = i
    BY <1>5, <2>1
  <2>2. CASE x > i
    <3>1. Above(blk, s, k, s.block[x])
      BY <1>1, <2>2 DEF Listed, InOrder
    <3>2. Numbered(blk, s, k) /\ Numbered(blk, s, s.block[x])
      BY <1>1, <1>3 DEF Listed, Ahead
    <3> QED BY <1>5, <3>1, <3>2 DEF Above
  <2> QED BY <1>3, <2>1, <2>2
<1>7. \A y \in 1..Len(e) : e[y] # k
  <2> SUFFICES ASSUME NEW y \in 1..Len(e), e[y] = k PROVE FALSE
    OBVIOUS
  <2>1. num > s.stmts[s.block[x]].num
    BY <1>4 DEF UsedAfter
  <2> DEFINE m == s.stmts[s.block[x]].num
             l == num
  <2>2. m \in Int /\ l \in Int /\ m >= l /\ l > m
    BY <1>5, <1>6, <2>1
  <2> HIDE DEF m, l
  <2> QED BY <2>2
<1>8. HasUses(e, k, Uses(v, s.stmts[k])) /\ Uses(v, s.stmts[k]) \in Nat
  <2> HIDE DEF i, k, e, num
  <2>1. /\ HasUses(s.vals[v].edges, s.block[i], Uses(v, s.stmts[s.block[i]]))
        /\ Uses(v, s.stmts[s.block[i]]) \in Nat
    BY <1>1, CurrentUses DEF i
  <2> QED BY <2>1 DEF k, e
<1> HIDE DEF e, k
<1>9. PICK p \in 0..Len(e) : UsesAt(e, k, Uses(v, s.stmts[k]), p)
  BY <1>8 DEF HasUses
<1>10. Len(e) \in Nat
  <2>1. e \in Seq(1..NB(blk))
    BY DEF Shaped, ValuesOK, ValueOK, e
  <2> QED BY <2>1, SeqHas
<1>11. Uses(v, s.stmts[k]) = 0
  <2> SUFFICES ASSUME Uses(v, s.stmts[k]) > 0 PROVE FALSE
    BY <1>8
  <2>1. p + 1 \in 1..Len(e) /\ e[p + 1] = k
    BY <1>8, <1>9, <1>10 DEF UsesAt
  <2> QED BY <1>7, <2>1
<1> QED BY <1>11 DEF k

Counting(s, t, st, lo, hi) ==
  \A v \in 1..Len(s.vals) : t.vals[v].used = s.vals[v].used + Operand(st, v, lo + 1, hi)
SameRegs(s, t) ==
  /\ t.alloced = s.alloced
  /\ \A v \in 1..Len(s.vals) : t.vals[v].reg = s.vals[v].reg /\ t.vals[v].spilled = s.vals[v].spilled

\* The operands up to hi are counted, those up to lo have been.
LEMMA CountedBooks ==
  ASSUME NEW blk, NEW s, NEW t, Shaped(blk, s), Steady(s, t), t.i = s.i, s.i <= Len(s.block), SameRegs(s, t),
         NEW n \in Int, n >= s.i, NEW lo \in Nat, NEW hi \in Nat, lo <= hi, hi <= Len(s.stmts[s.block[s.i]].args),
         Books(blk, s, n, NP(blk) + 1, lo), Counting(s, t, s.stmts[s.block[s.i]], lo, hi)
  PROVE  Books(blk, t, n, NP(blk) + 1, hi)
<1> DEFINE q == NP(blk) + 1
           st == s.stmts[s.block[s.i]]
<1>0. t.i \in Int /\ s.i <= t.i /\ Len(s.vals) \in Nat /\ Len(t.vals) = Len(s.vals) /\ NP(blk) \in Nat /\ q \in Int /\ q <= q /\ n <= n
      /\ t.stmts[t.block[t.i]] = st
  BY SMTT(30), Basics DEF Steady
<1>1. \A v \in 1..Len(t.vals) : Pending(blk, t, n, q, v) => Pending(blk, s, n, q, v)
  <2> HIDE DEF q
  <2> QED BY <1>0, SteadyPending
<1>2. FewerLive(blk, s, n, q, t, n, q)
  BY <1>1 DEF FewerLive, Live, SameRegs, Allocated
<1>3. AllFresh(blk, t, n, q)
  <2> SUFFICES ASSUME NEW v \in 1..Len(t.vals), Pending(blk, t, n, q, v) PROVE Fresh(t, v)
    BY DEF AllFresh
  <2>1. v \in 1..Len(s.vals) /\ Pending(blk, s, n, q, v)
    BY <1>0, <1>1
  <2>2. Fresh(s, v) /\ EdgesOK(blk, s, v)
    BY <2>1 DEF Books, Tracked, Live
  <2>3. PendingOut(s, n, v)
    BY <1>0, <2>1 DEF Pending
  <2>4. Uses(v, st) = 0
    BY <2>1, <2>2, <2>3, PendingUnused DEF Books
  <2>5. st.args \in Seq(0..Len(s.vals))
    <3>1. s.i \in 1..Len(s.block)
      BY Basics
    <3> QED BY <3>1, BlockIs DEF StatementOK
  <2>6. Operand(st, v, lo + 1, hi) = 0
    BY <2>4, <2>5, OperandUnused
  <2>7. t.vals[v].used = 0
    BY SMTT(30), <2>1, <2>2, <2>6 DEF Counting, Fresh
  <2> QED BY <2>1, <2>2, <2>7 DEF Fresh, SameRegs
<1>4. AllCounted(blk, t, n, q, hi)
  <2> SUFFICES ASSUME NEW v \in 1..Len(t.vals), Live(blk, t, n, q, v), t.i <= Len(t.block)
               PROVE  Counted(blk, t, v, t.stmts[t.block[t.i]], hi)
    BY DEF AllCounted
  <2>1. v \in 1..Len(s.vals) /\ Live(blk, s, n, q, v)
    BY <1>0, <1>2 DEF FewerLive
  <2>2. Counted(blk, s, v, st, lo)
    BY <2>1 DEF Books, Tracked
  <2>3. t.vals[v].edges = s.vals[v].edges /\ t.stmts = s.stmts
    BY <2>1 DEF Steady
  <2>4. CASE Exempt(blk, s.vals[v].edges)
    BY <2>3, <2>4 DEF Counted
  <2>5. CASE ~Exempt(blk, s.vals[v].edges)
    <3>1. PICK p \in 0..Len(s.vals[v].edges) : CountedTo(s, v, st, lo, p)
      BY <2>2, <2>5 DEF Counted
    <3>2. /\ Operand(st, v, 1, hi) = Operand(st, v, 1, lo) + Operand(st, v, lo + 1, hi)
          /\ Operand(st, v, 1, lo) \in Nat /\ Operand(st, v, lo + 1, hi) \in Nat
      BY OperandSum
    <3>3. t.vals[v].used = p + Operand(st, v, 1, hi)
      <4>1. s.vals[v].used = p + Operand(st, v, 1, lo) /\ t.vals[v].used = s.vals[v].used + Operand(st, v, lo + 1, hi)
        BY <2>1, <3>1 DEF CountedTo, Counting
      <4>2. p \in Int
        BY <3>1
      <4> HIDE DEF st
      <4> QED BY <3>2, <4>1, <4>2
    <3>4. CountedTo(t, v, st, hi, p)
      BY <2>3, <3>1, <3>3 DEF CountedTo, Prefix
    <3> QED BY <1>0, <2>3, <3>4 DEF Counted
  <2> QED BY <2>4, <2>5
<1> HIDE DEF q
<1>5. Books(blk, t, n, q, hi)
  BY <1>0, <1>2, <1>3, <1>4, BooksSteady DEF q
<1> QED BY <1>5 DEF q

\* The loop goes on to the next statement.
LEMMA AdvanceBooks ==
  ASSUME NEW blk, NEW s, NEW t, Shaped(blk, s), s.i <= Len(s.block), DOMAIN t = Fields, t.block = s.block, t.stmts = s.stmts,
         t.vals = s.vals, t.alloced = s.alloced, t.i = s.i + 1, t.slots = s.slots,
         Books(blk, s, s.i + 1, NP(blk) + 1, Len(s.stmts[s.block[s.i]].args))
  PROVE  Shaped(blk, t) /\ t.i = s.i + 1 /\ Books(blk, t, t.i, NP(blk) + 1, 0)
<1> DEFINE q == NP(blk) + 1
           n == s.i + 1
<1>1. /\ t.block = s.block /\ t.stmts = s.stmts /\ t.vals = s.vals /\ t.alloced = s.alloced /\ t.i = s.i + 1
      /\ t.slots = s.slots /\ DOMAIN t = Fields
  OBVIOUS
<1>2. s.i \in Nat /\ t.i \in Nat \ {0} /\ s.i <= t.i /\ t.i \in Int /\ n \in Int /\ n <= n /\ s.slots \in Nat
  BY SMTT(30), <1>1, Basics DEF Shaped
<1>3. ValuesOK(blk, t) /\ RegistersOK(t) /\ Agree(t)
  BY <1>1 DEF Shaped, ValuesOK, RegistersOK, Agree
<1>4. Shaped(blk, t)
  BY <1>1, <1>2, <1>3, ShapedSteady
<1>5. Steady(s, t)
  BY <1>1 DEF Steady
<1>6. \A v : Pending(blk, t, n, q, v) <=> Pending(blk, s, n, q, v)
  BY <1>1 DEF Pending, PendingOut
<1>7. \A v : Live(blk, t, n, q, v) <=> Live(blk, s, n, q, v)
  BY <1>1, <1>6 DEF Live, Allocated
<1>8. FewerLive(blk, s, n, q, t, n, q)
  BY <1>7 DEF FewerLive
<1>9. AllFresh(blk, t, n, q)
  BY <1>1, <1>6 DEF AllFresh, Books, Tracked, Fresh
<1>10. AllCounted(blk, t, n, q, 0)
  <2> SUFFICES ASSUME NEW v \in 1..Len(t.vals), Live(blk, t, n, q, v), t.i <= Len(t.block)
               PROVE  Counted(blk, t, v, t.stmts[t.block[t.i]], 0)
    BY DEF AllCounted
  <2>1. EdgesOK(blk, s, v) /\ Counted(blk, s, v, s.stmts[s.block[s.i]], Len(s.stmts[s.block[s.i]].args))
    BY <1>1, <1>7 DEF Books, Tracked
  <2>2. Counted(blk, s, v, s.stmts[s.block[s.i + 1]], 0)
    BY <1>1, <2>1, NextCounted DEF Books
  <2> QED BY Zenon, <1>1, <2>2 DEF Counted, CountedTo, Prefix
<1> HIDE DEF q, n
<1>11. Books(blk, t, n, q, 0)
  <2>1. Books(blk, s, n, q, Len(s.stmts[s.block[s.i]].args))
    BY DEF q, n
  <2> QED BY <1>2, <1>5, <1>8, <1>9, <1>10, <2>1, BooksSteady
<1> QED BY <1>1, <1>4, <1>11 DEF q, n

Incremented(s, t, st, lo, hi) ==
  /\ Steady(s, t) /\ t.i = s.i /\ t.slots = s.slots /\ SameRegs(s, t)
  /\ Counting(s, t, st, lo, hi)
  /\ \A v \in 1..Len(s.vals) : t.vals[v].float = s.vals[v].float

\* increment_operand_uses counts, and changes nothing else.
LEMMA IncrementIs ==
  ASSUME NEW blk, NEW s, NEW t, Shaped(blk, s), NEW st, NEW lo \in Nat, NEW hi \in Nat, lo <= hi,
         t = increment_operand_uses(s, st, lo + 1, hi)
  PROVE  Shaped(blk, t) /\ Incremented(s, t, st, lo, hi)
<1> DEFINE new(v) == [s.vals[v] EXCEPT !.used = @ + Operand(st, v, lo + 1, hi)]
<1>1. /\ t.block = s.block /\ t.stmts = s.stmts /\ t.alloced = s.alloced /\ t.i = s.i
      /\ t.slots = s.slots /\ DOMAIN t = Fields /\ t.vals = [v \in DOMAIN s.vals |-> new(v)]
  BY DEF Shaped, Fields, increment_operand_uses, Operand
<1>2. /\ IsSeq(s.vals) /\ Len(s.vals) \in Nat /\ DOMAIN s.vals = 1..Len(s.vals)
      /\ \A v \in 1..Len(s.vals) : ValueOK(blk, s.vals[v])
  BY SeqIs DEF Shaped, ValuesOK
<1>3. \A v \in 1..Len(s.vals) : t.vals[v] = new(v)
  BY <1>1, <1>2
<1>4. IsSeq(t.vals) /\ Len(t.vals) = Len(s.vals)
  <2>1. t.vals = [v \in 1..Len(s.vals) |-> t.vals[v]]
    BY <1>1, <1>2, <1>3
  <2> QED BY <1>2, <2>1, FunctionSeq
<1>5. ASSUME NEW v \in 1..Len(s.vals)
      PROVE  /\ ValueOK(blk, t.vals[v]) /\ t.vals[v].used = s.vals[v].used + Operand(st, v, lo + 1, hi)
             /\ t.vals[v].edges = s.vals[v].edges /\ t.vals[v].reg = s.vals[v].reg
             /\ t.vals[v].spilled = s.vals[v].spilled /\ t.vals[v].float = s.vals[v].float
  <2>1. Operand(st, v, lo + 1, hi) \in Nat
    BY OperandSum
  <2>2. ValueOK(blk, s.vals[v]) /\ t.vals[v] = new(v)
    BY <1>2, <1>3
  <2> DEFINE old == s.vals[v]
             val == t.vals[v]
             m == Operand(st, v, lo + 1, hi)
  <2>3. val = [old EXCEPT !.used = @ + m] /\ m \in Nat /\ ValueOK(blk, old)
    BY <2>1, <2>2
  <2> HIDE DEF old, val, m
  <2>4. /\ ValueOK(blk, val) /\ val.used = old.used + m /\ val.edges = old.edges /\ val.reg = old.reg
        /\ val.spilled = old.spilled /\ val.float = old.float
    BY <2>3 DEF ValueOK, ValueFields
  <2> QED BY <2>4 DEF old, val, m
<1> HIDE DEF new
<1>6. ValuesOK(blk, t)
  BY <1>4, <1>5 DEF ValuesOK, Shaped
<1>7. RegistersOK(t)
  BY <1>1, <1>4 DEF Shaped, RegistersOK
<1>8. Agree(t)
  <2>1. \A r \in Reg : s.alloced[r] > 0 => s.alloced[r] \in 1..Len(s.vals)
    BY SMTT(30), <1>2 DEF Shaped, RegistersOK, None, Reserved
  <2>2. \A r \in Reg : s.alloced[r] > 0 => s.vals[s.alloced[r]].reg = r /\ s.vals[s.alloced[r]].spilled = None
    BY DEF Shaped, Agree
  <2> QED BY SMTT(30), <1>1, <1>5, <2>1, <2>2 DEF Agree
<1>9. Shaped(blk, t)
  <2>1. t.i \in Nat \ {0} /\ t.slots \in Nat
    BY <1>1 DEF Shaped
  <2> QED BY <1>1, <1>4, <1>6, <1>7, <1>8, <2>1, ShapedSteady
<1> QED BY <1>1, <1>4, <1>5, <1>9 DEF Incremented, Steady, SameRegs, Counting

\* A register holds a value, nothing or is reserved.
LEMMA HeldIs ==
  ASSUME NEW blk, NEW s, Shaped(blk, s), NEW r \in Reg
  PROVE  /\ s.alloced[r] \in {None, Reserved} \cup 1..Len(s.vals) /\ s.alloced[r] \in Int
         /\ s.alloced[r] > 0 <=> s.alloced[r] \in 1..Len(s.vals)
         /\ s.alloced[r] > 0 => s.vals[s.alloced[r]].reg = r /\ s.vals[s.alloced[r]].spilled = None
         /\ DOMAIN s.alloced = Reg
<1>1. s.alloced \in [Reg -> {None, Reserved} \cup 1..Len(s.vals)] /\ Agree(s) /\ Len(s.vals) \in Nat
  BY Basics DEF Shaped, RegistersOK
<1>2. s.alloced[r] \in {None, Reserved} \cup 1..Len(s.vals)
  BY <1>1
<1>3. s.alloced[r] \in Int /\ (s.alloced[r] > 0 <=> s.alloced[r] \in 1..Len(s.vals))
  BY <1>1, <1>2 DEF None, Reserved
<1>4. s.alloced[r] > 0 => s.vals[s.alloced[r]].reg = r /\ s.vals[s.alloced[r]].spilled = None
  BY <1>1 DEF Agree
<1>5. DOMAIN s.alloced = Reg
  BY <1>1
<1> QED BY <1>2, <1>3, <1>4, <1>5

BooksToo(blk, s, t) == \A n, par \in Int : \A hi : Books(blk, s, n, par, hi) => Books(blk, t, n, par, hi)

\* The registers are given back that expire_unused_regs, or a spill, gives back.
LEMMA DropBooks ==
  ASSUME NEW blk, NEW s, NEW t, Shaped(blk, s), DOMAIN t = Fields, t.block = s.block, t.stmts = s.stmts, t.vals = s.vals,
         t.i = s.i, t.slots = s.slots, t.alloced \in [Reg -> {None} \cup Elements(s.alloced)],
         \A r \in Reg : t.alloced[r] # s.alloced[r] => t.alloced[r] = None /\ s.alloced[r] # Reserved
  PROVE  /\ Shaped(blk, t)
         /\ BooksToo(blk, s, t)
<1>1. \A r \in Reg : t.alloced[r] \in {None, s.alloced[r]}
  OBVIOUS
<1>2. RegistersOK(t)
  <2>1. t.alloced \in [Reg -> {None, Reserved} \cup 1..Len(t.vals)]
    BY <1>1, HeldIs DEF None
  <2>2. \A r \in ReservedRegs : t.alloced[r] = Reserved
    <3>1. ReservedRegs \subseteq Reg
      BY DEF ReservedRegs, Reg, RSP, RBP, R11, XMM5
    <3> QED BY <3>1 DEF Shaped, RegistersOK
  <2> QED BY <2>1, <2>2 DEF RegistersOK
<1>3. Agree(t)
  BY <1>1 DEF Agree, Shaped, None
<1>4. Shaped(blk, t)
  BY <1>2, <1>3, ShapedSteady DEF Shaped, ValuesOK
<1>5. ASSUME NEW n \in Int, NEW par \in Int, NEW hi, Books(blk, s, n, par, hi) PROVE Books(blk, t, n, par, hi)
  <2>1. Steady(s, t) /\ UsedSame(s, t) /\ PendingSame(blk, s, t, n, par)
    BY DEF Steady, UsedSame, PendingSame
  <2>2. HeldLive(blk, s, n, par, t, n, par)
    <3> SUFFICES ASSUME NEW r \in Reg, t.alloced[r] > 0
                 PROVE  Live(blk, s, n, par, t.alloced[r]) /\ ~Pending(blk, t, n, par, t.alloced[r])
      BY DEF HeldLive
    <3>1. t.alloced[r] = s.alloced[r] /\ s.alloced[r] \in 1..Len(s.vals)
      BY <1>1, HeldIs DEF None
    <3>2. ~Fresh(s, s.alloced[r])
      BY DEF Fresh
    <3>3. ~Pending(blk, s, n, par, s.alloced[r])
      BY <1>5, <3>1, <3>2 DEF Books, Tracked
    <3>4. Pending(blk, t, n, par, s.alloced[r]) => Pending(blk, s, n, par, s.alloced[r])
      BY DEF Pending, PendingOut
    <3> QED BY <3>1, <3>3, <3>4 DEF Live, Allocated
  <2>3. n <= n /\ par <= par
    OBVIOUS
  <2> QED BY <1>5, <2>1, <2>2, <2>3, MovedBooks
<1> QED BY <1>4, <1>5 DEF BooksToo

\* The registers of a kind are none of the reserved ones.
LEMMA UsableIs ==
  ASSUME NEW float, NEW r \in Usable(float)
  PROVE  r \in Reg /\ r \notin ReservedRegs /\ r \in Nat
BY DEF Usable, Reg, ReservedRegs, RSP, RBP, R11, XMM5

Given(s, t, v, r) ==
  /\ Steady(s, t) /\ UsedSame(s, t) /\ t.i = s.i /\ t.slots = s.slots
  /\ t.alloced = [s.alloced EXCEPT ![r] = v]
  /\ \A w \in 1..Len(s.vals) : t.vals[w].float = s.vals[w].float /\ t.vals[w].spilled = s.vals[w].spilled
  /\ \A w \in 1..Len(s.vals) : t.vals[w].reg = IF w = v THEN r ELSE s.vals[w].reg

\* Give: a value without a register gets one.
LEMMA GiveShaped ==
  ASSUME NEW blk, NEW s, NEW t, Shaped(blk, s), NEW v \in 1..Len(s.vals), NEW r \in Usable(s.vals[v].float),
         ~Allocated(s, v), s.vals[v].spilled = None,
         t = Give(s, v, r)
  PROVE  Shaped(blk, t) /\ Given(s, t, v, r)
<1> DEFINE new == [s.vals[v] EXCEPT !.reg = r]
<1>1. /\ t.block = s.block /\ t.stmts = s.stmts /\ t.i = s.i /\ t.slots = s.slots /\ DOMAIN t = Fields
      /\ t.alloced = [s.alloced EXCEPT ![r] = v] /\ t.vals = [s.vals EXCEPT ![v] = new]
  BY DEF Shaped, Fields, Give
<1>2. /\ IsSeq(s.vals) /\ Len(s.vals) \in Nat /\ DOMAIN s.vals = 1..Len(s.vals)
      /\ \A w \in 1..Len(s.vals) : ValueOK(blk, s.vals[w])
  BY SeqIs DEF Shaped, ValuesOK
<1>3. \A w \in 1..Len(s.vals) : t.vals[w] = IF w = v THEN new ELSE s.vals[w]
  BY <1>1, <1>2
<1>4. IsSeq(t.vals) /\ Len(t.vals) = Len(s.vals)
  <2>1. t.vals = [w \in 1..Len(s.vals) |-> t.vals[w]]
    BY <1>1, <1>2, <1>3
  <2> QED BY <1>2, <2>1, FunctionSeq
<1>5. /\ ValueOK(blk, new) /\ new.used = s.vals[v].used /\ new.edges = s.vals[v].edges /\ new.reg = r
      /\ new.spilled = s.vals[v].spilled /\ new.float = s.vals[v].float
  <2>1. ValueOK(blk, s.vals[v])
    BY <1>2
  <2> QED BY <2>1 DEF ValueOK, ValueFields
<1> HIDE DEF new
<1>6. ASSUME NEW w \in 1..Len(s.vals)
      PROVE  /\ ValueOK(blk, t.vals[w]) /\ t.vals[w].used = s.vals[w].used
             /\ t.vals[w].edges = s.vals[w].edges /\ t.vals[w].reg = IF w = v THEN r ELSE s.vals[w].reg
             /\ t.vals[w].spilled = s.vals[w].spilled /\ t.vals[w].float = s.vals[w].float
  BY <1>2, <1>3, <1>5
<1>7. ValuesOK(blk, t)
  BY <1>4, <1>6 DEF ValuesOK, Shaped
<1>8. r \in Reg /\ r \notin ReservedRegs
  BY UsableIs
<1>9. DOMAIN s.alloced = Reg /\ \A x \in Reg : t.alloced[x] = IF x = r THEN v ELSE s.alloced[x]
  BY <1>1, <1>8, HeldIs
<1>10. RegistersOK(t)
  <2>1. \A x \in Reg : t.alloced[x] \in {None, Reserved} \cup 1..Len(t.vals)
    BY <1>4, <1>9, HeldIs
  <2>2. t.alloced \in [Reg -> {None, Reserved} \cup 1..Len(t.vals)]
    BY <1>1, <1>9, <2>1
  <2>3. ReservedRegs \subseteq Reg
    BY DEF ReservedRegs, Reg, RSP, RBP, R11, XMM5
  <2>4. \A x \in ReservedRegs : t.alloced[x] = Reserved
    BY <1>8, <1>9, <2>3 DEF Shaped, RegistersOK
  <2> QED BY <2>2, <2>4 DEF RegistersOK
<1>11. Agree(t)
  <2> SUFFICES ASSUME NEW x \in Reg, t.alloced[x] > 0
               PROVE  t.vals[t.alloced[x]].reg = x /\ t.vals[t.alloced[x]].spilled = None
    BY DEF Agree
  <2>1. CASE x = r
    BY <1>6, <1>9, <2>1
  <2>2. CASE x # r
    <3>1. t.alloced[x] = s.alloced[x] /\ s.alloced[x] \in 1..Len(s.vals) /\ s.alloced[x] # v
      BY <1>9, <2>2, HeldIs DEF Allocated
    <3>2. s.vals[s.alloced[x]].reg = x /\ s.vals[s.alloced[x]].spilled = None
      BY <3>1, HeldIs
    <3> QED BY <1>6, <3>1, <3>2
  <2> QED BY <2>1, <2>2
<1>12. Shaped(blk, t)
  <2>1. t.i \in Nat \ {0} /\ t.slots \in Nat
    BY <1>1 DEF Shaped
  <2> QED BY <1>1, <1>4, <1>7, <1>10, <1>11, <2>1, ShapedSteady
<1> QED BY <1>1, <1>4, <1>6, <1>12 DEF Given, Steady, UsedSame

\* The books after a value that has waited for a register, or had one, gets one.
LEMMA GiveBooks ==
  ASSUME NEW blk, NEW s, NEW t, Shaped(blk, s), NEW v \in 1..Len(s.vals), NEW r \in Usable(s.vals[v].float),
         ~Allocated(s, v), s.vals[v].spilled = None, t = Give(s, v, r),
         NEW n \in Int, NEW m \in Int, n <= m, NEW par \in Int, NEW q \in Int, par <= q, NEW hi,
         Books(blk, s, n, par, hi), Live(blk, s, n, par, v), ~Pending(blk, s, m, q, v)
  PROVE  Books(blk, t, m, q, hi)
<1>0. Shaped(blk, t) /\ Given(s, t, v, r)
  BY GiveShaped
<1>1. /\ Shaped(blk, t) /\ Steady(s, t) /\ UsedSame(s, t) /\ t.i = s.i
      /\ t.alloced = [s.alloced EXCEPT ![r] = v]
      /\ \A w \in 1..Len(s.vals) : t.vals[w].spilled = s.vals[w].spilled
      /\ \A w \in 1..Len(s.vals) : t.vals[w].reg = IF w = v THEN r ELSE s.vals[w].reg
  BY <1>0 DEF Given
<1>2. ASSUME NEW w, Pending(blk, t, m, q, w) PROVE Pending(blk, s, m, q, w)
  BY <1>1, <1>2 DEF Pending, PendingOut, Steady
<1>3. r \in Reg /\ DOMAIN s.alloced = Reg /\ Len(t.vals) = Len(s.vals)
  BY <1>1, UsableIs, HeldIs DEF Steady
<1>4. PendingSame(blk, s, t, m, q)
  BY <1>1, <1>2, <1>3 DEF PendingSame
<1>5. HeldLive(blk, s, n, par, t, m, q)
  <2> SUFFICES ASSUME NEW x \in Reg, t.alloced[x] > 0
               PROVE  Live(blk, s, n, par, t.alloced[x]) /\ ~Pending(blk, t, m, q, t.alloced[x])
    BY DEF HeldLive
  <2>1. CASE x = r
    BY <1>1, <1>2, <1>3, <2>1
  <2>2. CASE x # r
    <3>1. t.alloced[x] = s.alloced[x] /\ s.alloced[x] \in 1..Len(s.vals) /\ s.alloced[x] \in Int
      BY <1>1, <1>3, <2>2, HeldIs
    <3>2. ~Pending(blk, s, n, par, s.alloced[x])
      BY <3>1 DEF Books, Tracked, Fresh
    <3>3. ~Pending(blk, t, m, q, s.alloced[x])
      BY <1>1, <3>1, <3>2, SteadyPending
    <3> QED BY <3>1, <3>3 DEF Live, Allocated
  <2> QED BY <2>1, <2>2
<1> HIDE DEF Give
<1> QED BY <1>1, <1>4, <1>5, MovedBooks

\* The current statement.
LEMMA CurrentIs ==
  ASSUME NEW blk, NEW s, Shaped(blk, s), s.i <= Len(s.block), NEW st, st = s.stmts[s.block[s.i]]
  PROVE  /\ s.i \in 1..Len(s.block) /\ s.block[s.i] \in 1..Len(s.stmts)
         /\ StatementOK(blk, st, s.block[s.i], Len(s.vals))
         /\ st.args \in Seq(0..Len(s.vals)) /\ Len(st.args) \in Nat /\ st.out \in 0..Len(s.vals)
         /\ Early(st) \in Nat /\ Early(st) <= Len(st.args)
<1>1. s.i \in 1..Len(s.block)
  <2>1. s.i \in Nat /\ s.i >= 1 /\ Len(s.block) \in Nat
    BY Basics
  <2> QED BY <2>1
<1>2. s.block[s.i] \in 1..Len(s.stmts) /\ StatementOK(blk, st, s.block[s.i], Len(s.vals))
  BY <1>1, BlockIs
<1>3. st.args \in Seq(0..Len(s.vals)) /\ Len(st.args) \in 1..3 /\ st.out \in 0..Len(s.vals)
  BY <1>2 DEF StatementOK
<1>4. Len(st.args) \in Nat /\ Len(st.args) >= 1
  <2>1. Len(st.args) \in Nat
    BY <1>3, SeqHas
  <2>2. Len(st.args) \in 1..3
    BY <1>3
  <2>3. 1 <= Len(st.args)
    <3> DEFINE n == Len(st.args)
    <3>1. n \in 1..3
      BY <2>2
    <3> HIDE DEF n
    <3>2. 1 <= n
      BY <3>1
    <3> QED BY <3>2 DEF n
  <2> QED BY <2>1, <2>3
<1>5. Early(st) \in Nat /\ Early(st) <= Len(st.args)
  BY <1>4 DEF Early
<1> QED BY <1>1, <1>2, <1>3, <1>4, <1>5

\* A statement without an output: the operands that are not counted are those of values
\* that are exempt.
LEMMA NoOutputBooks ==
  ASSUME NEW blk, NEW s, Shaped(blk, s), s.i <= Len(s.block), NEW st, st = s.stmts[s.block[s.i]], st.out = NoValue,
         Books(blk, s, s.i, NP(blk) + 1, Early(st))
  PROVE  Books(blk, s, s.i + 1, NP(blk) + 1, Len(st.args))
<1> DEFINE q == NP(blk) + 1
           k == s.block[s.i]
<1>0. /\ s.i \in 1..Len(s.block) /\ k \in 1..Len(s.stmts) /\ StatementOK(blk, st, k, Len(s.vals))
      /\ st.args \in Seq(0..Len(s.vals)) /\ Len(st.args) \in Nat /\ Early(st) \in Nat /\ Early(st) <= Len(st.args)
  BY CurrentIs
<1>1. s.i \in Int /\ s.i + 1 \in Int /\ s.i <= s.i + 1 /\ s.i <= s.i /\ NB(blk) \in Nat /\ NP(blk) \in Nat /\ q \in Int
      /\ Len(s.block) \in Nat
  BY Basics
<1>2. Steady(s, s)
  BY DEF Steady
<1>3. k \in 1..NB(blk) /\ ~HasOutput(blk.body[k].op)
  <2>1. Numbered(blk, s, k)
    BY <1>0, <1>1 DEF Books, Listed, Ahead
  <2>2. k <= NB(blk)
    BY SMTT(30), <1>0, <1>1, <2>1 DEF Numbered, StatementOK
  <2>3. k \in 1..NB(blk)
    BY <1>0, <1>1, <2>2
  <2> QED BY SMTT(30), <1>0, <1>1, <2>2, <2>3 DEF StatementOK, NoValue
<1>4. \A v \in 1..Len(s.vals) : Pending(blk, s, s.i + 1, q, v) => Pending(blk, s, s.i, q, v)
  BY <1>1 DEF Pending, PendingOut
<1>5. FewerLive(blk, s, s.i, q, s, s.i + 1, q)
  BY <1>4 DEF FewerLive, Live
<1>6. AllFresh(blk, s, s.i + 1, q)
  BY <1>4 DEF AllFresh, Books, Tracked
<1>7. AllCounted(blk, s, s.i + 1, q, Len(st.args))
  <2> SUFFICES ASSUME NEW v \in 1..Len(s.vals), Live(blk, s, s.i + 1, q, v)
               PROVE  Counted(blk, s, v, st, Len(st.args))
    BY DEF AllCounted
  <2> DEFINE e == s.vals[v].edges
  <2>1. Live(blk, s, s.i, q, v)
    BY <1>5 DEF FewerLive
  <2>2. EdgesOK(blk, s, v) /\ Counted(blk, s, v, st, Early(st))
    BY <2>1 DEF Books, Tracked
  <2>3. CASE Exempt(blk, e)
    BY <2>3 DEF Counted
  <2>4. CASE ~Exempt(blk, e)
    <3>1. PICK p \in 0..Len(e) : CountedTo(s, v, st, Early(st), p)
      BY <2>2, <2>4 DEF Counted
    <3>2. HasUses(e, k, Uses(v, st)) /\ Uses(v, st) \in Nat
      <4>1. Uses(v, st) \in Nat
        BY <1>0, UsesNone
      <4> QED BY <1>3, <2>2, <4>1 DEF EdgesOK
    <3>3. Len(e) \in Nat
      <4>1. e \in Seq(1..NB(blk))
        BY DEF Shaped, ValuesOK, ValueOK
      <4> QED BY <4>1, SeqHas
    <3>4. \A x \in 1..Len(e) : e[x] # k
      BY <1>3, <2>4 DEF Exempt
    <3>5. Uses(v, st) = 0
      <4> SUFFICES ASSUME Uses(v, st) > 0 PROVE FALSE
        BY <3>2
      <4> HIDE DEF e, k
      <4>1. PICK y \in 0..Len(e) : UsesAt(e, k, Uses(v, st), y)
        BY <3>2 DEF HasUses
      <4>2. y + 1 \in 1..Len(e) /\ e[y + 1] = k
        BY <3>2, <3>3, <4>1 DEF UsesAt
      <4> QED BY <3>4, <4>2
    <3>6. Operand(st, v, 1, Early(st)) = 0 /\ Operand(st, v, 1, Len(st.args)) = 0
      <4> DEFINE m == Early(st)
                 n == Len(st.args)
      <4>1. st.args \in Seq(0..Len(s.vals)) /\ m \in Nat /\ n \in Nat /\ m <= Len(st.args) /\ n <= Len(st.args)
        BY <1>0
      <4> HIDE DEF m, n
      <4>2. Operand(st, v, 1, m) = 0
        BY <3>5, <4>1, OperandZero
      <4>3. Operand(st, v, 1, n) = 0
        BY <3>5, <4>1, OperandZero
      <4> QED BY <4>2, <4>3 DEF m, n
    <3>7. CountedTo(s, v, st, Len(st.args), p)
      BY <3>1, <3>6 DEF CountedTo
    <3> QED BY <3>7 DEF Counted
  <2> QED BY <2>3, <2>4
<1> HIDE DEF q
<1>8. Books(blk, s, s.i, q, Early(st))
  BY DEF q
<1>9. Books(blk, s, s.i + 1, q, Len(st.args))
  BY <1>1, <1>2, <1>5, <1>6, <1>7, <1>8, BooksSteady
<1> QED BY <1>9 DEF q

PlacedIn(s, st, r, t) == t = increment_operand_uses_late(Give(s, st.out, r), st)

\* The output of the current statement gets a register: it was waiting for one, and is not
\* the output of another statement.
LEMMA PlaceBooks ==
  ASSUME NEW blk, NEW s, Shaped(blk, s), s.i <= Len(s.block), NEW st, st = s.stmts[s.block[s.i]], st.out # NoValue,
         NEW r \in Usable(s.vals[st.out].float), Books(blk, s, s.i, NP(blk) + 1, Early(st)), NEW t, PlacedIn(s, st, r, t)
  PROVE  /\ Shaped(blk, t) /\ t.i = s.i /\ t.block = s.block /\ t.stmts = s.stmts
         /\ Books(blk, t, t.i + 1, NP(blk) + 1, Len(st.args))
<1>0. /\ s.i \in 1..Len(s.block) /\ StatementOK(blk, st, s.block[s.i], Len(s.vals)) /\ s.block[s.i] \in 1..Len(s.stmts)
      /\ st.args \in Seq(0..Len(s.vals)) /\ Len(st.args) \in Nat /\ Early(st) \in Nat /\ Early(st) <= Len(st.args)
      /\ st.out \in 0..Len(s.vals)
  BY Zenon, CurrentIs
<1> DEFINE q == NP(blk) + 1
           v == st.out
           u == Give(s, v, r)
           n == s.i
           m == s.i + 1
<1>1. /\ n \in Int /\ m \in Int /\ n <= m /\ n >= s.i /\ m >= s.i /\ q \in Int /\ q <= q /\ NP(blk) \in Nat /\ Len(s.vals) \in Nat
      /\ Len(s.block) \in Nat
  <2>1. s.i \in Nat /\ NP(blk) \in Nat /\ Len(s.vals) \in Nat /\ Len(s.block) \in Nat
    BY Zenon, Basics
  <2> QED BY <2>1
<1>2. v \in 1..Len(s.vals)
  <2>1. Len(s.vals) \in Int
    BY <1>1
  <2> QED BY Zenon, <1>0, <2>1, NotZero
<1>3. Pending(blk, s, n, q, v)
  BY Zenon, <1>0, <1>1 DEF Pending, PendingOut
<1>4. Fresh(s, v) /\ Live(blk, s, n, q, v)
  BY Zenon, <1>2, <1>3 DEF Books, Tracked, Live
<1>5. ~Pending(blk, s, m, q, v)
  <2>1. v > NP(blk) /\ \A l \in 1..Len(s.stmts) : s.stmts[l].out = v => l = s.block[s.i]
    BY Zenon, <1>0 DEF Books, Listed, OutsDistinct
  <2>2. ASSUME NEW x \in 1..Len(s.block), x >= m, s.stmts[s.block[x]].out = v PROVE FALSE
    <3>1. s.block[x] \in 1..Len(s.stmts)
      BY BlockIs
    <3>2. s.block[x] = s.block[s.i]
      BY Zenon, <2>1, <2>2, <3>1
    <3>3. s.i < x
      BY <1>1, <2>2
    <3>4. Above(blk, s, s.block[s.i], s.block[x])
      BY Zenon, <1>0, <3>3 DEF Books, Listed, InOrder
    <3> QED BY <3>2, <3>4 DEF Above
  <2>3. ~PendingOut(s, m, v)
    BY Zenon, <2>2 DEF PendingOut
  <2>4. ~(v >= q /\ v <= NP(blk))
    <3>1. v \in Int
      BY <1>2
    <3> HIDE DEF v
    <3> QED BY <1>1, <3>1
  <2> QED BY <2>3, <2>4 DEF Pending
<1>6. ~Allocated(s, v) /\ s.vals[v].spilled = None
  BY Zenon, <1>4 DEF Fresh, Allocated
<1>7. t = increment_operand_uses(u, st, Early(st) + 1, Len(st.args))
  BY Zenon DEF PlacedIn, increment_operand_uses_late
<1>8. Books(blk, s, n, q, Early(st))
  OBVIOUS
<1> HIDE DEF q, n, m, v
<1>9. Books(blk, u, m, q, Early(st)) /\ Shaped(blk, u) /\ Given(s, u, v, r)
  <2>1. r \in Usable(s.vals[v].float) /\ u = Give(s, v, r)
    BY Zenon DEF v
  <2> HIDE DEF u
  <2>2. Shaped(blk, u) /\ Given(s, u, v, r)
    BY Zenon, <1>2, <1>6, <2>1, GiveShaped
  <2> QED BY Zenon, <1>1, <1>2, <1>4, <1>5, <1>6, <1>8, <2>1, <2>2, GiveBooks
<1>10. u.block = s.block /\ u.stmts = s.stmts /\ u.i = s.i
  BY Zenon, <1>9 DEF Given, Steady
<1> HIDE DEF u
<1>11. Shaped(blk, t) /\ Incremented(u, t, st, Early(st), Len(st.args))
  BY Zenon, <1>0, <1>7, <1>9, IncrementIs
<1>12. Steady(u, t) /\ t.i = u.i /\ SameRegs(u, t) /\ Counting(u, t, st, Early(st), Len(st.args))
  BY Zenon, <1>11 DEF Incremented
<1>13. Books(blk, t, m, q, Len(st.args))
  <2>0. Len(st.args) <= Len(st.args)
    <3>1. Len(st.args) \in Nat
      BY Zenon, <1>0
    <3> QED BY <3>1
  <2>1. u.i <= Len(u.block) /\ u.stmts[u.block[u.i]] = st /\ m >= u.i /\ Len(st.args) <= Len(u.stmts[u.block[u.i]].args)
    BY <1>1, <1>10, <2>0
  <2>2. Books(blk, u, m, NP(blk) + 1, Early(st)) /\ Counting(u, t, u.stmts[u.block[u.i]], Early(st), Len(st.args))
    BY Zenon, <1>9, <1>12, <2>1 DEF q
  <2>3. Books(blk, t, m, NP(blk) + 1, Len(st.args))
    BY Zenon, <1>0, <1>1, <1>9, <1>12, <2>1, <2>2, CountedBooks
  <2> QED BY Zenon, <2>3 DEF q
<1> QED BY Zenon, <1>10, <1>11, <1>12, <1>13 DEF Steady, m, q

\* expire_unused_regs only takes registers away from values.
LEMMA ExpireBooks ==
  ASSUME NEW blk, NEW s, Shaped(blk, s), NEW t, t = expire_unused_regs(s)
  PROVE  /\ Shaped(blk, t) /\ t.i = s.i /\ t.block = s.block /\ t.stmts = s.stmts /\ t.vals = s.vals /\ t.slots = s.slots
         /\ BooksToo(blk, s, t)
<1> DEFINE A == [r \in Reg |->
             IF ~DebugSpills /\ r \in Bank(FALSE) \cup Bank(TRUE) /\ s.alloced[r] > 0 /\ UsedUp(s, s.alloced[r])
             THEN None ELSE s.alloced[r]]
<1>1. /\ DOMAIN t = Fields /\ t.block = s.block /\ t.stmts = s.stmts /\ t.vals = s.vals /\ t.i = s.i /\ t.slots = s.slots
      /\ t.alloced = A
  BY DEF expire_unused_regs, Shaped, Fields
<1>2. DOMAIN s.alloced = Reg
  BY DEF Shaped, RegistersOK
<1>3. ASSUME NEW r \in Reg
      PROVE  /\ A[r] \in {None} \cup Elements(s.alloced)
             /\ A[r] # s.alloced[r] => A[r] = None /\ s.alloced[r] # Reserved
  <2>1. s.alloced[r] \in Elements(s.alloced)
    BY <1>2 DEF Elements
  <2>2. A[r] \in {None, s.alloced[r]}
    OBVIOUS
  <2>3. A[r] # s.alloced[r] => s.alloced[r] > 0
    OBVIOUS
  <2>4. s.alloced[r] > 0 => s.alloced[r] # Reserved
    BY DEF Reserved
  <2> HIDE DEF A
  <2> QED BY <2>1, <2>2, <2>3, <2>4
<1>4. A \in [Reg -> {None} \cup Elements(s.alloced)]
  BY Zenon, <1>3
<1> HIDE DEF A
<1> HIDE DEF expire_unused_regs
<1> QED BY <1>1, <1>3, <1>4, DropBooks

\* The first operand, or all those of a call, is counted at the start of a turn.
LEMMA EarlyBooks ==
  ASSUME NEW blk, NEW s, Shaped(blk, s), s.i <= Len(s.block), NEW st, st = s.stmts[s.block[s.i]],
         NEW u, u = increment_operand_uses(s, st, 1, Early(st))
  PROVE  /\ Shaped(blk, u) /\ u.i = s.i /\ u.block = s.block /\ u.stmts = s.stmts
         /\ Books(blk, s, s.i, NP(blk) + 1, 0) => Books(blk, u, s.i, NP(blk) + 1, Early(st))
<1> DEFINE z == 0
           m == Early(st)
<1>0. m \in Nat /\ m <= Len(st.args)
  BY CurrentIs
<1>1. z \in Nat /\ z + 1 = 1 /\ z <= m /\ s.i \in Int /\ s.i >= s.i
  BY <1>0, Basics
<1> HIDE DEF z, m
<1>2. u = increment_operand_uses(s, st, z + 1, m)
  BY <1>1 DEF m
<1>3. Shaped(blk, u) /\ Incremented(s, u, st, z, m)
  BY <1>0, <1>1, <1>2, IncrementIs
<1>4. Steady(s, u) /\ u.i = s.i /\ SameRegs(s, u) /\ Counting(s, u, st, z, m)
  BY Zenon, <1>3 DEF Incremented
<1>5. ASSUME Books(blk, s, s.i, NP(blk) + 1, 0) PROVE Books(blk, u, s.i, NP(blk) + 1, m)
  <2>1. Books(blk, s, s.i, NP(blk) + 1, z) /\ m <= Len(s.stmts[s.block[s.i]].args) /\ Counting(s, u, s.stmts[s.block[s.i]], z, m)
    BY <1>0, <1>4, <1>5 DEF z
  <2> QED BY Zenon, <1>0, <1>1, <1>4, <2>1, CountedBooks
<1> QED BY Zenon, <1>3, <1>4, <1>5 DEF m, Steady

\* The start of a turn.
LEMMA TickBooks ==
  ASSUME NEW blk, NEW u, NEW t, Shaped(blk, u), u.i \in Int, NP(blk) \in Int, t = expire_unused_regs(u), NEW hi
  PROVE  /\ Shaped(blk, t) /\ t.i = u.i /\ t.block = u.block /\ t.stmts = u.stmts
         /\ Books(blk, u, u.i, NP(blk) + 1, hi) => Books(blk, t, t.i, NP(blk) + 1, hi)
<1>1. /\ Shaped(blk, t) /\ t.i = u.i /\ t.block = u.block /\ t.stmts = u.stmts
      /\ BooksToo(blk, u, t)
  BY ExpireBooks
<1> QED BY <1>1 DEF BooksToo

-----------------------------------------------------------------------------
(* The uses before and from a statement on *)

Filters(seq, K, f) ==
  f = [n \in 0..Len(seq) |->
         IF n = 0 THEN <<>> ELSE IF seq[n] \in K THEN Append(f[n - 1], seq[n]) ELSE f[n - 1]]

\* Those is what any function with its recursion says.
LEMMA ThoseIs ==
  ASSUME NEW S, NEW seq \in Seq(S), NEW K, NEW g, Filters(seq, K, g)
  PROVE  Those(seq, K) = g[Len(seq)]
<1> DEFINE f == CHOOSE h : Filters(seq, K, h)
           N == Len(seq)
           D == {n \in 0..N : f[n] # g[n]}
<1>1. Those(seq, K) = f[N]
  BY DEF Those, Filters
<1>2. Filters(seq, K, f)
  OBVIOUS
<1>3. N \in Nat
  BY SeqHas
<1> HIDE DEF f
<1>4. ASSUME NEW n \in 0..N, n # 0, f[n - 1] = g[n - 1] PROVE f[n] = g[n]
  <2>1. f[n] = IF seq[n] \in K THEN Append(f[n - 1], seq[n]) ELSE f[n - 1]
    BY <1>2, <1>4 DEF Filters
  <2>2. g[n] = IF seq[n] \in K THEN Append(g[n - 1], seq[n]) ELSE g[n - 1]
    BY <1>4 DEF Filters
  <2> QED BY <1>4, <2>1, <2>2
<1>5. f[0] = g[0]
  <2>1. 0 \in 0..N
    BY <1>3
  <2> QED BY <1>2, <2>1 DEF Filters
<1>6. D = {}
  <2> SUFFICES ASSUME D # {} PROVE FALSE
    OBVIOUS
  <2>1. D \subseteq Nat
    BY <1>3
  <2>2. PICK x \in D : \A y \in D : x <= y
    <3> HIDE DEF D
    <3> QED BY <2>1, LeastIs
  <2>3. x \in 0..N /\ f[x] # g[x]
    OBVIOUS
  <2>4. x # 0
    BY <1>5, <2>3
  <2>5. x - 1 \in 0..N /\ ~(x <= x - 1)
    BY <1>3, <2>3, <2>4
  <2>6. f[x - 1] = g[x - 1]
    BY <2>2, <2>5
  <2> QED BY <1>4, <2>3, <2>4, <2>6
<1>7. f[N] = g[N]
  BY <1>3, <1>6
<1> QED BY <1>1, <1>7

\* The first p elements, if those are the ones in K.
LEMMA ThoseFirst ==
  ASSUME NEW S, NEW seq \in Seq(S), NEW K, NEW p \in 0..Len(seq), \A x \in 1..Len(seq) : seq[x] \in K <=> x <= p
  PROVE  Those(seq, K) = SubSeq(seq, 1, p)
<1> DEFINE N == Len(seq)
           g == [n \in 0..N |-> SubSeq(seq, 1, IF n <= p THEN n ELSE p)]
<1>1. N \in Nat /\ p \in Nat /\ p <= N
  BY SeqHas
<1>2. ASSUME NEW n \in 0..N
      PROVE  g[n] = IF n = 0 THEN <<>> ELSE IF seq[n] \in K THEN Append(g[n - 1], seq[n]) ELSE g[n - 1]
  <2>1. CASE n = 0
    <3>1. g[n] = SubSeq(seq, 1, 0)
      BY <1>1, <2>1
    <3> QED BY <2>1, <3>1
  <2>2. CASE n # 0 /\ n <= p
    <3>1. n \in 1..N /\ n - 1 \in 0..N /\ n - 1 <= p /\ seq[n] \in K
      BY <1>1, <2>2
    <3>2. g[n] = SubSeq(seq, 1, n) /\ g[n - 1] = SubSeq(seq, 1, n - 1)
      BY <2>2, <3>1
    <3>3. SubSeq(seq, 1, n) = Append(SubSeq(seq, 1, n - 1), seq[n])
      BY <1>1, <3>1
    <3> QED BY <2>2, <3>1, <3>2, <3>3
  <2>3. CASE n # 0 /\ n > p
    <3>1. n \in 1..N /\ n - 1 \in 0..N /\ ~(seq[n] \in K) /\ ~(n <= p) /\ (n - 1 <= p => n - 1 = p)
      BY <1>1, <2>3
    <3>2. g[n] = SubSeq(seq, 1, p) /\ g[n - 1] = SubSeq(seq, 1, p)
      BY <3>1
    <3> QED BY <2>3, <3>1, <3>2
  <2>4. n = 0 \/ (n # 0 /\ n <= p) \/ (n # 0 /\ n > p)
    BY <1>1
  <2> HIDE DEF g
  <2> QED BY <2>1, <2>2, <2>3, <2>4
<1>3. Filters(seq, K, g)
  <2>1. g = [n \in 0..N |-> g[n]]
    OBVIOUS
  <2> HIDE DEF g
  <2> QED BY <1>2, <2>1 DEF Filters
<1>4. g[N] = SubSeq(seq, 1, p)
  BY <1>1
<1> HIDE DEF g
<1> QED BY <1>3, <1>4, ThoseIs

\* The elements after the first p, if those are the ones in K.
LEMMA ThoseLast ==
  ASSUME NEW S, NEW seq \in Seq(S), NEW K, NEW p \in 0..Len(seq), \A x \in 1..Len(seq) : seq[x] \in K <=> x > p
  PROVE  Those(seq, K) = SubSeq(seq, p + 1, Len(seq))
<1> DEFINE N == Len(seq)
           g == [n \in 0..N |-> SubSeq(seq, p + 1, n)]
<1>1. N \in Nat /\ p \in Nat /\ p <= N
  BY SeqHas
<1>2. ASSUME NEW n \in 0..N
      PROVE  g[n] = IF n = 0 THEN <<>> ELSE IF seq[n] \in K THEN Append(g[n - 1], seq[n]) ELSE g[n - 1]
  <2>1. CASE n = 0
    <3>1. g[n] = SubSeq(seq, p + 1, 0)
      BY <1>1, <2>1
    <3>2. SubSeq(seq, p + 1, 0) = <<>>
      BY <1>1
    <3> QED BY <2>1, <3>1, <3>2
  <2>2. CASE n # 0 /\ n > p
    <3>1. n \in 1..N /\ n - 1 \in 0..N /\ seq[n] \in K
      BY <1>1, <2>2
    <3>2. g[n] = SubSeq(seq, p + 1, n) /\ g[n - 1] = SubSeq(seq, p + 1, n - 1)
      BY <2>2, <3>1
    <3>3. SubSeq(seq, p + 1, n) = Append(SubSeq(seq, p + 1, n - 1), seq[n])
      BY <1>1, <2>2, <3>1
    <3> QED BY <2>2, <3>1, <3>2, <3>3
  <2>3. CASE n # 0 /\ n <= p
    <3>1. n \in 1..N /\ n - 1 \in 0..N /\ ~(seq[n] \in K)
      BY <1>1, <2>3
    <3>2. g[n] = SubSeq(seq, p + 1, n) /\ g[n - 1] = SubSeq(seq, p + 1, n - 1)
      BY <3>1
    <3>3. SubSeq(seq, p + 1, n) = <<>> /\ SubSeq(seq, p + 1, n - 1) = <<>>
      BY <1>1, <2>3, <3>1
    <3> QED BY <2>3, <3>1, <3>2, <3>3
  <2>4. n = 0 \/ (n # 0 /\ n <= p) \/ (n # 0 /\ n > p)
    BY <1>1
  <2> HIDE DEF g
  <2> QED BY <2>1, <2>2, <2>3, <2>4
<1>3. Filters(seq, K, g)
  <2>1. g = [n \in 0..N |-> g[n]]
    OBVIOUS
  <2> HIDE DEF g
  <2> QED BY <1>2, <2>1 DEF Filters
<1>4. g[N] = SubSeq(seq, p + 1, N)
  BY <1>1
<1> HIDE DEF g
<1> QED BY <1>3, <1>4, ThoseIs

\* The numbers of the statements of the source block.
LEMMA NumbersAre ==
  ASSUME NEW blk, NEW s, Shaped(blk, s)
  PROVE  \A k \in 1..NB(blk) : k \in DOMAIN s.stmts /\ k \in 1..Len(s.stmts) /\ s.stmts[k].num = 2 * (k - 1)
<1> SUFFICES ASSUME NEW k \in 1..NB(blk)
             PROVE  k \in DOMAIN s.stmts /\ k \in 1..Len(s.stmts) /\ s.stmts[k].num = 2 * (k - 1)
  OBVIOUS
<1>1. k \in 1..Len(s.stmts) /\ DOMAIN s.stmts = 1..Len(s.stmts) /\ k <= NB(blk)
  BY Basics
<1>2. StatementOK(blk, s.stmts[k], k, Len(s.vals))
  BY <1>1 DEF Shaped, StatementsOK
<1> QED BY <1>1, <1>2 DEF StatementOK

\* The uses above a number come first.
LEMMA PrefixExists ==
  ASSUME NEW blk, NEW s, Shaped(blk, s), NEW e \in Seq(1..NB(blk)), Sorted(e), NEW num \in Int
  PROVE  \E p \in 0..Len(e) : Prefix(s, e, num, p)
<1> DEFINE S == {x \in 1..Len(e) : ~(s.stmts[e[x]].num < num)}
<1>1. Len(e) \in Nat /\ \A x \in 1..Len(e) : e[x] \in 1..NB(blk)
  BY SeqHas
<1>2. \A x \in 1..Len(e) : e[x] \in Int /\ s.stmts[e[x]].num = 2 * (e[x] - 1)
  BY <1>1, NumbersAre
<1>3. CASE S = {}
  <2>1. \A x \in 1..Len(e) : s.stmts[e[x]].num < num /\ x <= Len(e)
    BY <1>3
  <2>2. Prefix(s, e, num, Len(e)) /\ Len(e) \in 0..Len(e)
    BY <1>1, <2>1 DEF Prefix
  <2> QED BY <2>2
<1>4. CASE S # {}
  <2>1. S \subseteq Nat
    BY <1>1
  <2>2. PICK m \in S : \A y \in S : m <= y
    <3> HIDE DEF S
    <3> QED BY <1>4, <2>1, LeastIs
  <2>3. m \in 1..Len(e) /\ ~(s.stmts[e[m]].num < num)
    OBVIOUS
  <2>4. ASSUME NEW x \in 1..Len(e) PROVE s.stmts[e[x]].num < num <=> x <= m - 1
    <3>1. CASE x < m
      <4>1. x \notin S
        BY <1>1, <2>2, <2>3, <3>1
      <4> QED BY <2>3, <3>1, <4>1
    <3>2. CASE x >= m
      <4>1. e[m] <= e[x]
        <5>1. CASE x = m
          BY <1>2, <2>3, <5>1
        <5>2. CASE x > m
          BY <2>3, <5>2 DEF Sorted
        <5> QED BY <2>3, <3>2, <5>1, <5>2
      <4>2. s.stmts[e[m]].num = 2 * (e[m] - 1) /\ s.stmts[e[x]].num = 2 * (e[x] - 1) /\ e[m] \in Int /\ e[x] \in Int
        BY <1>2, <2>3
      <4>3. ~(s.stmts[e[x]].num < num)
        BY <2>3, <4>1, <4>2
      <4> QED BY <2>3, <3>2, <4>3
    <3> QED BY <2>3, <3>1, <3>2
  <2>5. Prefix(s, e, num, m - 1) /\ m - 1 \in 0..Len(e)
    BY <1>1, <2>3, <2>4 DEF Prefix
  <2> QED BY <2>5
<1> QED BY <1>3, <1>4

\* f is the first p elements of e, g the rest.
Cut(e, p, f, g) ==
  /\ Len(f) = p /\ \A x \in 1..p : f[x] = e[x]
  /\ Len(g) = Len(e) - p /\ \A x \in 1..(Len(e) - p) : g[x] = e[p + x]

Belows(s, num) == {k \in DOMAIN s.stmts : s.stmts[k].num < num}
NotBelows(s, num) == {k \in DOMAIN s.stmts : s.stmts[k].num >= num}

\* The uses are cut in two at a number.
LEMMA CutThose ==
  ASSUME NEW blk, NEW s, Shaped(blk, s), NEW e \in Seq(1..NB(blk)), NEW num \in Int,
         NEW p \in 0..Len(e), Prefix(s, e, num, p)
  PROVE  /\ Those(e, Belows(s, num)) \in Seq(1..NB(blk)) /\ Those(e, NotBelows(s, num)) \in Seq(1..NB(blk))
         /\ Cut(e, p, Those(e, Belows(s, num)), Those(e, NotBelows(s, num)))
<1> DEFINE F == {k \in DOMAIN s.stmts : s.stmts[k].num < num}
           G == {k \in DOMAIN s.stmts : s.stmts[k].num >= num}
           S == 1..NB(blk)
<1>0. Len(e) \in Nat /\ \A x \in 1..Len(e) : e[x] \in 1..NB(blk)
  BY SeqHas
<1>1. Len(e) \in Nat /\ p \in Nat /\ p <= Len(e) /\ \A x \in 1..Len(e) : e[x] \in 1..NB(blk)
  BY <1>0
<1>2. \A x \in 1..Len(e) : e[x] \in DOMAIN s.stmts /\ s.stmts[e[x]].num = 2 * (e[x] - 1) /\ e[x] \in Int
  BY <1>1, NumbersAre
<1>3. \A x \in 1..Len(e) : s.stmts[e[x]].num \in Int
  BY <1>2
<1>4. \A x \in 1..Len(e) : s.stmts[e[x]].num < num <=> x <= p
  BY DEF Prefix
<1>5. \A x \in 1..Len(e) : e[x] \in F <=> x <= p
  BY <1>2, <1>4
<1>6. \A x \in 1..Len(e) : e[x] \in G <=> x > p
  BY <1>1, <1>2, <1>3, <1>4
<1> HIDE DEF F, G, S
<1>7. e \in Seq(S)
  BY DEF S
<1>8. Those(e, F) = SubSeq(e, 1, p)
  BY <1>5, <1>7, ThoseFirst
<1>9. Those(e, G) = SubSeq(e, p + 1, Len(e))
  BY <1>6, <1>7, ThoseLast
<1>10. SubSeq(e, 1, p) \in Seq(S) /\ Len(SubSeq(e, 1, p)) = p /\ \A x \in 1..p : SubSeq(e, 1, p)[x] = e[x]
  BY <1>1, <1>7
<1>11. /\ SubSeq(e, p + 1, Len(e)) \in Seq(S) /\ Len(SubSeq(e, p + 1, Len(e))) = Len(e) - p
       /\ \A x \in 1..(Len(e) - p) : SubSeq(e, p + 1, Len(e))[x] = e[p + x]
  BY <1>1, <1>7
<1>12. F = Belows(s, num) /\ G = NotBelows(s, num)
  BY DEF Belows, NotBelows, F, G
<1> QED BY <1>8, <1>9, <1>10, <1>11, <1>12 DEF Cut, S

\* Before and Late cut the uses in two.
LEMMA CutIs ==
  ASSUME NEW blk, NEW s, Shaped(blk, s), NEW v, s.vals[v].edges \in Seq(1..NB(blk)), NEW num \in Int,
         NEW p \in 0..Len(s.vals[v].edges), Prefix(s, s.vals[v].edges, num, p)
  PROVE  /\ Before(s, v, num) \in Seq(1..NB(blk)) /\ Late(s, v, num) \in Seq(1..NB(blk))
         /\ Cut(s.vals[v].edges, p, Before(s, v, num), Late(s, v, num))
<1> DEFINE e == s.vals[v].edges
<1>1. e \in Seq(1..NB(blk)) /\ p \in 0..Len(e) /\ Prefix(s, e, num, p)
  OBVIOUS
<1>2. Before(s, v, num) = Those(e, Belows(s, num)) /\ Late(s, v, num) = Those(e, NotBelows(s, num))
  BY DEF Before, Late, Belows, NotBelows
<1> HIDE DEF e
<1>3. /\ Those(e, Belows(s, num)) \in Seq(1..NB(blk)) /\ Those(e, NotBelows(s, num)) \in Seq(1..NB(blk))
      /\ Cut(e, p, Those(e, Belows(s, num)), Those(e, NotBelows(s, num)))
  BY <1>1, CutThose
<1> QED BY <1>2, <1>3 DEF e

-----------------------------------------------------------------------------
(* Spilling, step by step *)

DeadToo(blk, s, t, v) ==
  \A n, q \in Int : \A hi : Books(blk, s, n, q, hi) /\ ~Pending(blk, s, n, q, v) => Books(blk, t, n, q, hi)

\* The edges of a value that neither has nor waits for a register do not matter.
LEMMA DeadBooks ==
  ASSUME NEW blk, NEW s, NEW t, Shaped(blk, s), DOMAIN t = Fields, t.block = s.block, t.stmts = s.stmts,
         t.alloced = s.alloced, t.i = s.i, t.slots \in Nat, NEW v \in 1..Len(s.vals), ~Allocated(s, v), NEW new,
         ValueOK(blk, new), t.vals = [s.vals EXCEPT ![v] = new]
  PROVE  Shaped(blk, t) /\ DeadToo(blk, s, t, v)
<1>1. IsSeq(s.vals) /\ Len(s.vals) \in Nat /\ DOMAIN s.vals = 1..Len(s.vals) /\ \A w \in 1..Len(s.vals) : ValueOK(blk, s.vals[w])
  BY SeqIs DEF Shaped, ValuesOK
<1>2. \A w \in 1..Len(s.vals) : t.vals[w] = IF w = v THEN new ELSE s.vals[w]
  BY <1>1
<1>3. IsSeq(t.vals) /\ Len(t.vals) = Len(s.vals)
  <2>1. t.vals = [w \in 1..Len(s.vals) |-> t.vals[w]]
    BY <1>1, <1>2
  <2> QED BY <1>1, <2>1, FunctionSeq
<1>4. ValuesOK(blk, t)
  BY <1>1, <1>2, <1>3 DEF ValuesOK, Shaped
<1>5. RegistersOK(t)
  BY <1>3 DEF RegistersOK, Shaped
<1>6. Agree(t)
  <2> SUFFICES ASSUME NEW r \in Reg, t.alloced[r] > 0
               PROVE  t.vals[t.alloced[r]].reg = r /\ t.vals[t.alloced[r]].spilled = None
    BY DEF Agree
  <2>1. s.alloced[r] \in 1..Len(s.vals) /\ s.alloced[r] # v /\ s.vals[s.alloced[r]].reg = r /\ s.vals[s.alloced[r]].spilled = None
    BY HeldIs DEF Allocated
  <2> QED BY <1>2, <2>1
<1>7. t.i \in Nat \ {0}
  BY DEF Shaped
<1>8. Shaped(blk, t)
  BY <1>3, <1>4, <1>5, <1>6, <1>7, ShapedSteady
<1>9. ASSUME NEW n \in Int, NEW q \in Int, NEW hi, Books(blk, s, n, q, hi), ~Pending(blk, s, n, q, v)
      PROVE  Books(blk, t, n, q, hi)
  <2>1. \A w : Pending(blk, t, n, q, w) <=> Pending(blk, s, n, q, w)
    BY DEF Pending, PendingOut
  <2>2. \A w : Live(blk, t, n, q, w) <=> Live(blk, s, n, q, w)
    BY <2>1 DEF Live, Allocated
  <2>3. ~Live(blk, s, n, q, v)
    BY <1>9 DEF Live
  <2>4. Listed(blk, t)
    <3>1. Ahead(blk, t) /\ InOrder(blk, t)
      BY <1>9 DEF Books, Listed, Ahead, InOrder, Above, Numbered
    <3> QED BY <1>9, <3>1 DEF Books, Listed, AllThere, OutsDistinct
  <2>5. UsedLater(t, n)
    <3> SUFFICES ASSUME NEW x \in 1..Len(t.block), x >= n, t.stmts[t.block[x]].out # NoValue
                 PROVE  UsedAfter(t, t.stmts[t.block[x]].out, t.stmts[t.block[x]].num)
      BY DEF UsedLater
    <3> DEFINE w == s.stmts[s.block[x]].out
    <3>1. w \in 1..Len(s.vals)
      <4>1. StatementOK(blk, s.stmts[s.block[x]], s.block[x], Len(s.vals))
        BY BlockIs
      <4>2. w \in 0..Len(s.vals) /\ Len(s.vals) \in Int
        BY <1>1, <4>1 DEF StatementOK
      <4> QED BY Zenon, <4>2, NotZero
    <3>2. Pending(blk, s, n, q, w)
      BY DEF Pending, PendingOut
    <3>3. t.vals[w] = s.vals[w]
      BY <1>2, <1>9, <3>1, <3>2
    <3>4. UsedAfter(s, w, s.stmts[s.block[x]].num)
      BY <1>9 DEF Books, UsedLater
    <3> QED BY Zenon, <3>3, <3>4 DEF UsedAfter
  <2>6. ASSUME NEW w \in 1..Len(t.vals) PROVE Tracked(blk, t, n, q, hi, w)
    <3>1. w \in 1..Len(s.vals)
      BY <1>3
    <3>2. Tracked(blk, s, n, q, hi, w)
      BY <1>9, <3>1 DEF Books
    <3>3. CASE w = v
      BY <1>9, <2>1, <2>2, <2>3, <3>3 DEF Tracked
    <3>4. CASE w # v
      <4>1. t.vals[w] = s.vals[w]
        BY <1>2, <3>1, <3>4
      <4>2. Fresh(s, w) => Fresh(t, w)
        BY <4>1 DEF Fresh
      <4>3. EdgesOK(blk, s, w) => EdgesOK(blk, t, w)
        BY <4>1 DEF EdgesOK
      <4>4. \A st : Counted(blk, s, w, st, hi) => Counted(blk, t, w, st, hi)
        BY Zenon, <4>1 DEF Counted, CountedTo, Prefix
      <4> QED BY <2>1, <2>2, <3>2, <4>2, <4>3, <4>4 DEF Tracked
    <3> QED BY <3>3, <3>4
  <2> QED BY <2>4, <2>5, <2>6 DEF Books
<1> QED BY <1>8, <1>9 DEF DeadToo

Renamed(args, v, w) == [j \in DOMAIN args |-> IF args[j] = v THEN w ELSE args[j]]
OneOf(late, k) == \E x \in DOMAIN late : late[x] = k

\* What Rewritten does to statement k.
RewrittenOne(st, new, late, k, v, w) ==
  /\ DOMAIN new = StatementFields
  /\ new.op = st.op /\ new.out = st.out /\ new.num = st.num
  /\ OneOf(late, k) => new.args = Renamed(st.args, v, w)
  /\ ~OneOf(late, k) => new = st

\* Renaming moves the uses of v to w.
LEMMA UsesRenamed ==
  ASSUME NEW n \in Nat, NEW st, NEW new, st.args \in Seq(0..n), NEW v \in 1..n, new.args = Renamed(st.args, v, n + 1)
  PROVE  /\ new.args \in Seq(0..(n + 1)) /\ Len(new.args) = Len(st.args)
         /\ Uses(n + 1, new) = Uses(v, st)
         /\ \A x \in 1..n : x # v => Uses(x, new) = Uses(x, st)
<1> DEFINE L == Len(st.args)
           old == st.args
<1>1. L \in Nat /\ DOMAIN old = 1..L /\ \A j \in 1..L : old[j] \in 0..n
  BY SeqHas
<1>2. DOMAIN new.args = 1..L /\ \A j \in 1..L : new.args[j] = IF old[j] = v THEN n + 1 ELSE old[j]
  BY <1>1 DEF Renamed
<1>3. \A j \in 1..L : old[j] \in Int /\ old[j] # n + 1 /\ new.args[j] \in 0..(n + 1)
  BY <1>1, <1>2
<1>4. new.args \in Seq(0..(n + 1)) /\ Len(new.args) = L
  <2>1. new.args \in [1..L -> 0..(n + 1)]
    <3>1. new.args = [j \in 1..L |-> IF old[j] = v THEN n + 1 ELSE old[j]]
      BY <1>1 DEF Renamed
    <3> QED BY <1>2, <1>3, <3>1
  <2>2. new.args \in Seq(0..(n + 1))
    <3> DEFINE T == 0..(n + 1)
               u == new.args
    <3>1. u \in [1..L -> T] /\ L \in Nat
      BY <1>1, <2>1
    <3> HIDE DEF T, u, L
    <3>2. u \in Seq(T)
      BY <3>1
    <3> QED BY <3>2 DEF T, u
  <2> QED BY <1>1, <1>2, <2>2, SeqHas
<1> HIDE DEF L, old
<1>5. {j \in DOMAIN new.args : new.args[j] = n + 1} = {j \in DOMAIN old : old[j] = v}
  BY <1>1, <1>2, <1>3
<1>6. ASSUME NEW x \in 1..n, x # v PROVE Uses(x, new) = Uses(x, st)
  <2>1. x # n + 1
    OBVIOUS
  <2>2. {j \in DOMAIN new.args : new.args[j] = x} = {j \in DOMAIN old : old[j] = x}
    BY <1>1, <1>2, <1>3, <1>6, <2>1
  <2> QED BY <2>2 DEF Uses, old
<1> QED BY <1>4, <1>5, <1>6 DEF Uses, L, old

\* A statement that only knows the values up to n does not use the next one.
LEMMA UsesNot ==
  ASSUME NEW n \in Nat, NEW st, st.args \in Seq(0..n), NEW w, w = n + 1
  PROVE  Uses(w, st) = 0 /\ st.args \in Seq(0..(n + 1))
<1>1. Len(st.args) \in Nat /\ DOMAIN st.args = 1..Len(st.args) /\ \A j \in 1..Len(st.args) : st.args[j] \in 0..n
  BY SeqHas
<1>2. \A j \in 1..Len(st.args) : st.args[j] # w /\ st.args[j] \in 0..(n + 1)
  BY <1>1
<1>3. Uses(w, st) = 0
  BY <1>2, UsesNone
<1>4. 0..n \subseteq 0..(n + 1)
  OBVIOUS
<1>5. st.args \in Seq(0..(n + 1))
  BY <1>4
<1> QED BY <1>3, <1>5

Rewriting(s, t, late, v, w) ==
  /\ Len(t.stmts) = Len(s.stmts)
  /\ \A k \in 1..Len(s.stmts) : RewrittenOne(s.stmts[k], t.stmts[k], late, k, v, w)

\* The statements after the later uses of v name w instead.
LEMMA RewrittenIs ==
  ASSUME NEW blk, NEW s, NEW t, Shaped(blk, s), NEW v \in 1..Len(s.vals), NEW w, w = Len(s.vals) + 1, NEW late,
         t.stmts = Rewritten(s.stmts, late, v, w), Len(t.vals) = w
  PROVE  StatementsOK(blk, t) /\ Rewriting(s, t, late, v, w)
<1>1. /\ IsSeq(s.stmts) /\ Len(s.stmts) \in Nat /\ DOMAIN s.stmts = 1..Len(s.stmts) /\ Len(s.stmts) >= NB(blk)
      /\ \A k \in 1..Len(s.stmts) : StatementOK(blk, s.stmts[k], k, Len(s.vals))
  BY SeqIs DEF Shaped, StatementsOK
<1>2. /\ DOMAIN t.stmts = 1..Len(s.stmts)
      /\ \A k \in 1..Len(s.stmts) : t.stmts[k] =
           IF OneOf(late, k) THEN [s.stmts[k] EXCEPT !.args = Renamed(s.stmts[k].args, v, w)] ELSE s.stmts[k]
  BY <1>1 DEF Rewritten, OneOf, Renamed
<1>3. IsSeq(t.stmts) /\ Len(t.stmts) = Len(s.stmts)
  <2>1. t.stmts = [k \in 1..Len(s.stmts) |-> t.stmts[k]]
    <3>1. t.stmts = [k \in DOMAIN s.stmts |-> t.stmts[k]]
      BY DEF Rewritten
    <3> QED BY <1>1, <3>1
  <2> QED BY <1>1, <2>1, FunctionSeq
<1>4. Len(s.vals) \in Nat
  BY Basics
<1>5. ASSUME NEW k \in 1..Len(s.stmts)
      PROVE  StatementOK(blk, t.stmts[k], k, w) /\ RewrittenOne(s.stmts[k], t.stmts[k], late, k, v, w)
  <2> DEFINE st == s.stmts[k]
             new == t.stmts[k]
             n == Len(s.vals)
  <2>1. StatementOK(blk, st, k, n)
    BY <1>1
  <2>2. new = IF OneOf(late, k) THEN [st EXCEPT !.args = Renamed(st.args, v, w)] ELSE st
    BY <1>2
  <2> HIDE DEF st, new, n
  <2>3. DOMAIN st = StatementFields /\ st.args \in Seq(0..n) /\ Len(st.args) \in 1..3 /\ st.out \in 0..n /\ st.num \in Int
    BY <2>1 DEF StatementOK
  <2>4. RewrittenOne(st, new, late, k, v, w)
    BY <2>2, <2>3 DEF RewrittenOne, StatementFields
  <2>5. n \in Nat /\ w = n + 1 /\ v \in 1..n
    BY <1>4 DEF n
  <2>6. new.args \in Seq(0..w) /\ Len(new.args) = Len(st.args)
    <3>1. CASE OneOf(late, k)
      <4>1. new.args = Renamed(st.args, v, n + 1)
        BY <2>4, <2>5, <3>1 DEF RewrittenOne
      <4>2. new.args \in Seq(0..(n + 1)) /\ Len(new.args) = Len(st.args)
        BY <2>3, <2>5, <4>1, UsesRenamed
      <4> QED BY <2>5, <4>2
    <3>2. CASE ~OneOf(late, k)
      <4>1. st.args \in Seq(0..(n + 1))
        BY <2>3, <2>5, UsesNot
      <4> QED BY <2>4, <2>5, <3>2, <4>1 DEF RewrittenOne
    <3> QED BY <3>1, <3>2
  <2>7. new.out \in 0..w
    BY <2>3, <2>4, <2>5 DEF RewrittenOne
  <2>8. st.op = "unspill" /\ k > NB(blk) => \A j \in 1..Len(new.args) : new.args[j] = NoValue
    <3> SUFFICES ASSUME st.op = "unspill", k > NB(blk), NEW j \in 1..Len(new.args) PROVE new.args[j] = NoValue
      OBVIOUS
    <3>1. st.args[j] = NoValue /\ j \in DOMAIN st.args
      <4>1. j \in 1..Len(st.args) /\ DOMAIN st.args = 1..Len(st.args)
        BY <2>3, <2>6, SeqHas
      <4> QED BY <2>1, <4>1 DEF StatementOK
    <3>2. NoValue # v
      BY <2>5 DEF NoValue
    <3>3. Renamed(st.args, v, w)[j] = NoValue
      BY <3>1, <3>2 DEF Renamed
    <3> QED BY <2>4, <3>1, <3>3 DEF RewrittenOne
  <2>9. StatementOK(blk, new, k, w)
    <3>1. new.op = st.op /\ new.out = st.out /\ new.num = st.num /\ DOMAIN new = StatementFields
      BY <2>4 DEF RewrittenOne
    <3> QED BY <2>1, <2>3, <2>6, <2>7, <2>8, <3>1 DEF StatementOK
  <2> QED BY <2>4, <2>9 DEF st, new
<1> QED BY <1>1, <1>3, <1>5 DEF StatementsOK, Rewriting

Grown(s, t, w, new) ==
  Len(t.vals) = w /\ t.vals[w] = new /\ \A x \in 1..Len(s.vals) : t.vals[x] = s.vals[x]
Split(s, t, late, v, w, new) ==
  /\ w = Len(s.vals) + 1
  /\ Rewriting(s, t, late, v, w) /\ Grown(s, t, w, new)
  /\ t.block = s.block /\ t.alloced = s.alloced /\ t.i = s.i

\* A value more, and the statements that name it, are well formed.
LEMMA SplitShaped ==
  ASSUME NEW blk, NEW s, NEW t, Shaped(blk, s), DOMAIN t = Fields, t.block = s.block, t.alloced = s.alloced,
         t.i = s.i, t.slots \in Nat, NEW v \in 1..Len(s.vals), NEW w, w = Len(s.vals) + 1, NEW late, NEW new,
         ValueOK(blk, new), t.vals = Append(s.vals, new), t.stmts = Rewritten(s.stmts, late, v, w)
  PROVE  Shaped(blk, t) /\ Split(s, t, late, v, w, new)
<1>1. IsSeq(s.vals) /\ \A x \in 1..Len(s.vals) : ValueOK(blk, s.vals[x])
  BY DEF Shaped, ValuesOK
<1>2. Len(s.vals) \in Nat /\ NP(blk) \in Nat /\ NB(blk) \in Nat /\ NP(blk) + NB(blk) <= Len(s.vals)
  BY Basics
<1>3. Grown(s, t, w, new) /\ IsSeq(t.vals)
  BY <1>1, AppendIs DEF Grown
<1>4. ValuesOK(blk, t)
  <2>1. ASSUME NEW x \in 1..Len(t.vals) PROVE ValueOK(blk, t.vals[x])
    <3>1. x \in 1..Len(s.vals) \/ x = w
      BY <1>2, <1>3 DEF Grown
    <3> QED BY <1>1, <1>3, <3>1 DEF Grown
  <2>2. Len(t.vals) >= NP(blk) + NB(blk)
    BY <1>2, <1>3 DEF Grown
  <2> QED BY <1>3, <2>1, <2>2 DEF ValuesOK
<1>5. StatementsOK(blk, t) /\ Rewriting(s, t, late, v, w)
  BY <1>3, RewrittenIs DEF Grown
<1>6. RegistersOK(t)
  <2>1. 1..Len(s.vals) \subseteq 1..Len(t.vals)
    BY <1>2, <1>3 DEF Grown
  <2>2. s.alloced \in [Reg -> {None, Reserved} \cup 1..Len(s.vals)] /\ \A r \in ReservedRegs : s.alloced[r] = Reserved
    BY DEF Shaped, RegistersOK
  <2> QED BY <2>1, <2>2 DEF RegistersOK
<1>7. Agree(t)
  <2>1. \A r \in Reg : s.alloced[r] > 0 => s.alloced[r] \in 1..Len(s.vals) /\ s.vals[s.alloced[r]].reg = r /\ s.vals[s.alloced[r]].spilled = None
    BY HeldIs
  <2> QED BY <1>3, <2>1 DEF Agree, Grown
<1>8. t.block \in Seq(1..Len(t.stmts)) /\ t.i \in Nat \ {0} /\ NB(blk) \in Nat /\ NP(blk) \in Nat
  BY <1>5 DEF Shaped, Rewriting
<1>9. Shaped(blk, t)
  BY <1>4, <1>5, <1>6, <1>7, <1>8 DEF Shaped
<1> QED BY <1>3, <1>5, <1>9 DEF Split

\* e are the uses of v in the source block.
EdgesFit(blk, s, e, v) == Sorted(e) /\ \A k \in 1..NB(blk) : HasUses(e, k, Uses(v, s.stmts[k]))

\* The new value has the uses that were cut off.
LEMMA SplitEdges ==
  ASSUME NEW blk, NEW s, NEW t, Shaped(blk, s), NEW v \in 1..Len(s.vals), NEW w, NEW late, NEW new,
         Split(s, t, late, v, w, new), new.edges = late, late \in Seq(1..NB(blk)),
         NEW e \in Seq(1..NB(blk)), EdgesFit(blk, s, e, v), NEW f, NEW p \in 0..Len(e), Cut(e, p, f, late),
         NEW num \in Int, Prefix(s, e, num, p)
  PROVE  EdgesOK(blk, t, w)
<1> DEFINE N == Len(s.vals)
           L == Len(late)
<1>0. w = N + 1 /\ N \in Nat
  BY Basics DEF Split
<1>1. /\ Len(e) \in Nat /\ p \in Nat /\ p <= Len(e) /\ L = Len(e) - p /\ L \in Nat /\ DOMAIN late = 1..L
      /\ \A x \in 1..L : late[x] = e[p + x] /\ p + x \in 1..Len(e)
  <2>1. Len(e) \in Nat /\ L \in Nat /\ DOMAIN late = 1..L
    BY SeqHas
  <2>2. p \in Nat /\ p <= Len(e) /\ L = Len(e) - p
    BY <2>1 DEF Cut
  <2>3. \A x \in 1..L : late[x] = e[p + x]
    BY <2>2 DEF Cut
  <2> QED BY <2>1, <2>2, <2>3
<1> HIDE DEF N, L
<1>2. t.vals[w].edges = late
  BY DEF Split, Grown
<1>3. Sorted(late)
  <2> SUFFICES ASSUME NEW x \in 1..L, NEW y \in 1..L, x < y PROVE late[x] <= late[y]
    BY DEF Sorted, L
  <2>1. p + x \in 1..Len(e) /\ p + y \in 1..Len(e) /\ p + x < p + y
    BY <1>1
  <2>2. e[p + x] <= e[p + y]
    BY <2>1 DEF EdgesFit, Sorted
  <2> QED BY <1>1, <2>2
<1>4. ASSUME NEW k \in 1..NB(blk) PROVE HasUses(late, k, Uses(w, t.stmts[k]))
  <2> DEFINE st == s.stmts[k]
             u == Uses(v, st)
  <2>1. k \in 1..Len(s.stmts) /\ RewrittenOne(st, t.stmts[k], late, k, v, w)
    BY NumbersAre DEF Split, Rewriting
  <2>2. st.args \in Seq(0..N)
    BY <2>1 DEF Shaped, StatementsOK, StatementOK, N
  <2>3. PICK y \in 0..Len(e) : UsesAt(e, k, u, y)
    BY DEF EdgesFit, HasUses
  <2>4. u \in Nat
    BY <2>2, UsesNone
  <2>5. CASE OneOf(late, k)
    <3>1. Uses(w, t.stmts[k]) = u
      <4>1. t.stmts[k].args = Renamed(st.args, v, N + 1)
        BY <1>0, <2>1, <2>5 DEF RewrittenOne
      <4>2. v \in 1..N
        BY DEF N
      <4> HIDE DEF st
      <4>3. Uses(N + 1, t.stmts[k]) = Uses(v, st)
        BY <1>0, <2>2, <4>1, <4>2, UsesRenamed
      <4> QED BY <1>0, <4>3
    <3>2. PICK z \in 1..L : late[z] = k
      BY <1>1, <2>5 DEF OneOf
    <3>3. p + z \in 1..Len(e) /\ e[p + z] = k /\ p + z > p
      BY <1>1, <3>2
    <3>4. ~(s.stmts[k].num < num)
      BY <1>1, <3>3 DEF Prefix
    <3>5. \A x \in 1..Len(e) : e[x] = k => x > p
      BY <1>1, <3>4 DEF Prefix
    <3> HIDE DEF u, st
    <3>6. y + u <= Len(e) /\ \A x \in 1..Len(e) : e[x] = k <=> (y < x /\ x <= y + u)
      BY <2>3 DEF UsesAt
    <3>7. y >= p /\ y - p \in 0..L
      <4>1. y < p + z /\ p + z <= y + u
        BY <3>3, <3>6
      <4>2. y + 1 \in 1..Len(e) /\ e[y + 1] = k
        BY <1>1, <2>4, <3>6, <4>1
      <4>3. y + 1 > p
        BY <3>5, <4>2
      <4> QED BY <1>1, <4>2, <4>3
    <3>8. (y - p) + u <= L
      BY <1>1, <2>4, <3>6
    <3>9. ASSUME NEW x \in 1..L PROVE late[x] = k <=> (y - p < x /\ x <= (y - p) + u)
      <4>1. late[x] = e[p + x] /\ p + x \in 1..Len(e)
        BY <1>1
      <4>2. e[p + x] = k <=> (y < p + x /\ p + x <= y + u)
        BY <3>6, <4>1
      <4> QED BY <1>1, <2>4, <4>1, <4>2
    <3>10. UsesAt(late, k, u, y - p)
      BY <3>8, <3>9 DEF UsesAt, L
    <3> QED BY <3>1, <3>7, <3>10 DEF HasUses, L
  <2>6. CASE ~OneOf(late, k)
    <3>1. t.stmts[k] = st
      BY <2>1, <2>6 DEF RewrittenOne
    <3>2. Uses(w, t.stmts[k]) = 0
      BY <1>0, <2>2, <3>1, UsesNot
    <3>3. \A x \in 1..L : late[x] # k
      BY <1>1, <2>6 DEF OneOf
    <3>4. UsesAt(late, k, 0, 0) /\ 0 \in 0..Len(late)
      BY <1>1, <3>3 DEF UsesAt, L
    <3> QED BY <3>2, <3>4 DEF HasUses
  <2> QED BY <2>5, <2>6
<1> QED BY <1>2, <1>3, <1>4 DEF EdgesOK

\* Such a change leaves order and outputs alone.
LEMMA SplitListed ==
  ASSUME NEW blk, NEW s, NEW t, Shaped(blk, s), NEW late, NEW v, NEW w, NEW new, Split(s, t, late, v, w, new), Listed(blk, s)
  PROVE  Listed(blk, t)
<1>1. Len(t.stmts) = Len(s.stmts) /\ t.block = s.block /\ t.i = s.i
  BY DEF Split, Rewriting
<1>2. \A k \in 1..Len(s.stmts) : t.stmts[k].op = s.stmts[k].op /\ t.stmts[k].out = s.stmts[k].out /\ t.stmts[k].num = s.stmts[k].num
  BY DEF Split, Rewriting, RewrittenOne
<1>3. \A x \in 1..Len(s.block) : s.block[x] \in 1..Len(s.stmts)
  BY BlockIs
<1>4. \A k \in 1..Len(s.stmts) : Numbered(blk, t, k) <=> Numbered(blk, s, k)
  BY <1>2 DEF Numbered
<1>5. InOrder(blk, t)
  <2> SUFFICES ASSUME NEW x \in 1..Len(t.block), NEW y \in 1..Len(t.block), x < y PROVE Above(blk, t, t.block[x], t.block[y])
    BY DEF InOrder
  <2>1. Above(blk, s, s.block[x], s.block[y]) /\ s.block[x] \in 1..Len(s.stmts) /\ s.block[y] \in 1..Len(s.stmts)
    BY <1>1, <1>3 DEF Listed, InOrder
  <2> QED BY <1>1, <1>2, <1>4, <2>1 DEF Above
<1>6. Ahead(blk, t)
  BY <1>1, <1>3, <1>4 DEF Listed, Ahead
<1>7. AllThere(blk, t)
  BY <1>1 DEF Listed, AllThere
<1>8. OutsDistinct(blk, t)
  BY <1>1, <1>2 DEF Listed, OutsDistinct
<1> QED BY <1>5, <1>6, <1>7, <1>8 DEF Listed

\* It leaves the values alone that have or wait for a register.
LEMMA SplitTracked ==
  ASSUME NEW blk, NEW s, NEW t, Shaped(blk, s), NEW v \in 1..Len(s.vals), NEW late, NEW w, NEW new,
         Split(s, t, late, v, w, new), s.i <= Len(s.block) => ~OneOf(late, s.block[s.i]),
         NEW x \in 1..Len(s.vals), x # v, NEW hi
  PROVE  /\ Fresh(s, x) => Fresh(t, x)
         /\ EdgesOK(blk, s, x) => EdgesOK(blk, t, x)
         /\ s.i <= Len(s.block) =>
              (Counted(blk, s, x, s.stmts[s.block[s.i]], hi) => Counted(blk, t, x, t.stmts[t.block[t.i]], hi))
<1> DEFINE e == s.vals[x].edges
<1>1. t.vals[x] = s.vals[x] /\ t.alloced = s.alloced /\ t.block = s.block /\ t.i = s.i
  BY DEF Split, Grown
<1>2. Fresh(s, x) => Fresh(t, x)
  BY <1>1 DEF Fresh
<1>3. Len(s.vals) \in Nat /\ w = Len(s.vals) + 1
  BY Basics DEF Split
<1>4. ASSUME NEW k \in 1..NB(blk) PROVE Uses(x, t.stmts[k]) = Uses(x, s.stmts[k])
  <2> DEFINE n == Len(s.vals)
             st == s.stmts[k]
  <2>1. k \in 1..Len(s.stmts) /\ RewrittenOne(st, t.stmts[k], late, k, v, w)
    BY NumbersAre DEF Split, Rewriting
  <2>2. st.args \in Seq(0..n)
    BY <2>1 DEF Shaped, StatementsOK, StatementOK
  <2>3. CASE OneOf(late, k)
    <3>1. t.stmts[k].args = Renamed(st.args, v, n + 1)
      BY <1>3, <2>1, <2>3 DEF RewrittenOne
    <3>2. v \in 1..n /\ x \in 1..n /\ n \in Nat
      BY <1>3
    <3> HIDE DEF st, n
    <3>3. \A y \in 1..n : y # v => Uses(y, t.stmts[k]) = Uses(y, st)
      BY <2>2, <3>1, <3>2, UsesRenamed
    <3> QED BY <3>2, <3>3 DEF st
  <2>4. CASE ~OneOf(late, k)
    BY <2>1, <2>4 DEF RewrittenOne
  <2> QED BY <2>3, <2>4
<1>5. EdgesOK(blk, s, x) => EdgesOK(blk, t, x)
  BY <1>1, <1>4 DEF EdgesOK
<1>6. ASSUME s.i <= Len(s.block), Counted(blk, s, x, s.stmts[s.block[s.i]], hi)
      PROVE  Counted(blk, t, x, t.stmts[t.block[t.i]], hi)
  <2> DEFINE k == s.block[s.i]
             st == s.stmts[k]
  <2>1. k \in 1..Len(s.stmts)
    BY <1>6, CurrentIs
  <2>2. t.stmts[t.block[t.i]] = st
    BY <1>1, <1>6, <2>1 DEF Split, Rewriting, RewrittenOne
  <2>3. e \in Seq(1..NB(blk))
    BY DEF Shaped, ValuesOK, ValueOK
  <2>4. \A y \in 1..Len(e) : e[y] \in 1..NB(blk)
    BY <2>3, SeqHas
  <2>5. \A y \in 1..Len(e) : t.stmts[e[y]].num = s.stmts[e[y]].num
    <3>1. \A y \in 1..Len(e) : e[y] \in 1..Len(s.stmts)
      BY <2>4, NumbersAre
    <3> QED BY <3>1 DEF Split, Rewriting, RewrittenOne
  <2>6. CASE Exempt(blk, e)
    BY <1>1, <2>6 DEF Counted
  <2>7. CASE ~Exempt(blk, e)
    <3>1. PICK p \in 0..Len(e) : CountedTo(s, x, st, hi, p)
      BY <1>6, <2>7 DEF Counted
    <3>2. CountedTo(t, x, st, hi, p)
      BY <1>1, <2>5, <3>1 DEF CountedTo, Prefix
    <3> QED BY <1>1, <2>2, <3>1, <3>2 DEF Counted
  <2> QED BY <2>6, <2>7
<1> QED BY <1>2, <1>5, <1>6

\* The books after it.
LEMMA SplitBooks ==
  ASSUME NEW blk, NEW s, NEW t, Shaped(blk, s), NEW v \in 1..Len(s.vals), ~Allocated(s, v), NEW late, NEW w, NEW new,
         Split(s, t, late, v, w, new), s.i <= Len(s.block) => ~OneOf(late, s.block[s.i]),
         NEW n \in Int, NEW q \in Int, NEW hi, Books(blk, s, n, q, hi), ~Pending(blk, s, n, q, v)
  PROVE  /\ Books(blk, t, n, q, hi) /\ ~Pending(blk, t, n, q, v) /\ ~Pending(blk, t, n, q, w) /\ ~Allocated(t, v) /\ ~Allocated(t, w)
<1>1. Len(s.vals) \in Nat /\ w = Len(s.vals) + 1 /\ NP(blk) \in Nat /\ NB(blk) \in Nat /\ NP(blk) + NB(blk) <= Len(s.vals)
  BY Basics DEF Split
<1>2. t.block = s.block /\ t.alloced = s.alloced /\ t.i = s.i /\ Len(t.vals) = w
  BY DEF Split, Grown
<1>3. \A k \in 1..Len(s.stmts) : t.stmts[k].out = s.stmts[k].out /\ t.stmts[k].num = s.stmts[k].num
  BY DEF Split, Rewriting, RewrittenOne
<1>4. \A x \in 1..Len(s.block) : s.block[x] \in 1..Len(s.stmts) /\ s.stmts[s.block[x]].out \in 0..Len(s.vals)
  BY BlockIs DEF StatementOK
<1>5. \A x : Pending(blk, t, n, q, x) <=> Pending(blk, s, n, q, x)
  BY <1>2, <1>3, <1>4 DEF Pending, PendingOut
<1>6. \A x : Live(blk, t, n, q, x) <=> Live(blk, s, n, q, x)
  BY <1>2, <1>5 DEF Live, Allocated
<1>7. ~Pending(blk, s, n, q, w)
  <2>1. ~PendingOut(s, n, w)
    BY <1>1, <1>4 DEF PendingOut
  <2> QED BY <1>1, <2>1 DEF Pending
<1>8. ~Allocated(s, w)
  BY <1>1, HeldIs DEF Allocated, None, Reserved
<1>9. Listed(blk, t)
  BY SplitListed DEF Books
<1>10. UsedLater(t, n)
  <2> SUFFICES ASSUME NEW x \in 1..Len(t.block), x >= n, t.stmts[t.block[x]].out # NoValue
               PROVE  UsedAfter(t, t.stmts[t.block[x]].out, t.stmts[t.block[x]].num)
    BY DEF UsedLater
  <2> DEFINE y == s.stmts[s.block[x]].out
             e == s.vals[y].edges
  <2>1. x \in 1..Len(s.block) /\ s.block[x] \in 1..Len(s.stmts) /\ y \in 0..Len(s.vals) /\ t.stmts[t.block[x]].out = y
        /\ t.stmts[t.block[x]].num = s.stmts[s.block[x]].num
    BY <1>2, <1>3, <1>4
  <2>2. y \in 1..Len(s.vals)
    <3>1. Len(s.vals) \in Int /\ y # NoValue
      BY <1>1, <2>1
    <3> HIDE DEF y
    <3> QED BY <2>1, <3>1, NotZero
  <2>3. UsedAfter(s, y, s.stmts[s.block[x]].num)
    BY <2>1 DEF Books, UsedLater
  <2>4. t.vals[y] = s.vals[y]
    BY <2>2 DEF Split, Grown
  <2>5. e \in Seq(1..NB(blk))
    BY <2>2 DEF Shaped, ValuesOK, ValueOK
  <2> HIDE DEF e
  <2>6. \A z \in 1..Len(e) : e[z] \in 1..Len(s.stmts)
    BY <2>5, SeqHas, NumbersAre
  <2>7. \A z \in 1..Len(e) : t.stmts[e[z]].num = s.stmts[e[z]].num
    BY <1>3, <2>6
  <2> HIDE DEF y
  <2> QED BY <2>1, <2>3, <2>4, <2>7 DEF UsedAfter, e
<1>11. ASSUME NEW x \in 1..Len(t.vals) PROVE Tracked(blk, t, n, q, hi, x)
  <2>1. x \in 1..Len(s.vals) \/ x = w
    BY <1>1, <1>2
  <2>2. CASE x = w \/ x = v
    BY <1>5, <1>6, <1>7, <1>8, <2>2 DEF Tracked, Live
  <2>3. CASE x \in 1..Len(s.vals) /\ x # v
    <3>1. /\ Fresh(s, x) => Fresh(t, x)
          /\ EdgesOK(blk, s, x) => EdgesOK(blk, t, x)
          /\ s.i <= Len(s.block) =>
               (Counted(blk, s, x, s.stmts[s.block[s.i]], hi) => Counted(blk, t, x, t.stmts[t.block[t.i]], hi))
      BY <2>3, SplitTracked
    <3>2. Tracked(blk, s, n, q, hi, x)
      BY <2>3 DEF Books
    <3> QED BY <1>2, <1>5, <1>6, <3>1, <3>2 DEF Tracked
  <2> QED BY <2>1, <2>2, <2>3
<1> QED BY <1>2, <1>5, <1>7, <1>8, <1>9, <1>10, <1>11 DEF Books, Allocated

\* Where the elements of a list come from into which one was inserted.
From(seq, at, k, t, x) ==
  \/ x < at /\ x \in 1..Len(seq) /\ t[x] = seq[x]
  \/ x = at /\ t[x] = k
  \/ x > at /\ (x - 1) \in 1..Len(seq) /\ (x - 1) >= at /\ t[x] = seq[x - 1]

\* Where the elements of the longer list come from.
LEMMA InsertedFrom ==
  ASSUME NEW seq, NEW t, NEW k, Len(seq) \in Nat, NEW at \in 1..(Len(seq) + 1), Inserted(seq, at, k, t)
  PROVE  \A x \in 1..Len(t) : From(seq, at, k, t, x)
<1> SUFFICES ASSUME NEW x \in 1..Len(t) PROVE From(seq, at, k, t, x)
  OBVIOUS
<1>1. Len(t) = Len(seq) + 1 /\ t[at] = k
  BY DEF Inserted
<1>2. \A y \in 1..Len(seq) : IF y < at THEN t[y] = seq[y] ELSE t[y + 1] = seq[y]
  BY DEF Inserted
<1>3. CASE x < at
  <2>1. x \in 1..Len(seq)
    BY <1>1, <1>3
  <2> QED BY <1>2, <1>3, <2>1 DEF From
<1>4. CASE x = at
  BY <1>1, <1>4 DEF From
<1>5. CASE x > at
  <2> DEFINE y == x - 1
  <2>1. y \in 1..Len(seq) /\ y >= at /\ ~(y < at) /\ y + 1 = x
    BY <1>1, <1>5
  <2>2. t[x] = seq[y]
    BY <1>2, <2>1
  <2> QED BY <1>5, <2>1, <2>2 DEF From
<1> QED BY <1>1, <1>3, <1>4, <1>5

Added(s, t, k, new) ==
  Len(t.stmts) = k /\ t.stmts[k] = new /\ \A l \in 1..Len(s.stmts) : t.stmts[l] = s.stmts[l]
Spliced(s, t, at, k, new) ==
  /\ k = Len(s.stmts) + 1 /\ Added(s, t, k, new) /\ Inserted(s.block, at, k, t.block)
  /\ t.vals = s.vals /\ t.alloced = s.alloced

\* A statement more, somewhere in the list, is well formed.
LEMMA SplicedShaped ==
  ASSUME NEW blk, NEW s, NEW t, Shaped(blk, s), DOMAIN t = Fields, t.vals = s.vals, t.alloced = s.alloced,
         t.i \in Nat \ {0}, t.slots \in Nat, NEW k, k = Len(s.stmts) + 1, NEW at \in 1..(Len(s.block) + 1),
         NEW new, StatementOK(blk, new, k, Len(s.vals)), t.stmts = Append(s.stmts, new), t.block = InsertAt(s.block, at, k)
  PROVE  Shaped(blk, t) /\ Spliced(s, t, at, k, new)
<1>1. IsSeq(s.stmts) /\ \A l \in 1..Len(s.stmts) : StatementOK(blk, s.stmts[l], l, Len(s.vals))
  BY DEF Shaped, StatementsOK
<1>2. Len(s.stmts) \in Nat /\ NB(blk) \in Nat /\ NB(blk) <= Len(s.stmts)
  BY Basics
<1>3. Added(s, t, k, new) /\ IsSeq(t.stmts)
  BY <1>1, AppendIs DEF Added
<1>4. StatementsOK(blk, t)
  <2>1. ASSUME NEW l \in 1..Len(t.stmts) PROVE StatementOK(blk, t.stmts[l], l, Len(t.vals))
    <3>1. l \in 1..Len(s.stmts) \/ l = k
      BY <1>2, <1>3 DEF Added
    <3> QED BY <1>1, <1>3, <3>1 DEF Added
  <2>2. Len(t.stmts) >= NB(blk)
    BY <1>2, <1>3 DEF Added
  <2> QED BY <1>3, <2>1, <2>2 DEF StatementsOK
<1>5. t.block \in Seq(1..Len(t.stmts)) /\ Inserted(s.block, at, k, t.block)
  <2> DEFINE S == 1..Len(t.stmts)
  <2>1. s.block \in Seq(1..Len(s.stmts))
    BY DEF Shaped
  <2>2. 1..Len(s.stmts) \subseteq S /\ k \in S
    BY <1>2, <1>3 DEF Added
  <2> HIDE DEF S
  <2>3. s.block \in Seq(S)
    BY <2>1, <2>2, SeqWider
  <2>4. t.block \in Seq(S) /\ Inserted(s.block, at, k, t.block)
    BY <2>2, <2>3, InsertAtIs
  <2> QED BY <2>4 DEF S
<1>6. ValuesOK(blk, t) /\ RegistersOK(t) /\ Agree(t) /\ NB(blk) \in Nat /\ NP(blk) \in Nat
  BY DEF Shaped, ValuesOK, RegistersOK, Agree
<1> QED BY <1>3, <1>4, <1>5, <1>6 DEF Shaped, Spliced

NewAbove(blk, s, t, at, k) ==
  \A x \in 1..Len(s.block) : IF x < at THEN Above(blk, t, s.block[x], k) ELSE Above(blk, t, k, s.block[x])
NewOut(blk, s, new) ==
  new.out # NoValue => new.out > NP(blk) /\ \A l \in 1..Len(s.stmts) : s.stmts[l].out # new.out
Shifted(blk, s, t, at, k) ==
  \/ at = s.i /\ t.i = s.i + 1
  \/ at > s.i /\ t.i = s.i /\ Numbered(blk, t, k)

\* Order and outputs, if the new statement stands where it may and has an output of its own.
LEMMA SplicedListed ==
  ASSUME NEW blk, NEW s, NEW t, Shaped(blk, s), NEW at \in 1..(Len(s.block) + 1), NEW k, NEW new, Spliced(s, t, at, k, new),
         Listed(blk, s), NewAbove(blk, s, t, at, k), NewOut(blk, s, new), Shifted(blk, s, t, at, k)
  PROVE  Listed(blk, t)
<1>1. Len(s.block) \in Nat /\ Len(s.stmts) \in Nat /\ s.i \in Nat /\ NB(blk) \in Nat /\ NB(blk) <= Len(s.stmts)
  BY Basics
<1>2. Len(t.stmts) = k /\ k = Len(s.stmts) + 1 /\ t.stmts[k] = new /\ \A l \in 1..Len(s.stmts) : t.stmts[l] = s.stmts[l]
  BY DEF Spliced, Added
<1>3. Inserted(s.block, at, k, t.block) /\ Len(t.block) = Len(s.block) + 1
  BY DEF Spliced, Inserted
<1>4. \A x \in 1..Len(t.block) : From(s.block, at, k, t.block, x)
  BY <1>1, <1>3, InsertedFrom
<1>5. \A x \in 1..Len(s.block) : s.block[x] \in 1..Len(s.stmts)
  BY BlockIs
<1>6. \A l \in 1..Len(s.stmts) : Numbered(blk, t, l) <=> Numbered(blk, s, l)
  BY <1>2 DEF Numbered
<1>7. \A x, y \in 1..Len(s.block) : x < y => Above(blk, t, s.block[x], s.block[y])
  BY <1>2, <1>5, <1>6 DEF Listed, InOrder, Above
<1>8. InOrder(blk, t)
  <2> SUFFICES ASSUME NEW x \in 1..Len(t.block), NEW y \in 1..Len(t.block), x < y PROVE Above(blk, t, t.block[x], t.block[y])
    BY DEF InOrder
  <2>1. From(s.block, at, k, t.block, x) /\ From(s.block, at, k, t.block, y)
    BY <1>4
  <2>2. CASE y < at
    <3>1. x \in 1..Len(s.block) /\ t.block[x] = s.block[x] /\ y \in 1..Len(s.block) /\ t.block[y] = s.block[y]
      BY <2>1, <2>2 DEF From
    <3> QED BY <1>7, <3>1
  <2>3. CASE y = at
    <3>1. x \in 1..Len(s.block) /\ t.block[x] = s.block[x] /\ x < at /\ t.block[y] = k
      BY <2>1, <2>3 DEF From
    <3> QED BY <3>1 DEF NewAbove
  <2>4. CASE y > at
    <3>1. (y - 1) \in 1..Len(s.block) /\ t.block[y] = s.block[y - 1] /\ y - 1 >= at
      BY <2>1, <2>4 DEF From
    <3>2. CASE x < at
      <4>1. x \in 1..Len(s.block) /\ t.block[x] = s.block[x] /\ x < y - 1
        BY <2>1, <3>1, <3>2 DEF From
      <4> QED BY <1>7, <3>1, <4>1
    <3>3. CASE x = at
      <4>1. t.block[x] = k /\ ~(y - 1 < at)
        BY <2>1, <3>1, <3>3 DEF From
      <4> QED BY <3>1, <4>1 DEF NewAbove
    <3>4. CASE x > at
      <4>1. (x - 1) \in 1..Len(s.block) /\ t.block[x] = s.block[x - 1] /\ x - 1 < y - 1
        BY <2>1, <3>4 DEF From
      <4> QED BY <1>7, <3>1, <4>1
    <3> QED BY <3>2, <3>3, <3>4
  <2> QED BY <2>2, <2>3, <2>4
<1>9. AllThere(blk, t)
  <2> SUFFICES ASSUME NEW l \in 1..NB(blk) PROVE \E x \in 1..Len(t.block) : t.block[x] = l
    BY DEF AllThere
  <2>1. PICK x \in 1..Len(s.block) : s.block[x] = l
    BY DEF Listed, AllThere
  <2>2. x \in 1..Len(t.block) /\ x + 1 \in 1..Len(t.block)
    BY <1>1, <1>3
  <2>3. IF x < at THEN t.block[x] = l ELSE t.block[x + 1] = l
    BY <1>3, <2>1 DEF Inserted
  <2> QED BY <2>2, <2>3
<1>10. Ahead(blk, t)
  <2> SUFFICES ASSUME NEW x \in 1..Len(t.block), x >= t.i PROVE Numbered(blk, t, t.block[x])
    BY DEF Ahead
  <2>1. From(s.block, at, k, t.block, x)
    BY <1>4
  <2>2. CASE x < at
    <3>1. x \in 1..Len(s.block) /\ t.block[x] = s.block[x] /\ x >= s.i
      BY <1>1, <2>1, <2>2 DEF From, Shifted
    <3> QED BY <1>5, <1>6, <3>1 DEF Listed, Ahead
  <2>3. CASE x = at
    <3>1. t.block[x] = k /\ Numbered(blk, t, k)
      BY <1>1, <2>1, <2>3 DEF From, Shifted
    <3> QED BY <3>1
  <2>4. CASE x > at
    <3>1. (x - 1) \in 1..Len(s.block) /\ t.block[x] = s.block[x - 1] /\ x - 1 >= s.i
      BY <1>1, <2>1, <2>4 DEF From, Shifted
    <3> QED BY <1>5, <1>6, <3>1 DEF Listed, Ahead
  <2> QED BY <2>2, <2>3, <2>4
<1>11. OutsDistinct(blk, t)
  <2> SUFFICES ASSUME NEW l \in 1..Len(t.stmts), t.stmts[l].out # NoValue
               PROVE  t.stmts[l].out > NP(blk) /\ \A j \in 1..Len(t.stmts) : t.stmts[j].out = t.stmts[l].out => j = l
    BY DEF OutsDistinct
  <2>1. \A j \in 1..Len(t.stmts) : j \in 1..Len(s.stmts) \/ j = k
    BY <1>1, <1>2
  <2>2. CASE l = k
    BY <1>2, <2>1, <2>2 DEF NewOut
  <2>3. CASE l # k
    <3>1. l \in 1..Len(s.stmts) /\ t.stmts[l] = s.stmts[l]
      BY <1>2, <2>1, <2>3
    <3>2. s.stmts[l].out > NP(blk) /\ \A j \in 1..Len(s.stmts) : s.stmts[j].out = s.stmts[l].out => j = l
      BY <3>1 DEF Listed, OutsDistinct
    <3>3. ASSUME NEW j \in 1..Len(t.stmts), t.stmts[j].out = t.stmts[l].out PROVE j = l
      <4>1. CASE j = k
        BY <1>2, <3>1, <3>3, <4>1 DEF NewOut
      <4>2. CASE j # k
        BY <1>2, <2>1, <3>1, <3>2, <3>3, <4>2
      <4> QED BY <4>1, <4>2
    <3> QED BY <3>1, <3>2, <3>3
  <2> QED BY <2>2, <2>3
<1> QED BY <1>8, <1>9, <1>10, <1>11 DEF Listed

\* The loop is still at the same statement.
LEMMA SplicedCurrent ==
  ASSUME NEW blk, NEW s, NEW t, Shaped(blk, s), NEW at \in 1..(Len(s.block) + 1), NEW k, NEW new, Spliced(s, t, at, k, new),
         Shifted(blk, s, t, at, k), s.i <= Len(s.block)
  PROVE  t.i <= Len(t.block) /\ t.block[t.i] = s.block[s.i] /\ t.stmts[t.block[t.i]] = s.stmts[s.block[s.i]]
<1>1. s.i \in 1..Len(s.block) /\ s.block[s.i] \in 1..Len(s.stmts)
  BY CurrentIs
<1>2. Len(s.block) \in Nat /\ s.i \in Nat
  BY Basics
<1>3. Len(t.block) = Len(s.block) + 1 /\ IF s.i < at THEN t.block[s.i] = s.block[s.i] ELSE t.block[s.i + 1] = s.block[s.i]
  BY <1>1 DEF Spliced, Inserted
<1>4. t.i <= Len(t.block) /\ t.block[t.i] = s.block[s.i]
  <2>1. CASE at = s.i /\ t.i = s.i + 1
    <3>1. ~(s.i < at) /\ s.i + 1 <= Len(s.block) + 1
      <4>1. s.i <= Len(s.block) /\ ~(s.i < s.i)
        BY <1>2
      <4> QED BY <1>2, <2>1, <4>1
    <3>2. t.block[s.i + 1] = s.block[s.i] /\ Len(t.block) = Len(s.block) + 1
      BY <1>3, <3>1
    <3> DEFINE b == s.i + 1
               L == Len(t.block)
    <3>3. t.i = b /\ t.block[b] = s.block[s.i] /\ b <= L
      BY <2>1, <3>1, <3>2
    <3> HIDE DEF b, L
    <3>4. t.i <= L /\ t.block[t.i] = s.block[s.i]
      BY <3>3
    <3> QED BY <3>4 DEF L
  <2>2. CASE at > s.i /\ t.i = s.i
    <3>1. s.i < at /\ s.i <= Len(s.block) + 1
      BY <1>2, <2>2
    <3>2. t.block[s.i] = s.block[s.i] /\ Len(t.block) = Len(s.block) + 1
      BY <1>3, <3>1
    <3>3. t.i <= Len(t.block)
      BY <2>2, <3>1, <3>2
    <3>4. t.block[t.i] = s.block[s.i]
      BY <2>2, <3>2
    <3> QED BY <3>3, <3>4
  <2>3. (at = s.i /\ t.i = s.i + 1) \/ (at > s.i /\ t.i = s.i)
    BY DEF Shifted
  <2> QED BY <2>1, <2>2, <2>3
<1>5. \A l \in 1..Len(s.stmts) : t.stmts[l] = s.stmts[l]
  BY DEF Spliced, Added
<1>6. t.stmts[s.block[s.i]] = s.stmts[s.block[s.i]]
  BY <1>1, <1>5
<1> QED BY <1>4, <1>6

\* The values are as they were.
LEMMA SplicedTracked ==
  ASSUME NEW blk, NEW s, NEW t, Shaped(blk, s), NEW at \in 1..(Len(s.block) + 1), NEW k, NEW new, Spliced(s, t, at, k, new),
         Shifted(blk, s, t, at, k), s.i <= Len(s.block), NEW x \in 1..Len(s.vals), NEW hi
  PROVE  /\ Fresh(s, x) => Fresh(t, x)
         /\ EdgesOK(blk, s, x) => EdgesOK(blk, t, x)
         /\ Counted(blk, s, x, s.stmts[s.block[s.i]], hi) => Counted(blk, t, x, t.stmts[t.block[t.i]], hi)
         /\ \A num : UsedAfter(s, x, num) => UsedAfter(t, x, num)
<1> DEFINE e == s.vals[x].edges
           st == s.stmts[s.block[s.i]]
<1>1. t.vals = s.vals /\ t.alloced = s.alloced
  BY DEF Spliced
<1>2. \A l \in 1..NB(blk) : t.stmts[l] = s.stmts[l]
  BY NumbersAre DEF Spliced, Added
<1>3. t.stmts[t.block[t.i]] = st
  BY SplicedCurrent
<1>4. Fresh(s, x) => Fresh(t, x)
  BY <1>1 DEF Fresh
<1>5. EdgesOK(blk, s, x) => EdgesOK(blk, t, x)
  BY <1>1, <1>2 DEF EdgesOK
<1>6. e \in Seq(1..NB(blk))
  BY DEF Shaped, ValuesOK, ValueOK
<1>7. \A y \in 1..Len(e) : t.stmts[e[y]] = s.stmts[e[y]]
  BY <1>2, <1>6, SeqHas
<1>8. ASSUME Counted(blk, s, x, st, hi) PROVE Counted(blk, t, x, st, hi)
  <2>1. CASE Exempt(blk, e)
    BY <1>1, <2>1 DEF Counted
  <2>2. CASE ~Exempt(blk, e)
    <3>1. PICK p \in 0..Len(e) : CountedTo(s, x, st, hi, p)
      BY <1>8, <2>2 DEF Counted
    <3>2. CountedTo(t, x, st, hi, p)
      BY <1>1, <1>7, <3>1 DEF CountedTo, Prefix
    <3> QED BY <1>1, <3>2 DEF Counted
  <2> QED BY <2>1, <2>2
<1>9. \A num : UsedAfter(s, x, num) => UsedAfter(t, x, num)
  BY <1>1, <1>7 DEF UsedAfter
<1> QED BY <1>3, <1>4, <1>5, <1>8, <1>9

\* A mov or a store before the current statement.
LEMMA HereBooks ==
  ASSUME NEW blk, NEW s, NEW t, Shaped(blk, s), s.i <= Len(s.block), NEW k, NEW new, Spliced(s, t, s.i, k, new),
         t.i = s.i + 1, new.op # "unspill", NewOut(blk, s, new),
         NEW n \in Int, n >= s.i, NEW q \in Int, NEW hi, Books(blk, s, n, q, hi)
  PROVE  Books(blk, t, n + 1, q, hi) /\ \A x : Pending(blk, t, n + 1, q, x) => Pending(blk, s, n, q, x)
<1>0. s.i \in 1..(Len(s.block) + 1) /\ s.i \in Nat /\ Len(s.block) \in Nat /\ Len(s.stmts) \in Nat /\ NB(blk) \in Nat /\ NB(blk) <= Len(s.stmts)
  <2>1. s.i \in Nat /\ s.i >= 1 /\ Len(s.block) \in Nat /\ Len(s.stmts) \in Nat /\ NB(blk) \in Nat /\ NB(blk) <= Len(s.stmts)
    BY Basics
  <2> QED BY <2>1
<1>1. Shifted(blk, s, t, s.i, k)
  BY DEF Shifted
<1>2. k = Len(s.stmts) + 1 /\ t.stmts[k] = new /\ (\A l \in 1..Len(s.stmts) : t.stmts[l] = s.stmts[l]) /\ t.vals = s.vals
      /\ t.alloced = s.alloced /\ Inserted(s.block, s.i, k, t.block)
  BY DEF Spliced, Added
<1>3. \A x \in 1..Len(s.block) : s.block[x] \in 1..Len(s.stmts)
  BY BlockIs
<1>4. NewAbove(blk, s, t, s.i, k)
  <2>1. ~Numbered(blk, t, k)
    BY <1>0, <1>2 DEF Numbered
  <2>2. \A x \in 1..Len(s.block) : s.block[x] # k
    BY <1>0, <1>2, <1>3
  <2> QED BY <2>1, <2>2 DEF NewAbove, Above
<1>5. Listed(blk, t)
  BY <1>0, <1>1, <1>4, SplicedListed DEF Books
<1>6. ASSUME NEW x \in 1..Len(t.block), x >= n + 1
      PROVE  (x - 1) \in 1..Len(s.block) /\ x - 1 >= n /\ t.block[x] = s.block[x - 1] /\ t.stmts[t.block[x]] = s.stmts[s.block[x - 1]]
  <2>1. From(s.block, s.i, k, t.block, x)
    BY <1>0, <1>2, InsertedFrom
  <2>2. x > s.i /\ x - 1 >= n
    BY <1>0, <1>6
  <2>3. (x - 1) \in 1..Len(s.block) /\ t.block[x] = s.block[x - 1]
    BY <1>0, <2>1, <2>2 DEF From
  <2> QED BY <1>2, <1>3, <2>2, <2>3
<1>7. ASSUME NEW x, Pending(blk, t, n + 1, q, x) PROVE Pending(blk, s, n, q, x)
  BY <1>6, <1>7 DEF Pending, PendingOut
<1>8. ASSUME NEW x \in 1..Len(s.vals)
      PROVE  /\ Fresh(s, x) => Fresh(t, x)
             /\ EdgesOK(blk, s, x) => EdgesOK(blk, t, x)
             /\ Counted(blk, s, x, s.stmts[s.block[s.i]], hi) => Counted(blk, t, x, t.stmts[t.block[t.i]], hi)
             /\ \A num : UsedAfter(s, x, num) => UsedAfter(t, x, num)
  BY <1>0, <1>1, SplicedTracked
<1>9. UsedLater(t, n + 1)
  <2> SUFFICES ASSUME NEW x \in 1..Len(t.block), x >= n + 1, t.stmts[t.block[x]].out # NoValue
               PROVE  UsedAfter(t, t.stmts[t.block[x]].out, t.stmts[t.block[x]].num)
    BY DEF UsedLater
  <2> DEFINE st == s.stmts[s.block[x - 1]]
  <2>1. (x - 1) \in 1..Len(s.block) /\ x - 1 >= n /\ t.stmts[t.block[x]] = st
    BY <1>6
  <2>2. UsedAfter(s, st.out, st.num)
    BY <2>1 DEF Books, UsedLater
  <2>3. st.out \in 1..Len(s.vals)
    <3>1. st.out # NoValue
      BY <2>1
    <3> QED BY <2>1, <3>1, OutIs
  <2> QED BY <1>8, <2>1, <2>2, <2>3
<1>10. ASSUME NEW x \in 1..Len(t.vals) PROVE Tracked(blk, t, n + 1, q, hi, x)
  <2>1. Tracked(blk, s, n, q, hi, x) /\ x \in 1..Len(s.vals)
    BY <1>2 DEF Books
  <2>2. Live(blk, t, n + 1, q, x) => Live(blk, s, n, q, x)
    BY <1>2, <1>7 DEF Live, Allocated
  <2> QED BY <1>7, <1>8, <2>1, <2>2 DEF Tracked
<1> QED BY <1>5, <1>7, <1>9, <1>10 DEF Books

\* A load before a later statement.
LEMMA AheadBooks ==
  ASSUME NEW blk, NEW s, NEW t, Shaped(blk, s), s.i <= Len(s.block), NEW at \in 1..(Len(s.block) + 1), NEW k, NEW new,
         Spliced(s, t, at, k, new), t.i = s.i, at > s.i, NEW n \in Int, at >= n, new.op = "unspill", NewOut(blk, s, new),
         NewAbove(blk, s, t, at, k), NEW q \in Int, NEW hi, Books(blk, s, n, q, hi),
         NEW w \in 1..Len(s.vals), w = new.out, Fresh(s, w), EdgesOK(blk, s, w), UsedAfter(s, w, new.num),
         Counted(blk, s, w, s.stmts[s.block[s.i]], hi)
  PROVE  Books(blk, t, n, q, hi) /\ \A x : Pending(blk, t, n, q, x) => x = w \/ Pending(blk, s, n, q, x)
<1>0. Len(s.block) \in Nat /\ Len(s.stmts) \in Nat /\ s.i \in Nat /\ NB(blk) \in Nat
  BY Basics
<1>1. k = Len(s.stmts) + 1 /\ t.stmts[k] = new /\ (\A l \in 1..Len(s.stmts) : t.stmts[l] = s.stmts[l]) /\ t.vals = s.vals
      /\ t.alloced = s.alloced /\ Inserted(s.block, at, k, t.block)
  BY DEF Spliced, Added
<1>2. Shifted(blk, s, t, at, k)
  BY <1>1 DEF Shifted, Numbered
<1>3. \A x \in 1..Len(s.block) : s.block[x] \in 1..Len(s.stmts)
  BY BlockIs
<1>4. Listed(blk, t)
  BY <1>2, SplicedListed DEF Books
<1>5. ASSUME NEW x \in 1..Len(t.block), x >= n
      PROVE  \/ t.stmts[t.block[x]] = new
             \/ \E y \in 1..Len(s.block) : y >= n /\ t.stmts[t.block[x]] = s.stmts[s.block[y]]
  <2>1. From(s.block, at, k, t.block, x)
    BY <1>0, <1>1, InsertedFrom
  <2>2. CASE x < at
    <3>1. x \in 1..Len(s.block) /\ t.block[x] = s.block[x]
      BY <2>1, <2>2 DEF From
    <3> QED BY <1>1, <1>3, <1>5, <3>1
  <2>3. CASE x = at
    BY <1>1, <2>1, <2>3 DEF From
  <2>4. CASE x > at
    <3>1. (x - 1) \in 1..Len(s.block) /\ t.block[x] = s.block[x - 1] /\ x - 1 >= n
      BY <2>1, <2>4 DEF From
    <3> QED BY <1>1, <1>3, <3>1
  <2> QED BY <2>2, <2>3, <2>4
<1>6. ASSUME NEW x, Pending(blk, t, n, q, x) PROVE x = w \/ Pending(blk, s, n, q, x)
  <2>1. CASE PendingOut(t, n, x)
    <3>1. PICK y \in 1..Len(t.block) : y >= n /\ t.stmts[t.block[y]].out = x
      BY <2>1 DEF PendingOut
    <3> QED BY <1>5, <3>1 DEF Pending, PendingOut
  <2> QED BY <1>6, <2>1 DEF Pending
<1>7. ASSUME NEW x \in 1..Len(s.vals)
      PROVE  /\ Fresh(s, x) => Fresh(t, x)
             /\ EdgesOK(blk, s, x) => EdgesOK(blk, t, x)
             /\ Counted(blk, s, x, s.stmts[s.block[s.i]], hi) => Counted(blk, t, x, t.stmts[t.block[t.i]], hi)
             /\ \A num : UsedAfter(s, x, num) => UsedAfter(t, x, num)
  BY <1>2, SplicedTracked
<1>8. UsedLater(t, n)
  <2> SUFFICES ASSUME NEW x \in 1..Len(t.block), x >= n, t.stmts[t.block[x]].out # NoValue
               PROVE  UsedAfter(t, t.stmts[t.block[x]].out, t.stmts[t.block[x]].num)
    BY DEF UsedLater
  <2>1. CASE t.stmts[t.block[x]] = new
    BY <1>7, <2>1
  <2>2. CASE t.stmts[t.block[x]] # new
    <3>1. PICK y \in 1..Len(s.block) : y >= n /\ t.stmts[t.block[x]] = s.stmts[s.block[y]]
      BY <1>5, <2>2
    <3> DEFINE st == s.stmts[s.block[y]]
    <3>2. UsedAfter(s, st.out, st.num)
      BY <3>1 DEF Books, UsedLater
    <3>3. st.out \in 1..Len(s.vals)
      <4>1. st.out # NoValue
        BY <3>1
      <4> QED BY <4>1, OutIs
    <3> QED BY <1>7, <3>1, <3>2, <3>3
  <2> QED BY <2>1, <2>2
<1>9. ASSUME NEW x \in 1..Len(t.vals) PROVE Tracked(blk, t, n, q, hi, x)
  <2>1. Tracked(blk, s, n, q, hi, x) /\ x \in 1..Len(s.vals)
    BY <1>1 DEF Books
  <2>2. CASE x = w
    BY <1>7, <2>1, <2>2 DEF Tracked
  <2>3. CASE x # w
    <3>1. Pending(blk, t, n, q, x) => Pending(blk, s, n, q, x)
      BY <1>6, <2>3
    <3>2. Live(blk, t, n, q, x) => Live(blk, s, n, q, x)
      BY <1>1, <3>1 DEF Live, Allocated
    <3> QED BY <1>7, <2>1, <3>1, <3>2 DEF Tracked
  <2> QED BY <2>2, <2>3
<1> QED BY <1>4, <1>6, <1>8, <1>9 DEF Books

\* A value whose register is set is put into it.
LEMMA AllocBooks ==
  ASSUME NEW blk, NEW s, NEW t, Shaped(blk, s), DOMAIN t = Fields, t.block = s.block, t.stmts = s.stmts, t.vals = s.vals,
         t.i = s.i, t.slots \in Nat, s.i <= Len(s.block), NEW w \in 1..Len(s.vals), NEW r \in Usable(s.vals[w].float),
         t.alloced = [s.alloced EXCEPT ![r] = w], s.vals[w].reg = r, s.vals[w].spilled = None,
         NEW n \in Int, NEW q \in Int, NEW hi, Books(blk, s, n, q, hi), ~Pending(blk, s, n, q, w),
         EdgesOK(blk, s, w), Counted(blk, s, w, s.stmts[s.block[s.i]], hi)
  PROVE  Shaped(blk, t) /\ Books(blk, t, n, q, hi) /\ \A x : Pending(blk, t, n, q, x) => Pending(blk, s, n, q, x)
<1>1. r \in Reg /\ r \notin ReservedRegs /\ DOMAIN s.alloced = Reg /\ Len(s.vals) \in Nat
  BY UsableIs, HeldIs, Basics
<1>2. \A x \in Reg : t.alloced[x] = IF x = r THEN w ELSE s.alloced[x]
  BY <1>1
<1>3. RegistersOK(t)
  <2>1. \A x \in Reg : t.alloced[x] \in {None, Reserved} \cup 1..Len(t.vals)
    BY <1>2, HeldIs
  <2>2. t.alloced \in [Reg -> {None, Reserved} \cup 1..Len(t.vals)]
    BY <1>1, <2>1
  <2>3. ReservedRegs \subseteq Reg
    BY DEF ReservedRegs, Reg, RSP, RBP, R11, XMM5
  <2>4. \A x \in ReservedRegs : t.alloced[x] = Reserved
    BY <1>1, <1>2, <2>3 DEF Shaped, RegistersOK
  <2> QED BY <2>2, <2>4 DEF RegistersOK
<1>4. Agree(t)
  BY <1>2, HeldIs DEF Agree
<1>5. ValuesOK(blk, t) /\ t.i \in Nat \ {0}
  BY DEF Shaped, ValuesOK
<1>6. Shaped(blk, t)
  BY <1>3, <1>4, <1>5, ShapedSteady
<1>7. Steady(s, t)
  BY DEF Steady
<1>8. \A x : Pending(blk, t, n, q, x) <=> Pending(blk, s, n, q, x)
  BY DEF Pending, PendingOut
<1>9. ASSUME NEW x, Live(blk, t, n, q, x) PROVE x = w \/ Live(blk, s, n, q, x)
  BY <1>2, <1>8, <1>9 DEF Live, Allocated
<1>10. Listed(blk, t) /\ UsedLater(t, n)
  <2>1. s.i \in Int /\ t.i \in Int /\ t.i >= s.i /\ n <= n
    BY Basics
  <2>2. Listed(blk, s) /\ UsedLater(s, n) /\ StatementsOK(blk, s) /\ s.block \in Seq(1..Len(s.stmts))
    BY DEF Books, Shaped
  <2>3. Listed(blk, t)
    BY <1>7, <2>1, <2>2, SteadyListed
  <2>4. UsedLater(t, n)
    BY <1>7, <2>1, <2>2, SteadyLater
  <2> QED BY <2>3, <2>4
<1>11. ASSUME NEW x \in 1..Len(t.vals) PROVE Tracked(blk, t, n, q, hi, x)
  <2>1. Tracked(blk, s, n, q, hi, x)
    BY DEF Books
  <2>2. EdgesOK(blk, s, x) => EdgesOK(blk, t, x)
    BY DEF EdgesOK
  <2>3. \A st : Counted(blk, s, x, st, hi) => Counted(blk, t, x, st, hi)
    BY Zenon DEF Counted, CountedTo, Prefix
  <2>4. Fresh(s, x) /\ x # w => Fresh(t, x)
    BY <1>2 DEF Fresh
  <2>5. CASE x = w
    BY <1>8, <2>2, <2>3, <2>5 DEF Tracked
  <2>6. CASE x # w
    BY <1>8, <1>9, <2>1, <2>2, <2>3, <2>4, <2>6 DEF Tracked
  <2> QED BY <2>5, <2>6
<1> QED BY <1>6, <1>8, <1>10, <1>11 DEF Books

\* A value that is only used later has been counted.
LEMMA LaterCounted ==
  ASSUME NEW blk, NEW s, Shaped(blk, s), Listed(blk, s), s.i <= Len(s.block), NEW w \in 1..Len(s.vals),
         EdgesOK(blk, s, w), s.vals[w].used = 0,
         UsedAfter(s, w, s.stmts[s.block[s.i]].num), NEW hi \in Nat, hi <= Len(s.stmts[s.block[s.i]].args)
  PROVE  Counted(blk, s, w, s.stmts[s.block[s.i]], hi)
<1> DEFINE e == s.vals[w].edges
           k == s.block[s.i]
           st == s.stmts[k]
           u == Uses(w, st)
<1>1. s.i \in 1..Len(s.block) /\ k \in 1..Len(s.stmts) /\ StatementOK(blk, st, k, Len(s.vals)) /\ s.i >= s.i
  BY SMTT(30), CurrentIs, Basics
<1>2. st.num \in Int /\ st.args \in Seq(0..Len(s.vals))
  BY Zenon, <1>1 DEF StatementOK
<1>3. e \in Seq(1..NB(blk))
  BY DEF Shaped, ValuesOK, ValueOK
<1>4. Len(e) \in Nat /\ \A x \in 1..Len(e) : e[x] \in 1..NB(blk)
  BY <1>3, SeqHas
<1>5. \A x \in 1..Len(e) : s.stmts[e[x]].num > st.num /\ s.stmts[e[x]].num \in Int
  <2>1. \A x \in 1..Len(e) : s.stmts[e[x]].num > st.num
    BY DEF UsedAfter
  <2>2. \A j \in 1..NB(blk) : s.stmts[j].num = 2 * (j - 1) /\ j \in Int
    BY NumbersAre
  <2> HIDE DEF e, st
  <2>3. \A j \in 1..NB(blk) : s.stmts[j].num \in Int
    BY <2>2
  <2> QED BY <1>4, <2>1, <2>3
<1>6. HasUses(e, k, u) /\ u \in Nat
  <2> HIDE DEF e, st, k, u
  <2>1. HasUses(s.vals[w].edges, s.block[s.i], Uses(w, s.stmts[s.block[s.i]])) /\ Uses(w, s.stmts[s.block[s.i]]) \in Nat
    BY <1>1, CurrentUses
  <2> QED BY <2>1 DEF e, st, k, u
<1> HIDE DEF e, u
<1>7. \A x \in 1..Len(e) : e[x] # k
  BY SMTT(30), <1>2, <1>5
<1>8. u = 0
  <2> SUFFICES ASSUME u > 0 PROVE FALSE
    BY <1>6
  <2>1. PICK y \in 0..Len(e) : UsesAt(e, k, u, y)
    BY <1>6 DEF HasUses
  <2>2. y + 1 \in 1..Len(e) /\ e[y + 1] = k
    BY <1>4, <1>6, <2>1 DEF UsesAt
  <2> QED BY <1>7, <2>2
<1>9. Operand(st, w, 1, hi) = 0
  BY <1>2, <1>8, OperandZero DEF u
<1>10. Prefix(s, e, st.num, 0)
  <2> HIDE DEF st, k
  <2>1. \A x \in 1..Len(e) : ~(s.stmts[e[x]].num < st.num)
    BY SMTT(30), <1>2, <1>5
  <2>2. \A x \in 1..Len(e) : ~(x <= 0)
    BY <1>4
  <2> QED BY <2>1, <2>2 DEF Prefix
<1>11. CountedTo(s, w, st, hi, 0)
  BY <1>9, <1>10 DEF CountedTo, e
<1> QED BY <1>4, <1>11 DEF Counted, e

\* first_empty finds a register of the kind that nobody has.
LEMMA FirstEmptyIs ==
  ASSUME NEW blk, NEW s, Shaped(blk, s), count \in 1..16, NEW float \in BOOLEAN, NEW allow,
         NEW r, r = first_empty(s.alloced, float, allow), r # None
  PROVE  r \in Usable(float) /\ r \in Reg /\ s.alloced[r] = None
<1> DEFINE empty == {x \in Bank(float) \cap allow : s.alloced[x] = None}
           cheap == empty \cap Clobbered
<1>1. \A x \in Bank(float) : x \in Nat /\ x \in IF float THEN 16..31 ELSE 0..15
  BY DEF Bank, XMM0
<1>2. empty \subseteq Nat /\ cheap \subseteq empty
  BY <1>1
<1>3. r = IF cheap # {} THEN Minimum(cheap) ELSE IF empty # {} THEN Minimum(empty) ELSE None
  BY DEF first_empty
<1>4. r \in empty
  <2> HIDE DEF empty, cheap
  <2>1. CASE cheap # {}
    <3>1. cheap \subseteq Nat
      BY <1>2
    <3>2. Minimum(cheap) \in cheap
      BY <2>1, <3>1, MinimumIs
    <3> QED BY <1>2, <1>3, <2>1, <3>2
  <2>2. CASE cheap = {}
    <3>1. empty # {} /\ r = Minimum(empty)
      BY <1>3, <2>2
    <3>2. Minimum(empty) \in empty
      BY <1>2, <3>1, MinimumIs
    <3> QED BY <3>1, <3>2
  <2> QED BY <2>1, <2>2
<1>5. r \in Bank(float) /\ s.alloced[r] = None
  BY <1>4
<1>6. r \notin ReservedRegs
  BY <1>5 DEF Shaped, RegistersOK, None, Reserved
<1> HIDE DEF empty, cheap
<1>7. r \in Usable(float)
  BY <1>1, <1>5, <1>6 DEF Usable, ReservedRegs
<1> QED BY <1>5, <1>7, UsableIs

\* A value that has lost its register, and its uses e.
Cutting(blk, s, n, q, hi, v, e, num) ==
  /\ Shaped(blk, s) /\ s.i <= Len(s.block) /\ v \in 1..Len(s.vals)
  /\ Books(blk, s, n, q, hi) /\ ~Allocated(s, v) /\ ~Pending(blk, s, n, q, v)
  /\ e \in Seq(1..NB(blk)) /\ EdgesFit(blk, s, e, v)
  /\ num \in Int /\ num > s.stmts[s.block[s.i]].num
SameCurrent(s, t) ==
  t.i <= Len(t.block) /\ t.block[t.i] = s.block[s.i] /\ t.stmts[t.block[t.i]] = s.stmts[s.block[s.i]]
SameFloats(s, t) == Len(t.vals) >= Len(s.vals) /\ \A x \in 1..Len(s.vals) : t.vals[x].float = s.vals[x].float
Put(f, v, new) == [f EXCEPT ![v] = new]
NextTurn(s, t) == t.i = s.i + 1
MovesTo(new, w) == new.op # "unspill" /\ new.out = w
Trimmed(blk, s, t, v, new) ==
  /\ DOMAIN t = Fields /\ t.block = s.block /\ t.stmts = s.stmts /\ t.alloced = s.alloced /\ t.i = s.i /\ t.slots \in Nat
  /\ ValueOK(blk, new) /\ new.float = s.vals[v].float /\ t.vals = Put(s.vals, v, new)

\* Its record changes.
LEMMA CuttingTrimmed ==
  ASSUME NEW blk, NEW s, NEW t, NEW n \in Int, NEW q \in Int, NEW hi, NEW v, NEW e, NEW num, Cutting(blk, s, n, q, hi, v, e, num),
         NEW new, Trimmed(blk, s, t, v, new)
  PROVE  Cutting(blk, t, n, q, hi, v, e, num) /\ SameCurrent(s, t) /\ SameFloats(s, t) /\ t.vals[v] = new /\ Len(t.vals) = Len(s.vals)
<1>1. Shaped(blk, s) /\ s.i <= Len(s.block) /\ v \in 1..Len(s.vals) /\ Books(blk, s, n, q, hi) /\ ~Allocated(s, v) /\ ~Pending(blk, s, n, q, v)
  BY DEF Cutting
<1>2. Shaped(blk, t) /\ DeadToo(blk, s, t, v)
  BY <1>1, DeadBooks DEF Put, Trimmed
<1>3. Books(blk, t, n, q, hi)
  BY <1>1, <1>2 DEF DeadToo
<1>4. ~Allocated(t, v) /\ ~Pending(blk, t, n, q, v)
  BY <1>1 DEF Allocated, Pending, PendingOut, Trimmed
<1>5. DOMAIN s.vals = 1..Len(s.vals) /\ Len(s.vals) \in Nat /\ IsSeq(s.vals)
  BY <1>1, Basics DEF Shaped, ValuesOK
<1>6. \A x \in 1..Len(s.vals) : t.vals[x] = IF x = v THEN new ELSE s.vals[x]
  BY <1>5 DEF Put, Trimmed
<1>7. Len(t.vals) = Len(s.vals)
  <2>1. t.vals = [x \in 1..Len(s.vals) |-> t.vals[x]]
    BY <1>5, <1>6 DEF Put, Trimmed
  <2> QED BY <1>5, <2>1, FunctionSeq
<1>8. SameFloats(s, t) /\ t.vals[v] = new
  BY <1>1, <1>5, <1>6, <1>7 DEF SameFloats, Trimmed
<1>9. SameCurrent(s, t)
  BY <1>1 DEF SameCurrent, Trimmed
<1>10. EdgesFit(blk, t, e, v)
  BY DEF Cutting, EdgesFit, Trimmed
<1> QED BY <1>1, <1>2, <1>3, <1>4, <1>7, <1>8, <1>9, <1>10 DEF Cutting, Trimmed

\* A store of it is inserted.
LEMMA CuttingStored ==
  ASSUME NEW blk, NEW s, NEW t, NEW n \in Int, NEW q \in Int, NEW hi, NEW v, NEW e, NEW num, Cutting(blk, s, n, q, hi, v, e, num),
         n >= s.i, Shaped(blk, t), NEW k, NEW new, Spliced(s, t, s.i, k, new), NextTurn(s, t), MovesTo(new, NoValue)
  PROVE  Cutting(blk, t, n + 1, q, hi, v, e, num) /\ SameCurrent(s, t) /\ t.vals = s.vals
<1>1. Shaped(blk, s) /\ s.i <= Len(s.block) /\ v \in 1..Len(s.vals) /\ Books(blk, s, n, q, hi) /\ ~Allocated(s, v) /\ ~Pending(blk, s, n, q, v)
  BY DEF Cutting
<1>2. NewOut(blk, s, new) /\ Shifted(blk, s, t, s.i, k) /\ s.i \in 1..(Len(s.block) + 1)
  <2>1. s.i \in Nat /\ s.i >= 1 /\ Len(s.block) \in Nat
    BY <1>1, Basics
  <2> QED BY <1>1, <2>1 DEF NewOut, Shifted, NextTurn, MovesTo
<1>3. Books(blk, t, n + 1, q, hi) /\ \A x : Pending(blk, t, n + 1, q, x) => Pending(blk, s, n, q, x)
  BY <1>1, <1>2, HereBooks DEF NextTurn, MovesTo
<1>4. SameCurrent(s, t)
  BY <1>1, <1>2, SplicedCurrent DEF SameCurrent
<1>5. t.vals = s.vals /\ t.alloced = s.alloced /\ \A l \in 1..Len(s.stmts) : t.stmts[l] = s.stmts[l]
  BY DEF Spliced, Added
<1>6. EdgesFit(blk, t, e, v)
  <2>1. \A l \in 1..NB(blk) : t.stmts[l] = s.stmts[l]
    BY <1>1, <1>5, NumbersAre
  <2>2. EdgesFit(blk, s, e, v)
    BY DEF Cutting
  <2> QED BY <2>1, <2>2 DEF EdgesFit
<1>7. ~Allocated(t, v) /\ ~Pending(blk, t, n + 1, q, v)
  BY <1>1, <1>3, <1>5 DEF Allocated
<1>8. num \in Int /\ num > t.stmts[t.block[t.i]].num /\ e \in Seq(1..NB(blk))
  BY <1>4 DEF Cutting, SameCurrent
<1> QED BY <1>1, <1>3, <1>4, <1>5, <1>6, <1>7, <1>8 DEF Cutting, SameCurrent

\* The value that takes over the later uses: it has no register yet.
Ready(blk, s, n, q, hi, w) ==
  /\ Shaped(blk, s) /\ s.i <= Len(s.block) /\ w \in 1..Len(s.vals) /\ w > NP(blk)
  /\ Books(blk, s, n, q, hi) /\ ~Allocated(s, w) /\ ~Pending(blk, s, n, q, w)
  /\ EdgesOK(blk, s, w) /\ s.vals[w].used = 0 /\ s.vals[w].spilled = None
  /\ UsedAfter(s, w, s.stmts[s.block[s.i]].num)
NoOut(s, w) == \A l \in 1..Len(s.stmts) : s.stmts[l].out # w

\* Where the uses are cut.
LEMMA CuttingCut ==
  ASSUME NEW blk, NEW s, NEW n, NEW q, NEW hi, NEW v, NEW num, Cutting(blk, s, n, q, hi, v, s.vals[v].edges, num)
  PROVE  /\ Before(s, v, num) \in Seq(1..NB(blk)) /\ Late(s, v, num) \in Seq(1..NB(blk))
         /\ \E p \in 0..Len(s.vals[v].edges) :
              Prefix(s, s.vals[v].edges, num, p) /\ Cut(s.vals[v].edges, p, Before(s, v, num), Late(s, v, num))
<1> DEFINE e == s.vals[v].edges
<1>1. Shaped(blk, s) /\ e \in Seq(1..NB(blk)) /\ Sorted(e) /\ num \in Int
  BY DEF Cutting, EdgesFit
<1>2. PICK p \in 0..Len(e) : Prefix(s, e, num, p)
  <2> HIDE DEF e
  <2> QED BY <1>1, PrefixExists
<1> QED BY <1>1, <1>2, CutIs

\* A use that was cut off is the use of a statement that is still to come.
LEMMA LateLater ==
  ASSUME NEW blk, NEW s, Shaped(blk, s), NEW e \in Seq(1..NB(blk)), NEW num \in Int, NEW p \in 0..Len(e), Prefix(s, e, num, p),
         NEW f, NEW late, late \in Seq(1..NB(blk)), Cut(e, p, f, late)
  PROVE  \A x \in 1..Len(late) : late[x] \in 1..NB(blk) /\ s.stmts[late[x]].num >= num /\ s.stmts[late[x]].num \in Int
<1> SUFFICES ASSUME NEW x \in 1..Len(late)
             PROVE  late[x] \in 1..NB(blk) /\ s.stmts[late[x]].num >= num /\ s.stmts[late[x]].num \in Int
  OBVIOUS
<1>1. Len(e) \in Nat /\ Len(late) \in Nat /\ late[x] \in 1..NB(blk)
  BY SeqHas
<1>2. Len(late) = Len(e) - p /\ late[x] = e[p + x]
  BY DEF Cut
<1>3. p + x \in 1..Len(e) /\ ~(p + x <= p)
  BY <1>1, <1>2
<1>4. ~(s.stmts[e[p + x]].num < num)
  BY <1>3 DEF Prefix
<1>5. s.stmts[late[x]].num = 2 * (late[x] - 1)
  BY SMTT(30), <1>1, NumbersAre
<1>6. s.stmts[late[x]].num \in Int
  BY <1>1, <1>5
<1> QED BY <1>1, <1>2, <1>4, <1>6

\* The order of numbers.
LEMMA OrderIs ==
  ASSUME NEW x \in Int, NEW y \in Int, NEW z \in Int, x >= y, y > z
  PROVE  x > z /\ x # z
OBVIOUS

\* The later uses go to the new value w.
LEMMA CuttingSplit ==
  ASSUME NEW blk, NEW s, NEW t, NEW n \in Int, NEW q \in Int, NEW hi, NEW v, NEW e, NEW num, Cutting(blk, s, n, q, hi, v, e, num),
         NEW f, NEW late, NEW p \in 0..Len(e), Prefix(s, e, num, p), Cut(e, p, f, late), late \in Seq(1..NB(blk)),
         Shaped(blk, t), NEW w, NEW new, Split(s, t, late, v, w, new),
         new.edges = late, new.used = 0, new.spilled = None
  PROVE  /\ Ready(blk, t, n, q, hi, w) /\ NoOut(t, w) /\ SameCurrent(s, t) /\ SameFloats(s, t)
         /\ ~Allocated(t, v) /\ ~Pending(blk, t, n, q, v)
<1>1. /\ Shaped(blk, s) /\ s.i <= Len(s.block) /\ v \in 1..Len(s.vals) /\ Books(blk, s, n, q, hi) /\ ~Allocated(s, v)
      /\ ~Pending(blk, s, n, q, v) /\ e \in Seq(1..NB(blk)) /\ EdgesFit(blk, s, e, v)
      /\ num \in Int /\ num > s.stmts[s.block[s.i]].num
  BY DEF Cutting
<1>2. \A x \in 1..Len(late) : late[x] \in 1..NB(blk) /\ s.stmts[late[x]].num >= num /\ s.stmts[late[x]].num \in Int
  BY <1>1, LateLater
<1>3. s.stmts[s.block[s.i]].num \in Int /\ s.block[s.i] \in 1..Len(s.stmts) /\ s.i \in 1..Len(s.block)
  BY <1>1, CurrentIs DEF StatementOK
<1>4. DOMAIN late = 1..Len(late)
  BY SeqHas
<1>5. ~OneOf(late, s.block[s.i])
  <2> SUFFICES ASSUME NEW x \in 1..Len(late), late[x] = s.block[s.i] PROVE FALSE
    BY <1>4 DEF OneOf
  <2> DEFINE now == s.stmts[s.block[s.i]].num
  <2>1. now >= num
    BY <1>2
  <2>2. num \in Int /\ num > now /\ now \in Int
    BY <1>1, <1>3
  <2> HIDE DEF now
  <2> QED BY <2>1, <2>2, OrderIs
<1>6. Books(blk, t, n, q, hi) /\ ~Pending(blk, t, n, q, v) /\ ~Pending(blk, t, n, q, w) /\ ~Allocated(t, v) /\ ~Allocated(t, w)
  BY <1>1, <1>5, SplitBooks
<1>7. EdgesOK(blk, t, w)
  BY <1>1, SplitEdges
<1>8. t.block = s.block /\ t.i = s.i /\ t.stmts[s.block[s.i]] = s.stmts[s.block[s.i]]
  BY <1>3, <1>5 DEF Split, Rewriting, RewrittenOne
<1>9. SameCurrent(s, t)
  BY <1>1, <1>8 DEF SameCurrent
<1>10. Len(s.vals) \in Nat /\ w = Len(s.vals) + 1 /\ Len(t.vals) = w /\ t.vals[w] = new /\ NP(blk) \in Nat /\ NB(blk) \in Nat
       /\ NP(blk) + NB(blk) <= Len(s.vals) /\ \A x \in 1..Len(s.vals) : t.vals[x] = s.vals[x]
  BY <1>1, Basics DEF Split, Grown
<1>11. w \in 1..Len(t.vals) /\ w > NP(blk) /\ SameFloats(s, t)
  <2> DEFINE L == Len(s.vals)
             m == NP(blk)
             b == NB(blk)
  <2>1. L \in Nat /\ m \in Nat /\ b \in Nat /\ m + b <= L /\ w = L + 1
    BY <1>10
  <2> HIDE DEF L, m, b
  <2>2. w \in 1..w /\ w > m /\ w >= L
    BY <2>1
  <2>3. Len(t.vals) = w /\ \A x \in 1..Len(s.vals) : t.vals[x].float = s.vals[x].float
    BY <1>10
  <2> QED BY <2>2, <2>3 DEF SameFloats, L, m
<1>12. UsedAfter(t, w, t.stmts[t.block[t.i]].num)
  <2> SUFFICES ASSUME NEW x \in 1..Len(late) PROVE t.stmts[late[x]].num > s.stmts[s.block[s.i]].num
    BY <1>8, <1>10 DEF UsedAfter
  <2>1. late[x] \in 1..Len(s.stmts) /\ s.stmts[late[x]].num >= num /\ s.stmts[late[x]].num \in Int
    BY <1>1, <1>2, NumbersAre
  <2>2. t.stmts[late[x]].num = s.stmts[late[x]].num
    BY <2>1 DEF Split, Rewriting, RewrittenOne
  <2> DEFINE now == s.stmts[s.block[s.i]].num
             then == s.stmts[late[x]].num
  <2>3. num \in Int /\ num > now /\ now \in Int /\ then >= num /\ then \in Int /\ t.stmts[late[x]].num = then
    BY <1>1, <1>3, <2>1, <2>2
  <2> HIDE DEF now, then
  <2>4. then > now
    BY <2>3, OrderIs
  <2> QED BY <2>3, <2>4 DEF now
<1>13. NoOut(t, w)
  <2> SUFFICES ASSUME NEW l \in 1..Len(t.stmts) PROVE t.stmts[l].out # w
    BY DEF NoOut
  <2>1. l \in 1..Len(s.stmts) /\ t.stmts[l].out = s.stmts[l].out
    BY DEF Split, Rewriting, RewrittenOne
  <2>2. s.stmts[l].out \in 0..Len(s.vals)
    BY <1>1, <2>1 DEF Shaped, StatementsOK, StatementOK
  <2> QED BY SMTT(30), <1>10, <2>1, <2>2
<1> QED BY <1>6, <1>7, <1>9, <1>10, <1>11, <1>12, <1>13 DEF Ready, SameCurrent

\* A mov to it is inserted.
LEMMA ReadyMoved ==
  ASSUME NEW blk, NEW s, NEW t, NEW n \in Int, NEW q \in Int, NEW hi, NEW w, Ready(blk, s, n, q, hi, w), NoOut(s, w),
         n >= s.i, Shaped(blk, t), NEW k, NEW new, Spliced(s, t, s.i, k, new), NextTurn(s, t), MovesTo(new, w)
  PROVE  /\ Ready(blk, t, n + 1, q, hi, w) /\ SameCurrent(s, t) /\ t.vals = s.vals
         /\ \A x : Pending(blk, t, n + 1, q, x) => Pending(blk, s, n, q, x)
<1>1. Shaped(blk, s) /\ s.i <= Len(s.block) /\ w \in 1..Len(s.vals) /\ w > NP(blk) /\ Books(blk, s, n, q, hi)
  BY DEF Ready
<1>2. NewOut(blk, s, new) /\ Shifted(blk, s, t, s.i, k) /\ s.i \in 1..(Len(s.block) + 1)
  <2>1. s.i \in Nat /\ s.i >= 1 /\ Len(s.block) \in Nat
    BY <1>1, Basics
  <2> QED BY <1>1, <2>1 DEF NewOut, NoOut, Shifted, NextTurn, MovesTo
<1>3. Books(blk, t, n + 1, q, hi) /\ \A x : Pending(blk, t, n + 1, q, x) => Pending(blk, s, n, q, x)
  BY <1>1, <1>2, HereBooks DEF NextTurn, MovesTo
<1>4. SameCurrent(s, t)
  BY <1>1, <1>2, SplicedCurrent DEF SameCurrent
<1>5. t.vals = s.vals /\ t.alloced = s.alloced
  BY DEF Spliced
<1>6. /\ EdgesOK(blk, s, w) => EdgesOK(blk, t, w)
      /\ \A num : UsedAfter(s, w, num) => UsedAfter(t, w, num)
  BY <1>1, <1>2, SplicedTracked
<1>7. /\ ~Allocated(s, w) /\ ~Pending(blk, s, n, q, w) /\ EdgesOK(blk, s, w) /\ s.vals[w].used = 0 /\ s.vals[w].spilled = None
      /\ UsedAfter(s, w, s.stmts[s.block[s.i]].num)
  BY DEF Ready
<1>8. ~Allocated(t, w) /\ ~Pending(blk, t, n + 1, q, w)
  BY <1>3, <1>5, <1>7 DEF Allocated
<1>9. UsedAfter(t, w, t.stmts[t.block[t.i]].num)
  BY <1>4, <1>6, <1>7 DEF SameCurrent
<1> QED BY <1>1, <1>3, <1>4, <1>5, <1>6, <1>7, <1>8, <1>9 DEF Ready, SameCurrent

\* It is put into its register.
LEMMA ReadyPlaced ==
  ASSUME NEW blk, NEW s, NEW t, NEW n \in Int, NEW q \in Int, NEW hi \in Nat, hi <= Len(s.stmts[s.block[s.i]].args),
         NEW w, Ready(blk, s, n, q, hi, w), DOMAIN t = Fields, t.block = s.block, t.stmts = s.stmts, t.vals = s.vals,
         t.i = s.i, t.slots \in Nat, NEW r \in Usable(s.vals[w].float), s.vals[w].reg = r,
         t.alloced = [s.alloced EXCEPT ![r] = w]
  PROVE  Shaped(blk, t) /\ Books(blk, t, n, q, hi) /\ \A x : Pending(blk, t, n, q, x) => Pending(blk, s, n, q, x)
<1>1. /\ Shaped(blk, s) /\ s.i <= Len(s.block) /\ w \in 1..Len(s.vals) /\ Books(blk, s, n, q, hi) /\ ~Pending(blk, s, n, q, w)
      /\ EdgesOK(blk, s, w) /\ s.vals[w].used = 0 /\ s.vals[w].spilled = None /\ UsedAfter(s, w, s.stmts[s.block[s.i]].num)
  BY DEF Ready
<1>2. Counted(blk, s, w, s.stmts[s.block[s.i]], hi)
  BY <1>1, LaterCounted DEF Books
<1> QED BY <1>1, <1>2, AllocBooks

\* A load of it is inserted before its first use: the list stays in order.
LEMMA LoadInOrder ==
  ASSUME NEW blk, NEW s, NEW t, Shaped(blk, s), InOrder(blk, s), NEW at \in 1..Len(s.block), NEW k, NEW new,
         Spliced(s, t, at, k, new), s.block[at] \in 1..NB(blk), new.num = s.stmts[s.block[at]].num - 1
  PROVE  NewAbove(blk, s, t, at, k)
<1> SUFFICES ASSUME NEW x \in 1..Len(s.block)
             PROVE  IF x < at THEN Above(blk, t, s.block[x], k) ELSE Above(blk, t, k, s.block[x])
  BY DEF NewAbove
<1> DEFINE l == s.block[x]
           m == s.block[at]
<1>1. /\ NB(blk) \in Nat /\ NB(blk) <= Len(s.stmts) /\ Len(s.stmts) \in Nat /\ k = Len(s.stmts) + 1
      /\ l \in 1..Len(s.stmts) /\ s.stmts[l].num \in Int /\ x \in Int /\ at \in Int
      /\ t.stmts[l] = s.stmts[l] /\ t.stmts[k] = new
  <2>1. NB(blk) \in Nat /\ NB(blk) <= Len(s.stmts) /\ Len(s.stmts) \in Nat /\ Len(s.block) \in Nat
    BY Basics
  <2>2. l \in 1..Len(s.stmts) /\ s.stmts[l].num \in Int
    BY BlockIs DEF StatementOK
  <2>3. k = Len(s.stmts) + 1 /\ t.stmts[k] = new /\ \A y \in 1..Len(s.stmts) : t.stmts[y] = s.stmts[y]
    BY DEF Spliced, Added
  <2>4. x \in Int /\ at \in Int
    BY <2>1
  <2> QED BY Zenon, <2>1, <2>2, <2>3, <2>4
<1>2. l # k /\ ~(k <= NB(blk))
  BY <1>1
<1>3. m \in 1..NB(blk) /\ s.stmts[m].num = 2 * (m - 1) /\ new.num = s.stmts[m].num - 1
  BY NumbersAre
<1>4. l \in 1..NB(blk) => s.stmts[l].num = 2 * (l - 1)
  BY NumbersAre
<1>5. x < at => Above(blk, s, l, m)
  BY DEF InOrder
<1>6. at < x => Above(blk, s, m, l)
  BY DEF InOrder
<1> DEFINE a1 == s.stmts[l].num
           b1 == s.stmts[m].num
           c1 == new.num
<1>7. x < at /\ Numbered(blk, s, l) => a1 < b1
  BY <1>3, <1>5 DEF Above, Numbered
<1>8. at < x /\ Numbered(blk, s, l) => b1 < a1
  BY <1>3, <1>6 DEF Above, Numbered
<1>9. a1 \in Int /\ b1 \in Int /\ c1 \in Int /\ c1 = b1 - 1 /\ b1 = 2 * (m - 1) /\ (l <= NB(blk) => a1 = 2 * (l - 1))
  BY SMTT(30), <1>1, <1>3, <1>4
<1>10. l \in Int /\ m \in Int /\ NB(blk) \in Int
  BY SMTT(30), <1>1, <1>3
<1>11. x = at => a1 = b1
  OBVIOUS
<1> HIDE DEF a1, b1, c1, l, m
<1>12. CASE x < at
  <2>1. Numbered(blk, s, l) => a1 <= c1 /\ (l <= NB(blk) => a1 < c1)
    BY <1>7, <1>9, <1>10, <1>12
  <2> QED BY <1>1, <1>2, <1>12, <2>1 DEF Above, Numbered, a1, c1, l
<1>13. CASE ~(x < at)
  <2>1. Numbered(blk, s, l) => c1 < a1
    BY <1>1, <1>8, <1>9, <1>11, <1>13
  <2>2. Numbered(blk, s, l) => c1 <= a1
    BY <2>1, <1>9
  <2> QED BY <1>1, <1>2, <1>13, <2>1, <2>2 DEF Above, Numbered, a1, c1, l
<1> QED BY <1>12, <1>13

\* A place behind the current statement.
LEMMA PlaceBehind ==
  ASSUME NEW len \in Nat, NEW i \in Nat, NEW n \in Int, n <= i + 1, NEW at \in 1..len, at > i
  PROVE  at \in 1..(len + 1) /\ at >= n
OBVIOUS

\* The load of w at position at.
Loads(s, new, w, at) ==
  /\ s.vals[w].reg = None /\ Len(s.vals[w].edges) >= 1 /\ s.vals[w].edges[1] = s.block[at]
  /\ new.op = "unspill" /\ new.out = w /\ new.num = s.stmts[s.block[at]].num - 1

\* The value gets its register when the loop comes to the load.
LEMMA ReadyLoaded ==
  ASSUME NEW blk, NEW s, NEW t, NEW n \in Int, NEW q \in Int, NEW hi \in Nat, hi <= Len(s.stmts[s.block[s.i]].args),
         NEW w, Ready(blk, s, n, q, hi, w), NoOut(s, w), n <= s.i + 1,
         Shaped(blk, t), NEW at \in 1..Len(s.block), at > s.i, NEW k, NEW new, Spliced(s, t, at, k, new), t.i = s.i,
         Loads(s, new, w, at)
  PROVE  /\ Books(blk, t, n, q, hi) /\ SameCurrent(s, t) /\ t.vals = s.vals
         /\ \A x : Pending(blk, t, n, q, x) => x = w \/ Pending(blk, s, n, q, x)
<1> DEFINE e == s.vals[w].edges
<1>1. /\ Shaped(blk, s) /\ s.i <= Len(s.block) /\ w \in 1..Len(s.vals) /\ w > NP(blk) /\ Books(blk, s, n, q, hi)
      /\ ~Allocated(s, w) /\ ~Pending(blk, s, n, q, w) /\ EdgesOK(blk, s, w) /\ s.vals[w].used = 0 /\ s.vals[w].spilled = None
      /\ UsedAfter(s, w, s.stmts[s.block[s.i]].num)
  BY DEF Ready
<1>2. Counted(blk, s, w, s.stmts[s.block[s.i]], hi)
  BY <1>1, LaterCounted DEF Books
<1>3. Fresh(s, w)
  BY <1>1 DEF Fresh, Allocated, Loads
<1>4. e \in Seq(1..NB(blk)) /\ Sorted(e)
  BY <1>1 DEF Shaped, ValuesOK, ValueOK, EdgesOK
<1>5. Len(e) \in Nat /\ \A x \in 1..Len(e) : e[x] \in 1..NB(blk)
  BY <1>4, SeqHas
<1>6. s.block[at] \in 1..NB(blk) /\ NB(blk) \in Nat
  <2>1. 1 \in 1..Len(e)
    BY <1>5 DEF Loads
  <2>2. e[1] \in 1..NB(blk)
    BY <1>5, <2>1
  <2> QED BY <1>1, <2>2, Basics DEF Loads
<1>7. NewAbove(blk, s, t, at, k)
  BY <1>1, <1>6, LoadInOrder DEF Books, Listed, Loads
<1>8. UsedAfter(s, w, new.num)
  <2> SUFFICES ASSUME NEW x \in 1..Len(e) PROVE s.stmts[e[x]].num > new.num
    BY DEF UsedAfter
  <2>1. e[1] <= e[x] /\ e[1] \in 1..NB(blk) /\ e[x] \in 1..NB(blk)
    <3>1. x = 1 \/ 1 < x
      BY <1>5
    <3>2. 1 \in 1..Len(e)
      BY <1>5 DEF Loads
    <3>3. 1 < x => e[1] <= e[x]
      BY <1>4, <3>2 DEF Sorted
    <3>4. e[1] \in 1..NB(blk) /\ e[x] \in 1..NB(blk)
      BY <1>5, <3>2
    <3> HIDE DEF e
    <3> QED BY <3>1, <3>3, <3>4, <1>6
  <2>2. s.stmts[e[x]].num = 2 * (e[x] - 1) /\ s.stmts[e[1]].num = 2 * (e[1] - 1)
    <3>1. \A y \in 1..NB(blk) : s.stmts[y].num = 2 * (y - 1)
      BY <1>1, NumbersAre
    <3> HIDE DEF e
    <3> QED BY <2>1, <3>1
  <2>3. new.num = 2 * (e[1] - 1) - 1
    BY <2>2 DEF Loads
  <2> DEFINE e1 == e[1]
             ex == e[x]
  <2>4. e1 \in Int /\ ex \in Int /\ e1 <= ex
    BY SMTT(30), <2>1, <1>6
  <2> HIDE DEF e1, ex
  <2>5. 2 * (ex - 1) > 2 * (e1 - 1) - 1
    BY <2>4
  <2> QED BY <2>2, <2>3, <2>5 DEF e1, ex
<1>9. at \in 1..(Len(s.block) + 1) /\ at >= n
  <2>1. s.i \in Nat /\ Len(s.block) \in Nat
    BY <1>1, Basics
  <2> QED BY <2>1, PlaceBehind
<1>10. NewOut(blk, s, new)
  BY <1>1 DEF NewOut, NoOut, Loads
<1>11. Books(blk, t, n, q, hi) /\ \A x : Pending(blk, t, n, q, x) => x = w \/ Pending(blk, s, n, q, x)
  BY SMTT(30), <1>1, <1>2, <1>3, <1>7, <1>8, <1>9, <1>10, AheadBooks DEF Loads
<1>12. Shifted(blk, s, t, at, k)
  BY DEF Shifted, Numbered, Spliced, Added, Loads
<1>13. SameCurrent(s, t)
  BY <1>1, <1>9, <1>12, SplicedCurrent DEF SameCurrent
<1>14. t.vals = s.vals
  BY DEF Spliced
<1> QED BY <1>11, <1>13, <1>14

-----------------------------------------------------------------------------
(* Spilling *)

\* An allocator by its fields.
Fielded(t, block, stmts, vals, alloced, i, slots) ==
  /\ DOMAIN t = Fields /\ t.block = block /\ t.stmts = stmts /\ t.vals = vals
  /\ t.alloced = alloced /\ t.i = i /\ t.slots = slots
Allocator(block, stmts, vals, alloced, i, slots) ==
  [block |-> block, stmts |-> stmts, vals |-> vals, alloced |-> alloced, i |-> i, slots |-> slots]

\* The record that has them.
LEMMA AllocatorIs ==
  ASSUME NEW block, NEW stmts, NEW vals, NEW alloced, NEW i, NEW slots
  PROVE  Fielded(Allocator(block, stmts, vals, alloced, i, slots), block, stmts, vals, alloced, i, slots)
BY DEF Allocator, Fielded, Fields

\* A new value.
LEMMA NewValueIs ==
  ASSUME NEW blk, NEW float \in BOOLEAN, NEW e \in Seq(1..NB(blk)), NEW r \in {None} \cup Usable(float)
  PROVE  /\ ValueOK(blk, NewValue(float, e, r)) /\ NewValue(float, e, r).edges = e /\ NewValue(float, e, r).used = 0
         /\ NewValue(float, e, r).spilled = None /\ NewValue(float, e, r).reg = r /\ NewValue(float, e, r).float = float
BY DEF ValueOK, ValueFields, NewValue

\* The statement that is inserted.
LEMMA MovStatement ==
  ASSUME NEW blk, NEW n \in Nat, NEW v \in 1..n, NEW w \in 1..n, NEW k \in Nat, k > NB(blk), NB(blk) \in Nat
  PROVE  /\ StatementOK(blk, NewStatement("mov", <<v>>, w, 0, None), k, n)
         /\ NewStatement("mov", <<v>>, w, 0, None).op # "unspill" /\ NewStatement("mov", <<v>>, w, 0, None).out = w
<1> DEFINE st == NewStatement("mov", <<v>>, w, 0, None)
<1>1. DOMAIN st = StatementFields /\ st.args = <<v>> /\ st.out = w /\ st.num = 0 /\ st.op = "mov"
  BY DEF NewStatement, StatementFields
<1> HIDE DEF st
<1>2. st.args \in Seq(0..n) /\ Len(st.args) = 1
  BY <1>1
<1>3. ~(k <= NB(blk)) /\ st.out \in 0..n
  BY <1>1
<1> QED BY <1>1, <1>2, <1>3 DEF StatementOK, st

\* What a spill leaves behind: the same statement, one place further.
Away(blk, s, t, n, q, hi) ==
  /\ Shaped(blk, t) /\ SameCurrent(s, t) /\ SameFloats(s, t)
  /\ t.i \in {s.i, s.i + 1} /\ Books(blk, t, n + (t.i - s.i), q, hi)
Gone(blk, t, n, q, v) == v \in 1..Len(t.vals) /\ ~Allocated(t, v) /\ ~Pending(blk, t, n, q, v)

\* SameCurrent and SameFloats over several steps.
LEMMA SameTwice ==
  ASSUME NEW s, NEW t, NEW u, Len(s.vals) \in Nat, Len(t.vals) \in Nat, Len(u.vals) \in Nat
  PROVE  /\ SameCurrent(s, t) /\ SameCurrent(t, u) => SameCurrent(s, u)
         /\ SameFloats(s, t) /\ SameFloats(t, u) => SameFloats(s, u)
BY DEF SameCurrent, SameFloats

\* A mov is inserted.
MovStep(s, t, v, temp, w, k, late, trimmed, new, mov) ==
  Fielded(t, InsertAt(s.block, s.i, k), Append(Rewritten(s.stmts, late, v, w), mov),
          Append(Put(s.vals, v, trimmed), new), [s.alloced EXCEPT ![temp] = w], s.i + 1, s.slots)

\* What is known of the values and the statement.
NextValue(s, w) == w = Len(s.vals) + 1
NextStatement(s, k) == k = Len(s.stmts) + 1
TrimValue(blk, s, v, trimmed) == ValueOK(blk, trimmed) /\ trimmed.float = s.vals[v].float
LateValue(blk, s, v, new, late, r) ==
  /\ ValueOK(blk, new) /\ new.edges = late /\ new.used = 0 /\ new.spilled = None /\ new.reg = r
  /\ new.float = s.vals[v].float
CutAt(blk, s, e, num, p, before, late) ==
  late \in Seq(1..NB(blk)) /\ p \in 0..Len(e) /\ Prefix(s, e, num, p) /\ Cut(e, p, before, late)
MovOK(blk, mov, k, w) == StatementOK(blk, mov, k, w) /\ mov.op # "unspill" /\ mov.out = w

\* The value record with its uses cut off, and its slot.
WithEdges(val, e) == [val EXCEPT !.edges = e]
WithSlot(val, e, slot) == [val EXCEPT !.spilled = slot, !.edges = e]
TrimTo(blk, s, v, trimmed, e) == TrimValue(blk, s, v, trimmed) /\ trimmed.edges = e /\ trimmed.reg = s.vals[v].reg

\* It is still a value.
LEMMA TrimmedEdges ==
  ASSUME NEW blk, NEW s, NEW v, ValueOK(blk, s.vals[v]), NEW e \in Seq(1..NB(blk))
  PROVE  TrimTo(blk, s, v, WithEdges(s.vals[v], e), e)
BY DEF ValueOK, ValueFields, TrimValue, TrimTo, WithEdges

\* The same for one with a slot.
LEMMA TrimmedSlot ==
  ASSUME NEW blk, NEW s, NEW v, ValueOK(blk, s.vals[v]), NEW e \in Seq(1..NB(blk)), NEW slot
  PROVE  TrimTo(blk, s, v, WithSlot(s.vals[v], e, slot), e)
BY DEF ValueOK, ValueFields, TrimValue, TrimTo, WithSlot

\* A mov before the current statement keeps the books.
LEMMA MovCore ==
  ASSUME NEW blk, NEW s, NEW t, NEW n \in Int, n >= s.i, NEW q \in Int,
         NEW hi \in Nat, hi <= Len(s.stmts[s.block[s.i]].args), NEW v, NEW num, NEW e,
         Cutting(blk, s, n, q, hi, v, e, num), NEW temp \in Usable(s.vals[v].float),
         NEW before, NEW late, NEW p, CutAt(blk, s, e, num, p, before, late),
         NEW w, NextValue(s, w), NEW k, NextStatement(s, k),
         NEW trimmed, TrimValue(blk, s, v, trimmed), NEW new, LateValue(blk, s, v, new, late, temp),
         NEW mov, MovOK(blk, mov, k, w),
         MovStep(s, t, v, temp, w, k, late, trimmed, new, mov)
  PROVE  Away(blk, s, t, n, q, hi) /\ t.i = s.i + 1 /\ Gone(blk, t, n + 1, q, v) /\ t.vals[v] = trimmed
<1> DEFINE u1 == Allocator(s.block, s.stmts, Put(s.vals, v, trimmed), s.alloced, s.i, s.slots)
           u2 == Allocator(s.block, Rewritten(s.stmts, late, v, w), Append(u1.vals, new), s.alloced, s.i, s.slots)
           u3 == Allocator(InsertAt(s.block, s.i, k), Append(u2.stmts, mov), u2.vals, s.alloced, s.i + 1, s.slots)
<1>1. /\ Shaped(blk, s) /\ s.i <= Len(s.block) /\ v \in 1..Len(s.vals) /\ num \in Int
  BY DEF Cutting
<1>2. /\ DOMAIN s = Fields /\ ValueOK(blk, s.vals[v]) /\ s.vals[v].float \in BOOLEAN /\ s.slots \in Nat /\ v \in DOMAIN s.vals
      /\ Len(s.vals) \in Nat /\ s.i \in Nat /\ s.i >= 1 /\ Len(s.block) \in Nat /\ Len(s.stmts) \in Nat /\ NB(blk) \in Nat /\ NB(blk) <= Len(s.stmts)
  BY <1>1, Basics DEF Shaped, ValuesOK, ValueOK
<1>5. /\ Fielded(u1, s.block, s.stmts, Put(s.vals, v, trimmed), s.alloced, s.i, s.slots)
      /\ Fielded(u2, s.block, Rewritten(s.stmts, late, v, w), Append(u1.vals, new), s.alloced, s.i, s.slots)
      /\ Fielded(u3, InsertAt(s.block, s.i, k), Append(u2.stmts, mov), u2.vals, s.alloced, s.i + 1, s.slots)
  BY AllocatorIs
<1> HIDE DEF u1, u2, u3
<1>9. /\ Cutting(blk, u1, n, q, hi, v, e, num) /\ SameCurrent(s, u1) /\ SameFloats(s, u1) /\ u1.vals[v] = trimmed
      /\ Len(u1.vals) = Len(s.vals)
  <2>1. /\ DOMAIN u1 = Fields /\ u1.block = s.block /\ u1.stmts = s.stmts /\ u1.alloced = s.alloced /\ u1.i = s.i
        /\ u1.slots = s.slots /\ u1.vals = Put(s.vals, v, trimmed)
    BY <1>5 DEF Fielded
  <2>2. u1.slots \in Nat
    BY <1>2, <2>1
  <2>3. ValueOK(blk, trimmed) /\ trimmed.float = s.vals[v].float
    BY DEF TrimValue
  <2>4. Trimmed(blk, s, u1, v, trimmed)
    BY <2>1, <2>2, <2>3 DEF Trimmed
  <2> QED BY <2>4, CuttingTrimmed
<1>10. Shaped(blk, u1) /\ v \in 1..Len(u1.vals)
  BY <1>9 DEF Cutting
<1>11. Shaped(blk, u2) /\ Split(u1, u2, late, v, w, new)
  <2>1. /\ DOMAIN u2 = Fields /\ u2.block = s.block /\ u2.alloced = s.alloced /\ u2.i = s.i
        /\ u2.slots = s.slots /\ u2.vals = Append(u1.vals, new) /\ u2.stmts = Rewritten(s.stmts, late, v, w)
    BY <1>5 DEF Fielded
  <2>2. u1.block = s.block /\ u1.stmts = s.stmts /\ u1.alloced = s.alloced /\ u1.i = s.i
    BY <1>5 DEF Fielded
  <2>3. /\ u2.block = u1.block /\ u2.alloced = u1.alloced /\ u2.i = u1.i /\ u2.slots \in Nat /\ w = Len(u1.vals) + 1
        /\ u2.stmts = Rewritten(u1.stmts, late, v, w) /\ u2.vals = Append(u1.vals, new)
    BY <1>2, <1>9, <2>1, <2>2 DEF NextValue
  <2>4. ValueOK(blk, new)
    BY DEF LateValue
  <2> QED BY <1>10, <2>1, <2>3, <2>4, SplitShaped
<1>12. Prefix(u1, e, num, p)
  BY <1>5 DEF Prefix, Fielded, CutAt
<1>13. /\ Ready(blk, u2, n, q, hi, w) /\ NoOut(u2, w) /\ SameCurrent(u1, u2) /\ SameFloats(u1, u2)
       /\ ~Allocated(u2, v) /\ ~Pending(blk, u2, n, q, v)
  <2>1. p \in 0..Len(e) /\ Cut(e, p, before, late) /\ late \in Seq(1..NB(blk)) /\ new.edges = late /\ new.used = 0 /\ new.spilled = None
    BY DEF CutAt, LateValue
  <2> QED BY <2>1, <1>9, <1>11, <1>12, CuttingSplit
<1>14. /\ Len(u2.vals) = w /\ Len(u2.stmts) = Len(s.stmts) /\ u2.vals[w] = new /\ u2.vals[v] = trimmed
       /\ u2.block = s.block /\ u2.i = s.i /\ u2.alloced = s.alloced /\ u2.slots = s.slots
  <2>1. Grown(u1, u2, w, new) /\ Rewriting(u1, u2, late, v, w)
    BY <1>11 DEF Split
  <2>2. Len(u2.vals) = w /\ u2.vals[w] = new /\ u2.vals[v] = u1.vals[v]
    BY <2>1, <1>10 DEF Grown
  <2>3. Len(u2.stmts) = Len(u1.stmts)
    BY <2>1 DEF Rewriting
  <2> QED BY <2>2, <2>3, <1>5, <1>9 DEF Fielded
<1>15. w \in 1..w /\ v \in 1..w /\ k \in Nat /\ k > NB(blk) /\ s.i \in 1..(Len(s.block) + 1) /\ w \in Nat
  <2> DEFINE x == Len(s.vals)
             y == Len(s.stmts)
             z == Len(s.block)
             b == NB(blk)
             j == s.i
  <2>1. x \in Nat /\ y \in Nat /\ z \in Nat /\ b \in Nat /\ b <= y /\ v \in 1..x /\ j \in Nat /\ j >= 1 /\ j <= z /\ w = x + 1 /\ k = y + 1
    BY <1>1, <1>2 DEF NextValue, NextStatement
  <2> HIDE DEF x, y, z, b, j
  <2>2. w \in 1..w /\ v \in 1..w /\ k \in Nat /\ k > b /\ j \in 1..(z + 1) /\ w \in Nat
    BY <2>1
  <2> QED BY <2>2 DEF b, j, z
<1>16. StatementOK(blk, mov, k, Len(u2.vals)) /\ mov.op # "unspill" /\ mov.out = w
  BY <1>14 DEF MovOK
<1>17. Shaped(blk, u3) /\ Spliced(u2, u3, u2.i, k, mov) /\ u3.i = u2.i + 1 /\ u3.alloced = s.alloced
  <2>1. u3.i \in Nat \ {0} /\ u3.slots \in Nat /\ u3.i = u2.i + 1 /\ u3.alloced = s.alloced
    <3>1. u3.i = s.i + 1 /\ u3.slots = s.slots /\ u3.alloced = s.alloced
      BY <1>5 DEF Fielded
    <3>2. s.i + 1 \in Nat \ {0}
      BY SMTT(30), <1>2
    <3> QED BY <3>1, <3>2, <1>2, <1>14
  <2>2. /\ DOMAIN u3 = Fields /\ u3.vals = u2.vals /\ u3.alloced = u2.alloced /\ k = Len(u2.stmts) + 1 /\ u2.i \in 1..(Len(u2.block) + 1)
        /\ u3.stmts = Append(u2.stmts, mov) /\ u3.block = InsertAt(u2.block, u2.i, k)
    BY <1>5, <1>14, <1>15 DEF Fielded, NextStatement
  <2> QED BY <1>11, <1>16, <2>1, <2>2, SplicedShaped
<1>18. /\ Ready(blk, u3, n + 1, q, hi, w) /\ SameCurrent(u2, u3) /\ u3.vals = u2.vals
       /\ \A x : Pending(blk, u3, n + 1, q, x) => Pending(blk, u2, n, q, x)
  <2>1. n >= u2.i
    BY <1>14
  <2>2. NextTurn(u2, u3) /\ MovesTo(mov, w)
    BY <1>16, <1>17 DEF NextTurn, MovesTo
  <2> QED BY <2>1, <2>2, <1>13, <1>17, ReadyMoved
<1>19. SameCurrent(s, u3) /\ SameFloats(s, u3)
  <2>1. Len(u1.vals) \in Nat /\ Len(u2.vals) \in Nat /\ Len(u3.vals) \in Nat
    <3>1. Len(u1.vals) = Len(s.vals) /\ Len(u2.vals) = w /\ Len(u3.vals) = w /\ w \in Nat
      BY <1>9, <1>14, <1>15, <1>18
    <3> QED BY <3>1, <1>2
  <2>2. SameFloats(u2, u3)
    BY <1>18, <2>1 DEF SameFloats
  <2>3. SameCurrent(s, u2) /\ SameFloats(s, u2)
    BY <1>2, <1>9, <1>13, <2>1, SameTwice
  <2> QED BY <1>2, <1>18, <2>1, <2>2, <2>3, SameTwice
<1>20. hi <= Len(u3.stmts[u3.block[u3.i]].args)
  BY <1>19 DEF SameCurrent
<1>21. DOMAIN t = Fields /\ t.block = u3.block /\ t.stmts = u3.stmts /\ t.vals = u3.vals /\ t.i = u3.i /\ t.slots \in Nat
       /\ t.alloced = [u3.alloced EXCEPT ![temp] = w]
  BY <1>2, <1>5 DEF Fielded, MovStep
<1>22. u3.vals[w].reg = temp /\ u3.vals[w].float = s.vals[v].float
  BY <1>14, <1>18 DEF LateValue
<1>23. Shaped(blk, t) /\ Books(blk, t, n + 1, q, hi) /\ \A x : Pending(blk, t, n + 1, q, x) => Pending(blk, u3, n + 1, q, x)
  <2>1. n + 1 \in Int
    OBVIOUS
  <2> QED BY <2>1, <1>18, <1>20, <1>21, <1>22, ReadyPlaced
<1>24. SameCurrent(s, t) /\ SameFloats(s, t)
  BY <1>19, <1>21 DEF SameCurrent, SameFloats
<1>25. t.i = s.i + 1 /\ t.vals[v] = trimmed /\ v \in 1..Len(t.vals) /\ v # w
  <2>1. t.i = s.i + 1
    BY <1>5, <1>21 DEF Fielded
  <2>2. t.vals[v] = trimmed /\ Len(t.vals) = w
    BY <1>14, <1>18, <1>21
  <2>3. v # w
    BY <1>1, <1>2 DEF NextValue
  <2> QED BY <2>1, <2>2, <2>3, <1>15
<1>26. ~Pending(blk, t, n + 1, q, v) /\ ~Allocated(t, v)
  <2>1. ~Pending(blk, t, n + 1, q, v)
    BY <1>13, <1>18, <1>23
  <2>2. ~Allocated(u3, v)
    BY <1>13, <1>14, <1>17 DEF Allocated
  <2>3. \A r \in Reg : u3.alloced[r] # v
    BY <2>2 DEF Allocated
  <2>4. \A r \in Reg : t.alloced[r] # v
    <3>1. DOMAIN u3.alloced = Reg
      BY <1>17 DEF Shaped, RegistersOK
    <3> QED BY <1>21, <1>25, <2>3, <3>1
  <2> QED BY <2>1, <2>4 DEF Allocated
<1>27. n + (t.i - s.i) = n + 1
  BY <1>2, <1>25
<1> QED BY <1>23, <1>24, <1>25, <1>26, <1>27 DEF Away, Gone

\* That is what MovSpill makes.
LEMMA MovFields ==
  ASSUME NEW s, DOMAIN s = Fields, NEW v, NEW temp, NEW num, v \in DOMAIN s.vals
  PROVE  MovStep(s, MovSpill(s, v, temp, num), v, temp, Len(s.vals) + 1, Len(s.stmts) + 1, Late(s, v, num),
                 WithEdges(s.vals[v], Before(s, v, num)), NewValue(s.vals[v].float, Late(s, v, num), temp),
                 NewStatement("mov", <<v>>, Len(s.vals) + 1, 0, None))
BY DEF MovSpill, Fielded, Fields, MovStep, Put, WithEdges

\* The later uses of a value, cut off.
LEMMA CutHere ==
  ASSUME NEW blk, NEW s, NEW n, NEW q, NEW hi, NEW v, NEW num, Cutting(blk, s, n, q, hi, v, s.vals[v].edges, num)
  PROVE  /\ Before(s, v, num) \in Seq(1..NB(blk)) /\ Late(s, v, num) \in Seq(1..NB(blk))
         /\ \E p : CutAt(blk, s, s.vals[v].edges, num, p, Before(s, v, num), Late(s, v, num))
<1>1. Before(s, v, num) \in Seq(1..NB(blk)) /\ Late(s, v, num) \in Seq(1..NB(blk))
  BY CuttingCut
<1>2. PICK p \in 0..Len(s.vals[v].edges) :
        Prefix(s, s.vals[v].edges, num, p) /\ Cut(s.vals[v].edges, p, Before(s, v, num), Late(s, v, num))
  BY CuttingCut
<1>3. CutAt(blk, s, s.vals[v].edges, num, p, Before(s, v, num), Late(s, v, num))
  BY <1>1, <1>2 DEF CutAt
<1> QED BY <1>1, <1>3

\* A value that is spilled: what is left of its record.
LEMMA CutValue ==
  ASSUME NEW blk, NEW s, NEW n, NEW q, NEW hi, NEW v, NEW num, Cutting(blk, s, n, q, hi, v, s.vals[v].edges, num)
  PROVE  /\ ValueOK(blk, s.vals[v]) /\ s.vals[v].float \in BOOLEAN /\ v \in DOMAIN s.vals /\ DOMAIN s = Fields
         /\ Len(s.vals) \in Nat /\ Len(s.stmts) \in Nat /\ NB(blk) \in Nat /\ NB(blk) <= Len(s.stmts) /\ v \in 1..Len(s.vals)
<1>1. Shaped(blk, s) /\ v \in 1..Len(s.vals)
  BY DEF Cutting
<1>2. ValueOK(blk, s.vals[v]) /\ DOMAIN s = Fields
  BY <1>1 DEF Shaped, ValuesOK
<1> QED BY <1>1, <1>2, Basics DEF ValueOK

\* A mov keeps the books: the value it moves is gone, its later uses read the output.
LEMMA MovBooks ==
  ASSUME NEW blk, NEW s, NEW n \in Int, n >= s.i, NEW q \in Int,
         NEW hi \in Nat, hi <= Len(s.stmts[s.block[s.i]].args), NEW v, NEW num,
         Cutting(blk, s, n, q, hi, v, s.vals[v].edges, num), NEW temp \in Usable(s.vals[v].float)
  PROVE  LET t == MovSpill(s, v, temp, num) IN
         /\ Away(blk, s, t, n, q, hi) /\ t.i = s.i + 1 /\ Gone(blk, t, n + 1, q, v)
         /\ t.vals[v].edges = Before(s, v, num) /\ t.vals[v].reg = s.vals[v].reg
<1> DEFINE t == MovSpill(s, v, temp, num)
           e == s.vals[v].edges
           before == Before(s, v, num)
           late == Late(s, v, num)
           w == Len(s.vals) + 1
           k == Len(s.stmts) + 1
           trimmed == WithEdges(s.vals[v], before)
           new == NewValue(s.vals[v].float, late, temp)
           mov == NewStatement("mov", <<v>>, w, 0, None)
<1>1. /\ ValueOK(blk, s.vals[v]) /\ s.vals[v].float \in BOOLEAN /\ v \in DOMAIN s.vals /\ DOMAIN s = Fields
      /\ Len(s.vals) \in Nat /\ Len(s.stmts) \in Nat /\ NB(blk) \in Nat /\ NB(blk) <= Len(s.stmts) /\ v \in 1..Len(s.vals)
  BY CutValue
<1>2. before \in Seq(1..NB(blk)) /\ late \in Seq(1..NB(blk))
  BY CutHere
<1>3. PICK p : CutAt(blk, s, e, num, p, before, late)
  BY CutHere
<1>4. MovStep(s, t, v, temp, w, k, late, trimmed, new, mov)
  BY <1>1, MovFields
<1>5. NextValue(s, w) /\ NextStatement(s, k)
  BY DEF NextValue, NextStatement
<1>6. TrimValue(blk, s, v, trimmed) /\ trimmed.edges = before /\ trimmed.reg = s.vals[v].reg
  <2>1. ValueOK(blk, s.vals[v]) /\ before \in Seq(1..NB(blk))
    BY <1>1, <1>2
  <2> HIDE DEF before
  <2>2. TrimTo(blk, s, v, trimmed, before)
    BY <2>1, TrimmedEdges
  <2> QED BY <2>2 DEF TrimTo
<1>7. LateValue(blk, s, v, new, late, temp)
  <2> HIDE DEF late
  <2> QED BY <1>1, <1>2, NewValueIs DEF LateValue
<1>8. MovOK(blk, mov, k, w)
  <2>1. w \in Nat /\ v \in 1..w /\ w \in 1..w /\ k \in Nat /\ k > NB(blk)
    BY SMTT(30), <1>1
  <2> HIDE DEF w, k
  <2> QED BY <1>1, <2>1, MovStatement DEF MovOK
<1> HIDE DEF t, e, before, late, w, k, trimmed, new, mov
<1>9. Away(blk, s, t, n, q, hi) /\ t.i = s.i + 1 /\ Gone(blk, t, n + 1, q, v) /\ t.vals[v] = trimmed
  <2>1. Cutting(blk, s, n, q, hi, v, e, num)
    BY DEF e
  <2> QED BY <2>1, <1>3, <1>4, <1>5, <1>6, <1>7, <1>8, MovCore
<1> QED BY <1>6, <1>9 DEF t, before

\* A store is inserted.
StoreStep(s, t, v, k, trimmed, store, slot) ==
  Fielded(t, InsertAt(s.block, s.i, k), Append(s.stmts, store), Put(s.vals, v, trimmed), s.alloced, s.i + 1, slot)
StoreOK(blk, s, store, k) == StatementOK(blk, store, k, Len(s.vals)) /\ MovesTo(store, NoValue)
StoreDone(blk, s, t, n, q, hi, v, e, num, trimmed) ==
  /\ Cutting(blk, t, n + 1, q, hi, v, e, num) /\ SameCurrent(s, t) /\ SameFloats(s, t)
  /\ t.i = s.i + 1 /\ t.vals[v] = trimmed /\ Len(t.vals) = Len(s.vals)

\* A store before the current statement keeps the books.
LEMMA StoreCore ==
  ASSUME NEW blk, NEW s, NEW t, NEW n \in Int, n >= s.i, NEW q \in Int, NEW hi, NEW v, NEW num, NEW e,
         Cutting(blk, s, n, q, hi, v, e, num), NEW k, NextStatement(s, k), NEW trimmed, TrimValue(blk, s, v, trimmed),
         NEW store, StoreOK(blk, s, store, k), NEW slot \in Nat,
         StoreStep(s, t, v, k, trimmed, store, slot)
  PROVE  StoreDone(blk, s, t, n, q, hi, v, e, num, trimmed)
<1> DEFINE u1 == Allocator(s.block, s.stmts, Put(s.vals, v, trimmed), s.alloced, s.i, slot)
<1>1. Shaped(blk, s) /\ s.i <= Len(s.block) /\ v \in 1..Len(s.vals)
  BY DEF Cutting
<1>2. s.i \in Nat /\ s.i >= 1 /\ Len(s.block) \in Nat /\ Len(s.vals) \in Nat
  BY <1>1, Basics
<1>3. Fielded(u1, s.block, s.stmts, Put(s.vals, v, trimmed), s.alloced, s.i, slot)
  BY AllocatorIs
<1> HIDE DEF u1
<1>4. Trimmed(blk, s, u1, v, trimmed)
  BY <1>3 DEF Trimmed, Fielded, TrimValue
<1>5. /\ Cutting(blk, u1, n, q, hi, v, e, num) /\ SameCurrent(s, u1) /\ SameFloats(s, u1) /\ u1.vals[v] = trimmed
      /\ Len(u1.vals) = Len(s.vals)
  BY <1>4, CuttingTrimmed
<1>6. Shaped(blk, u1)
  BY <1>5 DEF Cutting
<1>7. Shaped(blk, t) /\ Spliced(u1, t, u1.i, k, store)
  <2>1. /\ DOMAIN t = Fields /\ t.vals = u1.vals /\ t.alloced = u1.alloced /\ t.i = s.i + 1 /\ t.slots = slot
        /\ t.stmts = Append(u1.stmts, store) /\ t.block = InsertAt(u1.block, u1.i, k) /\ u1.i = s.i /\ u1.block = s.block
        /\ u1.stmts = s.stmts
    BY <1>3 DEF Fielded, StoreStep
  <2>2. s.i + 1 \in Nat \ {0} /\ s.i \in 1..(Len(s.block) + 1)
    BY <1>1, <1>2
  <2>3. t.i \in Nat \ {0} /\ t.slots \in Nat /\ u1.i \in 1..(Len(u1.block) + 1) /\ k = Len(u1.stmts) + 1
    BY <2>1, <2>2 DEF NextStatement
  <2>4. StatementOK(blk, store, k, Len(u1.vals))
    BY <1>5 DEF StoreOK
  <2> QED BY <1>6, <2>1, <2>3, <2>4, SplicedShaped
<1>8. NextTurn(u1, t) /\ u1.i = s.i /\ t.i = s.i + 1 /\ MovesTo(store, NoValue)
  BY <1>3 DEF NextTurn, Fielded, StoreStep, StoreOK
<1>9. Cutting(blk, t, n + 1, q, hi, v, e, num) /\ SameCurrent(u1, t) /\ t.vals = u1.vals
  <2>1. n >= u1.i
    BY <1>8
  <2> QED BY <2>1, <1>5, <1>7, <1>8, CuttingStored
<1>10. SameCurrent(s, t)
  <2>1. Len(u1.vals) \in Nat /\ Len(t.vals) \in Nat
    BY <1>2, <1>5, <1>9
  <2> QED BY <2>1, <1>2, <1>5, <1>9, SameTwice
<1>11. SameFloats(s, t)
  BY <1>5, <1>9 DEF SameFloats
<1> QED BY <1>5, <1>8, <1>9, <1>10, <1>11 DEF StoreDone

\* A load is inserted, of a new value that takes over the later uses.
LoadStep(s, t, v, w, k, late, new, load, at) ==
  Fielded(t, InsertAt(s.block, at, k), Append(Rewritten(s.stmts, late, v, w), load), Append(s.vals, new),
          s.alloced, s.i, s.slots)
LoadOK(blk, s, load, k, w, first) ==
  StatementOK(blk, load, k, w) /\ load.op = "unspill" /\ load.out = w /\ load.num = s.stmts[first].num - 1
LoadPlace(s, late, at) == at \in 1..Len(s.block) /\ at > s.i /\ Len(late) >= 1 /\ late[1] = s.block[at]
LoadDone(blk, s, t, n, q, hi, v) ==
  /\ Shaped(blk, t) /\ t.i = s.i /\ SameCurrent(s, t) /\ SameFloats(s, t) /\ Books(blk, t, n, q, hi)
  /\ Gone(blk, t, n, q, v) /\ t.vals[v] = s.vals[v]

\* A load before the first later use keeps the books.
LEMMA LoadCore ==
  ASSUME NEW blk, NEW s, NEW t, NEW n \in Int, n <= s.i + 1, NEW q \in Int,
         NEW hi \in Nat, hi <= Len(s.stmts[s.block[s.i]].args), NEW v, NEW num, NEW e,
         Cutting(blk, s, n, q, hi, v, e, num), NEW before, NEW late, NEW p, CutAt(blk, s, e, num, p, before, late),
         NEW w, NextValue(s, w), NEW k, NextStatement(s, k), NEW new, LateValue(blk, s, v, new, late, None),
         NEW at, LoadPlace(s, late, at),
         NEW load, LoadOK(blk, s, load, k, w, s.block[at]), LoadStep(s, t, v, w, k, late, new, load, at)
  PROVE  LoadDone(blk, s, t, n, q, hi, v)
<1> DEFINE u2 == Allocator(s.block, Rewritten(s.stmts, late, v, w), Append(s.vals, new), s.alloced, s.i, s.slots)
<1>1. Shaped(blk, s) /\ s.i <= Len(s.block) /\ v \in 1..Len(s.vals)
  BY DEF Cutting
<1>2. s.i \in Nat /\ s.i >= 1 /\ Len(s.block) \in Nat /\ Len(s.vals) \in Nat /\ Len(s.stmts) \in Nat
  BY <1>1, Basics
<1>3. Fielded(u2, s.block, Rewritten(s.stmts, late, v, w), Append(s.vals, new), s.alloced, s.i, s.slots)
  BY AllocatorIs
<1> HIDE DEF u2
<1>4. /\ DOMAIN u2 = Fields /\ u2.block = s.block /\ u2.alloced = s.alloced /\ u2.i = s.i
      /\ u2.slots = s.slots /\ u2.vals = Append(s.vals, new) /\ u2.stmts = Rewritten(s.stmts, late, v, w)
  BY <1>3 DEF Fielded
<1>5. Shaped(blk, u2) /\ Split(s, u2, late, v, w, new)
  <2>1. u2.slots \in Nat /\ w = Len(s.vals) + 1 /\ ValueOK(blk, new)
    BY <1>1, <1>4 DEF Shaped, NextValue, LateValue
  <2> QED BY <1>1, <1>4, <2>1, SplitShaped
<1>6. /\ Ready(blk, u2, n, q, hi, w) /\ NoOut(u2, w) /\ SameCurrent(s, u2) /\ SameFloats(s, u2)
      /\ ~Allocated(u2, v) /\ ~Pending(blk, u2, n, q, v)
  <2>1. /\ p \in 0..Len(e) /\ Cut(e, p, before, late) /\ late \in Seq(1..NB(blk)) /\ Prefix(s, e, num, p)
        /\ new.edges = late /\ new.used = 0 /\ new.spilled = None
    BY DEF CutAt, LateValue
  <2> QED BY <2>1, <1>5, CuttingSplit
<1>7. /\ Len(u2.vals) = w /\ Len(u2.stmts) = Len(s.stmts) /\ u2.vals[w] = new /\ u2.vals[v] = s.vals[v] /\ v \in 1..w /\ v # w
      /\ \A l \in 1..Len(s.stmts) : u2.stmts[l].num = s.stmts[l].num
  <2>1. Grown(s, u2, w, new) /\ Rewriting(s, u2, late, v, w)
    BY <1>5 DEF Split
  <2>2. Len(u2.vals) = w /\ u2.vals[w] = new /\ u2.vals[v] = s.vals[v]
    BY <2>1, <1>1 DEF Grown
  <2>3. Len(u2.stmts) = Len(s.stmts) /\ \A l \in 1..Len(s.stmts) : u2.stmts[l].num = s.stmts[l].num
    BY <2>1 DEF Rewriting, RewrittenOne
  <2>4. v \in 1..w /\ v # w
    BY SMTT(30), <1>1, <1>2 DEF NextValue
  <2> QED BY <2>2, <2>3, <2>4
<1>8. at \in 1..Len(u2.block) /\ at > u2.i /\ at \in 1..(Len(u2.block) + 1) /\ n <= u2.i + 1
  BY <1>2, <1>4 DEF LoadPlace
<1>9. Shaped(blk, t) /\ Spliced(u2, t, at, k, load) /\ t.i = u2.i
  <2>1. /\ DOMAIN t = Fields /\ t.vals = u2.vals /\ t.alloced = u2.alloced /\ t.i = u2.i /\ t.slots = u2.slots
        /\ t.stmts = Append(u2.stmts, load) /\ t.block = InsertAt(u2.block, at, k)
    BY <1>4 DEF Fielded, LoadStep
  <2>2. u2.i \in Nat \ {0} /\ u2.slots \in Nat
    BY <1>5 DEF Shaped
  <2>3. t.i \in Nat \ {0} /\ t.slots \in Nat /\ k = Len(u2.stmts) + 1 /\ StatementOK(blk, load, k, Len(u2.vals))
    BY <1>7, <2>1, <2>2 DEF NextStatement, LoadOK
  <2> QED BY <1>5, <1>8, <2>1, <2>3, SplicedShaped
<1>10. Loads(u2, load, w, at)
  <2>1. u2.vals[w].reg = None /\ u2.vals[w].edges = late
    BY <1>7 DEF LateValue
  <2>2. Len(late) >= 1 /\ late[1] = u2.block[at]
    BY <1>4 DEF LoadPlace
  <2>3. s.block[at] \in 1..Len(s.stmts)
    BY <1>1, BlockIs DEF LoadPlace
  <2>4. load.num = u2.stmts[u2.block[at]].num - 1
    BY <1>4, <1>7, <2>3 DEF LoadOK
  <2> QED BY <2>1, <2>2, <2>4 DEF Loads, LoadOK
<1>11. hi <= Len(u2.stmts[u2.block[u2.i]].args)
  BY <1>6 DEF SameCurrent
<1>12. /\ Books(blk, t, n, q, hi) /\ SameCurrent(u2, t) /\ t.vals = u2.vals
       /\ \A x : Pending(blk, t, n, q, x) => x = w \/ Pending(blk, u2, n, q, x)
  BY <1>6, <1>8, <1>9, <1>10, <1>11, ReadyLoaded
<1>13. SameCurrent(s, t)
  <2>1. Len(u2.vals) \in Nat /\ Len(t.vals) \in Nat
    BY SMTT(30), <1>2, <1>7, <1>12 DEF NextValue
  <2> QED BY <2>1, <1>2, <1>6, <1>12, SameTwice
<1>14. SameFloats(s, t)
  BY <1>6, <1>12 DEF SameFloats
<1>15. Gone(blk, t, n, q, v)
  <2>1. ~Pending(blk, t, n, q, v)
    BY <1>6, <1>7, <1>12
  <2>2. t.alloced = u2.alloced
    BY <1>9 DEF Spliced
  <2>3. ~Allocated(t, v)
    BY <1>6, <2>2 DEF Allocated
  <2>4. v \in 1..Len(t.vals)
    BY <1>7, <1>12
  <2> QED BY <2>1, <2>3, <2>4 DEF Gone
<1> QED BY <1>4, <1>7, <1>9, <1>12, <1>13, <1>14, <1>15 DEF LoadDone

\* StoreSpill before it inserts the load.
StoredOf(s, v, num) ==
  [s EXCEPT !.vals[v].spilled = s.slots + 1,
            !.vals[v].edges = Before(s, v, num),
            !.stmts = Append(@, NewStatement("spill", <<NoValue, v>>, NoValue, 0, s.slots + 1)),
            !.block = InsertAt(@, s.i, Len(s.stmts) + 1),
            !.i = @ + 1,
            !.slots = s.slots + 1]
Stores(s, u, v, num) == u = StoredOf(s, v, num)
PlaceOf(s, x) == CHOOSE y \in 1..Len(s.block) : s.block[y] = x

\* Its fields.
LEMMA StoreFields ==
  ASSUME NEW s, DOMAIN s = Fields, NEW v, NEW num, v \in DOMAIN s.vals, DOMAIN s.vals[v] = ValueFields
  PROVE  StoreStep(s, StoredOf(s, v, num), v, Len(s.stmts) + 1, WithSlot(s.vals[v], Before(s, v, num), s.slots + 1),
                   NewStatement("spill", <<NoValue, v>>, NoValue, 0, s.slots + 1), s.slots + 1)
BY DEF StoredOf, Fielded, Fields, StoreStep, Put, WithSlot, ValueFields

\* A value without later uses is not loaded again.
LEMMA StoreOnly ==
  ASSUME NEW s, NEW v, NEW num, Late(s, v, num) = <<>>
  PROVE  StoreSpill(s, v, num) = StoredOf(s, v, num)
BY DEF StoreSpill, StoredOf

\* One with later uses is.
LEMMA LoadFields ==
  ASSUME NEW s, DOMAIN s = Fields, NEW v, NEW num, Late(s, v, num) # <<>>, NEW u, u = StoredOf(s, v, num), DOMAIN u = Fields
  PROVE  LoadStep(u, StoreSpill(s, v, num), v, Len(s.vals) + 1, Len(s.stmts) + 2, Late(s, v, num),
                  NewValue(s.vals[v].float, Late(s, v, num), None),
                  NewStatement("unspill", <<NoValue, NoValue>>, Len(s.vals) + 1, s.stmts[Late(s, v, num)[1]].num - 1, s.slots + 1),
                  PlaceOf(u, Late(s, v, num)[1]))
<1> DEFINE late == Late(s, v, num)
           at == PlaceOf(u, late[1])
           load == NewStatement("unspill", <<NoValue, NoValue>>, Len(s.vals) + 1, s.stmts[late[1]].num - 1, s.slots + 1)
           k == Len(s.stmts) + 1 + 1
<1>1. StoreSpill(s, v, num) =
        [u EXCEPT !.vals = Append(@, NewValue(s.vals[v].float, late, None)),
                  !.stmts = Append(Rewritten(@, late, v, Len(s.vals) + 1), load),
                  !.block = InsertAt(@, at, k)]
  BY DEF StoreSpill, StoredOf, PlaceOf
<1>2. Len(s.stmts) + 2 = k
  OBVIOUS
<1> HIDE DEF late, at, load, k
<1>3. Fielded(StoreSpill(s, v, num), InsertAt(u.block, at, k), Append(Rewritten(u.stmts, late, v, Len(s.vals) + 1), load),
              Append(u.vals, NewValue(s.vals[v].float, late, None)), u.alloced, u.i, u.slots)
  BY <1>1 DEF Fielded, Fields
<1> QED BY <1>2, <1>3 DEF LoadStep, late, at, load

\* The statements stand at one place each.
LEMMA PlaceIs ==
  ASSUME NEW blk, NEW s, InOrder(blk, s), Len(s.block) \in Nat, NEW x \in 1..Len(s.block)
  PROVE  PlaceOf(s, s.block[x]) = x
<1> DEFINE y == PlaceOf(s, s.block[x])
<1>1. y \in 1..Len(s.block) /\ s.block[y] = s.block[x]
  BY DEF PlaceOf
<1> HIDE DEF y
<1>2. ~(x < y) /\ ~(y < x)
  BY <1>1 DEF InOrder, Above
<1>3. x \in Int /\ y \in Int
  BY <1>1
<1> QED BY <1>2, <1>3 DEF y

\* The statements StoreSpill inserts.
LEMMA StoreStatement ==
  ASSUME NEW blk, NEW n \in Nat, NEW v \in 1..n, NEW k \in Nat, k > NB(blk), NB(blk) \in Nat, NEW slot
  PROVE  /\ StatementOK(blk, NewStatement("spill", <<NoValue, v>>, NoValue, 0, slot), k, n)
         /\ MovesTo(NewStatement("spill", <<NoValue, v>>, NoValue, 0, slot), NoValue)
<1> DEFINE st == NewStatement("spill", <<NoValue, v>>, NoValue, 0, slot)
<1>1. DOMAIN st = StatementFields /\ st.args = <<NoValue, v>> /\ st.out = NoValue /\ st.num = 0 /\ st.op = "spill"
  BY DEF NewStatement, StatementFields
<1> HIDE DEF st
<1>2. NoValue \in 0..n
  BY DEF NoValue
<1>3. st.args \in Seq(0..n) /\ Len(st.args) = 2
  BY <1>1, <1>2
<1>4. ~(k <= NB(blk)) /\ st.out \in 0..n
  BY <1>1, <1>2
<1> QED BY <1>1, <1>3, <1>4 DEF StatementOK, MovesTo, st

\* The load.
LEMMA LoadStatement ==
  ASSUME NEW blk, NEW s, NEW w \in Nat, w >= 1, NEW k \in Nat, k > NB(blk), NB(blk) \in Nat, NEW slot, NEW first, s.stmts[first].num \in Int,
         NEW num, num = s.stmts[first].num - 1
  PROVE  LoadOK(blk, s, NewStatement("unspill", <<NoValue, NoValue>>, w, num, slot), k, w, first)
<1> DEFINE st == NewStatement("unspill", <<NoValue, NoValue>>, w, num, slot)
<1>1. DOMAIN st = StatementFields /\ st.args = <<NoValue, NoValue>> /\ st.out = w /\ st.num = num /\ st.op = "unspill"
  BY DEF NewStatement, StatementFields
<1>2. num \in Int
  OBVIOUS
<1> HIDE DEF st
<1>3. NoValue \in 0..w /\ w \in 0..w /\ w # NoValue
  BY DEF NoValue
<1>4. st.args \in Seq(0..w) /\ Len(st.args) = 2 /\ \A j \in 1..Len(st.args) : st.args[j] = NoValue
  BY <1>1, <1>3
<1>5. ~(k <= NB(blk)) /\ st.out \in 0..w
  BY <1>1, <1>3
<1>6. Len(st.args) \in 1..3 /\ st.num \in Int
  BY <1>1, <1>2, <1>4
<1>7. StatementOK(blk, st, k, w)
  BY <1>1, <1>3, <1>4, <1>5, <1>6 DEF StatementOK
<1>8. st.num = s.stmts[first].num - 1
  BY <1>1
<1> QED BY <1>1, <1>7, <1>8 DEF LoadOK, st

\* The cut of the uses does not depend on statements outside the source block.
LEMMA CutStays ==
  ASSUME NEW blk, NEW s, NEW t, NEW e \in Seq(1..NB(blk)), NEW num, NEW p, NEW before, NEW late,
         CutAt(blk, s, e, num, p, before, late), \A l \in 1..NB(blk) : t.stmts[l].num = s.stmts[l].num
  PROVE  CutAt(blk, t, e, num, p, before, late)
<1>1. \A x \in 1..Len(e) : e[x] \in 1..NB(blk)
  BY SeqHas
<1>2. \A x \in 1..Len(e) : t.stmts[e[x]].num = s.stmts[e[x]].num
  BY <1>1
<1>3. Prefix(t, e, num, p)
  BY <1>2 DEF CutAt, Prefix
<1> QED BY <1>3 DEF CutAt

\* A new value with the later uses.
LEMMA NewLate ==
  ASSUME NEW blk, NEW s, NEW u, NEW v \in 1..Len(s.vals), ValueOK(blk, s.vals[v]), SameFloats(s, u), NEW late \in Seq(1..NB(blk))
  PROVE  LateValue(blk, u, v, NewValue(s.vals[v].float, late, None), late, None)
BY DEF LateValue, ValueOK, ValueFields, NewValue, SameFloats

\* What the store does.
StoredWell(blk, s, u, n, q, hi, v, num) ==
  /\ Cutting(blk, u, n + 1, q, hi, v, s.vals[v].edges, num) /\ SameCurrent(s, u) /\ SameFloats(s, u)
  /\ u.i = s.i + 1 /\ u.vals[v].edges = Before(s, v, num) /\ u.vals[v].reg = s.vals[v].reg /\ Len(u.vals) = Len(s.vals)
  /\ Inserted(s.block, s.i, Len(s.stmts) + 1, u.block)
  /\ u.stmts = Append(s.stmts, NewStatement("spill", <<NoValue, v>>, NoValue, 0, s.slots + 1))

\* It keeps the books.
LEMMA StoredBooks ==
  ASSUME NEW blk, NEW s, NEW n \in Int, n >= s.i, NEW q \in Int, NEW hi, NEW v, NEW num,
         Cutting(blk, s, n, q, hi, v, s.vals[v].edges, num), NEW u, Stores(s, u, v, num)
  PROVE  StoredWell(blk, s, u, n, q, hi, v, num)
<1> DEFINE e == s.vals[v].edges
           before == Before(s, v, num)
           k == Len(s.stmts) + 1
           slot == s.slots + 1
           trimmed == WithSlot(s.vals[v], before, slot)
           store == NewStatement("spill", <<NoValue, v>>, NoValue, 0, slot)
<1>1. /\ ValueOK(blk, s.vals[v]) /\ s.vals[v].float \in BOOLEAN /\ v \in DOMAIN s.vals /\ DOMAIN s = Fields
      /\ Len(s.vals) \in Nat /\ Len(s.stmts) \in Nat /\ NB(blk) \in Nat /\ NB(blk) <= Len(s.stmts) /\ v \in 1..Len(s.vals)
  BY CutValue
<1>2. before \in Seq(1..NB(blk))
  BY CutHere
<1>3. Shaped(blk, s) /\ s.i <= Len(s.block)
  BY DEF Cutting
<1>4. s.slots \in Nat /\ s.block \in Seq(1..Len(s.stmts)) /\ s.i \in Nat \ {0}
  BY <1>3 DEF Shaped
<1>5. slot \in Nat /\ k \in Nat /\ k > NB(blk)
  BY SMTT(30), <1>1, <1>4
<1>6. StoreStep(s, u, v, k, trimmed, store, slot)
  <2>1. DOMAIN s.vals[v] = ValueFields
    BY <1>1 DEF ValueOK
  <2> QED BY <1>1, <2>1, StoreFields DEF Stores
<1>7. NextStatement(s, k)
  BY DEF NextStatement
<1>8. TrimValue(blk, s, v, trimmed) /\ trimmed.edges = before /\ trimmed.reg = s.vals[v].reg
  <2>1. ValueOK(blk, s.vals[v]) /\ before \in Seq(1..NB(blk))
    BY <1>1, <1>2
  <2> HIDE DEF before, slot
  <2>2. TrimTo(blk, s, v, trimmed, before)
    BY <2>1, TrimmedSlot
  <2> QED BY <2>2 DEF TrimTo
<1>9. StoreOK(blk, s, store, k)
  <2> HIDE DEF k, slot
  <2> QED BY <1>1, <1>5, StoreStatement DEF StoreOK
<1>10. Inserted(s.block, s.i, k, u.block) /\ u.stmts = Append(s.stmts, store)
  <2>1. u.block = InsertAt(s.block, s.i, k) /\ u.stmts = Append(s.stmts, store)
    BY <1>6 DEF StoreStep, Fielded
  <2>2. s.block \in Seq(1..k) /\ k \in 1..k /\ s.i \in 1..(Len(s.block) + 1)
    <3>1. 1..Len(s.stmts) \subseteq 1..k /\ k \in 1..k
      BY <1>1
    <3>2. s.i \in 1..(Len(s.block) + 1)
      BY <1>3, <1>4
    <3> HIDE DEF k
    <3> QED BY <3>1, <3>2, <1>4, SeqWider
  <2> HIDE DEF k
  <2> QED BY <2>1, <2>2, InsertAtIs
<1> HIDE DEF e, before, k, slot, trimmed, store
<1>11. /\ Cutting(blk, u, n + 1, q, hi, v, e, num) /\ SameCurrent(s, u) /\ SameFloats(s, u)
       /\ u.i = s.i + 1 /\ u.vals[v] = trimmed /\ Len(u.vals) = Len(s.vals)
  <2>1. Cutting(blk, s, n, q, hi, v, e, num)
    BY DEF e
  <2>2. slot \in Nat
    BY <1>5
  <2>3. TrimValue(blk, s, v, trimmed)
    BY <1>8
  <2>4. StoreDone(blk, s, u, n, q, hi, v, e, num, trimmed)
    BY <2>1, <2>2, <2>3, <1>6, <1>7, <1>9, StoreCore
  <2> QED BY <2>4 DEF StoreDone
<1> QED BY <1>8, <1>10, <1>11 DEF StoredWell, e, before, k, store, slot

\* A value that was moved or stored.
Spilt(blk, s, t, n, q, hi, v, num) ==
  /\ Away(blk, s, t, n, q, hi) /\ t.i = s.i + 1 /\ Gone(blk, t, n + 1, q, v)
  /\ t.vals[v].edges = Before(s, v, num) /\ t.vals[v].reg = s.vals[v].reg

\* A store and its load keep the books.
LEMMA StoreBooks ==
  ASSUME NEW blk, NEW s, NEW n \in Int, n >= s.i, n <= s.i + 1, NEW q \in Int,
         NEW hi \in Nat, hi <= Len(s.stmts[s.block[s.i]].args), NEW v, NEW num,
         Cutting(blk, s, n, q, hi, v, s.vals[v].edges, num), SpillOK(s, v, num)
  PROVE  Spilt(blk, s, StoreSpill(s, v, num), n, q, hi, v, num)
<1> DEFINE u == StoredOf(s, v, num)
           t == StoreSpill(s, v, num)
           e == s.vals[v].edges
           before == Before(s, v, num)
           late == Late(s, v, num)
           store == NewStatement("spill", <<NoValue, v>>, NoValue, 0, s.slots + 1)
<1>0. Stores(s, u, v, num)
  BY DEF Stores
<1>1. /\ Cutting(blk, u, n + 1, q, hi, v, e, num) /\ SameCurrent(s, u) /\ SameFloats(s, u)
      /\ u.i = s.i + 1 /\ u.vals[v].edges = before /\ u.vals[v].reg = s.vals[v].reg /\ Len(u.vals) = Len(s.vals)
      /\ Inserted(s.block, s.i, Len(s.stmts) + 1, u.block) /\ u.stmts = Append(s.stmts, store)
  <2> HIDE DEF u
  <2>1. StoredWell(blk, s, u, n, q, hi, v, num)
    BY <1>0, StoredBooks
  <2> QED BY <2>1 DEF StoredWell
<1>2. Shaped(blk, s) /\ s.i <= Len(s.block) /\ v \in 1..Len(s.vals)
  BY DEF Cutting
<1>3. Shaped(blk, u) /\ v \in 1..Len(u.vals) /\ Books(blk, u, n + 1, q, hi) /\ ~Allocated(u, v) /\ ~Pending(blk, u, n + 1, q, v)
  BY <1>1 DEF Cutting
<1>4. s.i \in Nat /\ u.i \in Nat /\ Len(s.vals) \in Nat /\ Len(s.stmts) \in Nat /\ Len(s.block) \in Nat /\ Len(u.block) \in Nat /\ NB(blk) \in Nat /\ NB(blk) <= Len(s.stmts)
  <2>1. s.i \in Nat /\ Len(s.vals) \in Nat /\ Len(s.stmts) \in Nat /\ Len(s.block) \in Nat /\ NB(blk) \in Nat /\ NB(blk) <= Len(s.stmts)
    BY <1>2, Basics
  <2>2. u.i \in Nat /\ Len(u.block) \in Nat
    <3> HIDE DEF u
    <3> QED BY <1>3, Basics
  <2> QED BY <2>1, <2>2
<1>5. n + (u.i - s.i) = n + 1
  BY SMTT(30), <1>1, <1>4
<1>6. CASE late = <<>>
  <2>1. t = u
    BY <1>6, StoreOnly
  <2> HIDE DEF t, u
  <2>2. Spilt(blk, s, u, n, q, hi, v, num)
    BY <1>1, <1>3, <1>5 DEF Spilt, Away, Gone
  <2> QED BY <2>1, <2>2 DEF t
<1>7. CASE late # <<>>
  <2> DEFINE w == Len(s.vals) + 1
             k == Len(s.stmts) + 2
             new == NewValue(s.vals[v].float, late, None)
             load == NewStatement("unspill", <<NoValue, NoValue>>, w, s.stmts[late[1]].num - 1, s.slots + 1)
             at == PlaceOf(u, late[1])
  <2>1. late \in Seq(1..NB(blk)) /\ \E p : CutAt(blk, s, e, num, p, before, late)
    BY CutHere
  <2>2. Len(late) >= 1 /\ late[1] \in 1..NB(blk)
    <3> HIDE DEF late
    <3>1. Len(late) # 0 /\ Len(late) \in Nat
      BY <1>7, <2>1
    <3>2. Len(late) >= 1 /\ 1 \in 1..Len(late)
      BY <3>1
    <3> QED BY <2>1, <3>2, SeqHas
  <2>3. PICK x \in (s.i + 1)..Len(s.block) : s.block[x] = late[1]
    BY <1>7 DEF SpillOK
  <2>4. x + 1 \in 1..Len(u.block) /\ u.block[x + 1] = late[1] /\ x + 1 > u.i
    <3>1. x \in 1..Len(s.block) /\ x \in Int /\ ~(x < s.i)
      BY <1>4, <2>3
    <3>2. Len(u.block) = Len(s.block) + 1 /\ u.block[x + 1] = s.block[x]
      BY <1>1, <3>1 DEF Inserted
    <3>3. x + 1 > s.i + 1
      BY <1>4, <2>3
    <3>4. x + 1 \in 1..(Len(s.block) + 1)
      BY <1>4, <3>1
    <3> HIDE DEF late, u
    <3> QED BY <1>1, <2>3, <3>2, <3>3, <3>4
  <2>5. at = x + 1
    <3>1. InOrder(blk, u)
      BY <1>3 DEF Books, Listed
    <3> HIDE DEF u, late
    <3>2. PlaceOf(u, u.block[x + 1]) = x + 1
      BY <1>4, <2>4, <3>1, PlaceIs
    <3> QED BY <2>4, <3>2
  <2>6. at \in 1..Len(u.block) /\ at > u.i /\ u.block[at] = late[1]
    <3> HIDE DEF at, u, late
    <3> QED BY <2>4, <2>5
  <2>7. \A l \in 1..Len(s.stmts) : u.stmts[l] = s.stmts[l] /\ Len(u.stmts) = Len(s.stmts) + 1
    <3>1. IsSeq(s.stmts)
      BY <1>2 DEF Shaped, StatementsOK
    <3> HIDE DEF u, store
    <3> QED BY <1>1, <3>1, AppendIs
  <2>8. PICK p : CutAt(blk, s, e, num, p, before, late)
    BY <2>1
  <2>9. CutAt(blk, u, e, num, p, before, late)
    <3>1. e \in Seq(1..NB(blk))
      BY DEF Cutting
    <3>2. \A l \in 1..NB(blk) : u.stmts[l].num = s.stmts[l].num
      <4> HIDE DEF u
      <4>1. \A l \in 1..NB(blk) : l \in 1..Len(s.stmts)
        BY <1>4
      <4> QED BY <2>7, <4>1
    <3> HIDE DEF u, e, before, late
    <3> QED BY <2>8, <3>1, <3>2, CutStays
  <2>10. NextValue(u, w) /\ NextStatement(u, k)
    <3>1. 1 \in 1..Len(s.stmts) /\ 1 \in 1..NB(blk)
      BY SMTT(30), <1>4, <2>2
    <3>2. Len(u.stmts) = Len(s.stmts) + 1
      BY <2>7, <3>1
    <3> HIDE DEF u
    <3> QED BY <1>1, <1>4, <3>2 DEF NextValue, NextStatement
  <2>11. LateValue(blk, u, v, new, late, None)
    <3>1. ValueOK(blk, s.vals[v])
      BY CutValue
    <3> HIDE DEF late, u
    <3> QED BY <1>1, <1>2, <2>1, <3>1, NewLate
  <2>12. LoadOK(blk, u, load, k, w, u.block[at])
    <3>1. w \in Nat /\ w >= 1 /\ k \in Nat /\ k > NB(blk)
      BY SMTT(30), <1>4
    <3>2. s.stmts[late[1]].num = 2 * (late[1] - 1)
      BY <1>2, <2>2, NumbersAre
    <3>3. late[1] \in 1..Len(s.stmts) /\ 2 * (late[1] - 1) \in Int
      <4> HIDE DEF late
      <4> QED BY SMTT(30), <1>4, <2>2
    <3>4. u.stmts[u.block[at]].num = s.stmts[late[1]].num /\ s.stmts[late[1]].num \in Int
      BY <2>6, <2>7, <3>2, <3>3
    <3> DEFINE num1 == s.stmts[late[1]].num - 1
    <3>5. num1 = u.stmts[u.block[at]].num - 1 /\ u.stmts[u.block[at]].num \in Int
      BY <3>4
    <3> HIDE DEF w, k, num1, at, u
    <3> QED BY <1>4, <3>1, <3>5, LoadStatement DEF num1
  <2>13. LoadStep(u, t, v, w, k, late, new, load, at)
    <3>1. DOMAIN s = Fields /\ DOMAIN u = Fields
      BY <1>2, <1>3 DEF Shaped
    <3> QED BY <1>7, <3>1, LoadFields
  <2>14. LoadPlace(u, late, at)
    BY <2>2, <2>6 DEF LoadPlace
  <2>15. hi <= Len(u.stmts[u.block[u.i]].args)
    BY <1>1 DEF SameCurrent
  <2>16. n + 1 \in Int /\ n + 1 <= u.i + 1
    BY SMTT(30), <1>1, <1>4
  <2> HIDE DEF u, t, e, before, late, w, k, new, load, at
  <2>17. /\ Shaped(blk, t) /\ t.i = u.i /\ SameCurrent(u, t) /\ SameFloats(u, t) /\ Books(blk, t, n + 1, q, hi)
         /\ Gone(blk, t, n + 1, q, v) /\ t.vals[v] = u.vals[v]
    <3> DEFINE m == n + 1
    <3>1. m \in Int /\ m <= u.i + 1 /\ Cutting(blk, u, m, q, hi, v, e, num)
      BY <1>1, <2>16
    <3> HIDE DEF m
    <3>2. LoadDone(blk, u, t, m, q, hi, v)
      BY <3>1, <2>9, <2>10, <2>11, <2>12, <2>13, <2>14, <2>15, LoadCore
    <3> QED BY <3>2 DEF m, LoadDone
  <2>18. SameCurrent(s, t) /\ SameFloats(s, t)
    <3>1. Len(u.vals) \in Nat /\ Len(t.vals) \in Nat
      BY <1>1, <1>4, <2>17, Basics
    <3> QED BY <1>1, <1>4, <2>17, <3>1, SameTwice
  <2>19. Spilt(blk, s, t, n, q, hi, v, num)
    <3>1. t.i = s.i + 1 /\ t.vals[v].edges = Before(s, v, num) /\ t.vals[v].reg = s.vals[v].reg /\ n + (t.i - s.i) = n + 1
      BY <1>1, <1>5, <2>17 DEF before
    <3> QED BY <2>17, <2>18, <3>1 DEF Spilt, Away
  <2> QED BY <2>19 DEF t
<1> QED BY <1>6, <1>7

\* A value that is in a register.
Holds(s, r, v) == r \in Reg /\ s.alloced[r] = v /\ v > 0
Dropped(s, t, r) ==
  /\ DOMAIN t = Fields /\ t.block = s.block /\ t.stmts = s.stmts /\ t.vals = s.vals /\ t.i = s.i /\ t.slots = s.slots
  /\ t.alloced = [s.alloced EXCEPT ![r] = None]
BooksOf(blk, s, n, q, hi) == Shaped(blk, s) /\ s.i <= Len(s.block) /\ Books(blk, s, n, q, hi)

\* It is told nowhere else.
LEMMA HoldsIs ==
  ASSUME NEW blk, NEW s, NEW n \in Int, NEW q \in Int, NEW hi, BooksOf(blk, s, n, q, hi), NEW r, NEW v, Holds(s, r, v)
  PROVE  /\ v \in 1..Len(s.vals) /\ s.vals[v].reg = r /\ s.vals[v].spilled = None
         /\ EdgesOK(blk, s, v) /\ ~Pending(blk, s, n, q, v) /\ r \in Usable(s.vals[v].float)
         /\ s.alloced[r] # Reserved /\ \A x \in Reg : s.alloced[x] = v => x = r
<1>1. Shaped(blk, s) /\ r \in Reg /\ s.alloced[r] = v /\ v > 0 /\ Books(blk, s, n, q, hi)
  BY DEF BooksOf, Holds
<1>2. v \in 1..Len(s.vals) /\ s.vals[v].reg = r /\ s.vals[v].spilled = None
  BY <1>1, HeldIs
<1>3. \A x \in Reg : s.alloced[x] = v => x = r
  BY <1>1, <1>2, HeldIs
<1>4. Tracked(blk, s, n, q, hi, v)
  BY <1>1, <1>2 DEF Books
<1>5. EdgesOK(blk, s, v) /\ ~Pending(blk, s, n, q, v)
  BY <1>1, <1>4 DEF Tracked, Live, Allocated, Fresh
<1>6. ValueOK(blk, s.vals[v])
  BY <1>1, <1>2 DEF Shaped, ValuesOK
<1>7. r \in Usable(s.vals[v].float)
  <2>1. r # None
    BY <1>1 DEF Reg, None
  <2> QED BY <1>2, <1>6, <2>1 DEF ValueOK
<1>8. s.alloced[r] # Reserved
  BY <1>1 DEF Reserved
<1> QED BY <1>2, <1>3, <1>5, <1>7, <1>8

\* It gives up its register.
LEMMA DroppedCutting ==
  ASSUME NEW blk, NEW s, NEW t, NEW n \in Int, NEW q \in Int, NEW hi, BooksOf(blk, s, n, q, hi), NEW r, NEW v, Holds(s, r, v),
         NEW num \in Int, num > s.stmts[s.block[s.i]].num, Dropped(s, t, r)
  PROVE  Cutting(blk, t, n, q, hi, v, t.vals[v].edges, num) /\ Shaped(blk, t) /\ Books(blk, t, n, q, hi)
<1>1. Shaped(blk, s) /\ r \in Reg /\ s.alloced[r] = v /\ v > 0 /\ Books(blk, s, n, q, hi) /\ s.i <= Len(s.block)
  BY DEF BooksOf, Holds
<1>2. /\ v \in 1..Len(s.vals) /\ s.vals[v].reg = r /\ EdgesOK(blk, s, v) /\ ~Pending(blk, s, n, q, v)
      /\ s.alloced[r] # Reserved /\ \A x \in Reg : s.alloced[x] = v => x = r
  BY HoldsIs
<1>3. Shaped(blk, t) /\ BooksToo(blk, s, t) /\ \A x \in Reg : t.alloced[x] = IF x = r THEN None ELSE s.alloced[x]
  <2>1. s.alloced \in [Reg -> {None, Reserved} \cup 1..Len(s.vals)]
    BY <1>1 DEF Shaped, RegistersOK
  <2>2. \A x \in Reg : t.alloced[x] = IF x = r THEN None ELSE s.alloced[x]
    BY <2>1 DEF Dropped
  <2>3. t.alloced \in [Reg -> {None} \cup Elements(s.alloced)]
    BY <2>1 DEF Dropped, Elements
  <2>4. \A x \in Reg : t.alloced[x] # s.alloced[x] => t.alloced[x] = None /\ s.alloced[x] # Reserved
    BY <1>2, <2>2
  <2> QED BY <1>1, <2>2, <2>3, <2>4, DropBooks DEF Dropped
<1>4. Books(blk, t, n, q, hi)
  BY <1>1, <1>3 DEF BooksToo
<1>5. ~Allocated(t, v)
  <2> SUFFICES ASSUME NEW x \in Reg, t.alloced[x] = v PROVE FALSE
    BY DEF Allocated
  <2>1. v # None
    BY <1>1 DEF None
  <2> QED BY <1>2, <1>3, <2>1
<1>6. t.block = s.block /\ t.stmts = s.stmts /\ t.vals = s.vals /\ t.i = s.i
  BY DEF Dropped
<1>7. ~Pending(blk, t, n, q, v)
  BY <1>2, <1>6 DEF Pending, PendingOut
<1>8. EdgesFit(blk, t, t.vals[v].edges, v)
  BY <1>2, <1>6 DEF EdgesFit, EdgesOK
<1>9. t.vals[v].edges \in Seq(1..NB(blk))
  BY <1>2, <1>3, <1>6 DEF Shaped, ValuesOK, ValueOK
<1> QED BY <1>1, <1>2, <1>3, <1>4, <1>5, <1>6, <1>7, <1>8, <1>9 DEF Cutting

\* The kind of a register says the kind of its value.
LEMMA KindIs ==
  ASSUME NEW float \in BOOLEAN, NEW r \in Usable(float)
  PROVE  Usable(r >= XMM0) = Usable(float) /\ (r >= XMM0) \in BOOLEAN /\ (r >= XMM0) = float
<1>1. CASE float
  <2>1. r \in 16..31
    BY <1>1 DEF Usable
  <2>2. r >= XMM0
    BY <2>1 DEF XMM0
  <2>3. (r >= XMM0) = TRUE /\ float = TRUE
    BY <1>1, <2>2
  <2> QED BY <2>3
<1>2. CASE ~float
  <2>1. r \in 0..15
    BY <1>2 DEF Usable
  <2>2. ~(r >= XMM0)
    BY <2>1 DEF XMM0
  <2>3. (r >= XMM0) = FALSE /\ float = FALSE
    BY <1>2, <2>2
  <2> QED BY <2>3
<1> QED BY <1>1, <1>2

\* The register a spilled value may move to.
LEMMA TempIs ==
  ASSUME NEW blk, NEW s, Shaped(blk, s), count \in 1..16, NEW v \in 1..Len(s.vals),
         s.vals[v].reg \in Usable(s.vals[v].float), NEW allow,
         first_empty(s.alloced, s.vals[v].reg >= XMM0, allow) # None
  PROVE  first_empty(s.alloced, s.vals[v].reg >= XMM0, allow) \in Usable(s.vals[v].float)
<1> DEFINE float == s.vals[v].float
           kind == s.vals[v].reg >= XMM0
           temp == first_empty(s.alloced, kind, allow)
<1>1. float \in BOOLEAN
  BY DEF Shaped, ValuesOK, ValueOK
<1>2. Usable(kind) = Usable(float) /\ kind \in BOOLEAN
  BY <1>1, KindIs
<1> HIDE DEF kind, float
<1>3. temp \in Usable(kind)
  BY <1>2, FirstEmptyIs DEF kind
<1> QED BY <1>2, <1>3 DEF kind, float

\* A value that changes its register keeps the books.
LEMMA FastBooks ==
  ASSUME NEW blk, NEW s, NEW t, NEW n \in Int, NEW q \in Int, NEW hi, BooksOf(blk, s, n, q, hi), NEW r, NEW v, Holds(s, r, v),
         NEW d, Dropped(s, d, r), Shaped(blk, d), ~Allocated(d, v), NEW temp \in Usable(s.vals[v].float), t = FastSpill(d, v, temp)
  PROVE  Away(blk, s, t, n, q, hi) /\ t.i = s.i
<1>1. Shaped(blk, s) /\ Books(blk, s, n, q, hi) /\ s.i <= Len(s.block) /\ r \in Reg /\ s.alloced[r] = v
  BY DEF BooksOf, Holds
<1>2. v \in 1..Len(s.vals) /\ s.vals[v].spilled = None /\ ~Pending(blk, s, n, q, v)
  BY HoldsIs
<1>3. d.block = s.block /\ d.stmts = s.stmts /\ d.vals = s.vals /\ d.i = s.i /\ d.alloced = [s.alloced EXCEPT ![r] = None]
  BY DEF Dropped
<1>4. Shaped(blk, t) /\ Given(d, t, v, temp)
  <2>1. v \in 1..Len(d.vals) /\ temp \in Usable(d.vals[v].float) /\ d.vals[v].spilled = None
    BY <1>2, <1>3
  <2>2. t = Give(d, v, temp)
    BY DEF FastSpill
  <2> QED BY <2>1, <2>2, GiveShaped
<1>5. Steady(s, t) /\ t.i = s.i /\ UsedSame(s, t)
  BY <1>3, <1>4 DEF Given, Steady, UsedSame
<1>6. t.block = s.block /\ t.stmts = s.stmts /\ Len(t.vals) = Len(s.vals)
  BY <1>5 DEF Steady
<1>7. \A x : Pending(blk, t, n, q, x) <=> Pending(blk, s, n, q, x)
  BY <1>6 DEF Pending, PendingOut
<1>8. PendingSame(blk, s, t, n, q)
  <2> SUFFICES ASSUME NEW x \in 1..Len(t.vals), Pending(blk, t, n, q, x)
               PROVE  t.vals[x].reg = s.vals[x].reg /\ t.vals[x].spilled = s.vals[x].spilled
    BY DEF PendingSame
  <2>1. x # v
    BY <1>2, <1>7
  <2> QED BY <1>3, <1>4, <1>6, <2>1 DEF Given
<1>9. HeldLive(blk, s, n, q, t, n, q)
  <2> SUFFICES ASSUME NEW x \in Reg, t.alloced[x] > 0
               PROVE  Live(blk, s, n, q, t.alloced[x]) /\ ~Pending(blk, t, n, q, t.alloced[x])
    BY DEF HeldLive
  <2>1. s.alloced \in [Reg -> {None, Reserved} \cup 1..Len(s.vals)]
    BY <1>1 DEF Shaped, RegistersOK
  <2>2. t.alloced[x] = IF x = temp THEN v ELSE IF x = r THEN None ELSE s.alloced[x]
    BY <1>3, <1>4, <2>1 DEF Given
  <2>3. CASE x = temp
    BY <1>1, <1>2, <1>7, <2>2, <2>3 DEF Live, Allocated
  <2>4. CASE x # temp
    <3>1. x # r /\ t.alloced[x] = s.alloced[x]
      BY <2>2, <2>4 DEF None
    <3>2. s.alloced[x] \in 1..Len(s.vals)
      BY <1>1, <3>1, HeldIs
    <3>3. Tracked(blk, s, n, q, hi, s.alloced[x])
      BY <1>1, <3>2 DEF Books
    <3>4. ~Pending(blk, s, n, q, s.alloced[x])
      BY <3>3 DEF Tracked, Fresh
    <3> QED BY <1>7, <3>1, <3>4 DEF Live, Allocated
  <2> QED BY <2>3, <2>4
<1>10. Books(blk, t, n, q, hi)
  BY <1>1, <1>5, <1>8, <1>9, MovedBooks
<1>11. SameCurrent(s, t)
  BY <1>1, <1>5, <1>6 DEF SameCurrent
<1>12. SameFloats(s, t)
  <2>1. Len(s.vals) \in Nat
    BY <1>1, Basics
  <2> QED BY <1>3, <1>4, <1>6, <2>1 DEF SameFloats, Given
<1>13. n + (t.i - s.i) = n
  <2>1. s.i \in Nat
    BY <1>1, Basics
  <2> QED BY <1>5, <2>1
<1> QED BY <1>4, <1>5, <1>10, <1>11, <1>12, <1>13 DEF Away

\* A moved value is spilt.
LEMMA MovSpilt ==
  ASSUME NEW blk, NEW s, NEW n \in Int, n >= s.i, NEW q \in Int,
         NEW hi \in Nat, hi <= Len(s.stmts[s.block[s.i]].args), NEW v, NEW num,
         Cutting(blk, s, n, q, hi, v, s.vals[v].edges, num), NEW temp \in Usable(s.vals[v].float)
  PROVE  Spilt(blk, s, MovSpill(s, v, temp, num), n, q, hi, v, num)
BY SMTT(30), MovBooks DEF Spilt

\* What do_spill does: the value changes its register, and is not used yet, or it is
\* moved or stored.
Spills(blk, s, t, n, q, hi, v, num) ==
  \/ Away(blk, s, t, n, q, hi) /\ t.i = s.i /\ UsedAfter(s, v, s.stmts[s.block[s.i]].num)
  \/ Spilt(blk, s, t, n, q, hi, v, num)

\* The record of the value that is dropped does not change what is cut.
LEMMA DroppedSpilt ==
  ASSUME NEW blk, NEW s, NEW d, NEW r, Dropped(s, d, r), NEW t, NEW n, NEW q, NEW hi, NEW v, NEW num,
         Spilt(blk, d, t, n, q, hi, v, num)
  PROVE  Spilt(blk, s, t, n, q, hi, v, num)
<1>1. d.block = s.block /\ d.stmts = s.stmts /\ d.vals = s.vals /\ d.i = s.i
  BY DEF Dropped
<1>2. Before(d, v, num) = Before(s, v, num)
  BY <1>1 DEF Before
<1>3. Away(blk, s, t, n, q, hi)
  <2>1. Away(blk, d, t, n, q, hi)
    BY DEF Spilt
  <2>2. SameCurrent(d, t) = SameCurrent(s, t) /\ SameFloats(d, t) = SameFloats(s, t)
    BY <1>1 DEF SameCurrent, SameFloats
  <2> QED BY <1>1, <2>1, <2>2 DEF Away
<1> QED BY <1>1, <1>2, <1>3 DEF Spilt

\* If the first use is after a statement, all are.
LEMMA FirstAfter ==
  ASSUME NEW blk, NEW s, Shaped(blk, s), NEW v \in 1..Len(s.vals), EdgesOK(blk, s, v), NEW num \in Int,
         s.vals[v].edges # <<>>, s.stmts[s.vals[v].edges[1]].num > num
  PROVE  UsedAfter(s, v, num)
<1> DEFINE e == s.vals[v].edges
<1>1. e \in Seq(1..NB(blk)) /\ Sorted(e) /\ NB(blk) \in Nat
  BY DEF Shaped, ValuesOK, ValueOK, EdgesOK
<1>2. Len(e) \in Nat /\ \A x \in 1..Len(e) : e[x] \in 1..NB(blk)
  BY <1>1, SeqHas
<1> SUFFICES ASSUME NEW x \in 1..Len(e) PROVE s.stmts[e[x]].num > num
  BY DEF UsedAfter
<1>3. e[1] \in 1..NB(blk) /\ e[x] \in 1..NB(blk) /\ e[1] <= e[x]
  <2>1. 1 \in 1..Len(e) /\ (x = 1 \/ 1 < x)
    BY <1>2
  <2>2. 1 < x => e[1] <= e[x]
    BY <1>1, <2>1 DEF Sorted
  <2>3. e[1] \in 1..NB(blk) /\ e[x] \in 1..NB(blk)
    BY <1>2, <2>1
  <2> HIDE DEF e
  <2> QED BY <1>1, <2>1, <2>2, <2>3
<1>4. s.stmts[e[1]].num = 2 * (e[1] - 1) /\ s.stmts[e[x]].num = 2 * (e[x] - 1)
  <2>1. \A k \in 1..NB(blk) : s.stmts[k].num = 2 * (k - 1)
    BY NumbersAre
  <2> HIDE DEF e
  <2> QED BY <1>3, <2>1
<1> DEFINE e1 == e[1]
           ex == e[x]
<1>5. e1 \in Int /\ ex \in Int /\ e1 <= ex /\ 2 * (e1 - 1) > num
  BY SMTT(30), <1>1, <1>3, <1>4
<1> HIDE DEF e1, ex
<1>6. 2 * (ex - 1) > num
  BY <1>5
<1> QED BY <1>4, <1>6 DEF ex

\* do_spill keeps the books.
LEMMA SpillBooks ==
  ASSUME NEW blk, NEW s, NEW n \in Int, n >= s.i, n <= s.i + 1, NEW q \in Int,
         NEW hi \in Nat, hi <= Len(s.stmts[s.block[s.i]].args), BooksOf(blk, s, n, q, hi), count \in 1..16,
         NEW r, NEW v, Holds(s, r, v), NEW num \in Int, num > s.stmts[s.block[s.i]].num, SpillOK(s, v, num), NEW allow
  PROVE  Spills(blk, s, do_spill(s, v, r, num, allow), n, q, hi, v, num)
<1> DEFINE d == [s EXCEPT !.alloced[r] = None]
           temp == first_empty(d.alloced, d.vals[v].reg >= XMM0, allow)
           t == do_spill(s, v, r, num, allow)
<1>1. /\ v \in 1..Len(s.vals) /\ s.vals[v].reg = r /\ EdgesOK(blk, s, v) /\ r \in Usable(s.vals[v].float)
  BY HoldsIs
<1>2. Shaped(blk, s) /\ s.i <= Len(s.block)
  BY DEF BooksOf
<1>3. Dropped(s, d, r)
  BY <1>2 DEF Dropped, Shaped, Fields
<1>4. t = IF temp = None THEN StoreSpill(d, v, num)
          ELSE IF s.vals[v].edges # <<>> /\ d.stmts[s.vals[v].edges[1]].num > d.stmts[d.block[d.i]].num THEN FastSpill(d, v, temp)
          ELSE MovSpill(d, v, temp, num)
  BY DEF do_spill
<1>5. d.block = s.block /\ d.stmts = s.stmts /\ d.vals = s.vals /\ d.i = s.i
  BY <1>3 DEF Dropped
<1> HIDE DEF d, t
<1>6. Cutting(blk, d, n, q, hi, v, d.vals[v].edges, num) /\ Shaped(blk, d)
  BY <1>3, DroppedCutting
<1>7. n >= d.i /\ n <= d.i + 1 /\ hi <= Len(d.stmts[d.block[d.i]].args)
  BY <1>5
<1>8. temp # None => temp \in Usable(d.vals[v].float)
  BY <1>1, <1>5, <1>6, TempIs
<1>9. SpillOK(d, v, num)
  BY <1>5 DEF SpillOK, Late
<1> HIDE DEF temp
<1>10. CASE temp = None
  <2>1. t = StoreSpill(d, v, num)
    BY <1>4, <1>10
  <2>2. Spilt(blk, d, t, n, q, hi, v, num)
    BY <1>6, <1>7, <1>9, <2>1, StoreBooks
  <2> QED BY <1>3, <2>2, DroppedSpilt DEF Spills, t
<1>11. CASE temp # None /\ s.vals[v].edges # <<>> /\ d.stmts[s.vals[v].edges[1]].num > d.stmts[d.block[d.i]].num
  <2>1. t = FastSpill(d, v, temp)
    BY <1>4, <1>11
  <2>2. ~Allocated(d, v) /\ temp \in Usable(s.vals[v].float)
    BY <1>5, <1>6, <1>8, <1>11 DEF Cutting
  <2>3. Away(blk, s, t, n, q, hi) /\ t.i = s.i
    BY <1>3, <1>6, <2>1, <2>2, FastBooks
  <2>4. s.stmts[s.block[s.i]].num \in Int
    BY <1>2, CurrentIs DEF StatementOK
  <2>5. UsedAfter(s, v, s.stmts[s.block[s.i]].num)
    BY <1>1, <1>2, <1>5, <1>11, <2>4, FirstAfter
  <2> QED BY <2>3, <2>5 DEF Spills, t
<1>12. CASE temp # None /\ ~(s.vals[v].edges # <<>> /\ d.stmts[s.vals[v].edges[1]].num > d.stmts[d.block[d.i]].num)
  <2>1. t = MovSpill(d, v, temp, num)
    BY <1>4, <1>12
  <2>2. Spilt(blk, d, t, n, q, hi, v, num)
    BY <1>6, <1>7, <1>8, <1>12, <2>1, MovSpilt
  <2> QED BY <1>3, <2>2, DroppedSpilt DEF Spills, t
<1> QED BY <1>10, <1>11, <1>12

-----------------------------------------------------------------------------
(* The steps *)

\* The block and the build do not change after the block is built.
LEMMA Keep ==
  ASSUME IInv, src' = src, count' = count, wrong' = wrong, Shaped(src, a'),
         pc' \in {"args", "tick", "reuse", "clobber", "emit", "done", "crash", "endless"}, Stage(src, a', pc')
  PROVE  IInv'
BY DEF IInv

\* A stage without books.
LEMMA NoStage ==
  ASSUME NEW blk, NEW s, NEW p, p \in {"emit", "done", "crash", "endless"}
  PROVE  Stage(blk, s, p)
BY DEF Stage

\* The number of registers.
LEMMA CountIs ==
  ASSUME IInv
  PROVE  count \in 1..16
BY CountAssumption DEF IInv

\* What is known of the current statement.
LEMMA StmtIs ==
  ASSUME IInv, pc # "build", a.i <= Len(a.block)
  PROVE  /\ Shaped(src, a) /\ CurrentOf(a) = stmt /\ a.i \in 1..Len(a.block) /\ a.i \in Nat /\ NP(src) \in Nat
         /\ StatementOK(src, stmt, cur, Len(a.vals)) /\ cur \in 1..Len(a.stmts)
         /\ stmt.args \in Seq(0..Len(a.vals)) /\ Len(stmt.args) \in Nat /\ stmt.out \in 0..Len(a.vals)
         /\ Early(stmt) \in Nat /\ Early(stmt) <= Len(stmt.args)
<1>1. Shaped(src, a)
  BY DEF IInv
<1>2. CurrentOf(a) = stmt /\ cur = a.block[a.i] /\ stmt = a.stmts[a.block[a.i]]
  BY DEF CurrentOf, stmt, cur
<1> QED BY <1>1, <1>2, CurrentIs, Basics

\* A statement whose turn ends.
LEMMA TurnEnds ==
  ASSUME NEW blk, NEW s, NEW t, Shaped(blk, s), s.i <= Len(s.block), t = [s EXCEPT !.i = @ + 1],
         Books(blk, s, s.i + 1, NP(blk) + 1, Len(CurrentOf(s).args))
  PROVE  Shaped(blk, t) /\ Books(blk, t, t.i, NP(blk) + 1, 0)
<1>1. /\ DOMAIN t = Fields /\ t.block = s.block /\ t.stmts = s.stmts /\ t.vals = s.vals /\ t.alloced = s.alloced
      /\ t.i = s.i + 1 /\ t.slots = s.slots
  BY DEF Shaped, Fields
<1>2. Books(blk, s, s.i + 1, NP(blk) + 1, Len(s.stmts[s.block[s.i]].args))
  BY DEF CurrentOf
<1> QED BY <1>1, <1>2, AdvanceBooks

\* The start of a turn: registers are given back before the output gets one.
LEMMA TickKeeps ==
  ASSUME IInv, Tick
  PROVE  IInv'
<1> DEFINE u == increment_operand_uses(a, stmt, 1, Early(stmt))
           t == expire_unused_regs(u)
<1>1. pc = "tick" /\ a.i <= Len(a.block) /\ UNCHANGED <<count, src, wrong>>
  BY DEF Tick
<1>2. /\ Shaped(src, a) /\ CurrentOf(a) = stmt /\ a.i \in Nat /\ NP(src) \in Nat
      /\ Early(stmt) \in Nat /\ Early(stmt) <= Len(stmt.args)
  BY <1>1, StmtIs
<1>3. Books(src, a, a.i, NP(src) + 1, 0)
  BY <1>1 DEF IInv, Stage
<1>4. stmt = a.stmts[a.block[a.i]]
  BY DEF stmt, cur
<1>5. /\ a' = [t EXCEPT !.i = IF stmt.out = NoValue THEN @ + 1 ELSE @]
      /\ pc' \in {"crash", IF stmt.out = NoValue THEN "tick" ELSE "reuse"}
  BY DEF Tick
<1> DEFINE st == stmt
<1> HIDE DEF st
<1>6. /\ Shaped(src, u) /\ u.i = a.i /\ u.block = a.block /\ u.stmts = a.stmts /\ Books(src, u, u.i, NP(src) + 1, Early(stmt))
  <2>1. /\ Shaped(src, u) /\ u.i = a.i /\ u.block = a.block /\ u.stmts = a.stmts
        /\ Books(src, a, a.i, NP(src) + 1, 0) => Books(src, u, a.i, NP(src) + 1, Early(stmt))
    BY <1>1, <1>2, <1>4, EarlyBooks
  <2> HIDE DEF u
  <2> QED BY <1>3, <2>1
<1>7. Shaped(src, t) /\ t.i = a.i /\ t.block = a.block /\ t.stmts = a.stmts /\ Books(src, t, t.i, NP(src) + 1, Early(stmt))
  <2> HIDE DEF u
  <2>1. u.i \in Int /\ NP(src) \in Int
    BY <1>2, <1>6
  <2>2. /\ Shaped(src, t) /\ t.i = u.i /\ t.block = u.block /\ t.stmts = u.stmts
        /\ Books(src, u, u.i, NP(src) + 1, Early(stmt)) => Books(src, t, t.i, NP(src) + 1, Early(stmt))
    BY <1>6, <2>1, TickBooks
  <2> HIDE DEF t
  <2> QED BY <1>6, <2>2
<1> HIDE DEF u, t
<1>8. t.i <= Len(t.block) /\ CurrentOf(t) = stmt
  BY <1>1, <1>4, <1>7 DEF CurrentOf
<1>9. CASE stmt.out = NoValue
  <2>1. Books(src, t, t.i + 1, NP(src) + 1, Len(stmt.args))
    BY <1>7, <1>8, <1>9, NoOutputBooks DEF CurrentOf
  <2>2. a' = [t EXCEPT !.i = @ + 1]
    BY <1>5, <1>9
  <2>3. Shaped(src, a') /\ Books(src, a', a'.i, NP(src) + 1, 0)
    BY <1>7, <1>8, <2>1, <2>2, TurnEnds
  <2>4. pc' \in {"crash", "tick"}
    BY <1>5, <1>9
  <2>5. Stage(src, a', pc')
    BY <2>3, <2>4 DEF Stage
  <2> QED BY <1>1, <2>3, <2>4, <2>5, Keep
<1>10. CASE stmt.out # NoValue
  <2>1. a' = t
    <3>1. a' = [t EXCEPT !.i = t.i]
      BY <1>5, <1>10
    <3> QED BY <3>1 DEF t, expire_unused_regs
  <2>2. pc' \in {"crash", "reuse"}
    BY <1>5, <1>10
  <2>3. Stage(src, t, pc')
    BY <1>7, <1>8, <1>10, <2>2 DEF Stage
  <2>4. Shaped(src, a') /\ Stage(src, a', pc')
    BY <1>7, <2>1, <2>3
  <2> QED BY <1>1, <2>2, <2>4, Keep
<1> QED BY <1>9, <1>10

\* The output takes over the register of an operand that is used up.
LEMMA ReusableIs ==
  ASSUME IInv, pc = "reuse", Reusable # {}
  PROVE  a.vals[stmt.args[Minimum(Reusable)]].reg \in Usable(a.vals[stmt.out].float)
<1> DEFINE j == Minimum(Reusable)
           v == stmt.args[j]
<1>1. a.i <= Len(a.block) /\ stmt.out # NoValue
  BY StmtIs DEF IInv, Stage, CurrentOf, stmt, cur
<1>2. /\ Shaped(src, a) /\ stmt.args \in Seq(0..Len(a.vals)) /\ Len(stmt.args) \in Nat
  BY <1>1, StmtIs
<1>3. Reusable \subseteq Nat /\ Reusable # {}
  BY SMTT(30), <1>2 DEF Reusable
<1>4. j \in Reusable
  BY <1>3, MinimumIs
<1> HIDE DEF j
<1>5. /\ j \in 1..Len(stmt.args) /\ v # NoValue /\ a.vals[v].reg # None /\ a.vals[v].float = a.vals[stmt.out].float
  BY <1>4 DEF Reusable
<1>6. v \in 0..Len(a.vals) /\ Len(a.vals) \in Int
  BY SMTT(30), <1>2, <1>5, SeqHas, Basics
<1>7. v \in 1..Len(a.vals)
  BY <1>5, <1>6, NotZero
<1>8. ValueOK(src, a.vals[v])
  BY <1>2, <1>7 DEF Shaped, ValuesOK
<1>9. a.vals[v].reg \in Usable(a.vals[v].float)
  BY <1>5, <1>8 DEF ValueOK
<1> QED BY <1>5, <1>9 DEF j

\* A statement whose output has its register: both ways out of it.
Placed(s, r) == increment_operand_uses_late(Give(s, CurrentOf(s).out, r), CurrentOf(s))
PlaceReady(blk, s, r) ==
  /\ Shaped(blk, s) /\ s.i <= Len(s.block) /\ CurrentOf(s).out # NoValue
  /\ Books(blk, s, s.i, NP(blk) + 1, Early(CurrentOf(s))) /\ r \in Usable(s.vals[CurrentOf(s).out].float)
PlacedWell(blk, s, t) ==
  /\ Shaped(blk, t) /\ t.i = s.i /\ t.i <= Len(t.block) /\ CurrentOf(t) = CurrentOf(s)
  /\ Books(blk, t, t.i + 1, NP(blk) + 1, Len(CurrentOf(t).args))

\* The books after it.
LEMMA PlacedBooks ==
  ASSUME NEW blk, NEW s, NEW r, PlaceReady(blk, s, r)
  PROVE  PlacedWell(blk, s, Placed(s, r))
<1> DEFINE st == s.stmts[s.block[s.i]]
           t == increment_operand_uses_late(Give(s, st.out, r), st)
<1>1. /\ Shaped(blk, s) /\ s.i <= Len(s.block) /\ st.out # NoValue
      /\ Books(blk, s, s.i, NP(blk) + 1, Early(st)) /\ r \in Usable(s.vals[st.out].float)
  BY DEF PlaceReady, CurrentOf
<1>2. t = Placed(s, r) /\ st = CurrentOf(s)
  BY DEF Placed, CurrentOf
<1>3. /\ Shaped(blk, t) /\ t.i = s.i /\ t.block = s.block /\ t.stmts = s.stmts
      /\ Books(blk, t, t.i + 1, NP(blk) + 1, Len(st.args))
  <2>1. PlacedIn(s, st, r, t)
    BY DEF PlacedIn
  <2> QED BY Zenon, <1>1, <2>1, PlaceBooks
<1> HIDE DEF t
<1>4. CurrentOf(t) = st
  BY <1>3 DEF CurrentOf
<1>5. t.i <= Len(t.block)
  BY <1>1, <1>3
<1> HIDE DEF st
<1> QED BY <1>2, <1>3, <1>4, <1>5 DEF PlacedWell

\* The output gets the register of the first operand: the turn is over.
LEMMA ReuseKeeps ==
  ASSUME IInv, Reuse
  PROVE  IInv'
<1> DEFINE r == a.vals[stmt.args[Minimum(Reusable)]].reg
           t == Placed(a, r)
<1>1. pc = "reuse" /\ Reusable # {} /\ UNCHANGED <<count, src, wrong>>
  BY DEF Reuse
<1>2. a.i <= Len(a.block) /\ stmt.out # NoValue /\ Books(src, a, a.i, NP(src) + 1, Early(stmt)) /\ Shaped(src, a)
  BY <1>1 DEF IInv, Stage, CurrentOf, stmt, cur
<1>3. stmt = CurrentOf(a)
  BY DEF stmt, cur, CurrentOf
<1>4. a' = [t EXCEPT !.i = @ + 1] /\ pc' \in {"tick", "crash"}
  BY <1>3 DEF Reuse, Placed
<1>5. r \in Usable(a.vals[stmt.out].float)
  BY <1>1, ReusableIs
<1> HIDE DEF r
<1>6. /\ Shaped(src, t) /\ t.i = a.i /\ t.i <= Len(t.block) /\ CurrentOf(t) = stmt
      /\ Books(src, t, t.i + 1, NP(src) + 1, Len(CurrentOf(t).args))
  <2>1. PlaceReady(src, a, r)
    BY <1>2, <1>3, <1>5 DEF PlaceReady
  <2>2. PlacedWell(src, a, t)
    BY <2>1, PlacedBooks
  <2> QED BY <1>3, <2>2 DEF PlacedWell
<1> HIDE DEF t
<1>7. Shaped(src, a') /\ Books(src, a', a'.i, NP(src) + 1, 0)
  BY <1>4, <1>6, TurnEnds
<1>8. Stage(src, a', pc')
  BY <1>4, <1>7 DEF Stage
<1> QED BY <1>1, <1>4, <1>7, <1>8, Keep

\* The output gets a register, of a or of what a spill made of it.
LEMMA PlaceKeeps ==
  ASSUME IInv, NEW s, NEW r, Place(s, r), UNCHANGED <<count, src, wrong>>, PlaceReady(src, s, r)
  PROVE  IInv'
<1> DEFINE t == Placed(s, r)
<1>1. a' = t /\ pc' \in {"clobber", "crash"}
  BY DEF Place, CurrentOf, Placed
<1>2. PlacedWell(src, s, t)
  BY PlacedBooks
<1> HIDE DEF t
<1>3. CurrentOf(t).out # NoValue
  BY <1>2 DEF PlacedWell, PlaceReady
<1>4. Shaped(src, a') /\ Stage(src, a', pc')
  BY <1>1, <1>2, <1>3 DEF Stage, PlacedWell
<1> QED BY <1>1, <1>4, Keep

\* The output gets a free register.
LEMMA TakeKeeps ==
  ASSUME IInv, Take
  PROVE  IInv'
<1> DEFINE where == first_empty(a.alloced, a.vals[stmt.out].float, Allowed(stmt))
<1>1. pc = "reuse" /\ UNCHANGED <<count, src, wrong>> /\ where # None /\ Place(a, where)
  BY DEF Take
<1>2. a.i <= Len(a.block) /\ stmt.out # NoValue /\ Books(src, a, a.i, NP(src) + 1, Early(stmt)) /\ Shaped(src, a)
  BY Zenon, <1>1 DEF IInv, Stage, CurrentOf, stmt, cur
<1>3. stmt = CurrentOf(a)
  BY DEF stmt, cur, CurrentOf
<1>4. stmt.out \in 1..Len(a.vals)
  <2>1. stmt.out \in 0..Len(a.vals) /\ Len(a.vals) \in Int
    BY <1>1, <1>2, StmtIs, Basics
  <2> QED BY <1>2, <2>1, NotZero
<1> DEFINE float == a.vals[stmt.out].float
<1>5. float \in BOOLEAN
  BY <1>2, <1>4 DEF Shaped, ValuesOK, ValueOK
<1>6. where \in Usable(float)
  <2> HIDE DEF float
  <2> QED BY <1>1, <1>2, <1>5, CountIs, FirstEmptyIs DEF float
<1> HIDE DEF where
<1>7. where \in Usable(a.vals[CurrentOf(a).out].float)
  BY <1>3, <1>6
<1>8. PlaceReady(src, a, where)
  BY <1>2, <1>3, <1>7 DEF PlaceReady
<1> QED BY <1>1, <1>8, PlaceKeeps

\* The next use is a later one.
LEMMA NextUseIs ==
  ASSUME NEW blk, NEW s, Shaped(blk, s), NEW v \in 1..Len(s.vals), NEW num, NextUse(s, v, num) # None
  PROVE  NextUse(s, v, num) \in Int /\ NextUse(s, v, num) > num
<1> DEFINE e == s.vals[v].edges
           later == {x \in DOMAIN e : s.stmts[e[x]].num > num}
           x == Minimum(later)
<1>1. e \in Seq(1..NB(blk))
  BY DEF Shaped, ValuesOK, ValueOK
<1>2. Len(e) \in Nat /\ DOMAIN e = 1..Len(e) /\ \A y \in 1..Len(e) : e[y] \in 1..NB(blk)
  BY Zenon, <1>1, SeqHas
<1>3. later # {} /\ NextUse(s, v, num) = s.stmts[e[x]].num
  BY Zenon DEF NextUse
<1>4. x \in later
  <2>1. later \subseteq Nat
    BY <1>2
  <2> HIDE DEF later
  <2> QED BY <1>3, <2>1, MinimumIs
<1> HIDE DEF x
<1>5. s.stmts[e[x]].num > num /\ e[x] \in 1..NB(blk)
  BY <1>2, <1>4
<1>6. s.stmts[e[x]].num \in Int
  <2>1. \A k \in 1..NB(blk) : s.stmts[k].num = 2 * (k - 1)
    BY NumbersAre
  <2>2. NB(blk) \in Nat
    BY Basics
  <2> HIDE DEF e
  <2> QED BY <1>5, <2>1, <2>2
<1> QED BY <1>3, <1>5, <1>6

\* The register whose value is spilled.
LEMMA SpillableIs ==
  ASSUME NEW s, count \in 1..16, NEW st, NEW float \in BOOLEAN, NEW allow, find_spillable(s, st, float, allow) # None
  PROVE  LET r == find_spillable(s, st, float, allow) IN
         r \in Bank(float) /\ r \in Reg /\ s.alloced[r] > 0 /\ NextUse(s, s.alloced[r], st.num) # None
<1> DEFINE r == find_spillable(s, st, float, allow)
           found == {x \in Bank(float) \cap allow : s.alloced[x] > 0 /\ NextUse(s, s.alloced[x], st.num) # None}
           best == {x \in found : \A y \in found : NextUse(s, s.alloced[y], st.num) <= NextUse(s, s.alloced[x], st.num)}
<1>1. r = IF best = {} THEN None ELSE Minimum(best)
  BY DEF find_spillable
<1>2. \A x \in Bank(float) : x \in Reg /\ x \in Nat
  BY DEF Bank, XMM0, Reg
<1>3. best \subseteq found /\ found \subseteq Nat
  BY <1>2
<1>4. r \in found
  <2> HIDE DEF best, found
  <2>1. best # {} /\ r = Minimum(best) /\ best \subseteq Nat
    BY <1>1, <1>3
  <2> QED BY <1>3, <2>1, MinimumIs
<1> HIDE DEF r
<1>5. r \in Bank(float) /\ s.alloced[r] > 0 /\ NextUse(s, s.alloced[r], st.num) # None
  BY <1>4
<1> QED BY <1>2, <1>5 DEF r

\* A register with a value is not a reserved one.
LEMMA BankUsable ==
  ASSUME NEW blk, NEW s, Shaped(blk, s), count \in 1..16, NEW float \in BOOLEAN, NEW r \in Bank(float), r \in Reg, s.alloced[r] > 0
  PROVE  r \in Usable(float)
<1>1. r \in IF float THEN 16..31 ELSE 0..15
  BY DEF Bank, XMM0
<1>2. r \notin ReservedRegs
  BY DEF Shaped, RegistersOK, Reserved
<1> QED BY <1>1, <1>2 DEF Usable, ReservedRegs

\* Either way of spilling leaves the current statement in place.
LEMMA SpillsAway ==
  ASSUME NEW blk, NEW s, NEW t, NEW n, NEW q, NEW hi, NEW v, NEW num, Spills(blk, s, t, n, q, hi, v, num)
  PROVE  /\ Shaped(blk, t) /\ t.i <= Len(t.block) /\ CurrentOf(t) = CurrentOf(s) /\ t.block[t.i] = s.block[s.i]
         /\ SameFloats(s, t) /\ Books(blk, t, n + (t.i - s.i), q, hi)
BY DEF Spills, Spilt, Away, SameCurrent, CurrentOf

\* The output gets the register of a value that is spilled away.
LEMMA SpillAwayKeeps ==
  ASSUME IInv, SpillAway
  PROVE  IInv'
<1> DEFINE float == a.vals[stmt.out].float
           r == find_spillable(a, stmt, float, Allowed(stmt))
           v == a.alloced[r]
           num == NextUse(a, v, stmt.num)
           where == a.vals[v].reg
           allow == Reg \ (clobbered_registers(stmt) \cup {where})
           t == do_spill(a, v, r, num, allow)
<1>1. /\ pc = "reuse" /\ UNCHANGED <<count, src, wrong>> /\ r # None /\ SpillOK(a, v, num) /\ Place(t, where)
  BY Zenon DEF SpillAway, NoneFree
<1>2. a.i <= Len(a.block) /\ stmt.out # NoValue /\ Books(src, a, a.i, NP(src) + 1, Early(stmt)) /\ Shaped(src, a)
  BY Zenon, <1>1 DEF IInv, Stage, CurrentOf, stmt, cur
<1>3. stmt = CurrentOf(a) /\ stmt = a.stmts[a.block[a.i]]
  BY DEF stmt, cur, CurrentOf
<1>4. /\ a.i \in Nat /\ NP(src) \in Nat /\ Early(stmt) \in Nat /\ Early(stmt) <= Len(stmt.args)
      /\ stmt.out \in 0..Len(a.vals) /\ Len(a.vals) \in Int /\ stmt.num \in Int
  <2>1. pc # "build"
    BY Zenon, <1>1
  <2>2. /\ a.i \in Nat /\ NP(src) \in Nat /\ Early(stmt) \in Nat /\ Early(stmt) <= Len(stmt.args)
        /\ stmt.out \in 0..Len(a.vals) /\ StatementOK(src, stmt, cur, Len(a.vals))
    BY <1>2, <2>1, StmtIs
  <2>3. Len(a.vals) \in Int
    BY <1>2, Basics
  <2>4. stmt.num \in Int
    BY <2>2 DEF StatementOK
  <2> QED BY <2>2, <2>3, <2>4
<1>5. stmt.out \in 1..Len(a.vals)
  BY <1>2, <1>4, NotZero
<1>6. float \in BOOLEAN
  BY <1>2, <1>5 DEF Shaped, ValuesOK, ValueOK
<1> HIDE DEF float
<1>7. r \in Bank(float) /\ r \in Reg /\ v > 0 /\ num # None
  BY <1>1, <1>6, CountIs, SpillableIs
<1>8. r \in Usable(float)
  BY <1>2, <1>6, <1>7, CountIs, BankUsable
<1>9. Holds(a, r, v)
  BY <1>7 DEF Holds
<1> HIDE DEF r
<1>10. BooksOf(src, a, a.i, NP(src) + 1, Early(stmt))
  BY <1>2 DEF BooksOf
<1>11. v \in 1..Len(a.vals) /\ where = r
  BY <1>4, <1>9, <1>10, HoldsIs
<1> HIDE DEF v
<1>12. num \in Int /\ num > stmt.num
  BY <1>2, <1>7, <1>11, NextUseIs
<1> HIDE DEF num, where, allow
<1>13. Spills(src, a, t, a.i, NP(src) + 1, Early(stmt), v, num)
  <2>1. a.i \in Int /\ a.i >= a.i /\ a.i <= a.i + 1 /\ NP(src) + 1 \in Int
    BY <1>4
  <2>2. Early(stmt) <= Len(a.stmts[a.block[a.i]].args) /\ num > a.stmts[a.block[a.i]].num
    BY <1>3, <1>4, <1>12
  <2> QED BY <1>1, <1>4, <1>9, <1>10, <1>12, <2>1, <2>2, CountIs, SpillBooks
<1> HIDE DEF t
<1>14. /\ Shaped(src, t) /\ t.i <= Len(t.block) /\ CurrentOf(t) = CurrentOf(a)
       /\ SameFloats(a, t) /\ Books(src, t, a.i + (t.i - a.i), NP(src) + 1, Early(stmt))
  BY <1>13, SpillsAway
<1>15. a.i + (t.i - a.i) = t.i
  <2>1. t.i \in Nat
    BY <1>14, Basics
  <2> QED BY <1>4, <2>1
<1>16. t.vals[stmt.out].float = float
  BY <1>5, <1>14 DEF SameFloats, float
<1>17. PlaceReady(src, t, where)
  BY <1>2, <1>3, <1>8, <1>11, <1>14, <1>15, <1>16 DEF PlaceReady
<1> QED BY <1>1, <1>17, PlaceKeeps

\* The registers a statement clobbers.
LEMMA ClobberedIs ==
  ASSUME NEW st
  PROVE  clobbered_registers(st) \subseteq Reg
<1>1. {RAX, RDX} \subseteq Reg /\ {RCX} \subseteq Reg
  BY DEF RAX, RCX, RDX, Reg
<1>2. Clobbered \subseteq Reg
  BY AbiAssumption
<1> QED BY <1>1, <1>2 DEF clobbered_registers

\* The value in a clobbered register.
LEMMA ToSaveIs ==
  ASSUME IInv, pc = "clobber", ToSave # {}
  PROVE  Holds(a, Minimum(ToSave), a.alloced[Minimum(ToSave)])
<1> DEFINE r == Minimum(ToSave)
<1>1. ToSave \subseteq Reg
  BY ClobberedIs DEF ToSave
<1>2. r \in ToSave
  <2>1. ToSave \subseteq Nat
    BY <1>1 DEF Reg
  <2> QED BY Zenon, <2>1, MinimumIs
<1> HIDE DEF r
<1>3. r \in Reg /\ a.alloced[r] \notin {None, Reserved, stmt.out}
  BY Zenon, <1>1, <1>2 DEF ToSave
<1>4. Shaped(src, a)
  BY DEF IInv
<1>5. a.alloced[r] \in 1..Len(a.vals) /\ Len(a.vals) \in Nat
  BY <1>3, <1>4, HeldIs, Basics
<1>6. a.alloced[r] > 0
  BY <1>5
<1> QED BY <1>3, <1>6 DEF Holds, r

\* The uses up to the current statement, when it is one of them.
LEMMA BeforeHas ==
  ASSUME NEW blk, NEW s, Shaped(blk, s), NEW v \in 1..Len(s.vals), EdgesOK(blk, s, v), NEW num \in Int, NEW k,
         s.stmts[k].num < num, \E x \in DOMAIN s.vals[v].edges : s.vals[v].edges[x] = k
  PROVE  /\ Before(s, v, num) \in Seq(1..NB(blk)) /\ Len(Before(s, v, num)) >= 1 /\ k \in 1..NB(blk)
<1> DEFINE e == s.vals[v].edges
<1>1. e \in Seq(1..NB(blk)) /\ Sorted(e)
  BY DEF Shaped, ValuesOK, ValueOK, EdgesOK
<1>2. PICK p \in 0..Len(e) : Prefix(s, e, num, p)
  <2> HIDE DEF e
  <2> QED BY <1>1, PrefixExists
<1>3. Before(s, v, num) \in Seq(1..NB(blk)) /\ Cut(e, p, Before(s, v, num), Late(s, v, num))
  BY <1>1, <1>2, CutIs
<1>4. PICK x \in DOMAIN e : e[x] = k
  OBVIOUS
<1>5. Len(e) \in Nat /\ x \in 1..Len(e) /\ e[x] \in 1..NB(blk)
  BY <1>1, <1>4, SeqHas
<1>6. x <= p
  BY <1>2, <1>4, <1>5 DEF Prefix
<1>7. p >= 1 /\ Len(Before(s, v, num)) = p
  BY <1>2, <1>3, <1>5, <1>6 DEF Cut
<1> QED BY <1>3, <1>4, <1>5, <1>7

MayTell(blk, t, n, q, hi, v, k) ==
  /\ Shaped(blk, t) /\ Books(blk, t, n, q, hi) /\ n \in Int /\ q \in Int
  /\ Gone(blk, t, n, q, v) /\ Len(t.vals[v].edges) >= 1 /\ k \in 1..NB(blk)
Tells(t, v, k, u) == u = [t EXCEPT !.vals[v].edges = InsertAt(@, 2, k)]
\* The use of the current statement goes back to the uses of a value that has been spilled.
LEMMA ToldBooks ==
  ASSUME NEW blk, NEW t, NEW v, NEW n, NEW q, NEW hi, NEW k, NEW u, MayTell(blk, t, n, q, hi, v, k), Tells(t, v, k, u)
  PROVE  Shaped(blk, u) /\ Books(blk, u, n, q, hi) /\ u.block = t.block /\ u.stmts = t.stmts /\ u.i = t.i
<1> SUFFICES ASSUME Shaped(blk, t), Books(blk, t, n, q, hi), n \in Int, q \in Int, Gone(blk, t, n, q, v),
                    Len(t.vals[v].edges) >= 1, k \in 1..NB(blk), u = [t EXCEPT !.vals[v].edges = InsertAt(@, 2, k)]
             PROVE  Shaped(blk, u) /\ Books(blk, u, n, q, hi) /\ u.block = t.block /\ u.stmts = t.stmts /\ u.i = t.i
  BY DEF MayTell, Tells
<1> DEFINE e == t.vals[v].edges
           f == InsertAt(e, 2, k)
           new == WithEdges(t.vals[v], f)
<1>1. v \in 1..Len(t.vals) /\ ~Allocated(t, v) /\ ~Pending(blk, t, n, q, v)
  BY DEF Gone
<1>2. ValueOK(blk, t.vals[v]) /\ e \in Seq(1..NB(blk)) /\ DOMAIN t = Fields /\ v \in DOMAIN t.vals /\ t.slots \in Nat
  BY <1>1, Basics DEF Shaped, ValuesOK, ValueOK
<1>3. f \in Seq(1..NB(blk))
  <2>1. Len(e) \in Nat
    BY <1>2
  <2>2. 2 \in 1..(Len(e) + 1)
    BY <2>1
  <2> HIDE DEF e
  <2> QED BY <1>2, <2>2, InsertAtIs
<1>4. /\ DOMAIN u = Fields /\ u.block = t.block /\ u.stmts = t.stmts /\ u.alloced = t.alloced /\ u.i = t.i /\ u.slots = t.slots
      /\ u.vals = [t.vals EXCEPT ![v] = new]
  BY <1>2 DEF Fields, WithEdges
<1>5. ValueOK(blk, new)
  <2> HIDE DEF f, e
  <2>1. TrimTo(blk, t, v, new, f)
    BY <1>2, <1>3, TrimmedEdges
  <2> QED BY <2>1 DEF TrimTo, TrimValue
<1> HIDE DEF new
<1>6. u.slots \in Nat
  BY <1>2, <1>4
<1>7. Shaped(blk, u) /\ DeadToo(blk, t, u, v)
  BY <1>1, <1>4, <1>5, <1>6, DeadBooks
<1> QED BY <1>1, <1>4, <1>7 DEF DeadToo

\* What is spilled at a statement that uses the value now.
LEMMA SpiltHere ==
  ASSUME NEW blk, NEW s, NEW t, NEW n, NEW q, NEW hi, NEW v, NEW num, Shaped(blk, s), Spills(blk, s, t, n, q, hi, v, num),
         v \in 1..Len(s.vals), s.i <= Len(s.block), \E x \in DOMAIN s.vals[v].edges : s.vals[v].edges[x] = s.block[s.i]
  PROVE  Spilt(blk, s, t, n, q, hi, v, num)
<1> DEFINE e == s.vals[v].edges
           now == s.stmts[s.block[s.i]].num
<1>1. PICK x \in DOMAIN e : e[x] = s.block[s.i]
  OBVIOUS
<1>2. e \in Seq(1..NB(blk))
  BY DEF Shaped, ValuesOK, ValueOK
<1>3. DOMAIN e = 1..Len(e)
  BY <1>2, SeqHas
<1>4. now \in Int
  BY BlockIs, CurrentIs DEF StatementOK
<1>5. ~UsedAfter(s, v, now)
  <2>1. s.stmts[e[x]].num = now
    BY <1>1
  <2>2. ~(s.stmts[e[x]].num > now)
    BY <1>4, <2>1
  <2> QED BY <1>1, <1>3, <2>2 DEF UsedAfter
<1> QED BY <1>5 DEF Spills

\* The book of a value spilled out of a clobbered register: its use by the statement is
\* told again.
Told(s, v, here) == IF here THEN [s EXCEPT !.vals[v].edges = InsertAt(@, 2, s.block[s.i])] ELSE s

\* A register the statement clobbers is saved.
LEMMA SpillClobberedKeeps ==
  ASSUME IInv, SpillClobbered
  PROVE  IInv'
<1> DEFINE r == Minimum(ToSave)
           v == a.alloced[r]
           here == \E x \in DOMAIN a.vals[v].edges : a.vals[v].edges[x] = cur
           num == stmt.num + 1
           t == do_spill(a, v, r, num, Reg \ clobbered_registers(stmt))
           hi == Len(stmt.args)
           q == NP(src) + 1
           n == a.i + 1
           u == [t EXCEPT !.vals[v].edges = InsertAt(@, 2, cur)]
<1>1. /\ pc = "clobber" /\ UNCHANGED <<count, src, wrong, pc>> /\ ToSave # {} /\ SpillOK(a, v, num)
      /\ a' = IF here THEN u ELSE t
  BY DEF SpillClobbered
<1>2. a.i <= Len(a.block) /\ stmt.out # NoValue /\ Books(src, a, n, q, hi) /\ Shaped(src, a)
  BY Zenon, <1>1 DEF IInv, Stage, CurrentOf, stmt, cur
<1>3. stmt = CurrentOf(a) /\ stmt = a.stmts[a.block[a.i]] /\ cur = a.block[a.i]
  BY DEF stmt, cur, CurrentOf
<1>4. /\ a.i \in Nat /\ NP(src) \in Nat /\ hi \in Nat /\ stmt.num \in Int
  <2>1. pc # "build"
    BY <1>1
  <2>2. /\ a.i \in Nat /\ NP(src) \in Nat /\ Len(stmt.args) \in Nat /\ StatementOK(src, stmt, cur, Len(a.vals))
    BY <1>2, <2>1, StmtIs
  <2>3. stmt.num \in Int
    BY <2>2 DEF StatementOK
  <2> QED BY <2>2, <2>3
<1>5. Holds(a, r, v)
  BY <1>1, ToSaveIs
<1> HIDE DEF r
<1>6. BooksOf(src, a, n, q, hi)
  BY <1>2 DEF BooksOf
<1>7. v \in 1..Len(a.vals) /\ EdgesOK(src, a, v)
  BY <1>4, <1>5, <1>6, HoldsIs
<1> HIDE DEF v
<1>8. num \in Int /\ num > stmt.num
  BY <1>4
<1> HIDE DEF num
<1>9. Spills(src, a, t, n, q, hi, v, num)
  <2>1. n \in Int /\ n >= a.i /\ n <= a.i + 1 /\ q \in Int
    BY <1>4
  <2>2. hi <= Len(a.stmts[a.block[a.i]].args) /\ num > a.stmts[a.block[a.i]].num
    BY <1>3, <1>4, <1>8
  <2> HIDE DEF n, q, hi
  <2> QED BY <1>1, <1>4, <1>5, <1>6, <1>8, <2>1, <2>2, CountIs, SpillBooks
<1> HIDE DEF t
<1>10. /\ Shaped(src, t) /\ t.i <= Len(t.block) /\ CurrentOf(t) = stmt
       /\ t.block[t.i] = cur /\ Books(src, t, n + (t.i - a.i), q, hi) /\ t.i \in Nat
  <2>1. Shaped(src, t) /\ t.i <= Len(t.block) /\ CurrentOf(t) = CurrentOf(a)
        /\ t.block[t.i] = a.block[a.i] /\ Books(src, t, n + (t.i - a.i), q, hi)
    BY <1>9, SpillsAway
  <2> QED BY <1>3, <2>1, Basics
<1>11. n + (t.i - a.i) = t.i + 1
  BY <1>4, <1>10
<1> HIDE DEF hi, q
<1>12. Shaped(src, a') /\ a'.i <= Len(a'.block) /\ CurrentOf(a') = stmt /\ Books(src, a', a'.i + 1, q, hi)
  <2>1. CASE ~here
    BY <1>1, <1>10, <1>11, <2>1
  <2>2. CASE here
    <3>1. Spilt(src, a, t, n, q, hi, v, num)
      BY <1>2, <1>3, <1>7, <1>9, <2>2, SpiltHere
    <3>2. t.i = a.i + 1 /\ Gone(src, t, n + 1, q, v) /\ t.vals[v].edges = Before(a, v, num)
      BY <3>1 DEF Spilt
    <3>3. Len(Before(a, v, num)) >= 1 /\ cur \in 1..NB(src)
      <4>1. a.stmts[cur].num < num
        BY <1>3, <1>8
      <4> QED BY <1>2, <1>7, <1>8, <2>2, <4>1, BeforeHas
    <3>4. n + 1 = t.i + 1 /\ n + 1 \in Int /\ q \in Int
      BY <1>4, <3>2 DEF q
    <3>5. Books(src, t, n + 1, q, hi)
      BY <1>10, <1>11, <3>4
    <3>6. Shaped(src, u) /\ Books(src, u, n + 1, q, hi) /\ u.block = t.block /\ u.stmts = t.stmts /\ u.i = t.i
      <4> DEFINE m == n + 1
      <4>1. Tells(t, v, cur, u)
        BY DEF Tells, u
      <4>2. Len(t.vals[v].edges) >= 1
        BY <3>2, <3>3
      <4>3. m \in Int /\ q \in Int /\ Gone(src, t, m, q, v) /\ Books(src, t, m, q, hi) /\ Shaped(src, t)
        BY <1>10, <3>2, <3>4, <3>5
      <4> HIDE DEF m, u, here
      <4>4. MayTell(src, t, m, q, hi, v, cur)
        BY <3>3, <4>2, <4>3 DEF MayTell
      <4>5. Shaped(src, u) /\ Books(src, u, m, q, hi) /\ u.block = t.block /\ u.stmts = t.stmts /\ u.i = t.i
        BY <4>1, <4>4, ToldBooks
      <4> QED BY <4>5 DEF m
    <3>7. a' = u
      BY <1>1, <2>2
    <3> HIDE DEF u, n
    <3> QED BY <1>10, <3>4, <3>6, <3>7 DEF CurrentOf
  <2> HIDE DEF here
  <2> QED BY <2>1, <2>2
<1>13. Stage(src, a', pc')
  BY <1>1, <1>2, <1>12 DEF Stage, hi, q
<1>14. pc' = "clobber"
  BY <1>1
<1> HIDE DEF u, n, here
<1> QED BY <1>1, <1>12, <1>13, <1>14, Keep

\* Nothing is left to save: the turn is over.
LEMMA ClobberEndKeeps ==
  ASSUME IInv, ClobberEnd
  PROVE  IInv'
<1>1. pc = "clobber" /\ UNCHANGED <<count, src, wrong>> /\ a' = [a EXCEPT !.i = @ + 1] /\ pc' = "tick"
  BY DEF ClobberEnd
<1>2. Shaped(src, a) /\ a.i <= Len(a.block) /\ Books(src, a, a.i + 1, NP(src) + 1, Len(CurrentOf(a).args))
  BY <1>1 DEF IInv, Stage
<1>3. Shaped(src, a') /\ Books(src, a', a'.i, NP(src) + 1, 0)
  BY <1>1, <1>2, TurnEnds
<1>4. Stage(src, a', pc')
  BY <1>1, <1>3 DEF Stage
<1> QED BY <1>1, <1>3, <1>4, Keep

\* Steps at which the allocator gives up or the program is finished.
LEMMA EndsKeep ==
  ASSUME IInv, NoEnd \/ NothingToSpill \/ Finish
  PROVE  IInv'
<1>1. /\ UNCHANGED <<count, src, wrong, a>> /\ pc # "build"
      /\ pc' \in {"endless", "crash", "done"}
  BY DEF NoEnd, NothingToSpill, NoneFree, Finish
<1>2. Shaped(src, a')
  BY <1>1 DEF IInv
<1>3. Stage(src, a', pc')
  BY <1>1, NoStage
<1> QED BY <1>1, <1>2, <1>3, Keep

\* Nothing changes.
LEMMA StutterKeeps ==
  ASSUME IInv, UNCHANGED vars
  PROVE  IInv'
<1>1. UNCHANGED <<count, src, wrong, a, pc>>
  BY DEF vars
<1>2. CASE pc # "build"
  <2>1. Shaped(src, a') /\ Stage(src, a', pc')
    BY <1>1, <1>2 DEF IInv
  <2>2. pc' \in {"args", "tick", "reuse", "clobber", "emit", "done", "crash", "endless"}
    BY <1>1, <1>2 DEF IInv
  <2> QED BY <1>1, <2>1, <2>2, Keep
<1>3. CASE pc = "build"
  BY <1>1, <1>3 DEF IInv
<1> QED BY <1>2, <1>3

\* The counter changes and nothing else.
LEMMA CounterShaped ==
  ASSUME NEW blk, NEW s, Shaped(blk, s), NEW k \in Nat \ {0}, NEW t, t = [s EXCEPT !.i = k]
  PROVE  /\ Shaped(blk, t) /\ t.i = k /\ DOMAIN t = Fields /\ t.block = s.block /\ t.stmts = s.stmts
         /\ t.vals = s.vals /\ t.alloced = s.alloced /\ t.slots = s.slots
<1>1. /\ DOMAIN t = Fields /\ t.block = s.block /\ t.stmts = s.stmts
      /\ t.vals = s.vals /\ t.alloced = s.alloced /\ t.slots = s.slots /\ t.i = k
  BY DEF Shaped, Fields
<1>2. StatementsOK(blk, t) /\ ValuesOK(blk, t) /\ RegistersOK(t) /\ Agree(t)
  BY <1>1 DEF Shaped, StatementsOK, ValuesOK, RegistersOK, Agree
<1> QED BY <1>1, <1>2 DEF Shaped

\* No parameter waits for a register: past the last one, any place will do.
LEMMA NoneWaits ==
  ASSUME NEW blk, NEW s, Shaped(blk, s), NEW n, NEW par \in Int, NEW q \in Int, par > NP(blk), q > NP(blk), NEW hi,
         Books(blk, s, n, par, hi)
  PROVE  Books(blk, s, n, q, hi)
<1>1. NP(blk) \in Nat
  BY Basics
<1>2. ASSUME NEW v \in 1..Len(s.vals) PROVE Pending(blk, s, n, par, v) <=> Pending(blk, s, n, q, v)
  <2>1. v \in Int
    OBVIOUS
  <2>2. ~(v >= par /\ v <= NP(blk)) /\ ~(v >= q /\ v <= NP(blk))
    BY <1>1, <2>1
  <2> QED BY <2>2 DEF Pending
<1>3. ASSUME NEW v \in 1..Len(s.vals) PROVE Tracked(blk, s, n, q, hi, v)
  <2>1. Tracked(blk, s, n, par, hi, v) /\ (Pending(blk, s, n, par, v) <=> Pending(blk, s, n, q, v))
    BY <1>2 DEF Books
  <2> QED BY <2>1 DEF Tracked, Live
<1> QED BY <1>3 DEF Books

\* The parameters have their registers.
LEMMA ArgsEndKeeps ==
  ASSUME IInv, regalloc_args_end
  PROVE  IInv'
<1>1. pc = "args" /\ a.i > NP(src) /\ UNCHANGED <<count, src, wrong>> /\ a' = AtStart(a) /\ pc' = "tick"
  BY DEF regalloc_args_end, AtStart, NParams, NP
<1>2. Shaped(src, a) /\ Books(src, AtStart(a), 1, a.i, 0)
  BY <1>1 DEF IInv, Stage
<1>3. Shaped(src, a') /\ a'.i = 1
  BY <1>1, <1>2, CounterShaped DEF AtStart
<1>4. a.i \in Int /\ NP(src) \in Nat
  BY <1>2, Basics
<1>5. Books(src, a', 1, NP(src) + 1, 0)
  <2>1. Books(src, a', 1, a.i, 0)
    BY <1>1, <1>2
  <2>2. NP(src) + 1 \in Int /\ NP(src) + 1 > NP(src)
    BY <1>4
  <2> QED BY <1>1, <1>3, <1>4, <2>1, <2>2, NoneWaits
<1>6. Stage(src, a', pc')
  BY <1>1, <1>3, <1>5 DEF Stage
<1> QED BY <1>1, <1>3, <1>6, Keep

\* The emitted code is entered.
LEMMA BlockEnteredKeeps ==
  ASSUME IInv, BlockEntered
  PROVE  IInv'
<1>1. pc = "tick" /\ UNCHANGED <<count, src, wrong>> /\ a' = [a EXCEPT !.i = 1] /\ pc' = "emit"
  BY DEF BlockEntered
<1>2. Shaped(src, a')
  BY <1>1, CounterShaped DEF IInv
<1>3. Stage(src, a', pc')
  BY <1>1, NoStage
<1> QED BY <1>1, <1>2, <1>3, Keep

\* An instruction the allocator inserted.
LEMMA EmitSpillKeeps ==
  ASSUME IInv, EmitSpill
  PROVE  IInv'
<1>1. pc = "emit" /\ UNCHANGED <<count, src, pc, wrong>> /\ a' = [a EXCEPT !.i = a.i + 1]
  BY DEF EmitSpill
<1>2. Shaped(src, a) /\ a.i \in Nat
  BY <1>1, Basics DEF IInv
<1>3. a.i + 1 \in Nat \ {0}
  BY <1>2
<1>4. Shaped(src, a')
  BY <1>1, <1>2, <1>3, CounterShaped
<1>5. Stage(src, a', pc') /\ pc' = "emit"
  BY <1>1, NoStage
<1> QED BY <1>1, <1>4, <1>5, Keep

\* A statement has at most three operands to read.
LEMMA RanReads ==
  ASSUME Len(stmt.args) \in 1..3
  PROVE  DOMAIN Ran.reads \subseteq 1..3
<1>5. ASSUME NEW n \in 1..3 PROVE 1..n \subseteq 1..3
  <2>1. n \in Int /\ n <= 3
    OBVIOUS
  <2> QED BY <2>1
<1>6. 1..Len(stmt.args) \subseteq 1..3
  BY <1>5
<1>0. ASSUME NEW x, NEW y, NEW p, p = <<x, y>> PROVE DOMAIN p \subseteq 1..3
  <2>1. p = [j \in 1..2 |-> IF j = 1 THEN x ELSE y]
    BY <1>0
  <2>2. DOMAIN p = 1..2
    BY <2>1
  <2> QED BY <2>2
<1>1. CASE stmt.op \in {"div", "rem"}
  <2> DEFINE p == Ran.reads
  <2>1. \E x, y : p = <<x, y>>
    BY <1>1 DEF Ran
  <2> HIDE DEF p
  <2>2. DOMAIN p \subseteq 1..3
    BY <1>0, <2>1
  <2> QED BY <2>2 DEF p
<1>2. CASE stmt.op = "shl"
  <2> DEFINE p == Ran.reads
  <2>1. \E x, y : p = <<x, y>>
    BY <1>2 DEF Ran
  <2> HIDE DEF p
  <2>2. DOMAIN p \subseteq 1..3
    BY <1>0, <2>1
  <2> QED BY <2>2 DEF p
<1>3. CASE stmt.op = "call_eval"
  <2>1. DOMAIN Ran.reads = 1..Len(stmt.args)
    BY <1>3 DEF Ran
  <2> QED BY <1>6, <2>1
<1>4. CASE stmt.op \notin {"div", "rem", "shl", "call_eval"}
  <2>1. DOMAIN Ran.reads = 1..Len(stmt.args)
    BY <1>4 DEF Ran
  <2> QED BY <1>6, <2>1
<1> QED BY <1>1, <1>2, <1>3, <1>4

\* A statement of the block runs.
LEMMA EmitKeeps ==
  ASSUME IInv, Emit
  PROVE  IInv'
<1> DEFINE W == {<<cur, j>> : j \in {j \in DOMAIN Ran.reads : Ran.reads[j] # Body[cur].args[j]}}
<1>1. /\ pc = "emit" /\ UNCHANGED <<count, src>> /\ pc' \in {"emit", "crash"} /\ a.i <= Len(a.block) /\ cur <= NB(src)
      /\ a' \in {a, [a EXCEPT !.i = a.i + 1]} /\ wrong' \in {wrong, wrong \cup W}
  BY DEF Emit, Body, NB
<1>2. Shaped(src, a) /\ a.i \in Nat /\ StatementOK(src, stmt, cur, Len(a.vals)) /\ cur \in 1..Len(a.stmts) /\ NB(src) \in Nat
  <2>1. pc # "build"
    BY <1>1
  <2> QED BY <1>1, <2>1, StmtIs, Basics
<1>3. a.i + 1 \in Nat \ {0}
  BY <1>2
<1>4. Shaped(src, a')
  BY <1>1, <1>2, <1>3, CounterShaped
<1>5. Stage(src, a', pc')
  BY <1>1, NoStage
<1>6. W \subseteq (1..NB(src)) \X (1..3)
  <2>1. cur \in 1..NB(src)
    BY <1>1, <1>2
  <2>2. DOMAIN Ran.reads \subseteq 1..3
    BY <1>2, RanReads DEF StatementOK
  <2> QED BY <2>1, <2>2
<1> HIDE DEF W
<1>7. wrong' \subseteq (1..NB(src)) \X (1..3)
  BY <1>1, <1>6 DEF IInv
<1>8. src' = src /\ count' = count
  BY <1>1
<1>9. pc' \in {"args", "tick", "reuse", "clobber", "emit", "done", "crash", "endless"} /\ pc' # "build"
  BY <1>1
<1> QED BY <1>4, <1>5, <1>7, <1>8, <1>9 DEF IInv

\* What is known of the parameter whose turn it is.
ArgTurn(blk, s, par) ==
  /\ Shaped(blk, s) /\ par \in Int /\ par >= 1 /\ par <= NP(blk) /\ Books(blk, s, 1, par, 0)
  /\ \A x \in 1..NP(blk) : s.vals[x].float = blk.params[x].float

\* The parameter waits for its register, and for nothing after its turn.
LEMMA ArgWaits ==
  ASSUME NEW blk, NEW s, NEW par, ArgTurn(blk, s, par)
  PROVE  par \in 1..Len(s.vals) /\ Pending(blk, s, 1, par, par) /\ Fresh(s, par) /\ ~Pending(blk, s, 1, par + 1, par)
<1>1. /\ NB(blk) \in Nat /\ NP(blk) \in Nat /\ Len(s.vals) \in Nat /\ NP(blk) + NB(blk) <= Len(s.vals)
      /\ par \in Int /\ par >= 1 /\ par <= NP(blk)
  BY Basics DEF ArgTurn
<1>2. par \in 1..Len(s.vals)
  BY <1>1
<1>3. Pending(blk, s, 1, par, par)
  BY <1>1 DEF Pending
<1>4. Fresh(s, par)
  BY <1>2, <1>3 DEF ArgTurn, Books, Tracked
<1>5. ~PendingOut(s, 1, par)
  <2>1. ASSUME NEW x \in 1..Len(s.block), s.stmts[s.block[x]].out = par PROVE FALSE
    <3>1. s.block[x] \in 1..Len(s.stmts)
      BY BlockIs DEF ArgTurn
    <3>2. par # NoValue
      BY <1>1 DEF NoValue
    <3>3. s.stmts[s.block[x]].out > NP(blk)
      BY <2>1, <3>1, <3>2 DEF ArgTurn, Books, Listed, OutsDistinct
    <3> QED BY <1>1, <2>1, <3>3
  <2> QED BY <2>1 DEF PendingOut
<1>6. ~(par >= par + 1)
  BY <1>1
<1> QED BY <1>2, <1>3, <1>4, <1>5, <1>6 DEF Pending

\* A parameter that is not used gets no register.
LEMMA ArgSkips ==
  ASSUME NEW blk, NEW s, NEW par, ArgTurn(blk, s, par)
  PROVE  Books(blk, s, 1, par + 1, 0)
<1>1. Shaped(blk, s) /\ par \in Int /\ Books(blk, s, 1, par, 0)
  BY DEF ArgTurn
<1>2. Steady(s, s) /\ PendingSame(blk, s, s, 1, par + 1) /\ UsedSame(s, s)
  BY DEF Steady, PendingSame, UsedSame
<1>3. HeldLive(blk, s, 1, par, s, 1, par + 1)
  <2>1. ASSUME NEW r \in Reg, s.alloced[r] > 0, Pending(blk, s, 1, par + 1, s.alloced[r]) PROVE FALSE
    <3> DEFINE v == s.alloced[r]
    <3>1. v \in 1..Len(s.vals) /\ v \in Int
      BY <1>1, <2>1, HeldIs
    <3> HIDE DEF v
    <3>2. v >= par + 1 => v >= par
      BY <1>1, <3>1
    <3>3. Pending(blk, s, 1, par, v)
      BY <2>1, <3>2 DEF Pending, v
    <3>4. Fresh(s, v)
      BY <1>1, <3>1, <3>3 DEF Books, Tracked
    <3> QED BY <3>4 DEF Fresh, v
  <2> QED BY <2>1 DEF HeldLive, Live, Allocated
<1>4. par + 1 \in Int /\ par <= par + 1
  BY <1>1
<1> QED BY <1>1, <1>2, <1>3, <1>4, MovedBooks

\* A parameter gets its register.
LEMMA ArgGives ==
  ASSUME NEW blk, NEW s, NEW par, ArgTurn(blk, s, par), NEW r \in Usable(blk.params[par].float)
  PROVE  LET t == Give(s, par, r) IN
         /\ Shaped(blk, t) /\ Books(blk, t, 1, par + 1, 0) /\ t.i = s.i
         /\ \A x \in 1..NP(blk) : t.vals[x].float = blk.params[x].float
<1> DEFINE t == Give(s, par, r)
<1>1. /\ Shaped(blk, s) /\ par \in Int /\ Books(blk, s, 1, par, 0) /\ par \in 1..NP(blk)
      /\ NP(blk) \in Nat /\ NB(blk) \in Nat /\ NP(blk) + NB(blk) <= Len(s.vals) /\ Len(s.vals) \in Nat
  BY Basics DEF ArgTurn
<1>2. r \in Usable(s.vals[par].float)
  BY <1>1 DEF ArgTurn
<1>3. /\ par \in 1..Len(s.vals) /\ ~Allocated(s, par) /\ s.vals[par].spilled = None
      /\ Live(blk, s, 1, par, par) /\ ~Pending(blk, s, 1, par + 1, par)
  BY ArgWaits DEF Fresh, Allocated, Live
<1>4. par + 1 \in Int /\ par <= par + 1
  BY <1>1
<1>5. Shaped(blk, t) /\ Given(s, t, par, r)
  BY <1>1, <1>2, <1>3, GiveShaped
<1>6. Books(blk, t, 1, par + 1, 0)
  BY <1>1, <1>2, <1>3, <1>4, GiveBooks
<1>7. \A x \in 1..NP(blk) : x \in 1..Len(s.vals)
  BY <1>1
<1> HIDE DEF t
<1>8. t.i = s.i /\ \A x \in 1..NP(blk) : t.vals[x].float = blk.params[x].float
  BY <1>5, <1>7 DEF Given, ArgTurn
<1> QED BY <1>5, <1>6, <1>8 DEF t

\* The counter is borrowed.
LEMMA ArgIs ==
  ASSUME IInv, pc = "args", a.i <= NP(src)
  PROVE  ArgTurn(src, AtStart(a), a.i) /\ AtStart(a).i = 1 /\ Shaped(src, a) /\ a.i \in 1..NP(src) /\ NP(src) \in Nat
<1>1. Shaped(src, a) /\ Books(src, AtStart(a), 1, a.i, 0) /\ \A x \in 1..NP(src) : a.vals[x].float = src.params[x].float
  BY DEF IInv, Stage
<1>2. Shaped(src, AtStart(a)) /\ AtStart(a).i = 1 /\ AtStart(a).vals = a.vals
  BY <1>1, CounterShaped DEF AtStart
<1>3. a.i \in Nat /\ a.i >= 1 /\ NP(src) \in Nat
  BY <1>1, Basics
<1> QED BY <1>1, <1>2, <1>3 DEF ArgTurn

\* The next parameter.
LEMMA ArgTurns ==
  ASSUME IInv, pc = "args", a.i <= NP(src), UNCHANGED <<count, src, pc, wrong>>,
         NEW t, Shaped(src, t), Books(src, t, 1, a.i + 1, 0), t = AtStart(t),
         \A x \in 1..NP(src) : t.vals[x].float = src.params[x].float, a' = [t EXCEPT !.i = a.i + 1]
  PROVE  IInv'
<1>1. a.i + 1 \in Nat \ {0}
  BY ArgIs
<1>2. /\ Shaped(src, a') /\ a'.i = a.i + 1 /\ a'.vals = t.vals
  BY <1>1, CounterShaped
<1>3. AtStart(a') = t
  <2>1. DOMAIN t = Fields
    BY DEF Shaped
  <2>2. AtStart(a') = AtStart(t)
    BY <2>1 DEF AtStart, Fields
  <2> QED BY <2>2
<1>4. Stage(src, a', pc')
  BY <1>2, <1>3 DEF Stage
<1>5. pc' = "args"
  OBVIOUS
<1> QED BY <1>2, <1>4, <1>5, Keep

\* A parameter is given a register, whatever its place in the code.
LEMMA GiveArg ==
  ASSUME IInv, pc = "args", a.i <= NP(src), UNCHANGED <<count, src, pc, wrong>>,
         NEW r \in Usable(src.params[a.i].float), a' = [Give(a, a.i, r) EXCEPT !.i = a.i + 1]
  PROVE  IInv'
<1> DEFINE s == AtStart(a)
           t == Give(s, a.i, r)
<1>1. ArgTurn(src, s, a.i) /\ s.i = 1 /\ Shaped(src, a)
  BY ArgIs
<1>2. a' = [t EXCEPT !.i = a.i + 1]
  <2>1. DOMAIN a = Fields
    BY <1>1 DEF Shaped
  <2> QED BY <2>1 DEF AtStart, Give, Fields
<1> HIDE DEF s
<1>3. /\ Shaped(src, t) /\ Books(src, t, 1, a.i + 1, 0)
      /\ \A x \in 1..NP(src) : t.vals[x].float = src.params[x].float
  BY <1>1, ArgGives
<1>4. t = AtStart(t)
  <2>1. s = [s EXCEPT !.i = 1]
    BY DEF s, AtStart
  <2>2. DOMAIN s = Fields
    BY <1>1 DEF ArgTurn, Shaped
  <2> QED BY <1>1, <2>1, <2>2 DEF AtStart, Give, Fields
<1> HIDE DEF t
<1> QED BY <1>2, <1>3, <1>4, ArgTurns

\* There are no more parameters before a place than its number.
LEMMA UsedCount ==
  ASSUME NEW n \in Nat, n >= 1, NEW U, U \subseteq 1..(n - 1)
  PROVE  Cardinality(U) \in Nat /\ Cardinality(U) + 1 <= n
<1>1. IsFiniteSet(1..(n - 1)) /\ Cardinality(1..(n - 1)) = n - 1
  <2>1. IsFiniteSet(1..(n - 1)) /\ Cardinality(1..(n - 1)) = IF 1 > n - 1 THEN 0 ELSE (n - 1) - 1 + 1
    BY FS_Interval
  <2> HIDE DEF Cardinality
  <2> QED BY <2>1
<1>2. IsFiniteSet(U) /\ Cardinality(U) <= Cardinality(1..(n - 1))
  BY <1>1, FS_Subset
<1>3. Cardinality(U) \in Nat
  BY <1>2, FS_CardinalityType
<1> QED BY <1>1, <1>2, <1>3

\* A parameter of a shape.
LEMMA ParamIs ==
  ASSUME IsShape(src), NEW par \in 1..NP(src)
  PROVE  src.params[par].float \in BOOLEAN /\ src.params[par].wants \in Seq(Usable(src.params[par].float))
<1> DEFINE P == [float : BOOLEAN, wants : Seq(Usable(TRUE) \cup Usable(FALSE))]
<1>1. src.params \in Seq(P) /\ par \in 1..Len(src.params)
  BY DEF IsShape, NP
<1>2. src.params[par].wants \in Seq(Usable(src.params[par].float))
  BY <1>1 DEF IsShape
<1>3. src.params[par] \in P
  <2> HIDE DEF P
  <2> QED BY <1>1, SeqHas
<1> QED BY <1>2, <1>3

\* The register of the ABI for a parameter of the function.
LEMMA FuncArgReg ==
  ASSUME IsShape(src), src.entry, NEW par \in 1..NP(src), NP(src) \in Nat, NEW U, U \subseteq 1..(par - 1)
  PROVE  (IF src.params[par].float THEN FloatArgRegs ELSE ArgRegs)[Cardinality(U) + 1] \in Usable(src.params[par].float)
<1> DEFINE c == Cardinality(U) + 1
<1>1. c \in Nat /\ c >= 1 /\ c <= par
  <2>1. par \in Nat /\ par >= 1
    OBVIOUS
  <2>2. Cardinality(U) \in Nat /\ Cardinality(U) + 1 <= par
    BY <2>1, UsedCount
  <2> QED BY <2>2
<1>2. NP(src) <= Len(ArgRegs) /\ NP(src) <= Len(FloatArgRegs)
  BY DEF IsShape, NP
<1>3. ArgRegs \in Seq(Usable(FALSE)) /\ FloatArgRegs \in Seq(Usable(TRUE))
  BY AbiAssumption
<1> HIDE DEF c
<1>4. Len(ArgRegs) \in Nat /\ Len(FloatArgRegs) \in Nat
  BY <1>3
<1>5. c \in 1..Len(ArgRegs) /\ c \in 1..Len(FloatArgRegs)
  BY <1>1, <1>2, <1>4
<1>6. ArgRegs[c] \in Usable(FALSE) /\ FloatArgRegs[c] \in Usable(TRUE)
  BY <1>3, <1>5, SeqHas
<1>7. src.params[par].float \in BOOLEAN
  BY ParamIs
<1> QED BY <1>6, <1>7 DEF c

\* A parameter of the function.
LEMMA FuncArgKeeps ==
  ASSUME IInv, regalloc_func_arg
  PROVE  IInv'
<1> DEFINE U == {p \in 1..(a.i - 1) : a.vals[p].edges # <<>>}
           r == (IF src.params[a.i].float THEN FloatArgRegs ELSE ArgRegs)[Cardinality(U) + 1]
           s == AtStart(a)
<1>1. /\ pc = "args" /\ src.entry /\ a.i <= NP(src) /\ UNCHANGED <<count, src, pc, wrong>>
      /\ a' \in {[a EXCEPT !.i = a.i + 1], [Give(a, a.i, r) EXCEPT !.i = Give(a, a.i, r).i + 1]}
  BY DEF regalloc_func_arg, NParams, NP
<1>2. ArgTurn(src, s, a.i) /\ s.i = 1 /\ Shaped(src, a) /\ a.i \in 1..NP(src) /\ NP(src) \in Nat
  BY <1>1, ArgIs
<1>3. CASE a' = [a EXCEPT !.i = a.i + 1]
  <2>1. Books(src, s, 1, a.i + 1, 0)
    BY <1>2, ArgSkips
  <2>2. a' = [s EXCEPT !.i = a.i + 1]
    BY <1>3 DEF s, AtStart
  <2>3. s = AtStart(s)
    BY DEF s, AtStart
  <2> HIDE DEF s
  <2>4. Shaped(src, s) /\ \A x \in 1..NP(src) : s.vals[x].float = src.params[x].float
    BY <1>2 DEF ArgTurn
  <2> QED BY <1>1, <2>1, <2>2, <2>3, <2>4, ArgTurns
<1>4. CASE a' = [Give(a, a.i, r) EXCEPT !.i = Give(a, a.i, r).i + 1]
  <2>1. r \in Usable(src.params[a.i].float)
    <3>1. IsShape(src)
      BY DEF IInv, SourceOK
    <3>2. U \subseteq 1..(a.i - 1)
      OBVIOUS
    <3> HIDE DEF U
    <3> QED BY <1>1, <1>2, <3>1, <3>2, FuncArgReg
  <2> HIDE DEF r
  <2>2. Give(a, a.i, r).i = a.i
    <3>1. DOMAIN a = Fields
      BY <1>2 DEF Shaped
    <3> QED BY <3>1 DEF Give, Fields
  <2>3. a' = [Give(a, a.i, r) EXCEPT !.i = a.i + 1]
    BY <1>4, <2>2
  <2> QED BY <1>1, <2>1, <2>3, GiveArg
<1> HIDE DEF r
<1> QED BY <1>1, <1>3, <1>4

\* A parameter of a block.
LEMMA BlockArgKeeps ==
  ASSUME IInv, regalloc_block_arg
  PROVE  IInv'
<1> DEFINE wants == src.params[a.i].wants
           good == {j \in 1..Len(wants) : a.alloced[wants[j]] = None}
           r == IF good # {} THEN wants[Minimum(good)] ELSE first_empty(a.alloced, src.params[a.i].float, Reg)
<1>1. /\ pc = "args" /\ a.i <= NP(src) /\ UNCHANGED <<count, src, wrong>>
      /\ \/ pc' = "crash" /\ a' = a
         \/ r # None /\ a' = [Give(a, a.i, r) EXCEPT !.i = Give(a, a.i, r).i + 1] /\ pc' = pc
  BY Zenon DEF regalloc_block_arg, NParams, NP
<1>2. Shaped(src, a) /\ a.i \in 1..NP(src) /\ NP(src) \in Nat
  BY Zenon, <1>1, ArgIs
<1>3. CASE pc' = "crash" /\ a' = a
  <2>1. Shaped(src, a') /\ Stage(src, a', pc')
    BY <1>2, <1>3, NoStage
  <2> QED BY <1>1, <1>3, <2>1, Keep
<1>4. CASE r # None /\ a' = [Give(a, a.i, r) EXCEPT !.i = Give(a, a.i, r).i + 1] /\ pc' = pc
  <2>1. wants \in Seq(Usable(src.params[a.i].float)) /\ src.params[a.i].float \in BOOLEAN
    BY <1>2, ParamIs DEF IInv, SourceOK
  <2>2. r \in Usable(src.params[a.i].float)
    <3>1. CASE good # {}
      <4>1. Len(wants) \in Nat /\ good \subseteq 1..Len(wants) /\ good \subseteq Nat
        BY <2>1
      <4>2. r = wants[Minimum(good)]
        BY <3>1
      <4> HIDE DEF wants, good, r
      <4>3. Minimum(good) \in 1..Len(wants)
        BY <3>1, <4>1, MinimumIs
      <4> QED BY <2>1, <4>2, <4>3
    <3>2. CASE good = {}
      <4> DEFINE float == src.params[a.i].float
      <4>1. r = first_empty(a.alloced, float, Reg)
        BY <3>2
      <4> HIDE DEF r, wants, good
      <4> QED BY <1>2, <1>4, <2>1, <4>1, CountIs, FirstEmptyIs
    <3> QED BY <3>1, <3>2
  <2> HIDE DEF r
  <2>3. Give(a, a.i, r).i = a.i
    <3>1. DOMAIN a = Fields
      BY <1>2 DEF Shaped
    <3> QED BY <3>1 DEF Give, Fields
  <2>4. a' = [Give(a, a.i, r) EXCEPT !.i = a.i + 1]
    BY <1>4, <2>3
  <2> QED BY <1>1, <1>4, <2>2, <2>4, GiveArg
<1> HIDE DEF r
<1> QED BY <1>1, <1>3, <1>4

-----------------------------------------------------------------------------
(* The edges of the values of a block, before the allocator starts *)

\* The recursion of EdgesOut over the first n statements.
Edging(v, n, f) ==
  f = [k \in 0..n |-> IF k = 0 THEN <<>> ELSE f[k - 1] \o [j \in 1..Uses(v, Body[k]) |-> k]]

\* What it has after k statements: the uses by each of them, in their order.
EdgesUpto(e, v, k) ==
  e \in Seq(1..k) /\ Sorted(e) /\ \A l \in 1..k : HasUses(e, l, Uses(v, Body[l]))

\* There is a function with the recursion.
LEMMA EdgingExists ==
  ASSUME NEW v, NEW n \in Nat
  PROVE  \E f : Edging(v, n, f)
<1> DEFINE D == {m \in 0..n : ~\E f : Edging(v, m, f)}
<1>1. 0 \notin D
  <2> DEFINE f == [k \in 0..0 |-> <<>>]
  <2>1. \A k \in 0..0 : k = 0
    OBVIOUS
  <2>2. Edging(v, 0, f)
    BY <2>1 DEF Edging
  <2> QED BY <2>2
<1>2. ASSUME NEW m \in 0..n, m # 0, NEW g, Edging(v, m - 1, g) PROVE \E f : Edging(v, m, f)
  <2> DEFINE last == g[m - 1] \o [j \in 1..Uses(v, Body[m]) |-> m]
             f == [k \in 0..m |-> IF k = m THEN last ELSE g[k]]
             Step(h, k) == IF k = 0 THEN <<>> ELSE h[k - 1] \o [j \in 1..Uses(v, Body[k]) |-> k]
  <2>1. ASSUME NEW k \in 0..m PROVE f[k] = Step(f, k)
    <3>1. CASE k = m
      <4>1. m - 1 \in 0..m /\ m - 1 # m
        BY <1>2
      <4>2. f[m - 1] = g[m - 1] /\ f[k] = last
        BY <3>1, <4>1
      <4> HIDE DEF f
      <4> QED BY <1>2, <3>1, <4>2
    <3>2. CASE k # m /\ k # 0
      <4>1. k \in 0..(m - 1) /\ k - 1 \in 0..(m - 1) /\ k - 1 # m /\ k - 1 \in 0..m
        BY <3>2
      <4>2. f[k] = g[k] /\ f[k - 1] = g[k - 1]
        BY <3>2, <4>1
      <4>3. g[k] = g[k - 1] \o [j \in 1..Uses(v, Body[k]) |-> k]
        BY <1>2, <3>2, <4>1 DEF Edging
      <4> HIDE DEF f
      <4> QED BY <3>2, <4>2, <4>3
    <3>3. CASE k # m /\ k = 0
      <4>1. k \in 0..(m - 1)
        BY <3>3
      <4>2. f[k] = g[k]
        BY <3>3
      <4>3. g[k] = <<>>
        BY <1>2, <3>3, <4>1 DEF Edging
      <4> HIDE DEF f
      <4> QED BY <3>3, <4>2, <4>3
    <3> QED BY <3>1, <3>2, <3>3
  <2>2. f = [k \in 0..m |-> f[k]]
    OBVIOUS
  <2> HIDE DEF f
  <2>3. Edging(v, m, f)
    BY <2>1, <2>2 DEF Edging
  <2> QED BY <2>3
<1>3. D = {}
  <2> SUFFICES ASSUME D # {} PROVE FALSE
    OBVIOUS
  <2>1. D \subseteq Nat
    OBVIOUS
  <2>2. PICK m \in D : \A y \in D : m <= y
    <3> HIDE DEF D
    <3> QED BY <2>1, LeastIs
  <2>3. m \in 0..n /\ ~\E f : Edging(v, m, f)
    OBVIOUS
  <2>4. m # 0
    BY <1>1
  <2>5. m - 1 \in 0..n /\ ~(m <= m - 1)
    BY <2>3, <2>4
  <2>6. \E f : Edging(v, m - 1, f)
    BY <2>2, <2>5
  <2> QED BY <1>2, <2>3, <2>4, <2>6
<1> QED BY <1>3

\* The uses by the next statement come last.
LEMMA EdgesNext ==
  ASSUME NEW v, NEW k \in Nat, k >= 1, NEW e, EdgesUpto(e, v, k - 1), \A l \in 1..k : Uses(v, Body[l]) \in Nat
  PROVE  EdgesUpto(e \o [j \in 1..Uses(v, Body[k]) |-> k], v, k)
<1> DEFINE c == Uses(v, Body[k])
           w == [j \in 1..c |-> k]
           t == e \o w
           L == Len(e)
<1>1. e \in Seq(1..(k - 1)) /\ Sorted(e) /\ c \in Nat
  BY DEF EdgesUpto
<1>2. L \in Nat /\ DOMAIN e = 1..L /\ \A x \in 1..L : e[x] \in 1..(k - 1)
  BY <1>1, SeqHas
<1>3. w \in Seq(1..k) /\ Len(w) = c /\ \A y \in 1..c : w[y] = k
  BY <1>1
<1>4. e \in Seq(1..k)
  <2>1. 1..(k - 1) \subseteq 1..k
    OBVIOUS
  <2> QED BY <1>1, <2>1, SeqWider
<1> HIDE DEF w, c
<1>5. t \in Seq(1..k) /\ Len(t) = L + c /\ (\A x \in 1..L : t[x] = e[x]) /\ \A y \in 1..c : t[L + y] = w[y]
  <2> DEFINE S == 1..k
  <2>1. e \in Seq(S) /\ w \in Seq(S)
    BY <1>3, <1>4
  <2> HIDE DEF S
  <2>2. /\ t \in Seq(S) /\ Len(t) = Len(e) + Len(w)
        /\ (\A x \in 1..Len(e) : t[x] = e[x]) /\ \A y \in 1..Len(w) : t[Len(e) + y] = w[y]
    BY <2>1, ConcatIs
  <2> HIDE DEF t
  <2> QED BY <1>3, <2>2 DEF S
<1> HIDE DEF t
<1>6. \A x \in 1..Len(t) : x > L => t[x] = k
  <2>1. ASSUME NEW x \in 1..Len(t), x > L PROVE t[x] = k
    <3>1. x - L \in 1..c /\ L + (x - L) = x
      BY <1>1, <1>2, <1>5, <2>1
    <3> QED BY <1>3, <1>5, <3>1
  <2> QED BY <2>1
<1> HIDE DEF L
<1>7. \A x \in 1..L : t[x] = e[x] /\ t[x] \in Int /\ t[x] >= 1 /\ t[x] < k
  BY SMTT(30), <1>2, <1>5
<1>8. Len(t) \in Nat /\ \A x \in 1..Len(t) : x \in 1..L \/ (x > L /\ t[x] = k)
  BY <1>1, <1>2, <1>5, <1>6
<1>9. Sorted(t)
  <2>1. ASSUME NEW x \in 1..Len(t), NEW y \in 1..Len(t), x < y PROVE t[x] <= t[y]
    <3>1. CASE y \in 1..L
      <4>1. x \in 1..L
        BY <1>2, <2>1, <3>1
      <4>2. e[x] <= e[y]
        BY <1>1, <2>1, <3>1, <4>1 DEF Sorted, L
      <4> QED BY <1>7, <3>1, <4>1, <4>2
    <3>2. CASE y > L /\ t[y] = k
      BY <1>7, <1>8, <3>2
    <3> QED BY <1>8, <3>1, <3>2
  <2> QED BY <2>1 DEF Sorted
<1>10. ASSUME NEW l \in 1..k PROVE HasUses(t, l, Uses(v, Body[l]))
  <2>1. CASE l = k
    <3>1. \A x \in 1..Len(t) : t[x] = k <=> (L < x /\ x <= L + c)
      BY SMTT(30), <1>1, <1>2, <1>5, <1>7, <1>8
    <3>2. UsesAt(t, k, c, L)
      BY <1>1, <1>2, <1>5, <3>1 DEF UsesAt
    <3>3. L \in 0..Len(t)
      BY <1>1, <1>2, <1>5
    <3> QED BY <2>1, <3>2, <3>3 DEF HasUses, c
  <2>2. CASE l # k
    <3> DEFINE m == Uses(v, Body[l])
    <3>1. l \in 1..(k - 1)
      BY <2>2
    <3>2. PICK p \in 0..L : UsesAt(e, l, m, p)
      BY <3>1 DEF EdgesUpto, HasUses, L
    <3>3. m \in Nat /\ p \in Nat /\ p + m <= L /\ \A x \in 1..L : e[x] = l <=> (p < x /\ x <= p + m)
      BY <1>2, <3>2 DEF UsesAt, L
    <3> HIDE DEF m
    <3>4. ASSUME NEW x \in 1..Len(t) PROVE t[x] = l <=> (p < x /\ x <= p + m)
      <4>1. CASE x \in 1..L
        BY <1>7, <3>3, <4>1
      <4>2. CASE x > L /\ t[x] = k
        <5>1. ~(x <= p + m)
          BY <1>2, <3>3, <4>2
        <5> QED BY <2>2, <4>2, <5>1
      <4> QED BY <1>8, <4>1, <4>2
    <3>5. p + m <= Len(t) /\ p \in 0..Len(t)
      BY <1>1, <1>2, <1>5, <3>3
    <3>6. UsesAt(t, l, m, p)
      BY <3>4, <3>5 DEF UsesAt
    <3> QED BY <3>5, <3>6 DEF HasUses, m
  <2> QED BY <2>1, <2>2
<1> QED BY <1>5, <1>9, <1>10 DEF EdgesUpto, t, w, c

\* edges_out has the uses of a value in the order of the statements, as often as each has it.
LEMMA EdgesOutIs ==
  ASSUME NEW v, NB(src) \in Nat, \A l \in 1..NB(src) : Uses(v, Body[l]) \in Nat
  PROVE  EdgesUpto(EdgesOut(v), v, NB(src))
<1> DEFINE n == NB(src)
           f == CHOOSE h : Edging(v, n, h)
           D == {k \in 0..n : ~EdgesUpto(f[k], v, k)}
<1>1. EdgesOut(v) = f[n]
  BY DEF EdgesOut, Edging, NB, Body
<1>2. Edging(v, n, f)
  BY EdgingExists
<1> HIDE DEF f
<1>3. n \in Nat
  OBVIOUS
<1> HIDE DEF n
<1>4. ASSUME NEW k \in 0..n, k # 0, EdgesUpto(f[k - 1], v, k - 1) PROVE EdgesUpto(f[k], v, k)
  <2>1. f[k] = f[k - 1] \o [j \in 1..Uses(v, Body[k]) |-> k]
    BY <1>2, <1>4 DEF Edging
  <2>2. k \in Nat /\ k >= 1
    BY <1>3, <1>4
  <2>3. \A l \in 1..k : Uses(v, Body[l]) \in Nat
    BY <1>3, <2>2 DEF n
  <2> QED BY <1>4, <2>1, <2>2, <2>3, EdgesNext
<1>5. EdgesUpto(f[0], v, 0)
  <2>1. 0 \in 0..n
    BY <1>3
  <2>2. f[0] = <<>>
    BY <1>2, <2>1 DEF Edging
  <2>3. <<>> \in Seq(1..0) /\ Len(<<>>) = 0
    OBVIOUS
  <2>4. Sorted(<<>>)
    BY <2>3 DEF Sorted
  <2> QED BY <2>2, <2>3, <2>4 DEF EdgesUpto
<1>6. D = {}
  <2> SUFFICES ASSUME D # {} PROVE FALSE
    OBVIOUS
  <2>1. D \subseteq Nat
    BY <1>3
  <2>2. PICK k \in D : \A y \in D : k <= y
    <3> HIDE DEF D
    <3> QED BY <2>1, LeastIs
  <2>3. k \in 0..n /\ ~EdgesUpto(f[k], v, k)
    OBVIOUS
  <2>4. k # 0
    BY <1>5, <2>3
  <2>5. k - 1 \in 0..n /\ ~(k <= k - 1)
    BY <1>3, <2>3, <2>4
  <2>6. EdgesUpto(f[k - 1], v, k - 1)
    BY <2>2, <2>5
  <2> QED BY <1>4, <2>3, <2>4, <2>6
<1>7. EdgesUpto(f[n], v, n)
  BY <1>3, <1>6
<1> QED BY <1>1, <1>7 DEF n

-----------------------------------------------------------------------------
(* The start of the allocator *)

\* What is known of a statement of the block.
LEMMA BodyIs ==
  ASSUME SourceOK(src), NEW k \in 1..NB(src), NB(src) \in Nat, NP(src) \in Nat
  PROVE  /\ Body[k].args \in Seq(0..(NP(src) + NB(src))) /\ Len(Body[k].args) \in 1..3
         /\ \A v : Uses(v, Body[k]) \in Nat /\ (Uses(v, Body[k]) = 0 <=> \A j \in 1..Len(Body[k].args) : Body[k].args[j] # v)
         /\ \A j \in 1..Len(Body[k].args) : \A l \in 1..NB(src) : Body[k].args[j] = NP(src) + l => l < k
<1> DEFINE args == Body[k].args
           n == NP(src) + NB(src)
           N == Len(args)
<1>1. /\ args \in Seq(Nat) /\ N \in 1..3
      /\ \A j \in 1..N : args[j] > NP(src) => (args[j] - NP(src)) \in 1..(k - 1)
  BY DEF SourceOK, SourceStatement, Body
<1>2. N \in Nat /\ DOMAIN args = 1..N /\ \A j \in 1..N : args[j] \in Nat
  BY <1>1, SeqHas
<1>3. \A v : Uses(v, Body[k]) \in Nat /\ (Uses(v, Body[k]) = 0 <=> \A j \in 1..N : args[j] # v)
  BY <1>1, UsesNone
<1> HIDE DEF args, N
<1>4. \A j \in 1..N : args[j] \in 0..n
  <2>1. ASSUME NEW j \in 1..N PROVE args[j] \in 0..n
    <3> DEFINE x == args[j]
    <3>1. x \in Nat /\ (x > NP(src) => (x - NP(src)) \in 1..(k - 1))
      BY <1>1, <1>2
    <3> HIDE DEF x
    <3>2. x \in 0..n
      BY <3>1
    <3> QED BY <3>2 DEF x
  <2> QED BY <2>1
<1>5. args \in Seq(0..n)
  <2>1. args = [j \in 1..N |-> args[j]]
    BY <1>1, <1>2
  <2>2. args \in [1..N -> 0..n]
    BY <1>4, <2>1
  <2> QED BY <1>2, <2>2
<1>6. ASSUME NEW j \in 1..N, NEW l \in 1..NB(src), args[j] = NP(src) + l PROVE l < k
  <2>1. args[j] > NP(src) /\ args[j] - NP(src) = l
    BY <1>6
  <2>2. l \in 1..(k - 1)
    BY <1>1, <2>1
  <2> QED BY <2>2
<1> QED BY <1>1, <1>3, <1>5, <1>6 DEF args, N, n

\* The numbers of statements and parameters.
LEMMA Lengths ==
  ASSUME SourceOK(src)
  PROVE  NB(src) \in Nat /\ NP(src) \in Nat /\ NParams = NP(src) /\ Body = src.body /\ Len(Body) = NB(src)
<1>1. Len(src.body) \in Nat
  BY SeqIs DEF SourceOK
<1>2. Len(src.params) \in Nat
  BY DEF SourceOK, IsShape
<1> QED BY <1>1, <1>2 DEF NB, NP, NParams, Body

\* The allocator before its loop, field by field.
LoadedStatement(k) ==
  NewStatement(Body[k].op, Body[k].args, IF HasOutput(Body[k].op) THEN Output(k) ELSE NoValue, 2 * (k - 1), None)
LoadedValue(v) == NewValue(IsFloat(v), EdgesOut(v), None)
IsLoaded(s) ==
  /\ DOMAIN s = Fields /\ s = AtStart(s) /\ s.i = 1 /\ s.slots = 0
  /\ Len(s.block) = NB(src) /\ \A x \in 1..NB(src) : s.block[x] = x
  /\ IsSeq(s.stmts) /\ Len(s.stmts) = NB(src) /\ \A k \in 1..NB(src) : s.stmts[k] = LoadedStatement(k)
  /\ IsSeq(s.vals) /\ Len(s.vals) = NP(src) + NB(src) /\ \A v \in 1..(NP(src) + NB(src)) : s.vals[v] = LoadedValue(v)
  /\ s.block \in Seq(1..NB(src))
  /\ s.alloced = [r \in Reg |-> IF r \in ReservedRegs THEN Reserved ELSE None]

\* It is as do_regalloc_block leaves it.
LEMMA LoadedFields ==
  ASSUME SourceOK(src)
  PROVE  IsLoaded(Loaded)
<1> DEFINE s == Loaded
           n == NB(src)
           m == NP(src) + NB(src)
           block == [k \in 1..n |-> k]
           stmts == [k \in 1..n |-> LoadedStatement(k)]
           vals == [v \in 1..m |-> LoadedValue(v)]
<1>1. n \in Nat /\ m \in Nat /\ NParams = NP(src) /\ Len(Body) = n
  BY Lengths
<1>2. /\ DOMAIN s = Fields /\ s = AtStart(s) /\ s.i = 1 /\ s.slots = 0
      /\ s.alloced = [r \in Reg |-> IF r \in ReservedRegs THEN Reserved ELSE None]
      /\ s.block = block /\ s.stmts = stmts /\ s.vals = vals
  <2> DEFINE alloced == [r \in Reg |-> IF r \in ReservedRegs THEN Reserved ELSE None]
  <2>1. s = [block |-> block, stmts |-> stmts, vals |-> vals, alloced |-> alloced, i |-> 1, slots |-> 0]
    BY <1>1 DEF Loaded, LoadedStatement, LoadedValue, ReservedRegs
  <2> HIDE DEF s, block, stmts, vals, alloced
  <2>2. DOMAIN s = {"block", "stmts", "vals", "alloced", "i", "slots"}
    BY <2>1
  <2>3. s.block = block /\ s.stmts = stmts /\ s.vals = vals /\ s.alloced = alloced /\ s.i = 1 /\ s.slots = 0
    BY <2>1
  <2>4. s = [s EXCEPT !.i = 1]
    BY <2>1
  <2> QED BY <2>2, <2>3, <2>4 DEF Fields, AtStart, alloced
<1> HIDE DEF s, n, m
<1>3. IsSeq(block) /\ Len(block) = n
  BY <1>1, FunctionSeq
<1>4. IsSeq(stmts) /\ Len(stmts) = n
  BY <1>1, FunctionSeq
<1>5. IsSeq(vals) /\ Len(vals) = m
  BY <1>1, FunctionSeq
<1>6. block \in Seq(1..n)
  BY <1>1
<1>7. (\A x \in 1..n : block[x] = x) /\ (\A k \in 1..n : stmts[k] = LoadedStatement(k)) /\ \A v \in 1..m : vals[v] = LoadedValue(v)
  OBVIOUS
<1> HIDE DEF block, stmts, vals
<1> QED BY <1>2, <1>3, <1>4, <1>5, <1>6, <1>7 DEF IsLoaded, s, n, m

\* What its statements are.
LEMMA LoadedStatements ==
  ASSUME SourceOK(src), NEW s, IsLoaded(s), NEW k \in 1..NB(src)
  PROVE  /\ StatementOK(src, s.stmts[k], k, Len(s.vals)) /\ s.stmts[k].num = 2 * (k - 1) /\ s.stmts[k].args = Body[k].args
         /\ s.stmts[k].out = IF HasOutput(Body[k].op) THEN NP(src) + k ELSE NoValue
<1> DEFINE st == s.stmts[k]
           n == Len(s.vals)
           out == IF HasOutput(Body[k].op) THEN NP(src) + k ELSE NoValue
<1>1. NB(src) \in Nat /\ NP(src) \in Nat /\ NParams = NP(src) /\ Body = src.body /\ n = NP(src) + NB(src)
  BY Lengths DEF IsLoaded
<1>2. st = LoadedStatement(k)
  BY DEF IsLoaded
<1>3. Body[k].args \in Seq(0..n) /\ Len(Body[k].args) \in 1..3
  <2>1. Body[k].args \in Seq(0..(NP(src) + NB(src))) /\ Len(Body[k].args) \in 1..3
    BY <1>1, BodyIs
  <2> QED BY <1>1, <2>1
<1> HIDE DEF st, n
<1>4. /\ DOMAIN st = StatementFields /\ st.args = Body[k].args /\ st.num = 2 * (k - 1) /\ st.op = Body[k].op
      /\ st.out = out
  BY <1>1, <1>2 DEF LoadedStatement, NewStatement, StatementFields, Output
<1>5. out \in 0..n
  BY <1>1 DEF NoValue
<1>6. k <= NB(src) /\ 2 * (k - 1) \in Int
  BY <1>1
<1>7. st.op = src.body[k].op /\ st.out = IF HasOutput(src.body[k].op) THEN NP(src) + k ELSE NoValue
  BY <1>1, <1>4
<1>8. ~(k > NB(src))
  BY <1>1
<1> HIDE DEF out
<1>9. st.args \in Seq(0..n) /\ Len(st.args) \in 1..3 /\ st.out \in 0..n /\ st.num \in Int
  BY <1>3, <1>4, <1>5, <1>6
<1>10. StatementOK(src, st, k, n)
  BY <1>4, <1>7, <1>8, <1>9 DEF StatementOK
<1> QED BY <1>4, <1>10 DEF st, n, out

\* What its values are.
LEMMA LoadedValues ==
  ASSUME SourceOK(src), NEW s, IsLoaded(s), NEW v \in 1..Len(s.vals)
  PROVE  /\ ValueOK(src, s.vals[v]) /\ s.vals[v].used = 0 /\ s.vals[v].reg = None /\ s.vals[v].spilled = None
         /\ EdgesUpto(s.vals[v].edges, v, NB(src))
         /\ v <= NP(src) => s.vals[v].float = src.params[v].float
<1> DEFINE w == s.vals[v]
<1>1. NB(src) \in Nat /\ NP(src) \in Nat /\ NParams = NP(src)
  BY Lengths
<1>2. w = LoadedValue(v)
  BY DEF IsLoaded
<1> HIDE DEF w
<1>3. /\ DOMAIN w = ValueFields /\ w.float = IsFloat(v) /\ w.edges = EdgesOut(v) /\ w.used = 0 /\ w.reg = None /\ w.spilled = None
  BY <1>2 DEF LoadedValue, NewValue, ValueFields
<1>4. EdgesUpto(w.edges, v, NB(src))
  <2>1. \A l \in 1..NB(src) : Uses(v, Body[l]) \in Nat
    BY <1>1, BodyIs
  <2> QED BY <1>1, <1>3, <2>1, EdgesOutIs
<1>5. IsFloat(v) \in BOOLEAN /\ (v <= NP(src) => IsFloat(v) = src.params[v].float)
  <2>1. CASE v <= NP(src)
    <3>1. IsFloat(v) = src.params[v].float
      BY <1>1, <2>1 DEF IsFloat
    <3>2. v \in 1..NP(src)
      <4>1. Len(s.vals) \in Nat
        BY <1>1 DEF IsLoaded
      <4> QED BY <1>1, <2>1, <4>1
    <3>3. IsShape(src)
      BY DEF SourceOK
    <3> QED BY <3>1, <3>2, <3>3, ParamIs
  <2>2. CASE ~(v <= NP(src))
    BY <1>1, <2>2 DEF IsFloat, FloatOutput
  <2> QED BY <2>1, <2>2
<1>6. w.edges \in Seq(1..NB(src))
  BY <1>4 DEF EdgesUpto
<1>7. ValueOK(src, w)
  BY <1>3, <1>5, <1>6 DEF ValueOK
<1> QED BY <1>3, <1>4, <1>5, <1>7 DEF w

\* It is well formed.
LEMMA LoadedShaped ==
  ASSUME SourceOK(src), NEW s, IsLoaded(s)
  PROVE  Shaped(src, s)
<1>1. NB(src) \in Nat /\ NP(src) \in Nat
  BY Lengths
<1>2. StatementsOK(src, s)
  <2>1. IsSeq(s.stmts) /\ Len(s.stmts) = NB(src)
    BY DEF IsLoaded
  <2>2. \A k \in 1..NB(src) : StatementOK(src, s.stmts[k], k, Len(s.vals))
    BY LoadedStatements
  <2> QED BY <1>1, <2>1, <2>2 DEF StatementsOK
<1>3. ValuesOK(src, s)
  <2>1. IsSeq(s.vals) /\ Len(s.vals) >= NP(src) + NB(src)
    BY <1>1 DEF IsLoaded
  <2>2. \A v \in 1..Len(s.vals) : ValueOK(src, s.vals[v])
    BY LoadedValues
  <2> QED BY <2>1, <2>2 DEF ValuesOK
<1>4. RegistersOK(s) /\ Agree(s)
  <2>1. ReservedRegs \subseteq Reg
    BY DEF ReservedRegs, RSP, RBP, R11, XMM5, Reg
  <2>2. \A r \in Reg : s.alloced[r] \in {None, Reserved}
    BY DEF IsLoaded
  <2>3. \A r \in Reg : ~(s.alloced[r] > 0)
    BY <2>2 DEF None, Reserved
  <2>4. s.alloced \in [Reg -> {None, Reserved} \cup 1..Len(s.vals)] /\ \A r \in ReservedRegs : s.alloced[r] = Reserved
    BY <2>1 DEF IsLoaded
  <2> QED BY <2>3, <2>4 DEF RegistersOK, Agree
<1>5. DOMAIN s = Fields /\ s.block \in Seq(1..Len(s.stmts)) /\ s.i \in Nat \ {0} /\ s.slots \in Nat
  BY DEF IsLoaded
<1> QED BY <1>1, <1>2, <1>3, <1>4, <1>5 DEF Shaped

\* Its list is the source block.
LEMMA LoadedListed ==
  ASSUME SourceOK(src), NEW s, IsLoaded(s)
  PROVE  Listed(src, s)
<1>1. NB(src) \in Nat /\ NP(src) \in Nat /\ Len(s.block) = NB(src) /\ Len(s.stmts) = NB(src) /\ \A x \in 1..NB(src) : s.block[x] = x
  BY Lengths DEF IsLoaded
<1>2. \A k \in 1..NB(src) : s.stmts[k].num = 2 * (k - 1) /\ s.stmts[k].out \in {NP(src) + k, NoValue}
  BY LoadedStatements
<1>3. InOrder(src, s)
  <2>1. ASSUME NEW x \in 1..NB(src), NEW y \in 1..NB(src), x < y PROVE Above(src, s, x, y)
    <3>1. s.stmts[x].num = 2 * (x - 1) /\ s.stmts[y].num = 2 * (y - 1)
      BY <1>2
    <3>2. 2 * (x - 1) < 2 * (y - 1) /\ 2 * (x - 1) <= 2 * (y - 1) /\ x # y
      BY <2>1
    <3> QED BY <3>1, <3>2 DEF Above
  <2> QED BY <1>1, <2>1 DEF InOrder
<1>4. AllThere(src, s)
  BY <1>1 DEF AllThere
<1>5. Ahead(src, s)
  BY <1>1 DEF Ahead, Numbered
<1>6. OutsDistinct(src, s)
  <2>1. ASSUME NEW k \in 1..NB(src), s.stmts[k].out # NoValue
        PROVE  s.stmts[k].out > NP(src) /\ \A l \in 1..NB(src) : s.stmts[l].out = s.stmts[k].out => l = k
    <3>1. s.stmts[k].out = NP(src) + k
      BY <1>2, <2>1
    <3>2. \A l \in 1..NB(src) : s.stmts[l].out \in {NP(src) + l, 0}
      BY <1>2 DEF NoValue
    <3>3. NP(src) + k > NP(src) /\ \A l \in 1..NB(src) : NP(src) + l = NP(src) + k => l = k
      BY <1>1
    <3>4. NP(src) + k # 0
      BY <1>1
    <3> QED BY <3>1, <3>2, <3>3, <3>4
  <2> QED BY <1>1, <2>1 DEF OutsDistinct
<1> QED BY <1>3, <1>4, <1>5, <1>6 DEF Listed

\* Each value is used behind the statement that defines it.
LEMMA LoadedLater ==
  ASSUME SourceOK(src), NEW s, IsLoaded(s)
  PROVE  UsedLater(s, 1)
<1>1. NB(src) \in Nat /\ NP(src) \in Nat /\ Len(s.block) = NB(src) /\ Len(s.vals) = NP(src) + NB(src)
      /\ \A x \in 1..NB(src) : s.block[x] = x
  BY Lengths DEF IsLoaded
<1>2. ASSUME NEW k \in 1..NB(src), s.stmts[k].out # NoValue PROVE UsedAfter(s, s.stmts[k].out, s.stmts[k].num)
  <2> DEFINE v == NP(src) + k
             e == s.vals[v].edges
  <2>1. s.stmts[k].out = v /\ s.stmts[k].num = 2 * (k - 1)
    BY <1>2, LoadedStatements
  <2>2. v \in 1..Len(s.vals)
    BY <1>1
  <2>3. EdgesUpto(e, v, NB(src))
    BY <2>2, LoadedValues
  <2> HIDE DEF e
  <2>4. e \in Seq(1..NB(src)) /\ \A x \in 1..Len(e) : e[x] \in 1..NB(src)
    BY <2>3, SeqHas DEF EdgesUpto
  <2>5. ASSUME NEW x \in 1..Len(e) PROVE s.stmts[e[x]].num > 2 * (k - 1)
    <3> DEFINE l == e[x]
               m == Uses(v, Body[l])
    <3>1. l \in 1..NB(src)
      BY <2>4
    <3>2. PICK p \in 0..Len(e) : UsesAt(e, l, m, p)
      BY <2>3, <3>1 DEF EdgesUpto, HasUses
    <3>3. m \in Nat /\ (m = 0 <=> \A j \in 1..Len(Body[l].args) : Body[l].args[j] # v)
      BY <1>1, <3>1, BodyIs
    <3>4. \A j \in 1..Len(Body[l].args) : Body[l].args[j] = v => k < l
      BY <1>1, <3>1, BodyIs
    <3>5. m # 0
      <4>1. Len(e) \in Nat
        BY <2>4, SeqHas
      <4>2. p < x /\ x <= p + m
        BY <3>2 DEF UsesAt
      <4> HIDE DEF m
      <4> QED BY <3>3, <4>1, <4>2
    <3>6. k < l
      BY <3>3, <3>4, <3>5
    <3>7. s.stmts[l].num = 2 * (l - 1)
      BY <3>1, LoadedStatements
    <3> HIDE DEF l, m
    <3>8. s.stmts[l].num > 2 * (k - 1)
      BY <1>1, <3>1, <3>6, <3>7
    <3> QED BY <3>8 DEF l
  <2> HIDE DEF v
  <2> QED BY <2>1, <2>5 DEF UsedAfter, e
<1> QED BY <1>1, <1>2 DEF UsedLater

\* No value has been used yet.
LEMMA LoadedTracked ==
  ASSUME SourceOK(src), NEW s, IsLoaded(s), NEW v \in 1..Len(s.vals), NEW n, NEW par
  PROVE  Tracked(src, s, n, par, 0, v)
<1> DEFINE e == s.vals[v].edges
           st == s.stmts[s.block[s.i]]
<1>1. /\ NB(src) \in Nat /\ NP(src) \in Nat /\ Len(s.block) = NB(src) /\ s.i = 1 /\ Len(s.vals) = NP(src) + NB(src)
      /\ \A x \in 1..NB(src) : s.block[x] = x
  BY Lengths DEF IsLoaded
<1>2. /\ s.vals[v].used = 0 /\ s.vals[v].reg = None /\ s.vals[v].spilled = None /\ EdgesUpto(e, v, NB(src))
  BY LoadedValues
<1>3. Fresh(s, v)
  <2>1. \A r \in Reg : s.alloced[r] \in {None, Reserved}
    BY DEF IsLoaded
  <2>2. v \notin {None, Reserved}
    BY <1>1 DEF None, Reserved
  <2> QED BY <1>2, <2>1, <2>2 DEF Fresh
<1> HIDE DEF e
<1>4. EdgesOK(src, s, v)
  <2>1. \A k \in 1..NB(src) : s.stmts[k].args = Body[k].args
    BY LoadedStatements
  <2>2. \A k \in 1..NB(src) : Uses(v, s.stmts[k]) = Uses(v, Body[k])
    BY <2>1 DEF Uses
  <2> QED BY <1>2, <2>2 DEF EdgesOK, EdgesUpto, e
<1>5. s.i <= Len(s.block) => Counted(src, s, v, st, 0)
  <2> SUFFICES ASSUME s.i <= Len(s.block) PROVE Counted(src, s, v, st, 0)
    OBVIOUS
  <2>1. 1 \in 1..NB(src) /\ s.block[s.i] = 1
    BY <1>1
  <2>2. st.num = 0
    BY <2>1, LoadedStatements
  <2>3. e \in Seq(1..NB(src)) /\ Len(e) \in Nat /\ \A x \in 1..Len(e) : e[x] \in 1..NB(src)
    BY <1>2, SeqHas DEF EdgesUpto
  <2>4. \A k \in 1..NB(src) : ~(s.stmts[k].num < 0)
    <3>1. ASSUME NEW k \in 1..NB(src) PROVE ~(s.stmts[k].num < 0)
      <4>1. s.stmts[k].num = 2 * (k - 1) /\ ~(2 * (k - 1) < 0)
        BY <1>1, LoadedStatements
      <4> QED BY <4>1
    <3> QED BY <3>1
  <2>5. \A x \in 1..Len(e) : ~(s.stmts[e[x]].num < st.num) /\ ~(x <= 0)
    BY <2>2, <2>3, <2>4
  <2>6. Prefix(s, e, st.num, 0)
    BY <2>5 DEF Prefix
  <2>7. s.vals[v].used = 0 + Operand(st, v, 1, 0)
    <3>1. Operand(st, v, 1, 0) = 0
      BY OperandNone
    <3> QED BY <1>2, <3>1
  <2>8. 0 \in 0..Len(e)
    BY <2>3
  <2> HIDE DEF st
  <2>9. CountedTo(s, v, st, 0, 0)
    BY <2>6, <2>7 DEF CountedTo, e
  <2> QED BY <2>8, <2>9 DEF Counted, e
<1> QED BY <1>3, <1>4, <1>5 DEF Tracked

\* The allocator starts with right books.
LEMMA LoadedIs == SourceOK(src) => Shaped(src, Loaded) /\ Stage(src, Loaded, "args")
<1> SUFFICES ASSUME SourceOK(src)
             PROVE  Shaped(src, Loaded) /\ Stage(src, Loaded, "args")
  OBVIOUS
<1> DEFINE s == Loaded
<1>1. IsLoaded(s)
  BY LoadedFields
<1> HIDE DEF s
<1>2. Shaped(src, s)
  BY <1>1, LoadedShaped
<1>3. Books(src, s, 1, 1, 0)
  BY <1>1, LoadedListed, LoadedLater, LoadedTracked DEF Books
<1>4. \A x \in 1..NP(src) : s.vals[x].float = src.params[x].float
  <2>1. ASSUME NEW x \in 1..NP(src) PROVE s.vals[x].float = src.params[x].float
    <3>1. x \in 1..Len(s.vals) /\ x <= NP(src)
      BY <1>1, Lengths DEF IsLoaded
    <3> QED BY <1>1, <3>1, LoadedValues
  <2> QED BY <2>1
<1>5. AtStart(s) = s /\ s.i = 1
  BY <1>1 DEF IsLoaded
<1>6. Stage(src, s, "args")
  BY <1>3, <1>4, <1>5 DEF Stage
<1> QED BY <1>2, <1>6 DEF s

-----------------------------------------------------------------------------
(* The source block *)

\* An operand that is defined in the block so far, or is no value.
Operable(blk, v) == v \in Nat /\ (v > NP(blk) => (v - NP(blk)) \in 1..NB(blk) /\ HasOutput(blk.body[v - NP(blk)].op))
StatementFits(blk, st) ==
  /\ DOMAIN st = {"op", "args"} /\ st.args \in Seq(Nat) /\ Len(st.args) \in 1..3
  /\ \A j \in 1..Len(st.args) : Operable(blk, st.args[j])
GrownBy(blk, st) == [blk EXCEPT !.body = Append(@, st)]
SourceLike(blk, new, st) ==
  /\ DOMAIN new = {"entry", "params", "ops", "max", "body"} /\ new.entry = blk.entry /\ new.params = blk.params
  /\ new.ops = blk.ops /\ new.max = blk.max /\ new.body = Append(blk.body, st)

\* A block with one more statement.
LEMMA SourceGrows ==
  ASSUME NEW blk, SourceOK(blk), NEW st, StatementFits(blk, st), NEW new, SourceLike(blk, new, st)
  PROVE  SourceOK(new) /\ NB(new) = NB(blk) + 1
<1> DEFINE n == NB(blk)
<1>1. /\ DOMAIN new = {"entry", "params", "ops", "max", "body"} /\ new.entry = blk.entry /\ new.params = blk.params
      /\ new.ops = blk.ops /\ new.max = blk.max /\ new.body = Append(blk.body, st)
  BY DEF SourceLike
<1>2. IsShape(new)
  BY <1>1 DEF SourceOK, IsShape
<1>3. IsSeq(blk.body)
  BY DEF SourceOK
<1>4. /\ IsSeq(new.body) /\ NB(new) = n + 1 /\ (\A x \in 1..n : new.body[x] = blk.body[x]) /\ new.body[n + 1] = st
      /\ n \in Nat /\ NP(new) = NP(blk)
  <2>1. n = Len(blk.body) /\ n \in Nat
    BY <1>3, SeqIs DEF NB
  <2>2. /\ IsSeq(Append(blk.body, st)) /\ Len(Append(blk.body, st)) = Len(blk.body) + 1
        /\ (\A x \in 1..Len(blk.body) : Append(blk.body, st)[x] = blk.body[x]) /\ Append(blk.body, st)[Len(blk.body) + 1] = st
    BY <1>3, AppendIs
  <2>3. NB(new) = Len(new.body) /\ NP(new) = NP(blk)
    BY <1>1 DEF NB, NP
  <2> HIDE DEF n
  <2> QED BY <1>1, <2>1, <2>2, <2>3
<1>5. NP(blk) \in Nat
  BY DEF SourceOK, IsShape, NP
<1> HIDE DEF n
<1>6. ASSUME NEW k \in 1..(n + 1) PROVE SourceStatement(new, k)
  <2>1. CASE k # n + 1
    <3>1. k \in 1..n /\ new.body[k] = blk.body[k]
      BY <1>4, <2>1
    <3>2. SourceStatement(blk, k)
      BY <3>1 DEF SourceOK, n
    <3>3. \A l \in 1..(k - 1) : new.body[l] = blk.body[l]
      BY <1>4, <3>1
    <3> QED BY <1>4, <3>1, <3>2, <3>3 DEF SourceStatement
  <2>2. CASE k = n + 1
    <3>1. new.body[k] = st /\ k - 1 = n
      BY <1>4, <2>2
    <3>2. \A j \in 1..Len(st.args) : st.args[j] > NP(blk) =>
            (st.args[j] - NP(blk)) \in 1..n /\ HasOutput(blk.body[st.args[j] - NP(blk)].op)
      BY DEF StatementFits, Operable, n
    <3>3. \A j \in 1..Len(st.args) : st.args[j] > NP(blk) =>
            (st.args[j] - NP(blk)) \in 1..n /\ HasOutput(new.body[st.args[j] - NP(blk)].op)
      BY <1>4, <3>2
    <3> QED BY <1>4, <3>1, <3>3 DEF SourceStatement, StatementFits
  <2> QED BY <2>1, <2>2
<1> QED BY <1>1, <1>2, <1>4, <1>6 DEF SourceOK, n

\* The values a statement may use.
LEMMA DefinedIs ==
  ASSUME SourceOK(src), NEW float, NEW v \in Defined(float)
  PROVE  Operable(src, v)
<1>1. NB(src) \in Nat /\ NP(src) \in Nat /\ NParams = NP(src) /\ Body = src.body /\ Len(Body) = NB(src)
  BY Lengths
<1>2. v \in 1..NParams \/ \E k \in 1..Len(Body) : HasOutput(Body[k].op) /\ v = NParams + k
  BY DEF Defined, Output
<1>3. CASE v \in 1..NParams
  BY <1>1, <1>3 DEF Operable
<1>4. CASE \E k \in 1..Len(Body) : HasOutput(Body[k].op) /\ v = NParams + k
  <2>1. PICK k \in 1..NB(src) : HasOutput(src.body[k].op) /\ v = NP(src) + k
    BY <1>1, <1>4
  <2>2. v \in Nat /\ v - NP(src) = k
    BY <1>1, <2>1
  <2> QED BY <2>1, <2>2 DEF Operable
<1> QED BY <1>2, <1>3, <1>4

\* No value is an operand too.
LEMMA NoOperand ==
  ASSUME SourceOK(src)
  PROVE  Operable(src, NoValue)
BY Lengths DEF Operable, NoValue

\* A statement of one operand that is defined.
LEMMA Fits1 ==
  ASSUME NEW op, NEW x, Operable(src, x)
  PROVE  StatementFits(src, [op |-> op, args |-> <<x>>])
<1> DEFINE st == [op |-> op, args |-> <<x>>]
<1>1. x \in Nat
  BY DEF Operable
<1>2. st.args \in Seq(Nat) /\ Len(st.args) = 1 /\ st.args[1] = x
  BY <1>1
<1>3. DOMAIN st = {"op", "args"}
  OBVIOUS
<1> HIDE DEF st
<1>4. \A j \in 1..Len(st.args) : Operable(src, st.args[j])
  <2>1. \A j \in 1..Len(st.args) : j = 1
    BY <1>2
  <2> QED BY <1>2, <2>1
<1>5. Len(st.args) \in 1..3
  BY <1>2
<1> QED BY <1>2, <1>3, <1>4, <1>5 DEF StatementFits, st

\* The same with two.
LEMMA Fits2 ==
  ASSUME NEW op, NEW x, NEW y, Operable(src, x), Operable(src, y)
  PROVE  StatementFits(src, [op |-> op, args |-> <<x, y>>])
<1> DEFINE st == [op |-> op, args |-> <<x, y>>]
<1>1. x \in Nat /\ y \in Nat
  BY DEF Operable
<1>2. st.args \in Seq(Nat) /\ Len(st.args) = 2 /\ st.args[1] = x /\ st.args[2] = y
  BY <1>1
<1>3. DOMAIN st = {"op", "args"}
  OBVIOUS
<1> HIDE DEF st
<1>4. \A j \in 1..Len(st.args) : Operable(src, st.args[j])
  <2>1. \A j \in 1..Len(st.args) : j = 1 \/ j = 2
    BY <1>2
  <2> QED BY <1>2, <2>1
<1>5. Len(st.args) \in 1..3
  BY <1>2
<1> QED BY <1>2, <1>3, <1>4, <1>5 DEF StatementFits, st

\* And with three.
LEMMA Fits3 ==
  ASSUME NEW op, NEW x, NEW y, NEW z, Operable(src, x), Operable(src, y), Operable(src, z)
  PROVE  StatementFits(src, [op |-> op, args |-> <<x, y, z>>])
<1> DEFINE st == [op |-> op, args |-> <<x, y, z>>]
<1>1. x \in Nat /\ y \in Nat /\ z \in Nat
  BY DEF Operable
<1>2. st.args \in Seq(Nat) /\ Len(st.args) = 3 /\ st.args[1] = x /\ st.args[2] = y /\ st.args[3] = z
  BY <1>1
<1>3. DOMAIN st = {"op", "args"}
  OBVIOUS
<1> HIDE DEF st
<1>4. \A j \in 1..Len(st.args) : Operable(src, st.args[j])
  <2>1. \A j \in 1..Len(st.args) : j = 1 \/ j = 2 \/ j = 3
    BY <1>2
  <2> QED BY <1>2, <2>1
<1>5. Len(st.args) \in 1..3
  BY <1>2
<1> QED BY <1>2, <1>3, <1>4, <1>5 DEF StatementFits, st

\* A step that builds.
LEMMA BuiltIs ==
  ASSUME SourceOK(src), NEW st, StatementFits(src, st), Built(st)
  PROVE  SourceOK(src')
<1>1. src' = GrownBy(src, st)
  BY DEF Built, GrownBy
<1>2. SourceLike(src, src', st)
  BY <1>1 DEF SourceOK, GrownBy, SourceLike
<1> QED BY <1>2, SourceGrows

\* The block grows.
LEMMA AddStatementKeeps ==
  ASSUME IInv, AddStatement
  PROVE  IInv'
<1>1. SourceOK(src) /\ pc = "build" /\ UNCHANGED <<count, pc, a, wrong>> /\ a = NoAllocator /\ wrong = {}
  BY DEF IInv, AddStatement
<1>2. \E st : StatementFits(src, st) /\ Built(st)
  <2>1. CASE \E op \in src.ops \cap IntOps, x \in Defined(FALSE), y \in Defined(FALSE) \cup {NoValue} :
               Built([op |-> op, args |-> <<x, y>>])
    BY <1>1, <2>1, DefinedIs, NoOperand, Fits2
  <2>2. CASE \E op \in src.ops \cap FloatOps, x, y \in Defined(TRUE) : Built([op |-> op, args |-> <<x, y>>])
    BY <1>1, <2>2, DefinedIs, Fits2
  <2>3. CASE \E op \in src.ops \cap UnaryOps, x \in Defined(FALSE) : Built([op |-> op, args |-> <<NoValue, x>>])
    BY <1>1, <2>3, DefinedIs, NoOperand, Fits2
  <2> QED BY <2>1, <2>2, <2>3 DEF AddStatement
<1>3. SourceOK(src')
  BY <1>1, <1>2, BuiltIs
<1>4. wrong' \subseteq (1..NB(src')) \X (1..3)
  BY <1>1
<1> QED BY <1>1, <1>3, <1>4 DEF IInv, NoAllocator

\* The block is finished, and the allocator starts.
LEMMA EndBlockKeeps ==
  ASSUME IInv, EndBlock
  PROVE  IInv'
<1>1. /\ SourceOK(src) /\ pc = "build" /\ UNCHANGED <<count, wrong>> /\ wrong = {} /\ a' = Loaded' /\ pc' = "args"
  BY DEF IInv, EndBlock
<1>2. \E st : StatementFits(src, st) /\ Built(st)
  <2>1. CASE \E x \in Defined(TRUE) \cup Defined(FALSE) : Built([op |-> "return", args |-> <<x>>])
    BY <1>1, <2>1, DefinedIs, Fits1
  <2>2. CASE \E x, y \in Defined(TRUE) \cup Defined(FALSE) : Built([op |-> "goto", args |-> <<NoValue, x, y>>])
    BY <1>1, <2>2, DefinedIs, NoOperand, Fits3
  <2> QED BY <2>1, <2>2 DEF EndBlock
<1>3. SourceOK(src')
  BY <1>1, <1>2, BuiltIs
<1>4. (SourceOK(src) => Shaped(src, Loaded) /\ Stage(src, Loaded, "args"))'
  BY LoadedIs, PTL
<1>5. Shaped(src', Loaded') /\ Stage(src', Loaded', "args")
  BY <1>3, <1>4
<1>6. Shaped(src', a') /\ Stage(src', a', pc')
  BY <1>1, <1>5
<1>7. wrong' \subseteq (1..NB(src')) \X (1..3)
  BY <1>1
<1> QED BY <1>1, <1>3, <1>6, <1>7 DEF IInv

\* The first state.
LEMMA InitIs ==
  ASSUME Init
  PROVE  IInv
<1>1. /\ count \in RegisterCounts /\ pc = "build" /\ a = NoAllocator /\ wrong = {}
  BY DEF Init
<1>2. PICK b \in Shapes : src = [entry |-> b.entry, params |-> b.params, ops |-> b.ops, max |-> b.max, body |-> <<>>]
  BY DEF Init
<1>3. IsShape(b)
  BY ShapesAssumption
<1>4. IsShape(src)
  BY <1>2, <1>3 DEF IsShape
<1>5. src.body = <<>> /\ DOMAIN src = {"entry", "params", "ops", "max", "body"}
  BY <1>2
<1>6. IsSeq(src.body) /\ NB(src) = 0
  <2>1. IsSeq(<<>>) /\ Len(<<>>) = 0
    BY DEF IsSeq
  <2> QED BY <1>5, <2>1 DEF NB
<1>7. SourceOK(src)
  BY <1>4, <1>5, <1>6 DEF SourceOK
<1> QED BY <1>1, <1>7 DEF IInv

-----------------------------------------------------------------------------
(* The books are right *)

\* The invariant has the types.
LEMMA TypesKept ==
  ASSUME IInv
  PROVE  TypeOK
<1>1. count \in RegisterCounts /\ pc \in {"build", "args", "tick", "reuse", "clobber", "emit", "done", "crash", "endless"}
  BY DEF IInv
<1>2. wrong \subseteq (1..Len(Body)) \X (1..3)
  BY DEF IInv, NB, Body
<1>3. CASE pc = "build"
  <2>1. a = NoAllocator
    BY <1>3 DEF IInv
  <2>2. a.block = <<>> /\ a.stmts = <<>> /\ a.vals = <<>> /\ \A r \in Reg : a.alloced[r] = None
    BY <2>1 DEF NoAllocator
  <2>3. DOMAIN a.block = {} /\ DOMAIN a.stmts = {} /\ DOMAIN a.vals = {}
    BY <2>2
  <2>4. ~(a.alloced # NoAllocator.alloced)
    BY <2>1
  <2> QED BY <1>1, <1>2, <2>2, <2>3, <2>4 DEF TypeOK
<1>4. CASE pc # "build"
  <2>1. Shaped(src, a)
    BY <1>4 DEF IInv
  <2>2. DOMAIN a.block = 1..Len(a.block) /\ DOMAIN a.stmts = 1..Len(a.stmts) /\ DOMAIN a.vals = 1..Len(a.vals)
    BY <2>1, Basics
  <2>3. \A x \in DOMAIN a.block : a.block[x] \in DOMAIN a.stmts
    BY <2>1, <2>2, BlockIs
  <2>4. ASSUME NEW k \in DOMAIN a.stmts PROVE Operands(a.stmts[k]) \cup {a.stmts[k].out} \subseteq 0..Len(a.vals)
    <3> DEFINE st == a.stmts[k]
    <3>1. StatementOK(src, st, k, Len(a.vals))
      BY <2>1, <2>2, <2>4 DEF Shaped, StatementsOK
    <3>2. st.args \in Seq(0..Len(a.vals)) /\ st.out \in 0..Len(a.vals)
      BY <3>1 DEF StatementOK
    <3> HIDE DEF st
    <3>3. \A j \in 1..Len(st.args) : st.args[j] \in 0..Len(a.vals)
      BY <3>2, SeqHas
    <3> QED BY <3>2, <3>3 DEF Operands, st
  <2>5. \A r \in Reg : a.alloced[r] \in {None, Reserved} \cup DOMAIN a.vals
    BY <2>1, <2>2, HeldIs
  <2>6. \A r \in {RSP, RBP, R11, XMM5} : a.alloced[r] = Reserved
    BY <2>1 DEF Shaped, RegistersOK, ReservedRegs
  <2>7. \A v \in DOMAIN a.vals : a.vals[v].reg \in {None} \cup Reg
    <3>1. ASSUME NEW v \in DOMAIN a.vals PROVE a.vals[v].reg \in {None} \cup Reg
      <4>1. a.vals[v].reg \in {None} \cup Usable(a.vals[v].float)
        BY <2>1, <2>2 DEF Shaped, ValuesOK, ValueOK
      <4> QED BY <4>1, UsableIs
    <3> QED BY <3>1
  <2> QED BY <1>1, <1>2, <2>3, <2>4, <2>5, <2>6, <2>7 DEF TypeOK
<1> QED BY <1>3, <1>4

\* Registers and values agree.
LEMMA AgreementKept ==
  ASSUME IInv
  PROVE  RegistersAgree
<1>1. CASE pc = "build"
  <2>1. \A r \in Reg : ~(a.alloced[r] > 0)
    <3>1. a = NoAllocator
      BY <1>1 DEF IInv
    <3>2. \A r \in Reg : a.alloced[r] = None
      BY <3>1 DEF NoAllocator
    <3> QED BY <3>2 DEF None
  <2> QED BY <2>1 DEF RegistersAgree
<1>2. CASE pc # "build"
  <2>1. Shaped(src, a)
    BY <1>2 DEF IInv
  <2>2. ASSUME NEW r \in Reg, a.alloced[r] > 0
        PROVE  LET v == a.alloced[r] IN a.vals[v].reg = r /\ a.vals[v].spilled = None /\ a.vals[v].float = (r >= XMM0)
    <3> DEFINE v == a.alloced[r]
    <3>1. v \in 1..Len(a.vals) /\ a.vals[v].reg = r /\ a.vals[v].spilled = None
      BY <2>1, <2>2, HeldIs
    <3> HIDE DEF v
    <3>2. a.vals[v].float \in BOOLEAN /\ a.vals[v].reg \in {None} \cup Usable(a.vals[v].float)
      BY <2>1, <3>1 DEF Shaped, ValuesOK, ValueOK
    <3>3. r # None
      BY DEF Reg, None
    <3>4. a.vals[v].float = (r >= XMM0)
      BY SMTT(30), <3>1, <3>2, <3>3 DEF Usable, XMM0
    <3> QED BY <3>1, <3>4 DEF v
  <2> QED BY <2>2 DEF RegistersAgree
<1> QED BY <1>1, <1>2

\* What is used up has been counted, unless some use never is.
LEMMA ReleaseKept ==
  ASSUME IInv
  PROVE  Released
<1> SUFFICES ASSUME pc = "tick", NEW r \in Bank(FALSE) \cup Bank(TRUE), a.alloced[r] > 0, a.i <= Len(a.block),
                    ~UsedUp(a, a.alloced[r]), LastUse(a.alloced[r]) < stmt.num
             PROVE  \E x \in DOMAIN a.vals[a.alloced[r]].edges : a.stmts[a.vals[a.alloced[r]].edges[x]].out = NoValue
  BY DEF Released
<1> DEFINE v == a.alloced[r]
           e == a.vals[v].edges
<1>1. Shaped(src, a) /\ Books(src, a, a.i, NP(src) + 1, 0) /\ stmt = a.stmts[a.block[a.i]]
  BY DEF IInv, Stage, stmt, cur
<1>2. r \in Reg
  <2>1. count \in 1..16
    BY CountIs
  <2>2. Bank(FALSE) = 0..(count - 1) /\ Bank(TRUE) = 16..(16 + count - 1)
    BY DEF Bank, XMM0
  <2>3. \A x \in 0..(count - 1) : x \in 0..31
    BY <2>1
  <2>4. \A x \in 16..(16 + count - 1) : x \in 0..31
    BY <2>1
  <2> QED BY <2>2, <2>3, <2>4 DEF Reg
<1>3. v \in 1..Len(a.vals)
  BY <1>1, <1>2, HeldIs
<1>4. Allocated(a, v)
  BY <1>2 DEF Allocated
<1>5. a.vals[v].used # Len(e) /\ a.stmts[e[Len(e)]].num < stmt.num
  BY DEF UsedUp, LastUse
<1> HIDE DEF v
<1>6. EdgesOK(src, a, v) /\ Counted(src, a, v, stmt, 0)
  BY <1>1, <1>3, <1>4 DEF Books, Tracked, Live
<1>7. e \in Seq(1..NB(src)) /\ Len(e) \in Nat /\ DOMAIN e = 1..Len(e) /\ \A x \in 1..Len(e) : e[x] \in 1..NB(src)
  <2>1. e \in Seq(1..NB(src))
    BY <1>1, <1>3 DEF Shaped, ValuesOK, ValueOK
  <2> QED BY <2>1, SeqHas
<1> HIDE DEF e
<1>8. CASE Exempt(src, e)
  <2>1. PICK x \in 1..Len(e) : ~HasOutput(src.body[e[x]].op)
    BY <1>8 DEF Exempt
  <2>2. e[x] \in 1..NB(src) /\ e[x] \in 1..Len(a.stmts) /\ e[x] <= NB(src)
    BY <1>1, <1>7, Basics
  <2>3. StatementOK(src, a.stmts[e[x]], e[x], Len(a.vals))
    BY <1>1, <2>2 DEF Shaped, StatementsOK
  <2>4. a.stmts[e[x]].out = NoValue
    BY <2>1, <2>2, <2>3 DEF StatementOK
  <2> QED BY Zenon, <1>7, <2>4 DEF e, v
<1>9. CASE \E p \in 0..Len(e) : CountedTo(a, v, stmt, 0, p)
  <2>1. PICK p \in 0..Len(e) : CountedTo(a, v, stmt, 0, p)
    BY <1>9
  <2>2. Operand(stmt, v, 1, 0) = 0
    BY OperandNone
  <2>3. Prefix(a, e, stmt.num, p) /\ a.vals[v].used = p + 0
    BY <2>1, <2>2 DEF CountedTo, e
  <2>4. p < Len(e)
    <3>1. p \in Nat /\ p <= Len(e) /\ p + 0 = p /\ Len(e) \in Nat
      BY <1>7, <2>1
    <3>2. p # Len(e)
      BY <1>5, <2>3, <3>1
    <3> DEFINE L == Len(e)
    <3>3. p \in Nat /\ p <= L /\ L \in Nat /\ p # L
      BY <3>1, <3>2
    <3> HIDE DEF L
    <3>4. p < L
      BY <3>3
    <3> QED BY <3>4 DEF L
  <2>5. Len(e) \in 1..Len(e) /\ ~(Len(e) <= p)
    BY <1>7, <2>4
  <2>6. ~(a.stmts[e[Len(e)]].num < stmt.num)
    BY <2>3, <2>5 DEF Prefix
  <2> QED BY <1>5, <2>6
<1> QED BY <1>6, <1>8, <1>9 DEF Counted, e

\* The allocator's books are right after every step: in every block, with any number of
\* registers, and however values are spilled, the register arrays and the values agree,
\* and a register whose value is used up is free again.
THEOREM BooksCorrect == Spec => []BooksKept
<1>1. Init => IInv
  BY InitIs
<1>2. IInv /\ [Next]_vars => IInv'
  <2> SUFFICES ASSUME IInv, [Next]_vars
               PROVE  IInv'
    OBVIOUS
  <2>1. CASE AddStatement
    BY <2>1, AddStatementKeeps
  <2>2. CASE EndBlock
    BY <2>2, EndBlockKeeps
  <2>3. CASE regalloc_func_arg
    BY <2>3, FuncArgKeeps
  <2>4. CASE regalloc_block_arg
    BY <2>4, BlockArgKeeps
  <2>5. CASE regalloc_args_end
    BY <2>5, ArgsEndKeeps
  <2>6. CASE Tick
    BY <2>6, TickKeeps
  <2>7. CASE Reuse
    BY <2>7, ReuseKeeps
  <2>8. CASE Take
    BY <2>8, TakeKeeps
  <2>9. CASE SpillAway
    BY <2>9, SpillAwayKeeps
  <2>10. CASE SpillClobbered
    BY <2>10, SpillClobberedKeeps
  <2>11. CASE ClobberEnd
    BY <2>11, ClobberEndKeeps
  <2>12. CASE NoEnd \/ NothingToSpill \/ Finish
    BY <2>12, EndsKeep
  <2>13. CASE BlockEntered
    BY <2>13, BlockEnteredKeeps
  <2>14. CASE Emit
    BY <2>14, EmitKeeps
  <2>15. CASE EmitSpill
    BY <2>15, EmitSpillKeeps
  <2>16. CASE Stop
    BY <2>16, StutterKeeps DEF Stop
  <2>17. CASE UNCHANGED vars
    BY <2>17, StutterKeeps
  <2> QED BY <2>1, <2>2, <2>3, <2>4, <2>5, <2>6, <2>7, <2>8, <2>9, <2>10, <2>11, <2>12, <2>13, <2>14, <2>15, <2>16, <2>17
       DEF Next
<1>3. IInv => BooksKept
  BY TypesKept, AgreementKept, ReleaseKept DEF BooksKept
<1> QED BY <1>1, <1>2, <1>3, PTL DEF Spec
=============================================================================
